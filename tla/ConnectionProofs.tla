-------------------------- MODULE ConnectionProofs --------------------------
(***************************************************************************)
(* Proofs about Connection, for every role of the endpoint, every range of *)
(* identifiers and every peer.                                             *)
(*                                                                         *)
(* Every action is first shown to have one of seven effects (StepEffect):  *)
(* a local stream is created, a mapped stream is settled, a frame puts a   *)
(* stream into a state and calls back, a GOAWAY is sent, the drain begins, *)
(* the peer's GOAWAY is taken in, or nothing of that changes.  That        *)
(* argument has one step per action.  The invariants, which none of the    *)
(* actions mentions, are then preserved by each of the seven effects.      *)
(***************************************************************************)
EXTENDS Connection, TLAPS

-----------------------------------------------------------------------------
(***************************************************************************)
(* The stream state machine.                                               *)
(***************************************************************************)

\* A transition of http2_stream leaves the stream in a real state: the table's
\* kDoNotUse never gets into _state.
LEMMA NextStatusType ==
    ASSUME NEW e \in StreamEvents, NEW st \in StreamStates
    PROVE  NextStatus(e, st) \in StreamStates
BY DEF NextStatus, EventStatusTable, StreamStates, StreamEvents

\* save_frame_info stays within the states.
LEMMA AfterFrameType ==
    ASSUME NEW st \in StreamStates, NEW end \in BOOLEAN
    PROVE  AfterFrame(st, end) \in StreamStates
BY NextStatusType DEF AfterFrame, StreamEvents

\* So do the transitions of a HEADERS or DATA frame that is sent.
LEMMA AfterSendType ==
    ASSUME NEW st \in StreamStates, NEW end \in BOOLEAN
    PROVE  /\ AfterSendHeaders(st, end) \in StreamStates
           /\ AfterSendData(st, end) \in StreamStates
BY NextStatusType DEF AfterSendHeaders, AfterSendData, StreamEvents

\* The first HEADERS of a stream opens it and, END_STREAM or not, does not close
\* it; the other transitions out of Idle that the connection makes.
LEMMA FirstFrame ==
    ASSUME NEW end \in BOOLEAN
    PROVE  /\ AfterFrame(NextStatus("H_R", "Idle"), end) \in StreamStates \ {"Closed"}
           /\ NextStatus("PP_R", "Idle") = "ReservedRemote"
           /\ NextStatus("PP_S", "Idle") = "ReservedLocal"
BY DEF AfterFrame, NextStatus, EventStatusTable, StreamStates

\* find_stream returns a stream in a real state.
LEMMA MappedState ==
    ASSUME TypeOK, NEW id, Mapped(id)
    PROVE  id \in StreamIds /\ streams[id] \in StreamStates
BY DEF TypeOK, Mapped

-----------------------------------------------------------------------------
(***************************************************************************)
(* The effects of a step.                                                  *)
(***************************************************************************)

\* _last_stream_id never decreases, and after a GOAWAY stays below its last id.
Tracked ==
    /\ lastStreamId' \in lastStreamId..MaxStreamId
    /\ sentGoaway /\ lastStreamId' # lastStreamId => lastStreamId' <= sentGoawayId

\* package_process holds the stream it held before, none, or a mapped one.
HeldKept == cb'.sid \in {0, cb.sid} \/ (cb'.sid \in StreamIds /\ streams'[cb'.sid] # "Absent")

\* A new stream of the peer was tracked, and is not above the last id of a GOAWAY.
Admitted(id) ==
    /\ IsRemote(id) /\ id <= lastStreamId'
    /\ sentGoaway => id <= sentGoawayId

\* What every effect but Drained and PeerWentAway leaves alone.
OthersKept == UNCHANGED <<receivedGoaway, receivedGoawayId>>

Created ==
    /\ AddLocalStream("Idle") \/ AddLocalStream("ReservedLocal")
    /\ UNCHANGED <<released, unwritable, lastStreamId, goawayVars, drainVars, cb>>
    /\ OthersKept

Settled(id, st, end) ==
    /\ Mapped(id) \/ (cb.sid = id /\ st = "Closed")
    /\ SettleStream(id, st, end)
    /\ cb.sid # id => cb' = cb
    /\ cb'.sid \in {0, cb.sid}
    /\ Tracked /\ OthersKept
    /\ UNCHANGED <<nextLocalStreamId, goawayVars>>

Delivered(id, st) ==
    /\ Quiet
    /\ id \in StreamIds /\ st \in StreamStates
    /\ Mapped(id) \/ Admitted(id)
    /\ streams' = [streams EXCEPT ![id] = st]
    /\ st = "Closed" => cb'.fn # "none" /\ cb'.sid = id /\ ~cb'.orphan
    /\ HeldKept /\ Tracked /\ OthersKept
    /\ UNCHANGED <<released, unwritable, nextLocalStreamId, goawayVars, drainVars>>

GoawaySent ==
    /\ sentGoaway' = TRUE
    /\ sentGoawayId' \in 0..MaxStreamId
    /\ LastIds \subseteq {0} => sentGoawayId' = lastStreamId'
    /\ lastStreamId' \in lastStreamId..MaxStreamId
    /\ OthersKept
    /\ UNCHANGED <<mapVars, nextLocalStreamId, drainVars, cb>>

Drained ==
    /\ ~sentGoaway
    /\ sentGoaway' = TRUE /\ sentGoawayId' = lastStreamId
    /\ IF NoStreams(streams)
       THEN draining' = FALSE /\ shutdowns' = shutdowns + 1
       ELSE draining' = TRUE /\ UNCHANGED shutdowns
    /\ OthersKept
    /\ UNCHANGED <<mapVars, nextLocalStreamId, lastStreamId, cb>>

PeerWentAway ==
    /\ receivedGoaway' = TRUE /\ receivedGoawayId' \in 0..MaxStreamId
    /\ unwritable' = unwritable \cup LocalStreamsAbove(receivedGoawayId')
    /\ Tracked
    /\ UNCHANGED <<streams, released, nextLocalStreamId, goawayVars, drainVars, cb>>

Untouched ==
    /\ \A id \in StreamIds :
         streams[id] = "Closed" /\ ~Quiet /\ cb.sid = id /\ ~cb.orphan
           => cb'.fn # "none" /\ cb'.sid = id /\ ~cb'.orphan
    /\ HeldKept /\ Tracked /\ OthersKept
    /\ UNCHANGED <<mapVars, nextLocalStreamId, goawayVars, drainVars>>

StepEffect ==
    \/ Created
    \/ \E id \in StreamIds, st \in StreamStates, end \in BOOLEAN : Settled(id, st, end)
    \/ \E id \in StreamIds, st \in StreamStates : Delivered(id, st)
    \/ GoawaySent
    \/ Drained
    \/ PeerWentAway
    \/ Untouched

\* The variables that no effect speaks about keep their types.
RestOK ==
    /\ nextStreamIdLimit \in 0..MaxStreamId /\ maxConcurrent \in Nat
    /\ cb \in [fn : CallbackNames, sid : 0..MaxStreamId, orphan : BOOLEAN]

StepOK == StepEffect /\ RestOK' /\ FlagsOK'

-----------------------------------------------------------------------------
(***************************************************************************)
(* What the handlers of frames share.                                      *)
(***************************************************************************)

\* package_process calls the handler with _last_stream_id brought up to date.
LEMMA DispatchedEffect ==
    ASSUME TypeOK, NEW type, NEW sid \in 0..MaxStreamId, Dispatched(type, sid)
    PROVE  /\ Quiet /\ Tracked
           /\ sid > 0 /\ IsRemote(sid) => Admitted(sid)
BY ConnectionAssumption
DEF Dispatched, Admitted, TrackLastStreamId, AboveGoaway, Tracked, TypeOK, IsRemote

\* A connection error is a GOAWAY with the highest remote id.
LEMMA ErrorStep ==
    ASSUME TypeOK, ConnectionError, Tracked
    PROVE  StepOK
<1> USE ConnectionAssumption DEF mapVars, goawayVars, remoteVars, drainVars, limitVars
<1>1. GoawaySent
    BY DEF ConnectionError, SendGoawayFrame, GoawaySent, OthersKept, Tracked, TypeOK
<1>2. RestOK'
    BY DEF ConnectionError, RestOK, TypeOK
<1>3. FlagsOK'
    BY DEF ConnectionError, SendGoawayFrame, FlagsOK, TypeOK
<1> QED BY <1>1, <1>2, <1>3 DEF StepOK, StepEffect

\* The end of package_process settles the stream of the frame.
LEMMA FinishStep ==
    ASSUME TypeOK, NEW id, Mapped(id), NEW st \in StreamStates, FinishFrame(id, st),
           Tracked
    PROVE  StepOK
<1> USE ConnectionAssumption DEF mapVars, goawayVars, remoteVars, drainVars, limitVars
<1>1. id \in StreamIds
    BY MappedState
<1>2. Settled(id, st, FALSE)
    BY DEF FinishFrame, Settled, OthersKept
<1>3. RestOK'
    BY DEF FinishFrame, RestOK, TypeOK
<1>4. FlagsOK'
    BY DEF FinishFrame, SettleStream, CheckDrainComplete, FlagsOK, TypeOK
<1> QED BY <1>1, <1>2, <1>3, <1>4 DEF StepOK, StepEffect

\* A frame without effect.
LEMMA NoEffectStep ==
    ASSUME TypeOK, NoEffect, Tracked
    PROVE  StepOK
<1> USE ConnectionAssumption DEF mapVars, goawayVars, remoteVars, drainVars, limitVars
<1>1. Untouched
    BY DEF NoEffect, Untouched, HeldKept, OthersKept, Quiet
<1>2. RestOK'
    BY DEF NoEffect, RestOK, TypeOK
<1>3. FlagsOK'
    BY DEF NoEffect, FlagsOK, TypeOK
<1> QED BY <1>1, <1>2, <1>3 DEF StepOK, StepEffect

\* A callback record has the type of cb.
LEMMA CallbackType ==
    ASSUME NEW fn \in CallbackNames, NEW sid \in 0..MaxStreamId
    PROVE  /\ Callback(fn, sid) \in [fn : CallbackNames, sid : 0..MaxStreamId, orphan : BOOLEAN]
           /\ Callback(fn, sid).fn = fn /\ Callback(fn, sid).sid = sid
           /\ ~Callback(fn, sid).orphan
BY DEF Callback

\* A header block is complete and OnStreamHeaders is called, or it is not and the
\* next frame is restricted.
LEMMA FragmentEffect ==
    ASSUME TypeOK, NEW endHeaders \in BOOLEAN, NEW limit \in 0..MaxStreamId, NEW sid,
           EndOfFragment(endHeaders, limit, sid)
    PROVE  /\ nextFrameLimit' \in BOOLEAN
           /\ nextStreamIdLimit' \in 0..MaxStreamId
           /\ cb' = cb \/ cb' = Callback("OnStreamHeaders", sid)
<1>1. nextFrameLimit' \in BOOLEAN
    BY DEF EndOfFragment
<1>2. /\ nextStreamIdLimit' \in 0..MaxStreamId
      /\ cb' = cb \/ cb' = Callback("OnStreamHeaders", sid)
    BY ConnectionAssumption DEF EndOfFragment
<1> QED BY <1>1, <1>2

\* A frame puts stream id into state st, and the callback may follow.
LEMMA DeliverStep ==
    ASSUME TypeOK, Quiet, Tracked,
           NEW id \in StreamIds, NEW st \in StreamStates,
           Mapped(id) \/ Admitted(id),
           streams' = [streams EXCEPT ![id] = st],
           \/ cb' = cb /\ st # "Closed"
           \/ \E fn \in CallbackNames \ {"none"} : cb' = Callback(fn, id),
           nextFrameLimit' \in BOOLEAN, nextStreamIdLimit' \in 0..MaxStreamId,
           UNCHANGED <<released, unwritable, nextLocalStreamId, goawayVars,
                       remoteVars, drainVars>>
    PROVE  StepOK
<1> USE ConnectionAssumption DEF mapVars, goawayVars, remoteVars, drainVars
<1>0. id \in 0..MaxStreamId
    BY DEF StreamIds
<1>1. /\ cb' \in [fn : CallbackNames, sid : 0..MaxStreamId, orphan : BOOLEAN]
      /\ st = "Closed" => cb'.fn # "none" /\ cb'.sid = id /\ ~cb'.orphan
    BY <1>0, CallbackType DEF TypeOK
<1>2. HeldKept
  <2>1. cb'.sid \in {cb.sid, id}
    BY <1>0, CallbackType
  <2>2. streams'[id] # "Absent"
    BY DEF TypeOK, StreamStates
  <2> QED BY <2>1, <2>2 DEF HeldKept
<1>5. Delivered(id, st)
    BY <1>1, <1>2 DEF Delivered, OthersKept
<1>3. RestOK'
    BY <1>1 DEF RestOK, TypeOK
<1>4. FlagsOK'
    BY DEF FlagsOK, TypeOK
<1> QED BY <1>3, <1>4, <1>5 DEF StepOK, StepEffect

-----------------------------------------------------------------------------
(***************************************************************************)
(* One step per action: its effect, the variables no effect speaks about,  *)
(* and the flags.                                                          *)
(***************************************************************************)
\* The operations of the application (Stream and TransportAdaptor) have one of
\* the seven effects.
LEMMA SendStepOK ==
    ASSUME TypeOK, SendStep
    PROVE  StepOK
<1> USE ConnectionAssumption DEF mapVars, goawayVars, remoteVars, drainVars, limitVars
<1>1. CASE CreateStream
  <2>1. Created
    BY <1>1 DEF CreateStream, Created, OthersKept
  <2>2. RestOK'
    BY <1>1 DEF CreateStream, RestOK, TypeOK
  <2>3. FlagsOK'
    BY <1>1 DEF CreateStream, FlagsOK, TypeOK
  <2> QED BY <2>1, <2>2, <2>3 DEF StepOK, StepEffect
<1>2. CASE SendPushPromise
  <2>1. Created
    BY <1>2, FirstFrame DEF SendPushPromise, Created, OthersKept
  <2>2. RestOK'
    BY <1>2 DEF SendPushPromise, RestOK, TypeOK
  <2>3. FlagsOK'
    BY <1>2 DEF SendPushPromise, FlagsOK, TypeOK
  <2> QED BY <2>1, <2>2, <2>3 DEF StepOK, StepEffect
<1>3. ASSUME NEW id \in StreamIds, NEW end \in BOOLEAN,
             StreamSendHeaders(id, end)
      PROVE  StepOK
  <2>1. AfterSendHeaders(streams[id], end) \in StreamStates
    BY <1>3, AfterSendType, MappedState DEF StreamSendHeaders, StreamEvents
  <2>2. Tracked
    BY <1>3 DEF StreamSendHeaders, Tracked, TypeOK
  <2>3. Settled(id, AfterSendHeaders(streams[id], end), end)
    BY <1>3, <2>1, <2>2 DEF StreamSendHeaders, Settled, OthersKept
  <2>4. RestOK'
    BY <1>3 DEF StreamSendHeaders, RestOK, TypeOK, StreamIds
  <2>5. FlagsOK'
    BY <1>3 DEF StreamSendHeaders, SettleStream, CheckDrainComplete,
                 FlagsOK, TypeOK
  <2> QED BY <2>1, <2>3, <2>4, <2>5 DEF StepOK, StepEffect
<1>4. ASSUME NEW id \in StreamIds, StreamSendTrailingHeaders(id)
      PROVE  StepOK
  <2>1. AfterSendHeaders(streams[id], TRUE) \in StreamStates
    BY <1>4, AfterSendType, MappedState DEF StreamSendTrailingHeaders, StreamEvents
  <2>2. Tracked
    BY <1>4 DEF StreamSendTrailingHeaders, Tracked, TypeOK
  <2>3. Settled(id, AfterSendHeaders(streams[id], TRUE), TRUE)
    BY <1>4, <2>1, <2>2 DEF StreamSendTrailingHeaders, Settled, OthersKept
  <2>4. RestOK'
    BY <1>4 DEF StreamSendTrailingHeaders, RestOK, TypeOK, StreamIds
  <2>5. FlagsOK'
    BY <1>4 DEF StreamSendTrailingHeaders, SettleStream, CheckDrainComplete,
                 FlagsOK, TypeOK
  <2> QED BY <2>1, <2>3, <2>4, <2>5 DEF StepOK, StepEffect
<1>5. ASSUME NEW id \in StreamIds, NEW end \in BOOLEAN, StreamSendData(id, end)
      PROVE  StepOK
  <2>1. AfterSendData(streams[id], end) \in StreamStates
    BY <1>5, AfterSendType, MappedState DEF StreamSendData, StreamEvents
  <2>2. Tracked
    BY <1>5 DEF StreamSendData, Tracked, TypeOK
  <2>3. Settled(id, AfterSendData(streams[id], end), end)
    BY <1>5, <2>1, <2>2 DEF StreamSendData, Settled, OthersKept
  <2>4. RestOK'
    BY <1>5 DEF StreamSendData, RestOK, TypeOK, StreamIds
  <2>5. FlagsOK'
    BY <1>5 DEF StreamSendData, SettleStream, CheckDrainComplete,
                 FlagsOK, TypeOK
  <2> QED BY <2>1, <2>3, <2>4, <2>5 DEF StepOK, StepEffect
<1>6. ASSUME NEW id \in StreamIds,
             StaleHandleSend(id)
      PROVE  StepOK
  <2>1. "Closed" \in StreamStates
    BY <1>6, MappedState DEF StaleHandleSend, StreamStates
  <2>2. Tracked
    BY <1>6 DEF StaleHandleSend, Tracked, TypeOK
  <2>6. cb'.sid = cb.sid
    BY <1>6 DEF StaleHandleSend, TypeOK
  <2>3. Settled(id, "Closed", FALSE)
    BY <1>6, <2>1, <2>2, <2>6 DEF StaleHandleSend, Settled, OthersKept
  <2>4. RestOK'
    <3>1. CASE streams[id] = "Closed"
      <4>1. cb' = cb \/ cb' = [cb EXCEPT !.orphan = FALSE]
        BY <1>6, <3>1 DEF StaleHandleSend
      <4>2. cb' \in [fn : CallbackNames, sid : 0..MaxStreamId, orphan : BOOLEAN]
        BY <4>1 DEF TypeOK
      <4>3. QED
        BY <1>6, <4>2 DEF StaleHandleSend, RestOK, TypeOK, StreamIds
    <3>2. CASE streams[id] # "Closed"
      <4>1. cb' = cb \/ cb' = [cb EXCEPT !.orphan = TRUE]
        BY <1>6, <3>2 DEF StaleHandleSend
      <4>2. cb' \in [fn : CallbackNames, sid : 0..MaxStreamId, orphan : BOOLEAN]
        BY <4>1 DEF TypeOK
      <4>3. QED
        BY <1>6, <4>2 DEF StaleHandleSend, RestOK, TypeOK, StreamIds
    <3>3. QED
        BY <3>1, <3>2
  <2>5. FlagsOK'
    BY <1>6 DEF StaleHandleSend, SettleStream, CheckDrainComplete,
                 FlagsOK, TypeOK
  <2> QED BY <2>1, <2>3, <2>4, <2>5 DEF StepOK, StepEffect
<1>7. ASSUME NEW id \in StreamIds,
             SendRstStream(id)
      PROVE  StepOK
  <2>1. NextStatus("RST_S", streams[id]) \in StreamStates
    BY <1>7, NextStatusType, MappedState DEF SendRstStream, StreamEvents
  <2>2. Tracked
    BY <1>7 DEF SendRstStream, Tracked, TypeOK
  <2>3. Settled(id, NextStatus("RST_S", streams[id]), FALSE)
    BY <1>7, <2>1, <2>2 DEF SendRstStream, Settled, OthersKept
  <2>4. RestOK'
    BY <1>7 DEF SendRstStream, RestOK, TypeOK, StreamIds
  <2>5. FlagsOK'
    BY <1>7 DEF SendRstStream, SettleStream, CheckDrainComplete,
                 FlagsOK, TypeOK
  <2> QED BY <2>1, <2>3, <2>4, <2>5 DEF StepOK, StepEffect
<1>8. ASSUME NEW last \in LastIds,
             SendGoaway(last)
      PROVE  StepOK
  <2>1. GoawaySent
    BY <1>8 DEF SendGoaway, SendGoawayFrame, GoawaySent, OthersKept, TypeOK
  <2>2. RestOK'
    BY <1>8 DEF SendGoaway, RestOK, TypeOK
  <2>3. FlagsOK'
    BY <1>8 DEF SendGoaway, SendGoawayFrame, FlagsOK, TypeOK
  <2> QED BY <2>1, <2>2, <2>3 DEF StepOK, StepEffect
<1>9. CASE Drain
  <2>1. Drained
    BY <1>9 DEF Drain, SendGoawayFrame, Drained, OthersKept, TypeOK
  <2>2. RestOK'
    BY <1>9 DEF Drain, RestOK, TypeOK
  <2>3. FlagsOK'
    BY <1>9 DEF Drain, SendGoawayFrame, FlagsOK, TypeOK
  <2> QED BY <2>1, <2>2, <2>3 DEF StepOK, StepEffect
<1> QED
    BY <1>1, <1>2, <1>3, <1>4, <1>5, <1>6, <1>7, <1>8, <1>9 DEF SendStep

\* So have the frames of the peer (the handlers of package_process).
LEMMA ReceiveStepOK ==
    ASSUME TypeOK, ReceiveStep
    PROVE  StepOK
<1> USE ConnectionAssumption DEF mapVars, goawayVars, remoteVars, drainVars, limitVars
<1>1. ASSUME NEW good \in BOOLEAN,
             ReceivedPreface(good)
      PROVE  StepOK
  <2>1. Tracked
    BY <1>1 DEF ReceivedPreface, Tracked, TypeOK
  <2>2. CASE good
    <3>1. Untouched
      BY <1>1, <2>1, <2>2 DEF ReceivedPreface, Untouched, HeldKept, OthersKept, Quiet
    <3>2. RestOK'
      BY <1>1 DEF ReceivedPreface, RestOK, TypeOK
    <3>3. FlagsOK'
      BY <1>1, <2>2 DEF ReceivedPreface, FlagsOK, TypeOK
    <3> QED BY <3>1, <3>2, <3>3 DEF StepOK, StepEffect
  <2>3. CASE ~good
    <3>1. ConnectionError
      BY <1>1, <2>3 DEF ReceivedPreface, ConnectionError
    <3> QED BY <1>1, <2>1, <3>1, ErrorStep DEF ReceivedPreface
  <2> QED BY <2>2, <2>3
<1>2. ASSUME NEW type, NEW sid \in PeerIds,
             ReceivedRejected(type, sid)
      PROVE  StepOK
  <2>1. Tracked
    BY <1>2 DEF ReceivedRejected, Tracked, TypeOK
  <2> QED BY <1>2, <2>1, ErrorStep DEF ReceivedRejected
<1>3. ASSUME NEW sid \in PeerIds, NEW end \in BOOLEAN, NEW payload,
             ReceivedData(sid, end, payload)
      PROVE  StepOK
  <2>1. Quiet /\ Tracked
    BY <1>3, DispatchedEffect DEF ReceivedData
  <2>2. CASE ConnectionError
    BY <2>1, <2>2, ErrorStep
  <2>3. CASE NoEffect
    BY <2>1, <2>3, NoEffectStep
  <2>4. CASE ~ConnectionError /\ ~NoEffect
    <3>1. Mapped(sid)
      BY <1>3, <2>4 DEF ReceivedData
    <3>2. sid \in StreamIds /\ AfterFrame(streams[sid], end) \in StreamStates
      BY <3>1, MappedState, AfterFrameType
    <3>3. CASE FinishFrame(sid, AfterFrame(streams[sid], end))
      BY <2>1, <3>1, <3>2, <3>3, FinishStep
    <3>4. CASE ~FinishFrame(sid, AfterFrame(streams[sid], end))
      <4>1. /\ streams' = [streams EXCEPT ![sid] = AfterFrame(streams[sid], end)]
            /\ cb' = Callback("OnStreamData", sid)
            /\ UNCHANGED <<released, unwritable, nextLocalStreamId,
                           goawayVars, remoteVars, drainVars, limitVars>>
        BY <1>3, <2>4, <3>1, <3>4 DEF ReceivedData
      <4>2. nextFrameLimit' \in BOOLEAN /\ nextStreamIdLimit' \in 0..MaxStreamId
        BY <4>1 DEF TypeOK, FlagsOK
      <4> QED BY <2>1, <3>1, <3>2, <4>1, <4>2, DeliverStep DEF CallbackNames
    <3> QED BY <3>3, <3>4
  <2> QED BY <2>2, <2>3, <2>4
<1>4. ASSUME NEW sid \in PeerIds, NEW end \in BOOLEAN, NEW endHeaders \in BOOLEAN,
             NEW good \in BOOLEAN,
             ReceivedHeaders(sid, end, endHeaders, good)
      PROVE  StepOK
  <2>1. /\ Quiet /\ Tracked
        /\ sid > 0 /\ IsRemote(sid) => Admitted(sid)
    BY <1>4, DispatchedEffect DEF ReceivedHeaders
  <2>2. CASE HeadersRejected(sid, good)
    BY <1>4, <2>1, <2>2, ErrorStep DEF ReceivedHeaders
  <2>3. CASE ~HeadersRejected(sid, good)
    <3>1. sid \in StreamIds /\ (Mapped(sid) \/ IsRemote(sid))
      BY <2>3 DEF HeadersRejected, StreamIds, IsRemote
    <3>2. AfterFrame(NextStatus("H_R", "Idle"), end) \in StreamStates \ {"Closed"}
      BY FirstFrame
    <3>3. /\ streams' = [streams EXCEPT ![sid] = AfterFrame(NextStatus("H_R", "Idle"), end)]
          /\ EndOfFragment(endHeaders, sid, sid)
          /\ UNCHANGED <<released, unwritable, nextLocalStreamId, goawayVars,
                         remoteVars, drainVars>>
      BY <1>4, <2>3 DEF ReceivedHeaders
    <3>4. /\ nextFrameLimit' \in BOOLEAN /\ nextStreamIdLimit' \in 0..MaxStreamId
          /\ cb' = cb \/ cb' = Callback("OnStreamHeaders", sid)
      BY <3>3, FragmentEffect
    <3>5. Mapped(sid) \/ Admitted(sid)
      BY <2>1, <3>1 DEF StreamIds
    <3> QED BY <2>1, <3>1, <3>2, <3>3, <3>4, <3>5, DeliverStep DEF CallbackNames
  <2> QED BY <2>2, <2>3
<1>5. ASSUME NEW sid \in PeerIds, NEW end \in BOOLEAN, NEW endHeaders \in BOOLEAN,
             NEW good \in BOOLEAN,
             ReceivedContinuation(sid, end, endHeaders, good)
      PROVE  StepOK
  <2>1. Quiet /\ Tracked
    BY <1>5, DispatchedEffect DEF ReceivedContinuation
  <2>2. CASE ConnectionError
    BY <2>1, <2>2, ErrorStep
  <2>3. CASE ~ConnectionError
    <3>1. Mapped(sid)
      BY <1>5, <2>3 DEF ReceivedContinuation
    <3>2. sid \in StreamIds /\ AfterFrame(streams[sid], end) \in StreamStates
      BY <3>1, MappedState, AfterFrameType
    <3>3. CASE ~endHeaders
      <4>1. FinishFrame(sid, AfterFrame(streams[sid], end))
        BY <1>5, <2>3, <3>3 DEF ReceivedContinuation
      <4> QED BY <2>1, <3>1, <3>2, <4>1, FinishStep
    <3>4. CASE endHeaders
      <4>1. /\ streams' = [streams EXCEPT ![sid] = AfterFrame(streams[sid], end)]
            /\ EndOfFragment(TRUE, sid, sid)
            /\ UNCHANGED <<released, unwritable, nextLocalStreamId,
                           goawayVars, remoteVars, drainVars>>
        BY <1>5, <2>3, <3>4 DEF ReceivedContinuation
      <4>2. /\ nextFrameLimit' \in BOOLEAN /\ nextStreamIdLimit' \in 0..MaxStreamId
            /\ cb' = Callback("OnStreamHeaders", sid)
        BY <4>1, FragmentEffect DEF EndOfFragment
      <4> QED BY <2>1, <3>1, <3>2, <4>1, <4>2, DeliverStep DEF CallbackNames
    <3> QED BY <3>3, <3>4
  <2> QED BY <2>2, <2>3
<1>6. ASSUME NEW sid \in PeerIds, NEW end \in BOOLEAN, NEW good \in BOOLEAN,
             ReceivedPriority(sid, end, good)
      PROVE  StepOK
  <2>1. Tracked
    BY <1>6, DispatchedEffect DEF ReceivedPriority
  <2>2. CASE ConnectionError
    BY <2>1, <2>2, ErrorStep
  <2>3. CASE NoEffect
    BY <2>1, <2>3, NoEffectStep
  <2>4. CASE Mapped(sid) /\ FinishFrame(sid, AfterFrame(streams[sid], end))
    BY <2>1, <2>4, MappedState, AfterFrameType, FinishStep
  <2> QED BY <1>6, <2>2, <2>3, <2>4 DEF ReceivedPriority
<1>7. ASSUME NEW sid \in PeerIds, NEW end \in BOOLEAN, NEW good \in BOOLEAN,
             ReceivedWindowUpdate(sid, end, good)
      PROVE  StepOK
  <2>1. Tracked
    BY <1>7, DispatchedEffect DEF ReceivedWindowUpdate
  <2>2. CASE ConnectionError
    BY <2>1, <2>2, ErrorStep
  <2>3. CASE NoEffect
    BY <2>1, <2>3, NoEffectStep
  <2>4. CASE Mapped(sid) /\ FinishFrame(sid, AfterFrame(streams[sid], end))
    BY <2>1, <2>4, MappedState, AfterFrameType, FinishStep
  <2> QED BY <1>7, <2>2, <2>3, <2>4 DEF ReceivedWindowUpdate
<1>8. ASSUME NEW sid \in PeerIds, NEW end \in BOOLEAN, NEW good \in BOOLEAN,
             ReceivedRstStream(sid, end, good)
      PROVE  StepOK
  <2>1. Quiet /\ Tracked
    BY <1>8, DispatchedEffect DEF ReceivedRstStream
  <2>2. CASE ConnectionError
    BY <2>1, <2>2, ErrorStep
  <2>3. CASE ~ConnectionError
    <3> DEFINE st == AfterFrame(NextStatus("RST_R", streams[sid]), end)
    <3>1. /\ Mapped(sid)
          /\ streams' = [streams EXCEPT ![sid] = st]
          /\ cb' = Callback("OnStreamClosed", sid)
          /\ UNCHANGED <<released, unwritable, nextLocalStreamId, goawayVars,
                         remoteVars, drainVars, limitVars>>
      BY <1>8, <2>3 DEF ReceivedRstStream
    <3>2. sid \in StreamIds /\ NextStatus("RST_R", streams[sid]) \in StreamStates
      BY <3>1, MappedState, NextStatusType DEF StreamEvents
    <3>3. st \in StreamStates
      BY <3>2, AfterFrameType
    <3>4. nextFrameLimit' \in BOOLEAN /\ nextStreamIdLimit' \in 0..MaxStreamId
      BY <3>1 DEF TypeOK, FlagsOK
    <3> HIDE DEF st
    <3> QED BY <2>1, <3>1, <3>2, <3>3, <3>4, DeliverStep DEF CallbackNames
  <2> QED BY <2>2, <2>3
<1>9. ASSUME NEW sid \in PeerIds, NEW limit \in StreamLimits \cup {maxConcurrent},
             NEW good \in BOOLEAN,
             ReceivedSettings(sid, limit, good)
      PROVE  StepOK
  <2>1. Quiet /\ Tracked
    BY <1>9, DispatchedEffect DEF ReceivedSettings
  <2>2. CASE sid # 0
    BY <1>9, <2>1, <2>2, ErrorStep DEF ReceivedSettings
  <2>3. CASE sid = 0
    <3>1. /\ maxConcurrent' = limit
          /\ IF good THEN UNCHANGED goawayVars ELSE SendGoawayFrame(0)
          /\ UNCHANGED <<mapVars, nextLocalStreamId, receivedGoaway, receivedGoawayId,
                         finishHandshake, drainVars, limitVars, cb>>
      BY <1>9, <2>3 DEF ReceivedSettings
    <3>2. RestOK'
      BY <2>1, <3>1 DEF RestOK, TypeOK
    <3>3. FlagsOK'
      BY <3>1 DEF FlagsOK, TypeOK, SendGoawayFrame
    <3>4. CASE good
      <4>1. Untouched
        BY <2>1, <3>1, <3>4 DEF Untouched, HeldKept, OthersKept, Quiet
      <4> QED BY <3>2, <3>3, <4>1 DEF StepOK, StepEffect
    <3>5. CASE ~good
      <4>1. GoawaySent
        BY <2>1, <3>1, <3>5 DEF GoawaySent, OthersKept, SendGoawayFrame, Tracked, TypeOK
      <4> QED BY <3>2, <3>3, <4>1 DEF StepOK, StepEffect
    <3> QED BY <3>4, <3>5
  <2> QED BY <2>2, <2>3
<1>10. ASSUME NEW sid \in PeerIds, NEW promised \in PeerIds, NEW endHeaders \in BOOLEAN,
              NEW good \in BOOLEAN,
              ReceivedPushPromise(sid, promised, endHeaders, good)
       PROVE  StepOK
  <2>1. Quiet /\ Tracked
    BY <1>10, DispatchedEffect DEF ReceivedPushPromise
  <2>2. CASE ConnectionError
    BY <2>1, <2>2, ErrorStep
  <2>3. CASE ~ConnectionError
    <3> DEFINE held == IF Mapped(sid) THEN sid ELSE 0
    <3>1. /\ Mapped(promised) => streams[promised] = "Idle"
          /\ streams' = IF Mapped(promised)
                        THEN [streams EXCEPT ![promised] = NextStatus("PP_R", streams[promised])]
                        ELSE streams
          /\ EndOfFragment(endHeaders, sid, held)
          /\ UNCHANGED <<released, unwritable, nextLocalStreamId, goawayVars,
                         remoteVars, drainVars>>
      BY <1>10, <2>3 DEF ReceivedPushPromise
    <3>2. /\ nextFrameLimit' \in BOOLEAN /\ nextStreamIdLimit' \in 0..MaxStreamId
          /\ cb' = cb \/ cb' = Callback("OnStreamHeaders", held)
      BY <3>1, FragmentEffect
    <3>3. held \in 0..MaxStreamId
      OBVIOUS
    <3>4. cb' \in [fn : CallbackNames, sid : 0..MaxStreamId, orphan : BOOLEAN]
      <4> HIDE DEF held
      <4> QED BY <3>2, <3>3, CallbackType DEF CallbackNames, TypeOK
    <3>5. RestOK'
      BY <2>1, <3>1, <3>2, <3>4 DEF RestOK, TypeOK
    <3>6. FlagsOK'
      BY <3>1, <3>2 DEF FlagsOK, TypeOK
    <3>9. HeldKept
      <4>1. cb'.sid \in {cb.sid, held}
        BY <3>2, <3>3, CallbackType DEF CallbackNames
      <4>2. held # 0 => held \in StreamIds /\ streams'[held] # "Absent"
        BY <3>1, FirstFrame, MappedState DEF TypeOK, StreamStates
      <4> QED BY <4>1, <4>2 DEF HeldKept
    <3>7. CASE Mapped(promised)
      <4>1. promised \in StreamIds
        BY <3>7, MappedState
      <4>2. Delivered(promised, "ReservedRemote")
        BY <2>1, <3>1, <3>7, <3>9, <4>1, FirstFrame DEF Delivered, OthersKept, StreamStates
      <4>3. "ReservedRemote" \in StreamStates
        BY DEF StreamStates
      <4> QED BY <3>5, <3>6, <4>1, <4>2, <4>3 DEF StepOK, StepEffect
    <3>8. CASE ~Mapped(promised)
      <4>1. Untouched
        BY <2>1, <3>1, <3>8, <3>9 DEF Untouched, OthersKept
      <4> QED BY <3>5, <3>6, <4>1 DEF StepOK, StepEffect
    <3> QED BY <3>7, <3>8
  <2> QED BY <2>2, <2>3
<1>11. ASSUME NEW sid \in PeerIds, NEW good \in BOOLEAN, ReceivedPing(sid, good)
       PROVE  StepOK
  <2>1. Tracked
    BY <1>11, DispatchedEffect DEF ReceivedPing
  <2> QED BY <1>11, <2>1, ErrorStep, NoEffectStep DEF ReceivedPing
<1>12. ASSUME NEW sid \in PeerIds, ReceivedUnknown(sid)
       PROVE  StepOK
  <2>1. Tracked
    BY <1>12, DispatchedEffect DEF ReceivedUnknown
  <2> QED BY <1>12, <2>1, NoEffectStep DEF ReceivedUnknown
<1>13. ASSUME NEW sid \in PeerIds, NEW last \in PeerLastIds, NEW good \in BOOLEAN,
              ReceivedGoaway(sid, last, good)
       PROVE  StepOK
  <2>1. Tracked
    BY <1>13, DispatchedEffect DEF ReceivedGoaway
  <2>2. CASE ConnectionError
    BY <2>1, <2>2, ErrorStep
  <2>3. CASE ~ConnectionError
    <3>1. PeerWentAway
      BY <1>13, <2>1, <2>3 DEF ReceivedGoaway, PeerWentAway
    <3>2. RestOK'
      BY <1>13, <2>1, <2>3 DEF ReceivedGoaway, RestOK, TypeOK
    <3>3. FlagsOK'
      BY <1>13, <2>3 DEF ReceivedGoaway, FlagsOK, TypeOK
    <3> QED BY <3>1, <3>2, <3>3 DEF StepOK, StepEffect
  <2> QED BY <2>2, <2>3
<1> QED
    BY <1>1, <1>2, <1>3, <1>4, <1>5, <1>6, <1>7, <1>8, <1>9, <1>10, <1>11, <1>12, <1>13
    DEF ReceiveStep

\* And so has the return from a callback.
LEMMA ReturnStepOK ==
    ASSUME TypeOK, ReturnFromCallback
    PROVE  StepOK
<1> USE ConnectionAssumption DEF mapVars, goawayVars, remoteVars, drainVars, limitVars
<1> DEFINE closed == ~cb.orphan /\ cb.sid # 0 /\ (Mapped(cb.sid) => streams[cb.sid] = "Closed")
<1>1. /\ Tracked /\ OthersKept
      /\ UNCHANGED <<nextLocalStreamId, goawayVars, remoteVars, limitVars>>
    BY DEF ReturnFromCallback, Tracked, TypeOK, OthersKept
<1>2. cb.sid \in 0..MaxStreamId
    BY DEF TypeOK
<1>3. CASE cb.fn = "OnStreamData" /\ closed
  <2>1. cb' = Callback("OnStreamClosed", cb.sid) /\ UNCHANGED <<mapVars, drainVars>>
    BY <1>3 DEF ReturnFromCallback
  <2>2. /\ cb' \in [fn : CallbackNames, sid : 0..MaxStreamId, orphan : BOOLEAN]
        /\ cb'.fn # "none" /\ cb'.sid = cb.sid /\ ~cb'.orphan
    BY <1>2, <2>1, CallbackType DEF CallbackNames
  <2>3. Untouched
    BY <1>1, <2>1, <2>2 DEF Untouched, HeldKept
  <2>4. RestOK'
    BY <1>1, <2>2 DEF RestOK, TypeOK
  <2>5. FlagsOK'
    BY <1>1, <2>1 DEF FlagsOK, TypeOK
  <2> QED BY <2>3, <2>4, <2>5 DEF StepOK, StepEffect
<1>4. CASE ~(cb.fn = "OnStreamData" /\ closed)
  <2>1. cb' = NoCallback
    BY <1>4 DEF ReturnFromCallback
  <2>2. cb' \in [fn : CallbackNames, sid : 0..MaxStreamId, orphan : BOOLEAN]
    BY <2>1 DEF NoCallback, CallbackNames
  <2>3. RestOK'
    BY <1>1, <2>2 DEF RestOK, TypeOK
  <2>4. CASE closed
    <3>1. SettleStream(cb.sid, "Closed", FALSE)
      BY <1>4, <2>4 DEF ReturnFromCallback
    <3>2. cb.sid \in StreamIds /\ "Closed" \in StreamStates
      BY <1>2, <2>4 DEF StreamIds, StreamStates
    <3>3. Settled(cb.sid, "Closed", FALSE)
      BY <1>1, <2>1, <2>4, <3>1, <3>2 DEF Settled, NoCallback
    <3>4. FlagsOK'
      BY <1>1, <3>1 DEF SettleStream, CheckDrainComplete, FlagsOK, TypeOK
    <3> QED BY <2>3, <3>2, <3>3, <3>4 DEF StepOK, StepEffect
  <2>5. CASE ~closed
    <3>1. UNCHANGED <<mapVars, drainVars>>
      BY <1>4, <2>5 DEF ReturnFromCallback
    <3>2. \A id \in StreamIds : ~(streams[id] = "Closed" /\ cb.sid = id /\ ~cb.orphan)
      BY <2>5 DEF StreamIds
    <3>3. Untouched
      BY <1>1, <2>1, <3>1, <3>2 DEF Untouched, HeldKept, NoCallback
    <3>4. FlagsOK'
      BY <1>1, <3>1 DEF FlagsOK, TypeOK
    <3> QED BY <2>3, <3>3, <3>4 DEF StepOK, StepEffect
  <2> QED BY <2>4, <2>5
<1> QED BY <1>3, <1>4

\* Every step has one of the seven effects.
LEMMA StepHasEffect ==
    ASSUME TypeOK, Next
    PROVE  StepOK
BY SendStepOK, ReceiveStepOK, ReturnStepOK DEF Next

\* Nothing changes.
LEMMA StutterOK ==
    ASSUME TypeOK, UNCHANGED vars
    PROVE  Untouched /\ RestOK' /\ FlagsOK'
<1> USE ConnectionAssumption DEF mapVars, goawayVars, remoteVars, drainVars, limitVars
<1>1. Tracked
    BY DEF Tracked, TypeOK, vars
<1>2. Untouched
    BY <1>1 DEF Untouched, HeldKept, OthersKept, Quiet, vars
<1>3. RestOK'
    BY DEF RestOK, TypeOK, vars
<1>4. FlagsOK'
    BY DEF FlagsOK, TypeOK, vars
<1> QED BY <1>2, <1>3, <1>4

-----------------------------------------------------------------------------
(***************************************************************************)
(* Type correctness.                                                       *)
(***************************************************************************)

\* The constructor establishes the types.
LEMMA InitType == Init => TypeOK
<1> USE ConnectionAssumption DEF StreamIds
<1> SUFFICES ASSUME Init PROVE TypeOK
    OBVIOUS
<1>1. cb \in [fn : CallbackNames, sid : 0..MaxStreamId, orphan : BOOLEAN]
    BY DEF Init, NoCallback, CallbackNames
<1>2. FlagsOK
    BY DEF Init, FlagsOK
<1>3. QED
    BY <1>1, <1>2 DEF Init, TypeOK, Unlimited

\* Every effect keeps the stream map, the identifiers and the counter in their
\* ranges: whatever settles a stream leaves a real state or no stream.
LEMMA EffectType ==
    ASSUME TypeOK, StepOK
    PROVE  TypeOK'
<1> USE ConnectionAssumption DEF mapVars, goawayVars, remoteVars, drainVars, limitVars
<1> DEFINE T == /\ streams \in [StreamIds -> StreamStates \cup {"Absent"}]
                /\ released \subseteq StreamIds
                /\ unwritable \subseteq StreamIds
           N == /\ nextLocalStreamId \in Nat /\ shutdowns \in Nat
                /\ lastStreamId \in 0..MaxStreamId
                /\ receivedGoawayId \in 0..MaxStreamId /\ sentGoawayId \in 0..MaxStreamId
<1>0. SUFFICES T' /\ N'
    BY DEF StepOK, RestOK, TypeOK
<1>1. CASE Created
  <2>1. T'
    BY <1>1 DEF Created, AddLocalStream, TypeOK, StreamStates
  <2>2. N'
    BY <1>1 DEF Created, AddLocalStream, OthersKept, TypeOK
  <2> QED BY <2>1, <2>2
<1>2. ASSUME NEW id \in StreamIds, NEW st \in StreamStates, NEW end \in BOOLEAN,
             Settled(id, st, end)
      PROVE  T' /\ N'
  <2>1. T'
    BY <1>2 DEF Settled, SettleStream, TypeOK
  <2>2. shutdowns' \in Nat
    BY <1>2 DEF Settled, SettleStream, CheckDrainComplete, TypeOK
  <2>3. N'
    BY <1>2, <2>2 DEF Settled, Tracked, OthersKept, TypeOK
  <2> QED BY <2>1, <2>3
<1>3. ASSUME NEW id \in StreamIds, NEW st \in StreamStates, Delivered(id, st)
      PROVE  T' /\ N'
  <2>1. T'
    BY <1>3 DEF Delivered, TypeOK
  <2>2. N'
    BY <1>3 DEF Delivered, Tracked, OthersKept, TypeOK
  <2> QED BY <2>1, <2>2
<1>4. CASE GoawaySent
    BY <1>4 DEF GoawaySent, OthersKept, TypeOK
<1>5. CASE Drained
    BY <1>5 DEF Drained, OthersKept, TypeOK
<1>6. CASE PeerWentAway
    BY <1>6 DEF PeerWentAway, LocalStreamsAbove, Tracked, TypeOK
<1>7. CASE Untouched
    BY <1>7 DEF Untouched, Tracked, OthersKept, TypeOK
<1> QED
    BY <1>1, <1>2, <1>3, <1>4, <1>5, <1>6, <1>7 DEF StepOK, StepEffect

\* Type correctness: no sequence of API calls and frames, re-entrant or not, puts
\* a value outside its range into the connection; in particular the table's
\* kDoNotUse never becomes the state of a stream, and no id above the limit is used.
THEOREM TypeCorrect == Spec => []TypeOK
<1>1. Init => TypeOK
    BY InitType
<1>2. TypeOK /\ [Next]_vars => TypeOK'
  <2> SUFFICES ASSUME TypeOK, [Next]_vars PROVE TypeOK'
    OBVIOUS
  <2>1. CASE Next
    BY <2>1, StepHasEffect, EffectType
  <2>2. CASE UNCHANGED vars
    BY <2>2, StutterOK, EffectType DEF StepOK, StepEffect
  <2> QED BY <2>1, <2>2
<1> QED BY <1>1, <1>2, PTL DEF Spec

-----------------------------------------------------------------------------
(***************************************************************************)
(* The inductive invariant: the properties, and what they rest on.         *)
(***************************************************************************)

\* A drain, and a completed one, have sent their GOAWAY: drain() cannot begin again.
DrainSentGoaway == draining \/ shutdowns > 0 => sentGoaway

\* The identifier create_stream uses next is a positive one of the local side.
NextIdLocal == nextLocalStreamId > 0 /\ IsLocal(nextLocalStreamId)

\* The stream that the suspended package_process holds is mapped or was released.
HeldKnown == cb.sid # 0 => Mapped(cb.sid) \/ cb.sid \in released

\* Every remote stream was tracked before it was mapped.
RemoteTracked == \A id \in StreamIds : IsRemote(id) /\ Mapped(id) => id <= lastStreamId

\* With automatic last ids, a sent GOAWAY freezes _last_stream_id at its last id.
GoawayFreezes == LastIds \subseteq {0} /\ sentGoaway => sentGoawayId = lastStreamId

ConnectionInv ==
    /\ TypeOK
    /\ ClosedOnlyInCallback
    /\ DrainHasWork /\ ShutdownCompleteOnce /\ DrainSentGoaway
    /\ LocalIdsFresh /\ NextIdLocal /\ HeldKnown
    /\ RemoteTracked /\ GoawayFreezes
    /\ GoawayMarksStreams

\* A closed stream stays in the map only under its callback.
LEMMA ClosedStep ==
    ASSUME ConnectionInv, StepOK
    PROVE  ClosedOnlyInCallback'
<1> USE DEF mapVars, drainVars, goawayVars, ConnectionInv, ClosedOnlyInCallback, Quiet
<1>1. CASE Created
    BY <1>1 DEF Created, AddLocalStream, TypeOK
<1>2. ASSUME NEW id \in StreamIds, NEW st \in StreamStates, NEW end \in BOOLEAN,
             Settled(id, st, end)
      PROVE  ClosedOnlyInCallback'
    BY <1>2 DEF Settled, SettleStream, TypeOK
<1>3. ASSUME NEW id \in StreamIds, NEW st \in StreamStates, Delivered(id, st)
      PROVE  ClosedOnlyInCallback'
    BY <1>3 DEF Delivered, TypeOK
<1>4. CASE GoawaySent
    BY <1>4 DEF GoawaySent
<1>5. CASE Drained
    BY <1>5 DEF Drained
<1>6. CASE PeerWentAway
    BY <1>6 DEF PeerWentAway
<1>7. CASE Untouched
    BY <1>7 DEF Untouched
<1> QED
    BY <1>1, <1>2, <1>3, <1>4, <1>5, <1>6, <1>7 DEF StepOK, StepEffect

\* A drain waits for a stream, completes once and has sent its GOAWAY.
LEMMA DrainStep ==
    ASSUME ConnectionInv, StepOK
    PROVE  DrainHasWork' /\ ShutdownCompleteOnce' /\ DrainSentGoaway'
<1> DEFINE D == DrainHasWork /\ ShutdownCompleteOnce /\ DrainSentGoaway
<1> USE DEF mapVars, drainVars, goawayVars, ConnectionInv,
            DrainHasWork, ShutdownCompleteOnce, DrainSentGoaway
<1>1. CASE Created
    BY <1>1 DEF Created, AddLocalStream, NoStreams, TypeOK
<1>2. ASSUME NEW id \in StreamIds, NEW st \in StreamStates, NEW end \in BOOLEAN,
             Settled(id, st, end)
      PROVE  D'
    BY <1>2 DEF Settled, SettleStream, CheckDrainComplete, NoStreams, TypeOK, StreamStates
<1>3. ASSUME NEW id \in StreamIds, NEW st \in StreamStates, Delivered(id, st)
      PROVE  D'
    BY <1>3 DEF Delivered, NoStreams, TypeOK, StreamStates
<1>4. CASE GoawaySent
    BY <1>4 DEF GoawaySent
<1>5. CASE Drained
    BY <1>5 DEF Drained, TypeOK
<1>6. CASE PeerWentAway
    BY <1>6 DEF PeerWentAway
<1>7. CASE Untouched
    BY <1>7 DEF Untouched
<1> QED
    BY <1>1, <1>2, <1>3, <1>4, <1>5, <1>6, <1>7 DEF StepOK, StepEffect

\* Local identifiers are handed out once, and only by create_stream.
LEMMA LocalIdStep ==
    ASSUME ConnectionInv, StepOK
    PROVE  LocalIdsFresh' /\ NextIdLocal' /\ HeldKnown'
<1> DEFINE L == LocalIdsFresh /\ NextIdLocal /\ HeldKnown
<1> USE ConnectionAssumption
    DEF mapVars, drainVars, goawayVars, ConnectionInv, LocalIdsFresh, NextIdLocal, HeldKnown,
        Mapped, StreamIds
<1>1. CASE Created
    BY <1>1 DEF Created, AddLocalStream, CanCreateStream, IsLocal, IsClientId, TypeOK
<1>2. ASSUME NEW id \in StreamIds, NEW st \in StreamStates, NEW end \in BOOLEAN,
             Settled(id, st, end)
      PROVE  L'
  <2>1. IsLocal(id) => id < nextLocalStreamId
    BY <1>2 DEF Settled, TypeOK
  <2>2. LocalIdsFresh'
    BY <1>2, <2>1 DEF Settled, SettleStream, TypeOK
  <2>3. NextIdLocal'
    BY <1>2 DEF Settled, IsLocal
  <2>4. HeldKnown'
    BY <1>2 DEF Settled, SettleStream, TypeOK, StreamStates
  <2> QED BY <2>2, <2>3, <2>4
<1>3. ASSUME NEW id \in StreamIds, NEW st \in StreamStates, Delivered(id, st)
      PROVE  L'
  <2>1. LocalIdsFresh'
    BY <1>3 DEF Delivered, Admitted, IsRemote, TypeOK
  <2>2. NextIdLocal'
    BY <1>3 DEF Delivered, IsLocal
  <2>3. HeldKnown'
    BY <1>3 DEF Delivered, HeldKept, TypeOK, StreamStates
  <2> QED BY <2>1, <2>2, <2>3
<1>4. CASE GoawaySent
    BY <1>4 DEF GoawaySent
<1>5. CASE Drained
    BY <1>5 DEF Drained
<1>6. CASE PeerWentAway
    BY <1>6 DEF PeerWentAway
<1>7. CASE Untouched
    BY <1>7 DEF Untouched, HeldKept
<1> QED
    BY <1>1, <1>2, <1>3, <1>4, <1>5, <1>6, <1>7 DEF StepOK, StepEffect

\* Remote identifiers are tracked before use, and frozen by a GOAWAY.
LEMMA RemoteIdStep ==
    ASSUME ConnectionInv, StepOK
    PROVE  RemoteTracked' /\ GoawayFreezes'
<1> DEFINE R == RemoteTracked /\ GoawayFreezes
<1> USE ConnectionAssumption
    DEF mapVars, drainVars, goawayVars, ConnectionInv, RemoteTracked, GoawayFreezes,
        IsRemote, Mapped, StreamIds
<1>1. CASE Created
    BY <1>1 DEF Created, AddLocalStream, NextIdLocal, TypeOK
<1>2. ASSUME NEW id \in StreamIds, NEW st \in StreamStates, NEW end \in BOOLEAN,
             Settled(id, st, end), Mapped(id) \/ st = "Closed"
      PROVE  R'
    BY <1>2 DEF Settled, SettleStream, Tracked, TypeOK
<1>3. ASSUME NEW id \in StreamIds, NEW st \in StreamStates, Delivered(id, st)
      PROVE  R'
    BY <1>3 DEF Delivered, Admitted, Tracked, TypeOK
<1>4. CASE GoawaySent
    BY <1>4 DEF GoawaySent, TypeOK
<1>5. CASE Drained
    BY <1>5 DEF Drained, TypeOK
<1>6. CASE PeerWentAway
    BY <1>6 DEF PeerWentAway, Tracked, TypeOK
<1>7. CASE Untouched
    BY <1>7 DEF Untouched, Tracked, TypeOK
<1> QED
    BY <1>1, <1>2, <1>3, <1>4, <1>5, <1>6, <1>7 DEF StepOK, StepEffect, Settled

\* The peer's GOAWAY marks the local streams above its last id for good.
LEMMA MarkStep ==
    ASSUME ConnectionInv, StepOK
    PROVE  GoawayMarksStreams'
<1> USE ConnectionAssumption
    DEF mapVars, drainVars, goawayVars, ConnectionInv, GoawayMarksStreams, OthersKept,
        Mapped, StreamIds
<1>1. CASE Created
    BY <1>1 DEF Created, AddLocalStream, CanCreateStream, TypeOK
<1>2. ASSUME NEW id \in StreamIds, NEW st \in StreamStates, NEW end \in BOOLEAN,
             Settled(id, st, end)
      PROVE  GoawayMarksStreams'
    BY <1>2 DEF Settled, SettleStream, TypeOK
<1>3. ASSUME NEW id \in StreamIds, NEW st \in StreamStates, Delivered(id, st)
      PROVE  GoawayMarksStreams'
    BY <1>3 DEF Delivered, Admitted, IsRemote, TypeOK
<1>4. CASE GoawaySent
    BY <1>4 DEF GoawaySent
<1>5. CASE Drained
    BY <1>5 DEF Drained
<1>6. CASE PeerWentAway
    BY <1>6 DEF PeerWentAway, LocalStreamsAbove
<1>7. CASE Untouched
    BY <1>7 DEF Untouched
<1> QED
    BY <1>1, <1>2, <1>3, <1>4, <1>5, <1>6, <1>7 DEF StepOK, StepEffect

\* The constructor establishes the inductive invariant.
LEMMA InitInv == Init => ConnectionInv
<1> USE ConnectionAssumption
<1> SUFFICES ASSUME Init PROVE ConnectionInv
    OBVIOUS
<1>1. TypeOK
    BY InitType
<1>2. \A id \in StreamIds : streams[id] = "Absent"
    BY DEF Init
<1>3. ClosedOnlyInCallback /\ LocalIdsFresh /\ RemoteTracked
    BY <1>2 DEF Init, ClosedOnlyInCallback, LocalIdsFresh, RemoteTracked, Mapped
<1>4. DrainHasWork /\ ShutdownCompleteOnce /\ DrainSentGoaway
    BY DEF Init, DrainHasWork, ShutdownCompleteOnce, DrainSentGoaway
<1>5. NextIdLocal
    BY DEF Init, NextIdLocal, IsLocal, IsClientId
<1>6. HeldKnown /\ GoawayFreezes /\ GoawayMarksStreams
    BY DEF Init, HeldKnown, NoCallback, GoawayFreezes, GoawayMarksStreams
<1> QED BY <1>1, <1>3, <1>4, <1>5, <1>6 DEF ConnectionInv

\* It is inductive.
LEMMA StepInv == ConnectionInv /\ [Next]_vars => ConnectionInv'
<1> SUFFICES ASSUME ConnectionInv, [Next]_vars PROVE ConnectionInv'
    OBVIOUS
<1>1. StepOK
    BY StepHasEffect, StutterOK DEF ConnectionInv, StepOK, StepEffect
<1>2. TypeOK'
    BY <1>1, EffectType DEF ConnectionInv
<1> QED
    BY <1>1, <1>2, ClosedStep, DrainStep, LocalIdStep, RemoteIdStep, MarkStep DEF ConnectionInv

\* The inductive invariant holds of every behaviour of the connection.
THEOREM InductiveInvariant == Spec => []ConnectionInv
BY InitInv, StepInv, PTL DEF Spec

\* Whatever an application does in a callback, package_process removes the stream
\* that its handler closed.
THEOREM ClosedStreamsRemoved == Spec => []ClosedOnlyInCallback
<1>1. ConnectionInv => ClosedOnlyInCallback
    BY DEF ConnectionInv
<1> QED BY <1>1, InductiveInvariant, PTL

\* No path that erases a stream forgets the drain: a draining connection always
\* has a stream to wait for.
THEOREM DrainNeverMissed == Spec => []DrainHasWork
<1>1. ConnectionInv => DrainHasWork
    BY DEF ConnectionInv
<1> QED BY <1>1, InductiveInvariant, PTL

\* OnShutdownComplete fires at most once, and not while the drain waits.
THEOREM ShutdownOnce == Spec => []ShutdownCompleteOnce
<1>1. ConnectionInv => ShutdownCompleteOnce
    BY DEF ConnectionInv
<1> QED BY <1>1, InductiveInvariant, PTL

\* create_stream never hands out an identifier that is or was in use.
THEOREM LocalIdsNeverReused == Spec => []LocalIdsFresh
<1>1. ConnectionInv => LocalIdsFresh
    BY DEF ConnectionInv
<1> QED BY <1>1, InductiveInvariant, PTL

\* A GOAWAY with the automatic last id covers every remote stream in the map.
THEOREM GoawayCovers == Spec => []GoawayCoversStreams
<1>1. ConnectionInv => GoawayCoversStreams
    BY DEF ConnectionInv, GoawayCoversStreams, RemoteTracked, GoawayFreezes
<1> QED BY <1>1, InductiveInvariant, PTL

\* Every local stream above the last id of the peer's GOAWAY is marked unwritable.
THEOREM GoawayMarks == Spec => []GoawayMarksStreams
<1>1. ConnectionInv => GoawayMarksStreams
    BY DEF ConnectionInv
<1> QED BY <1>1, InductiveInvariant, PTL

-----------------------------------------------------------------------------
(***************************************************************************)
(* Header blocks.                                                          *)
(***************************************************************************)

\* No operation of the application calls back.
LEMMA SendCallsNothing ==
    ASSUME TypeOK, SendStep
    PROVE  cb'.fn = cb.fn
<1>1. ASSUME NEW id \in StreamIds, StaleHandleSend(id)
      PROVE  cb'.fn = cb.fn
    BY <1>1 DEF StaleHandleSend, TypeOK
<1> QED
    BY <1>1 DEF SendStep, CreateStream, SendPushPromise, StreamSendHeaders,
                StreamSendTrailingHeaders, StreamSendData, SendRstStream, SendGoaway, Drain

\* Inside a header block package_process lets only its CONTINUATION through, and
\* that can only lead to OnStreamHeaders of the block's stream.
LEMMA BlockReceives ==
    ASSUME TypeOK, ReceiveStep, nextFrameLimit, cb' # cb
    PROVE  cb' = Callback("OnStreamHeaders", nextStreamIdLimit)
<1> USE DEF Dispatched, BreaksHeaderBlock
<1>1. ASSUME NEW sid \in PeerIds, NEW end \in BOOLEAN, NEW endHeaders \in BOOLEAN,
             NEW good \in BOOLEAN,
             ReceivedContinuation(sid, end, endHeaders, good)
      PROVE  cb' = Callback("OnStreamHeaders", nextStreamIdLimit)
  <2>1. sid = nextStreamIdLimit
    BY <1>1 DEF ReceivedContinuation
  <2> QED
    BY <1>1, <2>1 DEF ReceivedContinuation, ConnectionError, FinishFrame, EndOfFragment
<1> QED
    BY <1>1 DEF ReceiveStep, ReceivedPreface, ReceivedRejected, ConnectionError, ReceivedData,
                ReceivedHeaders, ReceivedPriority, ReceivedWindowUpdate, ReceivedRstStream,
                ReceivedSettings, ReceivedPushPromise, ReceivedPing, ReceivedUnknown,
                ReceivedGoaway

\* Nothing is delivered between the fragments of a header block.
THEOREM HeaderBlocksUnbroken == Spec => HeaderBlockUnbroken
<1>1. TypeOK /\ [Next]_vars
        => [nextFrameLimit /\ Quiet /\ cb'.fn # "none"
              => cb' = Callback("OnStreamHeaders", nextStreamIdLimit)]_vars
  <2> SUFFICES ASSUME TypeOK, Next, nextFrameLimit, Quiet, cb'.fn # "none"
               PROVE  cb' = Callback("OnStreamHeaders", nextStreamIdLimit)
    OBVIOUS
  <2>1. CASE SendStep
    BY <2>1, SendCallsNothing DEF Quiet
  <2>2. CASE ReceiveStep
    BY <2>2, BlockReceives DEF Quiet
  <2>3. CASE ReturnFromCallback
    BY <2>3 DEF ReturnFromCallback
  <2> QED BY <2>1, <2>2, <2>3 DEF Next
<1> QED BY <1>1, TypeCorrect, PTL DEF Spec, HeaderBlockUnbroken

-----------------------------------------------------------------------------
(***************************************************************************)
(* Refinement: the connection implements GracefulShutdown.                 *)
(***************************************************************************)

\* Every effect is a step of the abstract specification, or a stutter.
LEMMA EffectRefines ==
    ASSUME ConnectionInv, StepOK
    PROVE  [Shutdown!ShutdownNext]_(Shutdown!shutdownVars)
<1> DEFINE act == {id \in StreamIds : streams[id] # "Absent"}
           ph == IF draining THEN "draining"
                 ELSE IF shutdowns > 0 THEN "complete"
                 ELSE IF sentGoaway THEN "goaway" ELSE "running"
           la == IF sentGoaway THEN sentGoawayId ELSE 0
           Goal == [Shutdown!ShutdownNext]_(Shutdown!shutdownVars)
<1> USE ConnectionAssumption DEF mapVars, drainVars, goawayVars
<1>0. NoStreams(streams) <=> act = {}
    BY DEF NoStreams
<1>0p. NoStreams(streams') <=> act' = {}
    BY DEF NoStreams
<1>0s. ph # "running" <=> sentGoaway
    BY DEF ConnectionInv, DrainSentGoaway, TypeOK, FlagsOK
<1>0n. 0..MaxStreamId = StreamIds \cup {0}
    BY DEF StreamIds
<1>1. CASE Created
  <2>1. /\ nextLocalStreamId \in StreamIds /\ ~sentGoaway
        /\ streams' = [streams EXCEPT ![nextLocalStreamId] = "Idle"]
             \/ streams' = [streams EXCEPT ![nextLocalStreamId] = "ReservedLocal"]
    BY <1>1 DEF Created, AddLocalStream, CanCreateStream, ConnectionInv, NextIdLocal, TypeOK,
                StreamIds
  <2>0. PICK new \in StreamIds : new = nextLocalStreamId
    BY <2>1
  <2>2. act' = act \cup {new}
    BY <2>0, <2>1 DEF ConnectionInv, TypeOK
  <2>3. ph = "running" /\ ph' = ph /\ la' = la
    BY <1>1, <2>1 DEF Created, ConnectionInv, DrainSentGoaway, TypeOK
  <2>4. Shutdown!Open(new)
    BY <2>2, <2>3 DEF Shutdown!Open
  <2> QED BY <2>4 DEF Shutdown!ShutdownNext
<1>2. ASSUME NEW id \in StreamIds, NEW st \in StreamStates, NEW end \in BOOLEAN,
             Settled(id, st, end)
      PROVE  Goal
  <2>0. la' = la
    BY <1>2 DEF Settled
  <2>1. CASE st = "Closed"
    <3>1. act' = act \ {id}
      BY <1>2, <2>1 DEF Settled, SettleStream, ConnectionInv, TypeOK
    <3>2. ph' = IF ph = "draining" /\ act' = {} THEN "complete" ELSE ph
      BY <1>0p, <1>2, <2>1 DEF Settled, SettleStream, CheckDrainComplete, ConnectionInv, TypeOK
    <3>3. Shutdown!Close(id)
      BY <2>0, <3>1, <3>2 DEF Shutdown!Close
    <3> QED BY <3>3 DEF Shutdown!ShutdownNext
  <2>2. CASE st # "Closed"
    <3>1. act' = act
      BY <1>2, <2>2 DEF Settled, SettleStream, Mapped, ConnectionInv, TypeOK, StreamStates
    <3>2. ph' = ph
      BY <1>2, <2>2 DEF Settled, SettleStream
    <3> QED BY <2>0, <3>1, <3>2 DEF Shutdown!shutdownVars
  <2> QED BY <2>1, <2>2
<1>3. ASSUME NEW id \in StreamIds, NEW st \in StreamStates, Delivered(id, st)
      PROVE  Goal
  <2>1. ph' = ph /\ la' = la
    BY <1>3 DEF Delivered
  <2>2. CASE Mapped(id)
    <3>1. act' = act
      BY <1>3, <2>2 DEF Delivered, Mapped, ConnectionInv, TypeOK, StreamStates
    <3> QED BY <2>1, <3>1 DEF Shutdown!shutdownVars
  <2>3. CASE ~Mapped(id)
    <3>1. act' = act \cup {id} /\ ~IsLocal(id)
      BY <1>3, <2>3 DEF Delivered, Admitted, IsRemote, ConnectionInv, TypeOK, StreamStates
    <3>2. sentGoaway => id <= la
      BY <1>3, <2>3 DEF Delivered, Admitted, ConnectionInv, TypeOK, StreamIds
    <3>3. Shutdown!Open(id)
      BY <1>0s, <2>1, <3>1, <3>2 DEF Shutdown!Open
    <3> QED BY <3>3 DEF Shutdown!ShutdownNext
  <2> QED BY <2>2, <2>3
<1>4. CASE GoawaySent
  <2>1. act' = act
    BY <1>4 DEF GoawaySent
  <2>2. \/ ph # "running" /\ ph' = ph
        \/ ph = "running" /\ ph' = "goaway"
    BY <1>0s, <1>4 DEF GoawaySent, ConnectionInv, DrainSentGoaway
  <2>3. PICK n \in StreamIds \cup {0} : n = la'
    BY <1>0n, <1>4 DEF GoawaySent
  <2>4. Shutdown!GiveUp(n) \/ Shutdown!Announce(n)
    BY <2>1, <2>2, <2>3 DEF Shutdown!GiveUp, Shutdown!Announce
  <2> QED BY <2>4 DEF Shutdown!ShutdownNext
<1>5. CASE Drained
  <2>1. act' = act
    BY <1>5 DEF Drained
  <2>2. ph = "running"
    BY <1>5 DEF Drained, ConnectionInv, DrainSentGoaway
  <2>3. ph' = IF act = {} THEN "complete" ELSE "draining"
    BY <1>0, <1>5 DEF Drained, ConnectionInv, TypeOK
  <2>4. PICK n \in StreamIds \cup {0} : n = la'
    BY <1>0n, <1>5 DEF Drained, ConnectionInv, TypeOK
  <2>5. Shutdown!BeginDrain(n)
    BY <2>1, <2>2, <2>3, <2>4 DEF Shutdown!BeginDrain
  <2> QED BY <2>5 DEF Shutdown!ShutdownNext
<1>6. CASE PeerWentAway
    BY <1>6 DEF PeerWentAway, Shutdown!shutdownVars
<1>7. CASE Untouched
    BY <1>7 DEF Untouched, Shutdown!shutdownVars
<1> QED
    BY <1>1, <1>2, <1>3, <1>4, <1>5, <1>6, <1>7 DEF StepOK, StepEffect

\* The connection implements GracefulShutdown, for any set of streams: after a
\* GOAWAY no stream above its last id is taken, and completion is reported once,
\* when and only when the last stream goes.
THEOREM RefinesShutdown == Spec => ImplementsShutdown
<1>1. Init => Shutdown!ShutdownInit
    BY DEF Init, Shutdown!ShutdownInit
<1>2. ConnectionInv /\ [Next]_vars => [Shutdown!ShutdownNext]_(Shutdown!shutdownVars)
  <2> SUFFICES ASSUME ConnectionInv, [Next]_vars
               PROVE  [Shutdown!ShutdownNext]_(Shutdown!shutdownVars)
    OBVIOUS
  <2>1. StepOK
    BY StepHasEffect, StutterOK DEF ConnectionInv, StepOK, StepEffect
  <2> QED BY <2>1, EffectRefines
<1> QED
    BY <1>1, <1>2, InductiveInvariant, PTL DEF Spec, ImplementsShutdown, Shutdown!ShutdownSpec
=============================================================================
