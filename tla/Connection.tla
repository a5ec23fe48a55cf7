----------------------------- MODULE Connection -----------------------------
(***************************************************************************)
(* One http2_connection (src/http2/connection.cc) driven by its            *)
(* application and by a peer that may send any frame at any time: the      *)
(* stream map, the stream identifiers, GOAWAY in both directions, the      *)
(* drain, the CONTINUATION lock and the synchronous callbacks.             *)
(*                                                                         *)
(* The connection is single threaded.  The interleaving that matters is    *)
(* re-entrancy: a handler fires a callback, the callback calls the public  *)
(* API, and the handler goes on with the stream pointer it looked up       *)
(* before.  A handler is therefore cut at the callbacks it has work after; *)
(* `cb' says in which of them the application is.  The callbacks that are  *)
(* the last thing their caller does need no cut: an API call made in one   *)
(* is the same as one made right after the caller returns.                 *)
(*                                                                         *)
(* Payloads are abstracted to how they make the handler branch.  HPACK     *)
(* tables, flow-control windows, the preface and the send buffer have no   *)
(* influence on this state other than through the outcome of a send, which *)
(* is a parameter of the actions.                                          *)
(***************************************************************************)
EXTENDS Integers, FiniteSets, StreamState

CONSTANTS
    ClientSide,      \* _client_side
    MaxStreamId,     \* HTTP2_MAX_STREAM_ID
    PeerIds,         \* stream identifiers in the frames the peer sends
    PeerLastIds,     \* last_stream_id values of the peer's GOAWAY frames
    LastIds,         \* last_stream_id arguments of SendGoAway (0 means "auto")
    StreamLimits,    \* values the peer gives SETTINGS_MAX_CONCURRENT_STREAMS
    EnablePush       \* local SETTINGS_ENABLE_PUSH

ASSUME ConnectionAssumption ==
    /\ ClientSide \in BOOLEAN /\ EnablePush \in BOOLEAN
    /\ MaxStreamId \in Nat \ {0}
    /\ PeerIds \subseteq 0..MaxStreamId
    /\ PeerLastIds \subseteq 0..MaxStreamId
    /\ LastIds \subseteq 0..MaxStreamId
    /\ StreamLimits \subseteq Nat

VARIABLES
    streams,            \* _streams: state of the mapped stream, "Absent" if none
    released,           \* ids erased from _streams; the application may still
                        \* hold the shared_ptr of that (closed) stream
    unwritable,         \* ids of mapped streams with _write_closed set
    nextLocalStreamId,  \* _next_local_stream_id
    lastStreamId,       \* _last_stream_id: highest remote-initiated id seen
    receivedGoaway,     \* _received_goaway
    receivedGoawayId,   \* _received_goaway_stream_id
    sentGoaway,         \* _sent_goaway
    sentGoawayId,       \* _sent_goaway_stream_id
    draining,           \* _draining
    shutdowns,          \* number of OnShutdownComplete callbacks so far
    nextFrameLimit,     \* _next_frame_limit: a header block is unfinished
    nextStreamIdLimit,  \* _next_stream_id_limit
    maxConcurrent,      \* _remote_settings[MaxConcurrentStreams]
    finishHandshake,    \* _finish_handshake
    cb                  \* the callback being executed, see below

mapVars     == <<streams, released, unwritable>>
goawayVars  == <<sentGoaway, sentGoawayId>>
remoteVars  == <<receivedGoaway, receivedGoawayId, maxConcurrent, finishHandshake>>
drainVars   == <<draining, shutdowns>>
limitVars   == <<nextFrameLimit, nextStreamIdLimit>>
vars == <<mapVars, nextLocalStreamId, lastStreamId, goawayVars, remoteVars,
          drainVars, limitVars, cb>>

StreamIds == 1..MaxStreamId
IsClientId(id) == id % 2 = 1
IsLocal(id)  == IF ClientSide THEN IsClientId(id) ELSE ~IsClientId(id)
IsRemote(id) == ~IsLocal(id)

\* Larger than any number of streams there can be (the code's 2^32 - 1).
Unlimited == MaxStreamId + 1

(***************************************************************************)
(* The callback in progress: `fn' is the callback, `sid' the stream that   *)
(* the suspended package_process holds (0: none), `orphan' whether that    *)
(* object was erased from the map without being closed (StaleHandleSend    *)
(* does that).  A held stream that is neither mapped nor orphan is closed. *)
(***************************************************************************)
NoCallback == [fn |-> "none", sid |-> 0, orphan |-> FALSE]
Callback(fn, sid) == [fn |-> fn, sid |-> sid, orphan |-> FALSE]
CallbackNames == {"none", "OnStreamHeaders", "OnStreamData", "OnStreamClosed"}

Quiet == cb.fn = "none"

Mapped(id) == id \in StreamIds /\ streams[id] # "Absent"      \* find_stream
NoStreams(s) == \A id \in StreamIds : s[id] = "Absent"        \* _streams.empty()
NumStreams == Cardinality({id \in StreamIds : streams[id] # "Absent"})

FlagsOK ==
    /\ receivedGoaway \in BOOLEAN /\ sentGoaway \in BOOLEAN
    /\ draining \in BOOLEAN /\ nextFrameLimit \in BOOLEAN
    /\ finishHandshake \in BOOLEAN

TypeOK ==
    /\ FlagsOK
    /\ streams \in [StreamIds -> StreamStates \cup {"Absent"}]
    /\ released \subseteq StreamIds
    /\ unwritable \subseteq StreamIds
    /\ nextLocalStreamId \in Nat /\ maxConcurrent \in Nat /\ shutdowns \in Nat
    /\ lastStreamId \in 0..MaxStreamId /\ nextStreamIdLimit \in 0..MaxStreamId
    /\ receivedGoawayId \in 0..MaxStreamId /\ sentGoawayId \in 0..MaxStreamId
    /\ cb \in [fn : CallbackNames, sid : 0..MaxStreamId, orphan : BOOLEAN]

\* The constructor.  Only a server has to verify the client preface.
Init ==
    /\ streams = [id \in StreamIds |-> "Absent"]
    /\ released = {} /\ unwritable = {}
    /\ nextLocalStreamId = IF ClientSide THEN 1 ELSE 2
    /\ lastStreamId = 0
    /\ receivedGoaway = FALSE /\ receivedGoawayId = 0
    /\ sentGoaway = FALSE /\ sentGoawayId = 0
    /\ draining = FALSE /\ shutdowns = 0
    /\ nextFrameLimit = FALSE /\ nextStreamIdLimit = 0
    /\ maxConcurrent = Unlimited
    /\ finishHandshake = ClientSide
    /\ cb = NoCallback

-----------------------------------------------------------------------------
(***************************************************************************)
(* What the operations share.                                              *)
(***************************************************************************)

\* send_goaway: always sends and records; last = 0 means _last_stream_id.
SendGoawayFrame(last) ==
    /\ sentGoaway' = TRUE
    /\ sentGoawayId' = IF last = 0 THEN lastStreamId' ELSE last

\* Faulty variant of CheckDrainComplete: the erasing path forgets to check.
NoDrainCheck(s) == UNCHANGED drainVars

\* check_drain_complete, run when the map holds s.
CheckDrainComplete(s) ==
    IF draining /\ NoStreams(s)
    THEN draining' = FALSE /\ shutdowns' = shutdowns + 1
    ELSE UNCHANGED drainVars

\* Stream id goes to state st, with END_STREAM sent by this step or not; a closed
\* stream leaves the map at once and the drain is checked.
SettleStream(id, st, endSent) ==
    IF st = "Closed"
    THEN /\ streams' = [streams EXCEPT ![id] = "Absent"]
         /\ released' = released \cup {id}
         /\ unwritable' = unwritable \ {id}
         /\ CheckDrainComplete(streams')
    ELSE /\ streams' = [streams EXCEPT ![id] = st]
         /\ unwritable' = IF endSent THEN unwritable \cup {id} ELSE unwritable
         /\ UNCHANGED <<released, drainVars>>

-----------------------------------------------------------------------------
(***************************************************************************)
(* Operations of the application, possible inside a callback as well.      *)
(***************************************************************************)

\* Faulty variant of CanCreateStream: only the peer's GOAWAY is looked at.
CanCreateAfterDrain ==
    /\ nextLocalStreamId < MaxStreamId
    /\ ~receivedGoaway
    /\ maxConcurrent # 0 => NumStreams < maxConcurrent

\* http2_connection::create_stream succeeds.
CanCreateStream ==
    /\ nextLocalStreamId < MaxStreamId
    /\ ~receivedGoaway /\ ~sentGoaway
    /\ maxConcurrent # 0 => NumStreams < maxConcurrent

AddLocalStream(st) ==
    /\ CanCreateStream
    /\ streams' = [streams EXCEPT ![nextLocalStreamId] = st]
    /\ nextLocalStreamId' = nextLocalStreamId + 2

CreateStream ==
    /\ AddLocalStream("Idle")
    /\ UNCHANGED <<released, unwritable, lastStreamId, goawayVars, remoteVars,
                   drainVars, limitVars, cb>>

\* send_push_promise: a server only; the promised stream is registered and goes
\* from Idle to ReservedLocal.
SendPushPromise ==
    /\ ~ClientSide /\ EnablePush
    /\ AddLocalStream(NextStatus("PP_S", "Idle"))
    /\ UNCHANGED <<released, unwritable, lastStreamId, goawayVars, remoteVars,
                   drainVars, limitVars, cb>>

\* stream_send_headers on a mapped stream.  There is no state check.  When
\* SendRawData fails nothing but the HPACK encoder has changed: no step.
StreamSendHeaders(id, end) ==
    /\ Mapped(id)
    /\ SettleStream(id, AfterSendHeaders(streams[id], end), end)
    /\ UNCHANGED <<nextLocalStreamId, lastStreamId, goawayVars, remoteVars,
                   limitVars, cb>>

\* stream_send_trailing_headers: END_STREAM is set, and unlike
\* stream_send_headers the state moves on although the send failed.
StreamSendTrailingHeaders(id) ==
    /\ Mapped(id)
    /\ SettleStream(id, AfterSendHeaders(streams[id], TRUE), TRUE)
    /\ UNCHANGED <<nextLocalStreamId, lastStreamId, goawayVars, remoteVars,
                   limitVars, cb>>

\* stream_send_data: sent, or not written at all (empty without END_STREAM, or
\* the window is exhausted), in which case END_STREAM is recorded all the same.
StreamSendData(id, end) ==
    /\ Mapped(id)
    /\ SettleStream(id, AfterSendData(streams[id], end), end)
    /\ UNCHANGED <<nextLocalStreamId, lastStreamId, goawayVars, remoteVars,
                   limitVars, cb>>

\* A send operation on the handle of a released, hence closed, stream whose id
\* is mapped again: find_stream finds the NEW stream and the frame goes out on
\* it; then the OLD object is asked is_closed() and the NEW one is erased.
StaleHandleSend(id) ==
    /\ id \in released /\ Mapped(id)
    /\ SettleStream(id, "Closed", FALSE)
    /\ cb' = IF cb.sid = id THEN [cb EXCEPT !.orphan = streams[id] # "Closed"] ELSE cb
    /\ UNCHANGED <<nextLocalStreamId, lastStreamId, goawayVars, remoteVars, limitVars>>

\* send_rst_stream, by id.  An Idle stream has no transition and stays.
SendRstStream(id) ==
    /\ Mapped(id)
    /\ SettleStream(id, NextStatus("RST_S", streams[id]), FALSE)
    /\ UNCHANGED <<nextLocalStreamId, lastStreamId, goawayVars, remoteVars,
                   limitVars, cb>>

\* SendGoAway, and Shutdown when last = 0.
SendGoaway(last) ==
    /\ lastStreamId' = lastStreamId
    /\ SendGoawayFrame(last)
    /\ UNCHANGED <<mapVars, nextLocalStreamId, remoteVars, drainVars, limitVars, cb>>

\* Faulty variant of Drain: it does not look whether a GOAWAY was sent.
DrainAgain ==
    /\ lastStreamId' = lastStreamId
    /\ SendGoawayFrame(lastStreamId)
    /\ IF NoStreams(streams)
       THEN draining' = FALSE /\ shutdowns' = shutdowns + 1
       ELSE draining' = TRUE /\ UNCHANGED shutdowns
    /\ UNCHANGED <<mapVars, nextLocalStreamId, remoteVars, limitVars, cb>>

\* drain: does nothing once a GOAWAY has been sent, for whatever reason.
Drain ==
    /\ ~sentGoaway
    /\ lastStreamId' = lastStreamId
    /\ SendGoawayFrame(lastStreamId)
    /\ IF NoStreams(streams)
       THEN draining' = FALSE /\ shutdowns' = shutdowns + 1
       ELSE draining' = TRUE /\ UNCHANGED shutdowns
    /\ UNCHANGED <<mapVars, nextLocalStreamId, remoteVars, limitVars, cb>>

-----------------------------------------------------------------------------
(***************************************************************************)
(* Frames of the peer.  ReceivedData is not called from a callback.        *)
(***************************************************************************)

\* Faulty variant of BreaksHeaderBlock: the CONTINUATION of any stream passes.
BreaksWithOtherType(type, sid) == nextFrameLimit /\ type # "CONTINUATION"

\* package_process, the END_HEADERS check: only a CONTINUATION of the stream
\* whose header block is unfinished is let through.
BreaksHeaderBlock(type, sid) ==
    nextFrameLimit /\ (type # "CONTINUATION" \/ sid # nextStreamIdLimit)

\* Faulty variant of AboveGoaway: the last stream itself is skipped too.
FromGoawayOn(sid) == sentGoaway /\ sid >= sentGoawayId

\* package_process: frames above the last id of a sent GOAWAY are skipped.
AboveGoaway(sid) == sentGoaway /\ sid > sentGoawayId

\* Faulty variant of TrackLastStreamId: the parity test is the wrong way round.
TrackLocalStreamId(sid) ==
    lastStreamId' = IF sid > 0 /\ IsLocal(sid) /\ sid > lastStreamId
                    THEN sid ELSE lastStreamId

\* package_process tracks remote ids before the handler runs.
TrackLastStreamId(sid) ==
    lastStreamId' = IF sid > 0 /\ IsRemote(sid) /\ sid > lastStreamId
                    THEN sid ELSE lastStreamId

\* The part of package_process before the handler, when it reaches it.
Dispatched(type, sid) ==
    /\ Quiet /\ finishHandshake
    /\ ~BreaksHeaderBlock(type, sid)
    /\ ~AboveGoaway(sid)
    /\ TrackLastStreamId(sid)

\* A handler that answers with GOAWAY and changes nothing else.
ConnectionError ==
    /\ SendGoawayFrame(0)
    /\ UNCHANGED <<mapVars, nextLocalStreamId, remoteVars, drainVars, limitVars, cb>>

\* Faulty variant of FinishFrame: a closed stream is left in the map.
FinishFrameKeep(id, st) ==
    /\ streams' = [streams EXCEPT ![id] = st]
    /\ UNCHANGED <<released, unwritable, nextLocalStreamId, goawayVars, remoteVars,
                   drainVars, limitVars, cb>>

\* The end of package_process when no callback precedes it.
FinishFrame(id, st) ==
    /\ SettleStream(id, st, FALSE)
    /\ UNCHANGED <<nextLocalStreamId, goawayVars, remoteVars, limitVars, cb>>

\* The frame leaves the connection's own state alone.
NoEffect == UNCHANGED <<mapVars, nextLocalStreamId, goawayVars, remoteVars,
                        drainVars, limitVars, cb>>

\* TransportAdaptor::ReceivedData on a server: the client preface.
ReceivedPreface(good) ==
    /\ Quiet /\ ~finishHandshake
    /\ lastStreamId' = lastStreamId
    /\ IF good
       THEN finishHandshake' = TRUE /\ UNCHANGED goawayVars
       ELSE SendGoawayFrame(0) /\ UNCHANGED finishHandshake
    /\ UNCHANGED <<mapVars, nextLocalStreamId, receivedGoaway, receivedGoawayId,
                   maxConcurrent, drainVars, limitVars, cb>>

\* Any frame but the expected CONTINUATION while a header block is unfinished,
\* and a frame longer than the local MAX_FRAME_SIZE: GOAWAY, return -1.
ReceivedRejected(type, sid) ==
    /\ Quiet /\ finishHandshake
    /\ BreaksHeaderBlock(type, sid) \/ type = "OVERSIZED"
    /\ lastStreamId' = lastStreamId
    /\ ConnectionError

\* received_data.  payload: "data", "padding" (padded, no data), "empty"
\* (length 0: pad_len >= length) or "malformed" (parse error).
ReceivedData(sid, end, payload) ==
    /\ Dispatched("DATA", sid)
    /\ IF sid = 0 \/ payload \in {"empty", "malformed"} THEN ConnectionError
       ELSE IF ~Mapped(sid) THEN NoEffect
       ELSE LET st == AfterFrame(streams[sid], end)
            IN  IF payload = "padding" THEN FinishFrame(sid, st)
                ELSE /\ streams' = [streams EXCEPT ![sid] = st]
                     /\ cb' = Callback("OnStreamData", sid)
                     /\ UNCHANGED <<released, unwritable, nextLocalStreamId,
                                    goawayVars, remoteVars, drainVars, limitVars>>

\* The tail shared by the handlers of header blocks: OnStreamHeaders when the
\* block is complete, otherwise only CONTINUATION frames of `limit' may follow.
EndOfFragment(endHeaders, limit, sid) ==
    IF endHeaders
    THEN /\ nextFrameLimit' = FALSE /\ nextStreamIdLimit' = 0
         /\ cb' = Callback("OnStreamHeaders", sid)
    ELSE /\ nextFrameLimit' = TRUE /\ nextStreamIdLimit' = limit
         /\ UNCHANGED cb

\* Faulty variant of HeadersRejected: no parity test for a new stream.
HeadersRejectedAnyParity(sid, good) ==
    sid = 0 \/ ~good \/ (Mapped(sid) /\ streams[sid] # "Idle")

\* received_headers, the conditions for a connection error: stream 0, parse,
\* padding or HPACK error, an existing stream that is not Idle, a new stream
\* with an identifier of the local side.
HeadersRejected(sid, good) ==
    \/ sid = 0 \/ ~good
    \/ Mapped(sid) /\ streams[sid] # "Idle"
    \/ ~Mapped(sid) /\ IsLocal(sid)

\* received_headers: a stream that is new or Idle gets its headers.
ReceivedHeaders(sid, end, endHeaders, good) ==
    /\ Dispatched("HEADERS", sid)
    /\ IF HeadersRejected(sid, good) THEN ConnectionError
       ELSE /\ streams' = [streams EXCEPT ![sid] =
                             AfterFrame(NextStatus("H_R", "Idle"), end)]
            /\ EndOfFragment(endHeaders, sid, sid)
            /\ UNCHANGED <<released, unwritable, nextLocalStreamId, goawayVars,
                           remoteVars, drainVars>>

\* received_continuation.
ReceivedContinuation(sid, end, endHeaders, good) ==
    /\ Dispatched("CONTINUATION", sid)
    /\ IF ~nextFrameLimit \/ ~Mapped(sid) \/ ~good THEN ConnectionError
       ELSE LET st == AfterFrame(streams[sid], end)
            IN  IF endHeaders
                THEN /\ streams' = [streams EXCEPT ![sid] = st]
                     /\ EndOfFragment(TRUE, sid, sid)
                     /\ UNCHANGED <<released, unwritable, nextLocalStreamId,
                                    goawayVars, remoteVars, drainVars>>
                ELSE FinishFrame(sid, st)

\* received_priority (good: length 5, no self-dependency) and
\* received_window_update (good: length 4, increment not 0).
ReceivedPriority(sid, end, good) ==
    /\ Dispatched("PRIORITY", sid)
    /\ IF sid = 0 \/ ~good THEN ConnectionError
       ELSE IF Mapped(sid) THEN FinishFrame(sid, AfterFrame(streams[sid], end))
       ELSE NoEffect

ReceivedWindowUpdate(sid, end, good) ==
    /\ Dispatched("WINDOW_UPDATE", sid)
    /\ IF ~good THEN ConnectionError
       ELSE IF Mapped(sid) THEN FinishFrame(sid, AfterFrame(streams[sid], end))
       ELSE NoEffect

\* received_rst_stream: OnStreamClosed fires with the stream still mapped, even
\* when it is Idle and does not close.
ReceivedRstStream(sid, end, good) ==
    /\ Dispatched("RST_STREAM", sid)
    /\ IF ~good \/ ~Mapped(sid) THEN ConnectionError
       ELSE /\ streams' = [streams EXCEPT ![sid] =
                             AfterFrame(NextStatus("RST_R", streams[sid]), end)]
            /\ cb' = Callback("OnStreamClosed", sid)
            /\ UNCHANGED <<released, unwritable, nextLocalStreamId, goawayVars,
                           remoteVars, drainVars, limitVars>>

\* received_settings.  Entries are applied one by one, so the limit may be set
\* before a later value out of range disconnects (good = FALSE, as for a wrong
\* length); a frame without that entry, and an ACK, have limit = maxConcurrent.
ReceivedSettings(sid, limit, good) ==
    /\ Dispatched("SETTINGS", sid)
    /\ IF sid # 0 THEN ConnectionError
       ELSE /\ maxConcurrent' = limit
            /\ IF good THEN UNCHANGED goawayVars ELSE SendGoawayFrame(0)
            /\ UNCHANGED <<mapVars, nextLocalStreamId, receivedGoaway, receivedGoawayId,
                           finishHandshake, drainVars, limitVars, cb>>

\* received_push_promise.  The promised stream is a new object that is NOT put
\* into _streams, unless an Idle stream of that id is mapped already.  The
\* suspended package_process holds the associated stream sid, if there is one.
ReceivedPushPromise(sid, promised, endHeaders, good) ==
    /\ Dispatched("PUSH_PROMISE", sid)
    /\ IF \/ ~good \/ promised = 0 \/ IsClientId(promised) \/ ~EnablePush
          \/ Mapped(promised) /\ streams[promised] # "Idle"
       THEN ConnectionError
       ELSE /\ streams' = IF Mapped(promised)
                          THEN [streams EXCEPT ![promised] = NextStatus("PP_R", @)]
                          ELSE streams
            /\ EndOfFragment(endHeaders, sid, IF Mapped(sid) THEN sid ELSE 0)
            /\ UNCHANGED <<released, unwritable, nextLocalStreamId, goawayVars,
                           remoteVars, drainVars>>

\* received_ping, and frames of an unknown type: only the id is tracked.
ReceivedPing(sid, good) ==
    /\ Dispatched("PING", sid)
    /\ IF sid # 0 \/ ~good THEN ConnectionError ELSE NoEffect

ReceivedUnknown(sid) == Dispatched("UNKNOWN", sid) /\ NoEffect

\* Faulty variant of LocalStreamsAbove: the comparison inverted.
LocalStreamsUpTo(last) == {id \in StreamIds : Mapped(id) /\ IsLocal(id) /\ id <= last}

\* The streams received_goaway marks.
LocalStreamsAbove(last) == {id \in StreamIds : Mapped(id) /\ IsLocal(id) /\ id > last}

\* received_goaway: the local streams above the peer's last id become unwritable.
ReceivedGoaway(sid, last, good) ==
    /\ Dispatched("GOAWAY", sid)
    /\ IF sid # 0 \/ ~good THEN ConnectionError
       ELSE /\ receivedGoaway' = TRUE /\ receivedGoawayId' = last
            /\ unwritable' = unwritable \cup LocalStreamsAbove(last)
            /\ UNCHANGED <<streams, released, nextLocalStreamId, goawayVars,
                           maxConcurrent, finishHandshake, drainVars, limitVars, cb>>

\* The callback returns: received_data goes on to its OnStreamClosed, every
\* handler ends in package_process, which erases the stream if it is closed.
ReturnFromCallback ==
    LET closed == ~cb.orphan /\ cb.sid # 0 /\
                  (Mapped(cb.sid) => streams[cb.sid] = "Closed")
    IN  /\ ~Quiet
        /\ IF cb.fn = "OnStreamData" /\ closed
           THEN /\ cb' = Callback("OnStreamClosed", cb.sid)
                /\ UNCHANGED <<mapVars, drainVars>>
           ELSE /\ cb' = NoCallback
                /\ IF closed THEN SettleStream(cb.sid, "Closed", FALSE)
                   ELSE UNCHANGED <<mapVars, drainVars>>
        /\ UNCHANGED <<nextLocalStreamId, lastStreamId, goawayVars, remoteVars, limitVars>>

-----------------------------------------------------------------------------
SendStep ==
    \/ CreateStream
    \/ SendPushPromise
    \/ \E id \in StreamIds, end \in BOOLEAN : StreamSendHeaders(id, end)
    \/ \E id \in StreamIds : StreamSendTrailingHeaders(id)
    \/ \E id \in StreamIds, end \in BOOLEAN : StreamSendData(id, end)
    \/ \E id \in StreamIds : StaleHandleSend(id)
    \/ \E id \in StreamIds : SendRstStream(id)
    \/ \E last \in LastIds : SendGoaway(last)
    \/ Drain

ReceiveStep ==
    \/ \E good \in BOOLEAN : ReceivedPreface(good)
    \/ \E type \in {"PING", "CONTINUATION", "OVERSIZED"}, sid \in PeerIds :
         ReceivedRejected(type, sid)
    \/ \E sid \in PeerIds, end \in BOOLEAN,
          payload \in {"data", "padding", "empty", "malformed"} :
         ReceivedData(sid, end, payload)
    \/ \E sid \in PeerIds, end, endHeaders, good \in BOOLEAN :
         ReceivedHeaders(sid, end, endHeaders, good)
    \/ \E sid \in PeerIds, end, endHeaders, good \in BOOLEAN :
         ReceivedContinuation(sid, end, endHeaders, good)
    \/ \E sid \in PeerIds, end, good \in BOOLEAN : ReceivedPriority(sid, end, good)
    \/ \E sid \in PeerIds, end, good \in BOOLEAN : ReceivedWindowUpdate(sid, end, good)
    \/ \E sid \in PeerIds, end, good \in BOOLEAN : ReceivedRstStream(sid, end, good)
    \/ \E sid \in PeerIds, limit \in StreamLimits \cup {maxConcurrent}, good \in BOOLEAN :
         ReceivedSettings(sid, limit, good)
    \/ \E sid, promised \in PeerIds, endHeaders, good \in BOOLEAN :
         ReceivedPushPromise(sid, promised, endHeaders, good)
    \/ \E sid \in PeerIds, good \in BOOLEAN : ReceivedPing(sid, good)
    \/ \E sid \in PeerIds, last \in PeerLastIds, good \in BOOLEAN :
         ReceivedGoaway(sid, last, good)
    \/ \E sid \in PeerIds : ReceivedUnknown(sid)

Next == SendStep \/ ReceiveStep \/ ReturnFromCallback

Spec == Init /\ [][Next]_vars

-----------------------------------------------------------------------------
(***************************************************************************)
(* Properties.                                                             *)
(***************************************************************************)

\* A closed stream is in the map only while the handler that closed it is in a
\* callback for it; whatever the callback does, package_process removes it.
ClosedOnlyInCallback ==
    \A id \in StreamIds :
      streams[id] = "Closed" => ~Quiet /\ cb.sid = id /\ ~cb.orphan

\* OnShutdownComplete is never missed: a draining connection has a stream left
\* to wait for, whichever of the five erasing paths removed the others.
DrainHasWork == draining => ~NoStreams(streams)

\* OnShutdownComplete fires at most once in the life of a connection, and never
\* while the drain is still waiting.
ShutdownCompleteOnce == shutdowns <= (IF draining THEN 0 ELSE 1)

\* With automatic last ids, the last GOAWAY sent covers every remote stream the
\* application works on, the one being delivered by a callback included: the
\* peer may retry what lies above it elsewhere.
GoawayCoversStreams ==
    LastIds \subseteq {0} /\ sentGoaway =>
      \A id \in StreamIds : IsRemote(id) /\ Mapped(id) => id <= sentGoawayId

\* An identifier that create_stream has yet to hand out was never used: no frame
\* of the peer makes a stream under a local identifier.
LocalIdsFresh ==
    \A id \in StreamIds :
      IsLocal(id) /\ id >= nextLocalStreamId => ~Mapped(id) /\ id \notin released

\* After the peer's GOAWAY every local stream above its last id carries the mark
\* set_unwritable leaves, also after further GOAWAY frames with other ids and
\* whatever streams the application opened around it (CHANGELOG.md:18, "correctly
\* marked unwritable").  It is the mark that is right: no sender looks at it.
GoawayMarksStreams ==
    receivedGoaway =>
      \A id \in StreamIds :
        IsLocal(id) /\ Mapped(id) /\ id > receivedGoawayId => id \in unwritable

\* Between the fragments of a header block nothing is delivered: the first
\* callback after a fragment without END_HEADERS is OnStreamHeaders of the
\* stream the block belongs to (RFC 7540, 6.10).
HeaderBlockUnbroken ==
    [][nextFrameLimit /\ Quiet /\ cb'.fn # "none"
         => cb' = Callback("OnStreamHeaders", nextStreamIdLimit)]_vars

\* The connection implements GracefulShutdown: after a GOAWAY no local stream and
\* none of the peer above the announced id, completion once and exactly when the
\* last stream goes, a drain that neither restarts nor is given up.
Shutdown ==
    INSTANCE GracefulShutdown WITH
      Ids      <- StreamIds,
      LocalIds <- {id \in StreamIds : IsLocal(id)},
      active   <- {id \in StreamIds : streams[id] # "Absent"},
      phase    <- IF draining THEN "draining"
                  ELSE IF shutdowns > 0 THEN "complete"
                  ELSE IF sentGoaway THEN "goaway" ELSE "running",
      last     <- IF sentGoaway THEN sentGoawayId ELSE 0

ImplementsShutdown == Shutdown!ShutdownSpec
=============================================================================
