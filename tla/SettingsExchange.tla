-------------------------- MODULE SettingsExchange --------------------------
(***************************************************************************)
(* SETTINGS and PING between a client and a server that both run this      *)
(* library, src/http2/connection.cc: the client's preface and the initial  *)
(* SETTINGS of both, requests of the applications, acknowledgements.  An   *)
(* end keeps the content of the SETTINGS it has sent (_request_settings),  *)
(* sends no other while one is outstanding (_settings_pending), and puts   *)
(* it into force when an ACK is there.  Only the initial SETTINGS of a     *)
(* server do not wait: they may be the second outstanding.  The transport  *)
(* is reliable and in order.                                               *)
(***************************************************************************)
EXTENDS Integers, SequencesExt

CONSTANTS
  Parameters,    \* global_settings_parameters: id -> [default, min, max, disconnect]
  InitialLocal,  \* the constructor's _local_settings
  Requests,      \* argument values of SendSettings: sequences of entries
  MaxRequests,   \* bound: calls of SendSettings at each end
  MaxPings,      \* bound: calls of SendPing at each end
  EarlyCalls     \* what a server calls before the preface is there: "settings", "ping"

Entries == Seq([id : Nat, value : Int])

\* The defaults of the table are within its limits.
ASSUME SettingsAssumption ==
  /\ IsFiniteSet(DOMAIN Parameters) /\ DOMAIN Parameters \subseteq Nat
  /\ Parameters \in
       [DOMAIN Parameters -> [default : Int, min : Int, max : Int, disconnect : BOOLEAN]]
  /\ \A id \in DOMAIN Parameters :
       Parameters[id].min <= Parameters[id].default /\ Parameters[id].default <= Parameters[id].max
  /\ InitialLocal \in [DOMAIN Parameters -> Int]
  /\ Requests \subseteq Entries
  /\ MaxRequests \in Nat
  /\ MaxPings \in Nat
  /\ EarlyCalls \subseteq {"settings", "ping"}

Ends == {"client", "server"}
Other(e) == IF e = "client" THEN "server" ELSE "client"
Ids == DOMAIN Parameters     \* below HTTP2_NUMBER_OF_SETTINGS

VARIABLES
  prefaceSent,    \* _preface_sent of the client
  verified,       \* _finish_handshake, _initial_settings_sent of the server
  settingsPending,   \* _settings_pending
  requestSettings,   \* _request_settings
  localSettings,     \* _local_settings
  remoteSettings,    \* _remote_settings
  pingPending,    \* _ping_pending
  closed,         \* ReceivedData has returned -1
  goaway,         \* _sent_goaway
  channel,        \* what an end has sent and the other has not yet received
  requests, pings,  \* calls so far
  early           \* history: the server's request has gone out before its initial SETTINGS

vars == <<prefaceSent, verified, settingsPending, requestSettings, localSettings,
          remoteSettings, pingPending, closed, goaway, channel, requests, pings, early>>

Preface == [kind |-> "preface"]
Ack     == [kind |-> "ack"]
Ping    == [kind |-> "ping"]
Pong    == [kind |-> "pong"]
GoAway  == [kind |-> "goaway"]
Settings(entries) == [kind |-> "settings", entries |-> entries]

Defaults == [id \in Ids |-> Parameters[id].default]

\* The i-th of some ids, from the lowest up.
Place(ids, id) == Cardinality({k \in ids : k <= id})
IdAt(ids, i)   == CHOOSE id \in ids : Place(ids, id) = i

\* The entries of the initial SETTINGS: what differs from the default, by id.
NonDefault(settings) ==
  LET ids == {id \in Ids : settings[id] # Parameters[id].default}
  IN  [i \in 1..Cardinality(ids) |-> [id |-> IdAt(ids, i), value |-> settings[IdAt(ids, i)]]]

Init ==
  /\ prefaceSent = FALSE
  /\ verified = FALSE
  /\ settingsPending = [e \in Ends |-> FALSE]
  /\ requestSettings = [e \in Ends |-> <<>>]
  /\ localSettings = [e \in Ends |-> InitialLocal]
  /\ remoteSettings = [e \in Ends |-> Defaults]
  /\ pingPending = [e \in Ends |-> FALSE]
  /\ closed = [e \in Ends |-> FALSE]
  /\ goaway = [e \in Ends |-> FALSE]
  /\ channel = [e \in Ends |-> <<>>]
  /\ requests = [e \in Ends |-> 0]
  /\ pings = [e \in Ends |-> 0]
  /\ early = FALSE

-----------------------------------------------------------------------------
(* ensure_preface_sent, the first step of every call that sends but of the *)
(* acknowledgements.                                                       *)

NeedsPreface(e) == e = "client" /\ ~prefaceSent

PrefaceFrames(e) ==
  IF NeedsPreface(e) THEN <<Preface, Settings(NonDefault(localSettings[e]))>> ELSE <<>>

\* e sends frames behind its preface; pending is _settings_pending otherwise.
SendWithPreface(e, frames, pending) ==
  /\ channel' = [channel EXCEPT ![e] = @ \o PrefaceFrames(e) \o frames]
  /\ prefaceSent' = (prefaceSent \/ e = "client")
  /\ settingsPending' = [settingsPending EXCEPT ![e] = NeedsPreface(e) \/ pending]

-----------------------------------------------------------------------------
(* Calls of the applications. *)

\* Faulty variant: an unacknowledged SETTINGS does not hold the next one up.
SendSettingsAnyway(e, request) ==
  /\ ~closed[e] /\ requests[e] < MaxRequests
  /\ e = "server" => verified \/ "settings" \in EarlyCalls
  /\ SendWithPreface(e, <<Settings(request)>>, TRUE)
  /\ requestSettings' = [requestSettings EXCEPT ![e] = request]
  /\ requests' = [requests EXCEPT ![e] = @ + 1]
  /\ early' = (early \/ (e = "server" /\ ~verified))
  /\ UNCHANGED <<verified, localSettings, remoteSettings, pingPending, closed, goaway, pings>>

\* Overwrites settings by the entries that have a known id, in order: of
\* several with the same id the last one stays.
Overwrite(settings, entries) ==
  [id \in Ids |->
     LET at == {i \in DOMAIN entries : entries[i].id = id}
     IN  IF at = {} THEN settings[id] ELSE entries[Max(at)].value]

\* Faulty variant: the request is in force as soon as it is sent.
SendSettingsInForce(e, request) ==
  LET granted == request # <<>> /\ ~settingsPending[e] /\ ~NeedsPreface(e)
  IN  /\ ~closed[e] /\ requests[e] < MaxRequests
      /\ e = "server" => verified \/ "settings" \in EarlyCalls
      /\ SendWithPreface(e, IF granted THEN <<Settings(request)>> ELSE <<>>,
                         settingsPending[e] \/ granted)
      /\ localSettings' = [localSettings EXCEPT
                             ![e] = IF granted THEN Overwrite(@, request) ELSE @]
      /\ requests' = [requests EXCEPT ![e] = @ + 1]
      /\ early' = (early \/ (granted /\ e = "server" /\ ~verified))
      /\ UNCHANGED <<verified, requestSettings, remoteSettings, pingPending, closed, goaway, pings>>

\* send_settings: false for an empty request and while one is pending, as it is
\* for a client that has only now sent its preface.
SendSettings(e, request) ==
  LET granted == request # <<>> /\ ~settingsPending[e] /\ ~NeedsPreface(e)
  IN  /\ ~closed[e] /\ requests[e] < MaxRequests
      /\ e = "server" => verified \/ "settings" \in EarlyCalls
      /\ SendWithPreface(e, IF granted THEN <<Settings(request)>> ELSE <<>>,
                         settingsPending[e] \/ granted)
      /\ requestSettings' = [requestSettings EXCEPT ![e] = IF granted THEN request ELSE @]
      /\ requests' = [requests EXCEPT ![e] = @ + 1]
      /\ early' = (early \/ (granted /\ e = "server" /\ ~verified))
      /\ UNCHANGED <<verified, localSettings, remoteSettings, pingPending, closed, goaway, pings>>

SendPing(e) ==
  /\ ~closed[e] /\ pings[e] < MaxPings
  /\ e = "server" => verified \/ "ping" \in EarlyCalls
  /\ SendWithPreface(e, IF pingPending[e] THEN <<>> ELSE <<Ping>>, settingsPending[e])
  /\ pingPending' = [pingPending EXCEPT ![e] = TRUE]
  /\ pings' = [pings EXCEPT ![e] = @ + 1]
  /\ UNCHANGED <<verified, requestSettings, localSettings, remoteSettings, closed, goaway, requests, early>>

-----------------------------------------------------------------------------
(* ReceivedData: the next frame that the other end has sent. *)

Receives(e, kind) ==
  /\ ~closed[e]
  /\ e = "server" => verified
  /\ channel[Other(e)] # <<>>
  /\ Head(channel[Other(e)]).kind = kind

\* The frame is taken, and frames are sent in answer, without the preface.
Answer(e, frames) ==
  channel' = [channel EXCEPT ![Other(e)] = Tail(@), ![e] = @ \o frames]

\* The server's first octets: the preface, answered with the initial SETTINGS.
ReceivePreface ==
  /\ ~verified /\ ~closed["server"]
  /\ channel["client"] # <<>> /\ Head(channel["client"]) = Preface
  /\ verified' = TRUE
  /\ Answer("server", <<Settings(NonDefault(localSettings["server"]))>>)
  /\ settingsPending' = [settingsPending EXCEPT !["server"] = TRUE]
  /\ UNCHANGED <<prefaceSent, requestSettings, localSettings, remoteSettings, pingPending,
                 closed, goaway, requests, pings, early>>

\* Anything else in its place: GOAWAY, and the connection is given up.
ReceiveNoPreface ==
  /\ ~verified /\ ~closed["server"]
  /\ channel["client"] # <<>> /\ Head(channel["client"]) # Preface
  /\ Answer("server", <<GoAway>>)
  /\ closed' = [closed EXCEPT !["server"] = TRUE]
  /\ goaway' = [goaway EXCEPT !["server"] = TRUE]
  /\ UNCHANGED <<prefaceSent, verified, settingsPending, requestSettings, localSettings,
                 remoteSettings, pingPending, requests, pings, early>>

InRange(entry) == entry.value \in Parameters[entry.id].min..Parameters[entry.id].max
Refused(entry) == entry.id \in Ids /\ ~InRange(entry) /\ Parameters[entry.id].disconnect
Clamped(id, value) ==
  LET p == Parameters[id]
  IN  IF value < p.min THEN p.min ELSE IF value > p.max THEN p.max ELSE value

\* The entries up to the first that is refused, clamped.
Accepted(entries) ==
  LET bad  == {i \in DOMAIN entries : Refused(entries[i])}
      upto == IF bad = {} THEN Len(entries) ELSE Min(bad) - 1
  IN  [i \in 1..upto |->
         IF entries[i].id \in Ids
         THEN [entries[i] EXCEPT !.value = Clamped(entries[i].id, @)] ELSE entries[i]]

\* Faulty variant: clamped entries are not acknowledged.
ReceiveSettingsStrict(e) ==
  /\ Receives(e, "settings")
  /\ LET entries == Head(channel[Other(e)]).entries
     IN  /\ \A i \in DOMAIN entries : ~Refused(entries[i])
         /\ remoteSettings' = [remoteSettings EXCEPT ![e] = Overwrite(@, Accepted(entries))]
         /\ Answer(e, IF Accepted(entries) = entries THEN <<Ack>> ELSE <<>>)
  /\ UNCHANGED <<prefaceSent, verified, settingsPending, requestSettings, localSettings,
                 pingPending, closed, goaway, requests, pings, early>>

\* received_settings with values that can be accepted: applied, acknowledged.
ReceiveSettings(e) ==
  /\ Receives(e, "settings")
  /\ LET entries == Head(channel[Other(e)]).entries
     IN  /\ \A i \in DOMAIN entries : ~Refused(entries[i])
         /\ remoteSettings' = [remoteSettings EXCEPT ![e] = Overwrite(@, Accepted(entries))]
  /\ Answer(e, <<Ack>>)
  /\ UNCHANGED <<prefaceSent, verified, settingsPending, requestSettings, localSettings,
                 pingPending, closed, goaway, requests, pings, early>>

\* One value is refused: GOAWAY and no ACK, but the entries before it stay.
RefuseSettings(e) ==
  /\ Receives(e, "settings")
  /\ LET entries == Head(channel[Other(e)]).entries
     IN  /\ \E i \in DOMAIN entries : Refused(entries[i])
         /\ remoteSettings' = [remoteSettings EXCEPT ![e] = Overwrite(@, Accepted(entries))]
  /\ Answer(e, PrefaceFrames(e) \o <<GoAway>>)
  /\ prefaceSent' = (prefaceSent \/ e = "client")
  /\ settingsPending' = [settingsPending EXCEPT ![e] = @ \/ NeedsPreface(e)]
  /\ goaway' = [goaway EXCEPT ![e] = TRUE]
  /\ UNCHANGED <<verified, requestSettings, localSettings, pingPending, closed, requests, pings, early>>

\* received_settings with ACK: the request comes into force.
ReceiveAck(e) ==
  /\ Receives(e, "ack")
  /\ localSettings' = [localSettings EXCEPT ![e] = Overwrite(@, requestSettings[e])]
  /\ settingsPending' = [settingsPending EXCEPT ![e] = FALSE]
  /\ requestSettings' = [requestSettings EXCEPT ![e] = <<>>]
  /\ Answer(e, <<>>)
  /\ UNCHANGED <<prefaceSent, verified, remoteSettings, pingPending, closed, goaway, requests, pings, early>>

\* received_ping without and with ACK.
ReceivePing(e) ==
  /\ Receives(e, "ping")
  /\ Answer(e, <<Pong>>)
  /\ UNCHANGED <<prefaceSent, verified, settingsPending, requestSettings, localSettings,
                 remoteSettings, pingPending, closed, goaway, requests, pings, early>>

ReceivePong(e) ==
  /\ Receives(e, "pong")
  /\ Answer(e, <<>>)
  /\ pingPending' = [pingPending EXCEPT ![e] = FALSE]
  /\ UNCHANGED <<prefaceSent, verified, settingsPending, requestSettings, localSettings,
                 remoteSettings, closed, goaway, requests, pings, early>>

ReceiveGoAway(e) ==
  /\ Receives(e, "goaway")
  /\ Answer(e, <<>>)
  /\ UNCHANGED <<prefaceSent, verified, settingsPending, requestSettings, localSettings,
                 remoteSettings, pingPending, closed, goaway, requests, pings, early>>

Receive(e) ==
  \/ ReceiveSettings(e) \/ RefuseSettings(e) \/ ReceiveAck(e)
  \/ ReceivePing(e) \/ ReceivePong(e) \/ ReceiveGoAway(e)

Next ==
  \/ \E e \in Ends, request \in Requests : SendSettings(e, request)
  \/ \E e \in Ends : SendPing(e) \/ Receive(e)
  \/ ReceivePreface
  \/ ReceiveNoPreface

\* The applications read what arrives.
Fairness ==
  /\ WF_vars(ReceivePreface \/ ReceiveNoPreface)
  /\ \A e \in Ends : WF_vars(Receive(e))

Spec == Init /\ [][Next]_vars /\ Fairness

-----------------------------------------------------------------------------
TypeOK ==
  /\ prefaceSent \in BOOLEAN
  /\ verified \in BOOLEAN
  /\ settingsPending \in [Ends -> BOOLEAN]
  /\ requestSettings \in [Ends -> Requests \cup {<<>>}]
  /\ localSettings \in [Ends -> [Ids -> Int]]
  /\ remoteSettings \in [Ends -> [Ids -> Int]]
  /\ pingPending \in [Ends -> BOOLEAN]
  /\ closed \in [Ends -> BOOLEAN]
  /\ goaway \in [Ends -> BOOLEAN]
  /\ requests \in [Ends -> 0..MaxRequests]
  /\ pings \in [Ends -> 0..MaxPings]
  /\ early \in BOOLEAN

Count(frames, kind) == Cardinality({i \in DOMAIN frames : frames[i].kind = kind})

\* SETTINGS of e on their way, and their acknowledgements on the way back.
Outstanding(e) == Count(channel[e], "settings") + Count(channel[Other(e)], "ack")

\* A server that has called SendSettings before the preface was there is one
\* answer behind: its initial SETTINGS went out while the request was pending, and
\* the first ACK clears the flag for both.
Behind(e) == IF e = "server" /\ early THEN 1 ELSE 0

\* _settings_pending and _ping_pending tell whether an answer is still to come:
\* with one SETTINGS outstanding for the client and for a server that waits for
\* the preface, so that an ACK is always the ACK of the request that
\* received_settings applies; with at most one more for a server that does not
\* wait.  No answer is lost, unless the other end has refused the values or the
\* connection is given up.
PendingIsExact ==
  /\ TypeOK
  /\ ~closed["server"] =>
       \A e \in Ends :
         /\ Outstanding(e) <= 1 + Behind(e)
         /\ Outstanding(e) > Behind(e) => settingsPending[e]
         /\ settingsPending[e] => Outstanding(e) >= 1 \/ goaway[Other(e)]
         /\ pingPending[e] <=> Count(channel[e], "ping") + Count(channel[Other(e)], "pong") = 1

ClampedAll(settings) == [id \in Ids |-> Clamped(id, settings[id])]

\* A SETTINGS that sets id.
Sets(frame, id) ==
  frame.kind = "settings" /\ \E i \in DOMAIN frame.entries : frame.entries[i].id = id

\* What an end that goes by seen will go by when it has read all of frames.
Upcoming(frames, seen, id) ==
  LET news == {i \in DOMAIN frames : Sets(frames[i], id)}
  IN  IF news = {} THEN seen[id]
                   ELSE Clamped(id, Overwrite(InitialLocal, frames[Max(news)].entries)[id])

\* What an end enforces and what the other goes by agree: with nothing pending
\* they are the same up to clamping, and while a request is pending the other
\* end has either not seen it or applied all of it; nothing is enforced before
\* the other end has applied it.  A server that has called SendSettings before the
\* preface was there may enforce a request before the other end has it (an ACK
\* puts a later request into force), and what its early request set the initial
\* SETTINGS set back: what the other end will go by is, id by id, what the server
\* asks for or its initial value.
EndsAgree ==
  \A e \in Ends :
    LET settled == IF e = "client" THEN prefaceSent ELSE verified
        seen    == remoteSettings[Other(e)]
        asked   == Overwrite(localSettings[e], requestSettings[e])
    IN  settled /\ ~goaway[Other(e)] =>
          IF e = "server" /\ early
          THEN \A id \in Ids : Upcoming(channel[e], seen, id)
                                 \in {Clamped(id, asked[id]), Clamped(id, InitialLocal[id])}
          ELSE \/ seen = ClampedAll(localSettings[e])
               \/ settingsPending[e] /\ seen = ClampedAll(asked)
               \/ settingsPending[e] /\ requestSettings[e] = <<>> /\ seen = Defaults

\* A SETTINGS request is acknowledged in the end, so that another can be made,
\* unless the peer refuses it or the connection is given up; a PING is answered
\* in the end.
EventuallyAnswered ==
  \A e \in Ends :
    /\ settingsPending[e] ~> (~settingsPending[e] \/ goaway[Other(e)] \/ closed["server"])
    /\ pingPending[e] ~> (~pingPending[e] \/ closed["server"])
=============================================================================
