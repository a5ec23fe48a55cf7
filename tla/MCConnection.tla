---------------------------- MODULE MCConnection ----------------------------
(***************************************************************************)
(* Connection against a peer that may send any frame (polite = FALSE), and *)
(* between sides that cooperate (polite = TRUE): streams are opened in     *)
(* increasing order, both sides end every stream they have open, a header  *)
(* block once begun is finished, a promised stream is used, and the        *)
(* application may drain the connection at any time.                       *)
(***************************************************************************)
EXTENDS Connection

VARIABLE polite     \* whether the sides cooperate, chosen once

mcVars == <<vars, polite>>

-----------------------------------------------------------------------------
(***************************************************************************)
(* What cooperating sides do.                                              *)
(***************************************************************************)

\* The application opens a stream: its own as a client, a pushed one as a server.
AppOpens == IF ClientSide THEN CreateStream ELSE SendPushPromise

AppStarts(id) ==
    /\ Mapped(id) /\ streams[id] \in {"Idle", "ReservedLocal"}
    /\ StreamSendHeaders(id, FALSE)

AppEnds(id) ==
    /\ Mapped(id) /\ streams[id] \in {"Open", "HalfClosedRemote"}
    /\ StreamSendData(id, TRUE)

\* The peer opens a stream, if it is the client.
PeerOpens(id, endHeaders) ==
    /\ ~ClientSide /\ IsRemote(id) /\ id > lastStreamId
    /\ ReceivedHeaders(id, FALSE, endHeaders, TRUE)

FinishBlock == nextFrameLimit /\ ReceivedContinuation(nextStreamIdLimit, FALSE, TRUE, TRUE)

\* The peer's last DATA frame takes effect.  One that package_process skips
\* (AboveGoaway) changes nothing, and this action is not enabled.
PeerEnds(id) ==
    /\ Mapped(id) /\ streams[id] \in {"Open", "HalfClosedLocal"}
    /\ ReceivedData(id, TRUE, "data")

\* The application drains with no stream created and not yet started.
AppDrains == (\A id \in StreamIds : streams[id] # "Idle") /\ Drain

PoliteNext ==
    \/ ReceivedPreface(TRUE)
    \/ AppOpens
    \/ \E id \in StreamIds : AppStarts(id) \/ AppEnds(id) \/ PeerEnds(id)
    \/ \E id \in StreamIds, endHeaders \in BOOLEAN : PeerOpens(id, endHeaders)
    \/ FinishBlock
    \/ AppDrains
    \/ ReturnFromCallback

-----------------------------------------------------------------------------
MCInit == Init /\ polite \in BOOLEAN

MCNext ==
    \/ polite /\ PoliteNext /\ UNCHANGED polite
    \/ ~polite /\ Next /\ UNCHANGED polite

\* Between cooperating sides callbacks return, header blocks are finished, and
\* streams are started and ended.
Politely(A) == polite /\ A /\ UNCHANGED polite

PoliteFairness ==
    /\ WF_mcVars(Politely(ReturnFromCallback))
    /\ WF_mcVars(Politely(FinishBlock))
    /\ \A id \in StreamIds :
         /\ WF_mcVars(Politely(AppStarts(id)))
         /\ WF_mcVars(Politely(AppEnds(id)))
         /\ WF_mcVars(Politely(PeerEnds(id)))

MCSpec == MCInit /\ [][MCNext]_mcVars /\ PoliteFairness

\* transport.h, Drain: "Existing in-flight streams continue to process normally"
\* and "When all in-flight streams have closed, the EventHandler's
\* OnShutdownComplete() callback fires": between cooperating sides a drain comes
\* to its end.
DrainCompletes == polite /\ draining ~> shutdowns = 1
=============================================================================
