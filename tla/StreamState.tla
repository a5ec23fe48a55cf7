---------------------------- MODULE StreamState ----------------------------
(***************************************************************************)
(* The HTTP/2 stream state machine of src/http2/stream.cc: the table that  *)
(* maps an event and a state to the next state.  A pair whose entry is     *)
(* kDoNotUse leaves the state as it is: the methods of http2_stream only   *)
(* assign _state when the looked-up value is a real state.                 *)
(***************************************************************************)

StreamStates == {"Idle", "ReservedLocal", "ReservedRemote", "Open",
                 "HalfClosedLocal", "HalfClosedRemote", "Closed"}

\* HEADERS, PUSH_PROMISE, END_STREAM and RST_STREAM, received (R) or sent (S).
StreamEvents == {"H_R", "H_S", "PP_R", "PP_S", "ES_R", "ES_S", "RST_R", "RST_S"}

\* event_status_table.
EventStatusTable(event, st) ==
    CASE event \in {"H_R", "H_S"} /\ st = "Idle"        -> "Open"
      [] event = "H_R" /\ st = "ReservedRemote"         -> "HalfClosedLocal"
      [] event = "H_S" /\ st = "ReservedLocal"          -> "HalfClosedRemote"
      [] event = "PP_R" /\ st = "Idle"                  -> "ReservedRemote"
      [] event = "PP_S" /\ st = "Idle"                  -> "ReservedLocal"
      [] event = "ES_R" /\ st = "Open"                  -> "HalfClosedRemote"
      [] event = "ES_R" /\ st = "HalfClosedLocal"       -> "Closed"
      [] event = "ES_S" /\ st = "Open"                  -> "HalfClosedLocal"
      [] event = "ES_S" /\ st = "HalfClosedRemote"      -> "Closed"
      [] event \in {"RST_R", "RST_S"} /\ st \notin {"Idle", "Closed"} -> "Closed"
      [] OTHER                                          -> "DoNotUse"

\* Faulty variant of NextStatus: the table's value is assigned unchecked.
NextStatusUnchecked(event, st) == EventStatusTable(event, st)

\* The transition methods of http2_stream: look up, assign unless kDoNotUse.
NextStatus(event, st) ==
    LET next == EventStatusTable(event, st)
    IN  IF next = "DoNotUse" THEN st ELSE next

\* http2_stream::save_frame_info: bit 0x1 of the flags of ANY frame recorded on
\* a stream counts as END_STREAM, whatever the frame's type.
AfterFrame(st, flag1) == IF flag1 THEN NextStatus("ES_R", st) ELSE st

\* The two events of a HEADERS or DATA frame that the local side sends with
\* END_STREAM set or not.
AfterSendHeaders(st, end) ==
    LET s1 == NextStatus("H_S", st)
    IN  IF end THEN NextStatus("ES_S", s1) ELSE s1

AfterSendData(st, end) == IF end THEN NextStatus("ES_S", st) ELSE st
============================================================================
