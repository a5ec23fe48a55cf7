------------------------------ MODULE SendPath ------------------------------
(***************************************************************************)
(* How a client's frames leave and how its DATA is paced,                  *)
(* src/http2/connection.cc: the preface before the first frame, the send   *)
(* buffer of the buffered mode, the connection's send window.  The other   *)
(* end is a server of this library with automatic flow control: it returns *)
(* a WINDOW_UPDATE for the stream and one for the connection for all DATA  *)
(* of a stream that it still has.  The SETTINGS exchange behind the preface*)
(* is a module of its own.  SendRawData keeps to its contract: once it has *)
(* returned an error the connection takes nothing any more, and the        *)
(* application makes no calls but reads what has arrived.                  *)
(***************************************************************************)
EXTENDS Integers, SequencesExt, Totals

CONSTANTS
  Streams,        \* streams the client has created
  InitialWindow,  \* INITIAL_WINDOW_SIZE
  MaxFrameSize,   \* the peer's MAX_FRAME_SIZE
  Sizes,          \* sizes of the application's data, 0 for none
  MaxCalls,       \* bound: calls of SendData and of SendTrailers
  MaxResets,      \* bound: streams the server resets
  MayFail         \* whether SendRawData may fail

ASSUME SendPathAssumption ==
  /\ Streams \subseteq Nat \ {0}
  /\ InitialWindow \in Nat
  /\ MaxFrameSize \in Nat \ {0}
  /\ Sizes \subseteq Nat
  /\ MaxCalls \in Nat
  /\ MaxResets \in Nat
  /\ MayFail \in BOOLEAN

Side == {"local", "remote"}

VARIABLES
  prefaceSent,  \* _preface_sent
  buffered,     \* _buffered_mode
  sendBuffer,   \* _send_buffer
  sendWindow,   \* _connection_send_window
  opened,       \* at the client: streams whose HEADERS have been sent
  ended,        \* at the client: which sides of a stream have ended
  sentGoAway,   \* _sent_goaway of the client
  broken,       \* SendRawData has returned an error
  wire,         \* what the server has yet to read
  back,         \* what the client has yet to read
  known,        \* at the server: streams whose HEADERS have arrived
  peerEnded,    \* at the server: which sides of a stream have ended
  recvWindow,   \* what the server has advertised and not received
  issued,       \* history: what was handed to the transport and not read, in order
  greeted,      \* need_verify_preface of the server is over
  refused,      \* at the server: streams above the last id of the GOAWAY it has sent
  stray,        \* history: stream increments that the connection was given
  calls, resets \* calls so far

outgoing == <<prefaceSent, buffered, sendBuffer, broken, wire, issued>>
client   == <<sendWindow, opened, ended, sentGoAway>>
server   == <<known, peerEnded, recvWindow, greeted, refused, resets>>
history  == <<stray, calls>>
vars     == <<outgoing, client, server, history, back>>

Preface     == [kind |-> "preface"]
Settings    == [kind |-> "settings"]
GoAway      == [kind |-> "goaway"]
Credit(id)  == [kind |-> "credit", id |-> id]   \* both WINDOW_UPDATEs for the server's DATA
Headers(id, end)         == [kind |-> "headers", id |-> id, end |-> end]
DataFrame(id, size, end) == [kind |-> "data", id |-> id, size |-> size, end |-> end]
WindowUpdate(id, inc)    == [kind |-> "window", id |-> id, inc |-> inc]
EndOf(id)                == [kind |-> "end", id |-> id]
Reset(id)                == [kind |-> "reset", id |-> id]

Connection == 0   \* the stream identifier of the connection

\* find_stream: a stream is destroyed when both sides have ended.
Mapped(id)     == ended[id] # Side
PeerMapped(id) == id \in known /\ peerEnded[id] # Side

Init ==
  /\ prefaceSent = FALSE
  /\ buffered = FALSE
  /\ sendBuffer = <<>>
  /\ sendWindow = InitialWindow
  /\ opened = {}
  /\ ended = [id \in Streams |-> {}]
  /\ sentGoAway = FALSE
  /\ broken = FALSE
  /\ wire = <<>>
  /\ back = <<>>
  /\ known = {}
  /\ peerEnded = [id \in Streams |-> {}]
  /\ recvWindow = InitialWindow
  /\ issued = <<>>
  /\ greeted = FALSE
  /\ refused = {}
  /\ stray = 0
  /\ calls = 0
  /\ resets = 0

-----------------------------------------------------------------------------
(* send_raw_data and flush_buffer. *)

\* SendRawData slice by slice, up to the first that fails.
Transmit(slices) ==
  \E n \in 0..Len(slices) :
    /\ n < Len(slices) => MayFail \/ broken
    /\ broken => n = 0
    /\ wire' = wire \o SubSeq(slices, 1, n)
    /\ broken' = (broken \/ n < Len(slices))

\* ensure_preface_sent, then send_raw_data.  The preface itself is never
\* buffered; the SETTINGS behind it is, and is left out when the preface fails.
Send(slices) ==
  LET head == IF prefaceSent THEN <<>> ELSE <<Preface>>
      rest == IF prefaceSent \/ broken' THEN slices ELSE <<Settings>> \o slices
  IN  /\ IF buffered
         THEN /\ Transmit(head)
              /\ sendBuffer' = sendBuffer \o rest
              /\ issued' = issued \o head \o rest
              /\ prefaceSent' = (prefaceSent \/ ~broken')
         ELSE LET all == IF prefaceSent THEN slices ELSE <<Preface, Settings>> \o slices
              IN  /\ Transmit(all)
                  /\ issued' = issued \o all
                  /\ prefaceSent' = (prefaceSent \/ Len(wire') > Len(wire))
                  /\ UNCHANGED sendBuffer
      /\ UNCHANGED buffered

\* Faulty variant: the mode goes off and what is buffered stays behind.
LeaveUnflushed ==
  /\ buffered
  /\ buffered' = FALSE
  /\ UNCHANGED <<prefaceSent, sendBuffer, broken, wire, issued, client, server, back, history>>

\* SetBufferedMode(true), as the constructor of ScopedBufferedMode.
Enter ==
  /\ ~buffered /\ ~broken
  /\ buffered' = TRUE
  /\ UNCHANGED <<prefaceSent, sendBuffer, broken, wire, issued, client, server, back, history>>

\* Faulty variant: the loop is left after the first slice.
FlushFirst ==
  /\ Transmit(IF sendBuffer = <<>> THEN <<>> ELSE <<Head(sendBuffer)>>)
  /\ sendBuffer' = IF broken' \/ sendBuffer = <<>> THEN sendBuffer ELSE Tail(sendBuffer)
  /\ UNCHANGED <<prefaceSent, issued, client, server, back, history>>

\* Flush: everything at once; the buffer is kept when it fails.
FlushBuffer ==
  /\ Transmit(sendBuffer)
  /\ sendBuffer' = IF broken' /\ sendBuffer # <<>> THEN sendBuffer ELSE <<>>
  /\ UNCHANGED <<prefaceSent, issued, client, server, back, history>>

Flush == buffered /\ FlushBuffer /\ UNCHANGED buffered

\* Flush and SetBufferedMode(false), as the destructor of ScopedBufferedMode.
Leave == buffered /\ FlushBuffer /\ buffered' = FALSE

-----------------------------------------------------------------------------
(* stream_send_headers, stream_send_data and stream_send_trailing_headers. *)

Ending(side, end) == IF end THEN {side} ELSE {}

\* HEADERS open the stream, and end it when there is nothing else to send,
\* unless sending fails, which buffering never does.
SendHeaders(id, end) ==
  /\ id \notin opened /\ ~broken
  /\ Send(<<Headers(id, end)>>)
  /\ IF broken' /\ ~buffered
     THEN UNCHANGED <<opened, ended>>
     ELSE /\ opened' = opened \cup {id}
          /\ ended' = [ended EXCEPT ![id] = @ \cup Ending("local", end)]
  /\ UNCHANGED <<sendWindow, sentGoAway, server, back, history>>

\* pack_http2_frame_data: pieces of at most MaxFrameSize, the last with END_STREAM.
Cut(id, size, end) ==
  LET n == (size + MaxFrameSize - 1) \div MaxFrameSize
  IN  [i \in 1..n |-> DataFrame(id, IF i < n THEN MaxFrameSize ELSE size - (n - 1) * MaxFrameSize,
                                end /\ i = n)]

\* No data is one empty frame with END_STREAM, and without it nothing.
Pieces(id, size, end) ==
  IF size > 0 THEN Cut(id, size, end) ELSE IF end THEN <<DataFrame(id, 0, TRUE)>> ELSE <<>>

\* The application sends data behind its HEADERS and none behind its end.
MaySend(id) == calls < MaxCalls /\ ~broken /\ id \in opened /\ Mapped(id) /\ "local" \notin ended[id]

\* The window is charged before the frames are sent, also when they are not;
\* the end is not recorded when sending fails.
ChargeAndSend(id, size, end, charge) ==
  /\ sendWindow' = sendWindow - charge
  /\ Send(Pieces(id, size, end))
  /\ ended' = [ended EXCEPT ![id] = IF broken' /\ ~buffered THEN @ ELSE @ \cup Ending("local", end)]
  /\ calls' = calls + 1
  /\ UNCHANGED <<opened, sentGoAway, server, back, stray>>

\* Faulty variant: what is only buffered is not taken off the window.
SendDataUncharged(id, size, end) ==
  /\ MaySend(id) /\ size <= sendWindow
  /\ ChargeAndSend(id, size, end, IF buffered THEN 0 ELSE size)

\* Data within the window.
SendData(id, size, end) ==
  /\ MaySend(id) /\ size <= sendWindow
  /\ ChargeAndSend(id, size, end, size)

\* Beyond the window nothing is sent but the preface; the end of the stream is
\* recorded and true returned all the same.
DropData(id, size, end) ==
  /\ MaySend(id) /\ size > sendWindow
  /\ Send(<<>>)
  /\ ended' = [ended EXCEPT ![id] = @ \cup Ending("local", end)]
  /\ calls' = calls + 1
  /\ UNCHANGED <<sendWindow, opened, sentGoAway, server, back, stray>>

\* Trailers are HEADERS with END_STREAM; the end is recorded also when sending
\* them fails.
SendTrailers(id) ==
  /\ MaySend(id)
  /\ Send(<<Headers(id, TRUE)>>)
  /\ ended' = [ended EXCEPT ![id] = @ \cup {"local"}]
  /\ calls' = calls + 1
  /\ UNCHANGED <<sendWindow, opened, sentGoAway, server, back, stray>>

-----------------------------------------------------------------------------
(* The server reads a frame. *)

ServerReads(kinds) ==
  /\ wire # <<>> /\ Head(wire).kind \in kinds
  /\ wire' = Tail(wire)
  /\ issued' = Tail(issued)
  /\ greeted' = TRUE
  /\ UNCHANGED <<prefaceSent, buffered, sendBuffer, broken, client, history, resets>>

\* send_goaway: from now on package_process skips the streams above the last
\* one that has arrived.
Refuse ==
  /\ back' = Append(back, GoAway)
  /\ refused' = {id \in Streams : \A k \in known : k < id}
  /\ UNCHANGED <<known, peerEnded, recvWindow>>

\* received_data: a frame without payload is answered with GOAWAY, its end not
\* recorded; both increments for data of a mapped stream, none otherwise.
ServerReadsData ==
  /\ ServerReads({"data"})
  /\ LET f == Head(wire)
     IN  \/ f.size = 0 /\ f.id \notin refused /\ Refuse
         \/ /\ f.size > 0 /\ PeerMapped(f.id)
            /\ back' = back \o <<WindowUpdate(f.id, f.size), WindowUpdate(Connection, f.size)>>
            /\ peerEnded' = [peerEnded EXCEPT ![f.id] = @ \cup Ending("remote", f.end)]
            /\ UNCHANGED <<recvWindow, known, refused>>
         \/ /\ IF f.size = 0 THEN f.id \in refused ELSE ~PeerMapped(f.id)
            /\ recvWindow' = recvWindow - f.size
            /\ UNCHANGED <<back, peerEnded, known, refused>>

\* received_headers: HEADERS of a stream that is there, which trailers are, are
\* answered with GOAWAY, their end not recorded; others open a stream, also
\* under the id of one that is gone.
ServerReadsHeaders ==
  /\ ServerReads({"headers"})
  /\ LET f == Head(wire)
     IN  \/ f.id \in refused /\ UNCHANGED <<back, known, peerEnded, recvWindow, refused>>
         \/ f.id \notin refused /\ PeerMapped(f.id) /\ Refuse
         \/ /\ f.id \notin refused /\ ~PeerMapped(f.id)
            /\ known' = known \cup {f.id}
            /\ peerEnded' = [peerEnded EXCEPT ![f.id] = Ending("remote", f.end)]
            /\ UNCHANGED <<back, recvWindow, refused>>

\* The preface, SETTINGS, the increments and GOAWAY touch nothing modelled here.
ServerReadsOther ==
  /\ ServerReads({"preface", "settings", "credit", "goaway"})
  /\ UNCHANGED <<back, known, peerEnded, recvWindow, refused>>

\* The server's application ends its side of a stream with DATA that has a
\* payload, or resets it.
ServerEnds(id) ==
  /\ PeerMapped(id) /\ "local" \notin peerEnded[id]
  /\ peerEnded' = [peerEnded EXCEPT ![id] = @ \cup {"local"}]
  /\ back' = Append(back, EndOf(id))
  /\ UNCHANGED <<outgoing, client, known, recvWindow, greeted, refused, resets, history>>

ServerResets(id) ==
  /\ resets < MaxResets /\ PeerMapped(id)
  /\ peerEnded' = [peerEnded EXCEPT ![id] = Side]
  /\ back' = Append(back, Reset(id))
  /\ resets' = resets + 1
  /\ UNCHANGED <<outgoing, client, known, recvWindow, greeted, refused, history>>

-----------------------------------------------------------------------------
(* The client reads a frame.  Once it has sent GOAWAY, whose last stream is 0 *)
(* as the server opens none, package_process skips the frames of streams.    *)

ClientReads(kind) == back # <<>> /\ Head(back).kind = kind /\ back' = Tail(back)

\* received_window_update: an increment for a stream that is gone counts for
\* the connection; one for a stream that is there is left to a custom handler.
ReadWindowUpdate ==
  /\ ClientReads("window")
  /\ LET f    == Head(back)
         gone == f.id # Connection /\ ~sentGoAway /\ ~Mapped(f.id)
     IN  /\ sendWindow' = IF f.id = Connection \/ gone THEN sendWindow + f.inc ELSE sendWindow
         /\ stray' = IF gone THEN stray + f.inc ELSE stray
  /\ UNCHANGED <<outgoing, opened, ended, sentGoAway, server, calls>>

\* received_data at the client: the end is saved and the data credited, unless
\* the stream is gone.
ReadEnd ==
  /\ ClientReads("end")
  /\ LET id == Head(back).id
     IN  IF sentGoAway \/ ~Mapped(id)
         THEN UNCHANGED <<outgoing, ended>>
         ELSE /\ ended' = [ended EXCEPT ![id] = @ \cup {"remote"}]
              /\ Send(<<Credit(id)>>)
  /\ UNCHANGED <<sendWindow, opened, sentGoAway, server, history>>

\* received_rst_stream: a reset of a stream that is gone is answered with GOAWAY.
ReadReset ==
  /\ ClientReads("reset")
  /\ LET id == Head(back).id
     IN  IF sentGoAway
         THEN UNCHANGED <<outgoing, ended, sentGoAway>>
         ELSE IF Mapped(id)
         THEN ended' = [ended EXCEPT ![id] = Side] /\ UNCHANGED <<outgoing, sentGoAway>>
         ELSE Send(<<GoAway>>) /\ sentGoAway' = TRUE /\ UNCHANGED ended
  /\ UNCHANGED <<sendWindow, opened, server, history>>

\* received_goaway: the streams above its last id are marked, and no sender
\* looks at the mark.
ReadGoAway == ClientReads("goaway") /\ UNCHANGED <<outgoing, client, server, history>>

Next ==
  \/ Enter \/ Flush \/ Leave
  \/ \E id \in Streams, end \in BOOLEAN : SendHeaders(id, end)
  \/ \E id \in Streams : SendTrailers(id)
  \/ \E id \in Streams, size \in Sizes, end \in BOOLEAN :
       SendData(id, size, end) \/ DropData(id, size, end)
  \/ ServerReadsData \/ ServerReadsHeaders \/ ServerReadsOther
  \/ \E id \in Streams : ServerEnds(id) \/ ServerResets(id)
  \/ ReadWindowUpdate \/ ReadEnd \/ ReadReset \/ ReadGoAway

\* Scopes end, and both applications read what arrives.
Fairness ==
  /\ WF_vars(Leave)
  /\ WF_vars(ServerReadsData \/ ServerReadsHeaders \/ ServerReadsOther)
  /\ WF_vars(ReadWindowUpdate \/ ReadEnd \/ ReadReset \/ ReadGoAway)

Spec == Init /\ [][Next]_vars /\ Fairness

-----------------------------------------------------------------------------
\* Every variable has its type; the send window is never negative.
TypeOK ==
  /\ prefaceSent \in BOOLEAN
  /\ buffered \in BOOLEAN
  /\ broken \in BOOLEAN
  /\ sentGoAway \in BOOLEAN
  /\ sendWindow \in Nat
  /\ recvWindow \in Int
  /\ opened \subseteq Streams
  /\ known \subseteq Streams
  /\ ended \in [Streams -> SUBSET Side]
  /\ peerEnded \in [Streams -> SUBSET Side]
  /\ refused \subseteq Streams
  /\ stray \in Nat
  /\ greeted \in BOOLEAN
  /\ calls \in 0..MaxCalls
  /\ resets \in 0..MaxResets

\* What the server reads is what the client's calls issued, in that order, once
\* each, whether it was sent at once or buffered and flushed; a failed send cuts
\* the rest off and nothing follows.  The preface comes first, and only once.
InOrder ==
  /\ IsPrefix(wire, issued)
  /\ ~broken => wire \o sendBuffer = issued
  /\ ~greeted /\ issued # <<>> => Head(issued) = Preface
  /\ greeted => ~Contains(wire, Preface)

\* The octets of the DATA frames in s, and of the connection's increments in s.
Outstanding(s) == Total([i \in 1..Len(s) |-> IF s[i].kind = "data" THEN s[i].size ELSE 0])
Returning(s) ==
  Total([i \in 1..Len(s) |-> IF s[i].kind = "window" /\ s[i].id = Connection THEN s[i].inc ELSE 0])

\* Both ends keep the same books of the connection's window: what the client
\* may still send, what it has sent or buffered and the server not read, and
\* what the server has returned and the client not read, add up to what the
\* server has left plus the increments of streams that were gone.  A failed
\* send only leaves the client with less.  The client's window is never negative.
WindowAccounts ==
  LET sent == sendWindow + Outstanding(wire) + Returning(back)
  IN  /\ TypeOK
      /\ sent <= recvWindow + stray
      /\ ~broken => sent + Outstanding(sendBuffer) = recvWindow + stray

\* The server's window less what is under way to it: CHANGELOG.md:19 has the
\* client "prevent sending beyond the remote peer's advertised window".
NeverBeyondWindow == Outstanding(wire) <= recvWindow

\* Nothing stays behind in the buffer: what the client has issued the server
\* reads in the end, unless a send has failed.
AllIsRead == issued # <<>> ~> issued = <<>> \/ broken

\* The end of a stream that an empty DATA frame carries is processed: CHANGELOG.md:27,
\* "Process END_STREAM flag on empty DATA frames (receive side)".  Streams above
\* the last id of a GOAWAY are excepted.
EmptyEndArrives ==
  \A id \in Streams :
    Contains(wire, DataFrame(id, 0, TRUE)) ~> "remote" \in peerEnded[id] \/ id \in refused
=============================================================================
