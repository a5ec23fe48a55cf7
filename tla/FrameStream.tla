----------------------------- MODULE FrameStream -----------------------------
(***************************************************************************)
(* TransportAdaptor::ReceivedData of src/http2.cc: frames out of octets    *)
(* that arrive in any portions.  The application keeps what a call has not *)
(* consumed and passes it again in front of what comes next.  The log has  *)
(* every frame that package_process reads, parsed; what it then does with  *)
(* one is the module Connection.                                           *)
(***************************************************************************)
EXTENDS FrameCodec

CONSTANTS
  Preface,        \* http2_connection::PREFACE
  MaxFrameSize    \* local_max_frame_size()

ASSUME FrameStreamAssumption == MaxFrameSize \in Nat \ {0} /\ Preface \in Seq(Byte)

VARIABLES
  needPreface,   \* need_verify_preface()
  wire,          \* octets that have yet to arrive
  held,          \* octets the application holds: arrived, not consumed
  log,           \* the frames read, or the error of each
  closed,        \* ReceivedData has returned -1: the application closes
  server,        \* the octets are a client's: its preface has to come first
  octets         \* all that the peer sends

vars == <<needPreface, wire, held, log, closed, server, octets>>

\* The frame that buf begins with: package_process on frame_total octets.  A
\* frame whose payload is refused is answered with GOAWAY and skipped, one of an
\* unknown type is skipped.
Entry(hdr, buf) ==
  IF hdr.type > Continuation THEN [error |-> 0, unknown |-> hdr]
  ELSE ParsePayload(hdr, SubSeq(buf, HTTP2_FRAME_HEADER_SIZE + 1,
                                HTTP2_FRAME_HEADER_SIZE + hdr.length))

\* Faulty variant: the octets of an incomplete frame are counted as consumed.
FrameStepConsumes(at) ==
  LET hdr   == http2_frame_header_unpack(at.buf)
      total == hdr.length + HTTP2_FRAME_HEADER_SIZE
  IN  IF at.stop \/ Len(at.buf) < HTTP2_FRAME_HEADER_SIZE
      THEN [at EXCEPT !.stop = TRUE]
      ELSE IF hdr.length > MaxFrameSize
      THEN [at EXCEPT !.stop = TRUE, !.failed = TRUE]
      ELSE IF total > Len(at.buf)
      THEN [at EXCEPT !.stop = TRUE, !.buf = <<>>]
      ELSE [at EXCEPT !.buf = From(at.buf, total + 1), !.log = Append(@, Entry(hdr, at.buf))]

\* One round of the frame loop.
FrameStep(at) ==
  LET hdr   == http2_frame_header_unpack(at.buf)
      total == hdr.length + HTTP2_FRAME_HEADER_SIZE
  IN  IF at.stop \/ Len(at.buf) < HTTP2_FRAME_HEADER_SIZE
      THEN [at EXCEPT !.stop = TRUE]
      ELSE IF hdr.length > MaxFrameSize
      THEN [at EXCEPT !.stop = TRUE, !.failed = TRUE]
      ELSE IF total > Len(at.buf)
      THEN [at EXCEPT !.stop = TRUE]
      ELSE [at EXCEPT !.buf = From(at.buf, total + 1), !.log = Append(@, Entry(hdr, at.buf))]

Rounds(first, n) ==
  LET at[i \in 0..n] == IF i = 0 THEN first ELSE FrameStep(at[i - 1]) IN at[n]

\* A frame takes nine octets at least, so that bounds the rounds.
FrameLoop(buf) ==
  Rounds([buf |-> buf, log |-> <<>>, stop |-> FALSE, failed |-> FALSE],
         Len(buf) \div HTTP2_FRAME_HEADER_SIZE + 1)

\* The call's outcome on buf: the octets left, the frames read, and -1 or not.
Outcome(need, buf) ==
  LET n     == Len(Preface)
      loop  == FrameLoop(IF need THEN From(buf, n + 1) ELSE buf)
      Stuck(failed) == [need |-> TRUE, rest |-> buf, log |-> <<>>, failed |-> failed]
  IN  IF need /\ Len(buf) < n THEN Stuck(FALSE)
      ELSE IF need /\ SubSeq(buf, 1, n) # Preface THEN Stuck(TRUE)
      ELSE [need |-> FALSE, rest |-> loop.buf, log |-> loop.log, failed |-> loop.failed]

ReceivedData(count) ==
  /\ ~closed
  /\ LET r == Outcome(needPreface, held \o SubSeq(wire, 1, count))
     IN  /\ needPreface' = r.need
         /\ held' = r.rest
         /\ log' = log \o r.log
         /\ closed' = r.failed
  /\ wire' = From(wire, count + 1)
  /\ UNCHANGED <<server, octets>>

\* Anything may come.
StreamInit ==
  /\ server \in BOOLEAN
  /\ octets \in Seq(Byte)
  /\ needPreface = server
  /\ wire = octets
  /\ held = <<>>
  /\ log = <<>>
  /\ closed = FALSE

StreamNext == \E count \in 1..Len(wire) : ReceivedData(count)

StreamSpec == StreamInit /\ [][StreamNext]_vars

-----------------------------------------------------------------------------
\* One call with everything; its outcome is what every other portioning has.
AtOnce == Outcome(server, octets)

\* Where the octets of a frame are divided between calls of ReceivedData makes
\* no difference: the frames read are the same in the same order, a connection
\* is refused for the same octets, and nothing is consumed that was not read.
PortionsDoNotMatter ==
  /\ IsPrefix(log, AtOnce.log)
  /\ closed => AtOnce.failed
  /\ wire = <<>> => log = AtOnce.log /\ closed = AtOnce.failed
  /\ ~closed => \E n \in 0..Len(octets) : held \o wire = From(octets, n + 1)
=============================================================================
