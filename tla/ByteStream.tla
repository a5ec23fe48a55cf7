----------------------------- MODULE ByteStream -----------------------------
(***************************************************************************)
(* What a buffer of slices promises: it is one sequence of bytes.  Bytes   *)
(* come in at the end, what is read is taken off the front, and each call  *)
(* does to the sequence what was asked and nothing else.                   *)
(***************************************************************************)
EXTENDS Naturals, Sequences

VARIABLES bytes,   \* the bytes in the buffer
          call,    \* the last call: what was asked, how many bytes, which bytes
          got      \* the bytes that it handed out

streamVars == <<bytes, call, got>>

Write(bs) == bytes' = bytes \o bs /\ got' = <<>>

\* Up to n bytes are handed out and gone from the buffer.
Read(n) ==
    LET k == IF n <= Len(bytes) THEN n ELSE Len(bytes)
    IN  /\ got' = SubSeq(bytes, 1, k)
        /\ bytes' = SubSeq(bytes, k + 1, Len(bytes))

\* The first n bytes are handed out, or none when there are fewer; they stay.
Look(n) ==
    /\ got' = IF n <= Len(bytes) THEN SubSeq(bytes, 1, n) ELSE <<>>
    /\ bytes' = bytes

\* The first n bytes are dropped, or none when there are fewer.
Skip(n) ==
    /\ bytes' = IF n <= Len(bytes) THEN SubSeq(bytes, n + 1, Len(bytes)) ELSE bytes
    /\ got' = <<>>

\* All but the first n bytes are dropped.
Keep(n) == bytes' = SubSeq(bytes, 1, n) /\ got' = <<>>

StreamNext ==
    \/ call'.op = "write" /\ Write(call'.bytes)
    \/ call'.op = "read" /\ Read(call'.n)
    \/ call'.op = "look" /\ Look(call'.n)
    \/ call'.op = "skip" /\ Skip(call'.n)
    \/ call'.op = "keep" /\ Keep(call'.n)

StreamSpec == bytes = <<>> /\ got = <<>> /\ [][StreamNext]_streamVars
=============================================================================
