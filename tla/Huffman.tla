------------------------------ MODULE Huffman ------------------------------
(***************************************************************************)
(* The Huffman code of HPACK, src/hpack/huffman.cc: the encoder, which     *)
(* packs the codes of huff_sym_table, and the decoder, which walks         *)
(* huff_decode_table half an octet at a time.  A string is a sequence of   *)
(* octets 0..255; the encoder's 64-bit accumulator is a sequence of bits.  *)
(***************************************************************************)
EXTENDS HuffmanTables, SequencesExt

Octets == 0..255
EndOfString == 256

\* The number of the bits b, most significant first, and the converse.
Number(b) == FoldLeft(LAMBDA acc, bit : 2 * acc + bit, 0, b)
Bits(n, width) == [i \in 1..width |-> (n \div 2^(width - i)) % 2]

\* The code of an octet or of the end of the string.
Code(sym) ==
  LET entry == huff_sym_table[sym + 1] IN Bits(entry[2], entry[1])

-----------------------------------------------------------------------------
(* Encoding. *)

\* Faulty variant: the octet that the last bits begin is not counted.
CountWhole(src) ==
  FoldLeft(LAMBDA sum, c : sum + huff_sym_table[c + 1][1], 0, src) \div 8

http2_head_huffman_encode_count(src) ==
  (FoldLeft(LAMBDA sum, c : sum + huff_sym_table[c + 1][1], 0, src) + 7) \div 8

\* The whole octets of the first n bits of the accumulator.
Emit(acc, n) ==
  [out  |-> acc.out \o [i \in 1..(n \div 8) |->
              Number(SubSeq(acc.bits, 8 * i - 7, 8 * i))],
   bits |-> SubSeq(acc.bits, n + 1, Len(acc.bits)),
   room |-> acc.room - n \div 8]

EmitWhole(acc) == Emit(acc, 8 * (Len(acc.bits) \div 8))

\* With 32 bits gathered four octets leave at once, or, in the last four octets
\* of the buffer, every whole octet.
Gathered(acc) ==
  IF Len(acc.bits) < 32 THEN acc
  ELSE IF acc.room >= 4 THEN Emit(acc, 32)
  ELSE EmitWhole(acc)

\* The body of the loop.
EncodeSymbol(acc, c) == Gathered([acc EXCEPT !.bits = @ \o Code(c)])

\* The last octet is filled with ones.
FillUp(acc) ==
  IF acc.bits = <<>> THEN acc
  ELSE Emit([acc EXCEPT !.bits = @ \o [i \in 1..(8 - Len(@)) |-> 1]], 8)

\* The octets written into a buffer of dstlen octets, and the room left.
http2_head_huffman_encode(dstlen, src) ==
  FillUp(EmitWhole(
    FoldLeft(EncodeSymbol, [out |-> <<>>, bits |-> <<>>, room |-> dstlen], src)))

-----------------------------------------------------------------------------
(* Decoding.  A context is the flags and the state of the last entry. *)

HTTP2_HUFF_ACCEPTED == 16384   \* 1 << 14
HTTP2_HUFF_SYM      == 32768   \* 1 << 15

Accepted(fstate)    == (fstate \div HTTP2_HUFF_ACCEPTED) % 2 = 1
EmitsSymbol(fstate) == (fstate \div HTTP2_HUFF_SYM) % 2 = 1

http2_head_huffman_decode_context_init == HTTP2_HUFF_ACCEPTED

\* http2_head_huffman_decode_failure_state.
Failure(fstate) == fstate = 256

\* Faulty variant: eight bits of the state are used, not nine.
LookupByte(fstate, half) ==
  LET entry == huff_decode_table[(fstate % 256) + 1][half + 1]
  IN  [fstate |-> entry[1], sym |-> entry[2]]

\* huff_decode_table[t->fstate & 0x1ff][half].
Lookup(fstate, half) ==
  LET entry == huff_decode_table[(fstate % 512) + 1][half + 1]
  IN  [fstate |-> entry[1], sym |-> entry[2]]

\* The entry t of the table: the symbol it completes goes into the buffer of
\* buflen octets, if there is room.
Take(acc, t, buflen) ==
  IF acc.full \/ (EmitsSymbol(t.fstate) /\ Len(acc.out) >= buflen)
  THEN [acc EXCEPT !.full = TRUE]
  ELSE [acc EXCEPT !.fstate = t.fstate,
                   !.out = IF EmitsSymbol(t.fstate) THEN Append(@, t.sym) ELSE @]

\* One half octet.
DecodeHalf(acc, half, buflen) == Take(acc, Lookup(acc.fstate, half), buflen)

DecodeFailed == [ok |-> FALSE, string |-> <<>>]

Decoded(acc) ==
  IF acc.full \/ ~Accepted(acc.fstate)
  THEN DecodeFailed
  ELSE [ok |-> TRUE, string |-> acc.out]

\* The whole input at once (fin = 1), as decode_string calls it.
http2_head_huffman_decode(src, buflen) ==
  Decoded(FoldLeft(
    LAMBDA acc, c : DecodeHalf(DecodeHalf(acc, c \div 16, buflen), c % 16, buflen),
    [fstate |-> http2_head_huffman_decode_context_init, out |-> <<>>, full |-> FALSE],
    src))

-----------------------------------------------------------------------------
(* What the code means, without the automaton: the reference definition. *)

\* The symbol whose code the bits b begin with, if any; codes are prefix-free.
Completed(b) == {s \in Octets \cup {EndOfString} : IsPrefix(Code(s), b)}
=============================================================================
