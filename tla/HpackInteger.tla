---------------------------- MODULE HpackInteger ----------------------------
(***************************************************************************)
(* The integers of HPACK (RFC 7541, 5.1): uint16_encode_impl of            *)
(* src/hpack/encode.cc and decode_uint32 of src/hpack/decode.cc.  An       *)
(* integer is a prefix in the first octet and, when that is all ones,      *)
(* groups of bits, least significant first, each octet but the last with   *)
(* the continuation bit set.  The machine word is a parameter: 32 bits and *)
(* groups of 7 in the code, smaller here so that every input can be tried. *)
(***************************************************************************)
EXTENDS Integers, SequencesExt

CONSTANTS
  WordBits,   \* width of the decoded integer: 32
  GroupBits   \* bits of an octet beside the continuation bit: 7

ASSUME IntegerAssumption ==
  /\ WordBits \in Nat \ {0}
  /\ GroupBits \in Nat \ {0}

Word == 0..(2^WordBits - 1)

\* A continuation octet: its group of bits and the bit 0x80.
Octet == [bits : 0..(2^GroupBits - 1), more : BOOLEAN]

\* An integer on the wire: the prefix and the octets after it.
Encoded(prefix, octets) == [prefix |-> prefix, octets |-> octets]

-----------------------------------------------------------------------------
(* Encoding: n has been reduced by the mask. *)

\* Faulty variant: the loop goes on while more than 128 is left.
GroupsOffByOne(n) ==
  CHOOSE g \in 1..(WordBits + 1) :
    n <= 2^(GroupBits * g) /\ (g > 1 => n > 2^(GroupBits * (g - 1)))

\* The groups that the loop of uint16_encode_length counts.
Groups(n) ==
  CHOOSE g \in 1..(WordBits + 1) :
    n < 2^(GroupBits * g) /\ (g > 1 => n >= 2^(GroupBits * (g - 1)))

uint16_encode_length(value, mask) ==
  IF value < mask THEN 1 ELSE 1 + Groups(value - mask)

uint16_encode_impl(value, mask) ==
  LET rest  == value - mask
      count == Groups(rest)
  IN  IF value < mask
      THEN Encoded(value, <<>>)
      ELSE Encoded(mask, [i \in 1..count |->
             [bits |-> (rest \div 2^(GroupBits * (i - 1))) % 2^GroupBits,
              more |-> i < count]])

-----------------------------------------------------------------------------
(* Decoding. *)

Rejected == [value |-> -1, used |-> 0]

\* Faulty variant: an octet is rejected when its group does not fit whole.
AccumulateWhole(acc, octets, i) ==
  LET M == GroupBits * (i - 1)
  IN  IF acc = Rejected \/ M + GroupBits > WordBits
           \/ acc.value + octets[i].bits * 2^M >= 2^WordBits
      THEN Rejected
      ELSE [value |-> acc.value + octets[i].bits * 2^M, used |-> i]

\* The body of the loop for octet i, on what the octets before it gave.  The
\* shift is one of WordBits: what it moves out of the word is lost.
Accumulate(acc, octets, i) ==
  LET M      == GroupBits * (i - 1)
      addend == (octets[i].bits * 2^M) % 2^WordBits
  IN  IF acc = Rejected \/ M >= WordBits \/ acc.value > 2^WordBits - 1 - addend
      THEN Rejected
      ELSE [value |-> acc.value + addend, used |-> i]

decode_uint32(e, mask) ==
  LET ends == {i \in 1..Len(e.octets) : ~e.octets[i].more}
  IN  IF e.prefix # mask THEN [value |-> e.prefix, used |-> 0]
      ELSE IF ends = {} THEN Rejected
      ELSE FoldLeft(LAMBDA acc, i : Accumulate(acc, e.octets, i),
                    [value |-> mask, used |-> 0],
                    [i \in 1..Min(ends) |-> i])

-----------------------------------------------------------------------------
(* What RFC 7541 says of the same octets, without a machine word. *)

Meaning(e, mask) ==
  LET ends == {i \in 1..Len(e.octets) : ~e.octets[i].more}
  IN  IF e.prefix # mask THEN [value |-> e.prefix, used |-> 0]
      ELSE IF ends = {} THEN Rejected
      ELSE [value |-> mask + MapThenSumSet(
                        LAMBDA i : e.octets[i].bits * 2^(GroupBits * (i - 1)),
                        1..Min(ends)),
            used |-> Min(ends)]
=============================================================================
