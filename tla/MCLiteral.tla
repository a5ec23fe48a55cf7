------------------------------ MODULE MCLiteral ------------------------------
(***************************************************************************)
(* The literals of a header block: integers, the Huffman code and strings. *)
(* A behaviour takes up one task: to decode an integer, to read half       *)
(* octets with the automaton of huff_decode_table for as long as it likes, *)
(* to parse a field that an encoder has written, or to parse a literal     *)
(* that the block ends within.                                             *)
(***************************************************************************)
EXTENDS HpackInteger, HpackString

CONSTANTS
  Masks,       \* prefix masks of integers: INT_MASK(4) to INT_MASK(7) in the code
  MaxOctets,   \* bound: octets of an integer after the prefix
  Letters,     \* octets of the strings
  MaxLetters   \* bound: octets of a string of different letters

VARIABLE task

NotYet == [value |-> -2, used |-> 0]

-----------------------------------------------------------------------------
(* Integers. *)

Inputs(m) ==
  {uint16_encode_impl(v, m) : v \in Word}
  \cup {Encoded(m, octets) : octets \in BoundedSeq(Octet, MaxOctets)}

InitInteger ==
  \E m \in Masks : \E e \in Inputs(m) :
    task = [kind |-> "integer", mask |-> m, input |-> e, result |-> NotYet]

DecodeInteger ==
  /\ task.kind = "integer"
  /\ task.result = NotYet
  /\ task' = [task EXCEPT !.result = decode_uint32(task.input, task.mask)]

-----------------------------------------------------------------------------
(* The automaton, and beside it the bits since the last symbol; behind the *)
(* code of the end of the string the bits stay as they are.                *)

InitHuffman ==
  task = [kind |-> "huffman", fstate |-> http2_head_huffman_decode_context_init,
          pending |-> <<>>]

\* What another half octet means: the code it completes, and the bits behind it.
Reading(half) ==
  LET bits == task.pending \o Bits(half, 4)
      done == Completed(bits)
      code == Code(CHOOSE s \in done : TRUE)
  IN  [symbol  |-> done,
       pending |-> IF done = {} THEN bits
                   ELSE IF done = {EndOfString} THEN code
                   ELSE SubSeq(bits, Len(code) + 1, Len(bits))]

ReadHalf(half) ==
  /\ task.kind = "huffman"
  /\ task' = [task EXCEPT !.fstate = Lookup(task.fstate, half).fstate,
                          !.pending = Reading(half).pending]

-----------------------------------------------------------------------------
(* Strings: the plain ones of this library, and those of a peer that codes *)
(* them with http2_head_huffman_encode.                                    *)

Words == BoundedSeq(Letters, MaxLetters)

\* Strings whose length is about 127, where it takes a second octet, and about
\* 255, where it takes a third.
Runs == {[i \in 1..n |-> 48] : n \in {126, 127, 128, 254, 255, 256}}

HuffmanOctets(text) ==
  http2_head_huffman_encode(http2_head_huffman_encode_count(text), text).out

HuffmanLiteral(text) ==
  LET plain == StringOctets(HuffmanOctets(text)) IN <<Head(plain) + 128>> \o Tail(plain)

Field(name, text, huffman) ==
  IF huffman
  THEN <<64>> \o HuffmanLiteral(name) \o HuffmanLiteral(text)
  ELSE encode_mdelem_data_impl(name, text, 64)

InitString ==
  \E text \in Words \cup Runs, name \in BoundedSeq(Letters, 2), huffman \in BOOLEAN :
    /\ huffman => text \in Words
    /\ task = [kind |-> "string", name |-> name, text |-> text, huffman |-> huffman,
               field |-> Field(name, text, huffman), at |-> "key",
               key |-> ParseFailed, value |-> ParseFailed]

\* The name, and then the value behind it.
ParseKey ==
  /\ task.kind = "string" /\ task.at = "key"
  /\ task' = [task EXCEPT !.key = parse_string_key(Tail(task.field), <<>>), !.at = "value"]

ParseValue ==
  /\ task.kind = "string" /\ task.at = "value" /\ task.key.ok
  /\ task' = [task EXCEPT
                !.value = parse_string(SubSeq(task.field, task.key.used + 2, Len(task.field)), <<>>),
                !.at = "end"]

-----------------------------------------------------------------------------
(* Literals that are cut after n octets.  Behind the block lies what was   *)
(* cut off or, where it matters, anything else.                            *)

InitCut ==
  \E text \in BoundedSeq(Letters, 2) \cup Runs, huffman \in BOOLEAN :
    /\ huffman => text \notin Runs
    /\ task = [kind |-> "cut", text |-> text, huffman |-> huffman,
               literal |-> IF huffman THEN HuffmanLiteral(text) ELSE StringOctets(text),
               n |-> 0, value |-> ParseFailed]

\* What may lie behind the n octets of a literal that are in the block.
Behind(n) ==
  {SubSeq(task.literal, n + 1, Len(task.literal))}
  \cup {[i \in 1..(Len(task.literal) - n) |-> c] : c \in IF task.huffman THEN {0, 255} ELSE {}}

ParseCut(n, behind) ==
  /\ task.n = 0
  /\ task' = [task EXCEPT !.value = parse_string(SubSeq(task.literal, 1, n), behind), !.n = n]

ParseCutSomewhere ==
  /\ task.kind = "cut"
  /\ \E n \in 1..(Len(task.literal) - 1) : \E behind \in Behind(n) : ParseCut(n, behind)

-----------------------------------------------------------------------------
Init == InitInteger \/ InitHuffman \/ InitString \/ InitCut

Next ==
  \/ DecodeInteger
  \/ \E half \in 0..15 : ReadHalf(half)
  \/ ParseKey
  \/ ParseValue
  \/ ParseCutSomewhere

Spec == Init /\ [][Next]_task

-----------------------------------------------------------------------------
\* What uint16_encode_impl writes, decode_uint32 reads back, for every word
\* and every prefix; it writes as many octets as uint16_encode_length has
\* reserved for it, and decode_uint32 consumes them all.
IntegerRoundTrip ==
  task.kind = "integer" /\ task.result # NotYet =>
    \A v \in Word :
      LET e == uint16_encode_impl(v, task.mask)
      IN  e = task.input =>
            /\ task.result.value = v
            /\ task.result.used = Len(e.octets)
            /\ 1 + Len(e.octets) = uint16_encode_length(v, task.mask)

\* An integer that fits in a word and ends within as many octets as the word has
\* groups, however it is padded with zeros, is read as RFC 7541 means it, the
\* partial last group included; one that does not end is rejected.
FittingIntegerIsRead ==
  task.kind = "integer" /\ task.result # NotYet =>
    LET means == Meaning(task.input, task.mask)
    IN  \/ means = task.result
        \/ means.value \notin Word /\ means # Rejected
        \/ GroupBits * (means.used - 1) >= WordBits

\* decode.cc:24, "Reject overflow ... the addition must not wrap": what
\* decode_uint32 accepts is the integer that was encoded.
OverflowIsRejected ==
  task.kind = "integer" /\ task.result \notin {NotYet, Rejected} =>
    task.result = Meaning(task.input, task.mask)

\* The decoder's table follows the encoder's: whatever half octets have been
\* read, the next one completes a symbol in huff_decode_table exactly where
\* huff_sym_table has its code, the automaton is in the failure state exactly
\* behind the code of the end of the string, and a string may end exactly
\* behind less than an octet of ones.
TableFollowsCode ==
  task.kind = "huffman" =>
    /\ \A half \in 0..15 :
         LET t == Lookup(task.fstate, half)
         IN  Reading(half).symbol \ {EndOfString} =
               IF EmitsSymbol(t.fstate) THEN {t.sym} ELSE {}
    /\ Failure(task.fstate) <=> task.pending = Code(EndOfString)
    /\ Accepted(task.fstate) <=>
         /\ Len(task.pending) < 8
         /\ \A i \in DOMAIN task.pending : task.pending[i] = 1

\* http2_head_huffman_encode fills exactly the buffer that
\* http2_head_huffman_encode_count has measured, never writing behind it, and
\* http2_head_huffman_decode gives the string back.
HuffmanRoundTrip ==
  task.kind = "string" /\ task.huffman =>
    LET count == http2_head_huffman_encode_count(task.text)
        coded == http2_head_huffman_encode(count, task.text)
    IN  /\ Len(coded.out) = count /\ coded.room = 0
        /\ decode_string(coded.out) = [ok |-> TRUE, string |-> task.text]

\* A field comes back from the wire as it was written, plain or Huffman-coded,
\* and the parser stops exactly at its end; only a plain name with an upper case
\* letter is refused.  encode_mdelem_data_impl writes as much as it allocates.
FieldRoundTrip ==
  task.kind = "string" =>
    LET refused == ~task.huffman /\ HasUpper(task.name)
    IN  /\ task.at # "key" => (task.key.ok <=> ~refused)
        /\ task.at = "end" =>
             /\ task.value.ok
             /\ task.key.string = task.name /\ task.value.string = task.text
             /\ 1 + task.key.used + task.value.used = Len(task.field)
        /\ ~task.huffman => Len(task.field) = MdelemBytes(task.name, task.text)

\* The letters of the text whose codes are whole in the octets of a block.
WholeLetters(text, octets) ==
  {k \in 0..Len(text) : MapThenSumSet(LAMBDA i : Len(Code(text[i])), 1..k) <= 8 * octets}

\* A literal that the block ends within is refused, wherever it is cut and
\* whatever lies behind the block, unless it is Huffman-coded and cut behind its
\* length.  That one may be taken; then the parser stops where the whole literal
\* would have ended, and the letters that are whole in the block are right.
CutLiteralIsRefused ==
  task.kind = "cut" /\ task.value.ok =>
    LET len == StringLength(SubSeq(task.literal, 1, task.n))
    IN  /\ task.huffman /\ len.ok
        /\ task.value.used = Len(task.literal)
        /\ \A k \in WholeLetters(task.text, task.n - len.used) :
             IsPrefix(SubSeq(task.text, 1, k), task.value.string)
=============================================================================
