----------------------------- MODULE HpackString -----------------------------
(***************************************************************************)
(* String literals of HPACK: encode_mdelem_data_impl of src/hpack/encode.cc *)
(* writes them plain, parse_string and parse_string_key of                 *)
(* src/hpack/decode.cc read plain and Huffman-coded ones.  A literal is a  *)
(* sequence of octets; its length is an integer of HpackInteger in octets  *)
(* of 7 bits and the continuation bit 128.  TLC's numbers keep the word    *)
(* below 32 bits: the lengths here need two groups at most.                *)
(***************************************************************************)
EXTENDS Huffman

LOCAL Integer == INSTANCE HpackInteger WITH WordBits <- 28, GroupBits <- 7

LengthMask == 127   \* INT_MASK(7)

\* An integer of HpackInteger as octets, and octets read as one.
IntegerOctets(e) ==
  <<e.prefix>> \o [i \in DOMAIN e.octets |->
                     e.octets[i].bits + (IF e.octets[i].more THEN 128 ELSE 0)]
OctetsInteger(buf) ==
  Integer!Encoded(Head(buf) % 128,
    [i \in 1..(Len(buf) - 1) |-> [bits |-> buf[i + 1] % 128, more |-> buf[i + 1] >= 128]])

\* The length octets are written, the string copied behind them.
StringOctets(s) ==
  IntegerOctets(Integer!uint16_encode_impl(Len(s), LengthMask)) \o s

encode_mdelem_data_impl(key, value, type) ==
  <<type>> \o StringOctets(key) \o StringOctets(value)

\* The octets that encode_mdelem_data_impl allocates before it writes.
MdelemBytes(key, value) ==
  1 + Integer!uint16_encode_length(Len(key), LengthMask)
    + Integer!uint16_encode_length(Len(value), LengthMask)
    + Len(key) + Len(value)

-----------------------------------------------------------------------------
ParseFailed == [ok |-> FALSE, string |-> <<>>, used |-> 0]

\* The length that begins buf and the octets it takes, or a failure.
StringLength(buf) ==
  LET n == Integer!decode_uint32(OctetsInteger(buf), LengthMask)
  IN  [ok |-> n # Integer!Rejected, value |-> n.value, used |-> n.used + 1]

\* The buffer has three octets for one: no code is shorter than five bits.
decode_string(src) == http2_head_huffman_decode(src, 3 * Len(src))

isupper(c) == c \in 65..90
HasUpper(text) == \E i \in DOMAIN text : isupper(text[i])

\* Faulty variant: a plain string is copied as far as the block goes.
ParseToEnd(buf, behind, lower) ==
  LET len  == StringLength(buf)
      text == SubSeq(buf, len.used + 1, Len(buf))
  IN  IF buf = <<>> \/ ~len.ok THEN ParseFailed
      ELSE [ok |-> TRUE, string |-> text, used |-> Len(buf)]

\* A string as it stands in the block; a name may not have upper case letters.
PlainText(text, lower) ==
  [ok |-> ~(lower /\ HasUpper(text)), string |-> text]

\* What is behind the length len.  The length of a Huffman-coded string is
\* compared with nothing: where it exceeds the block, the octets that lie behind
\* the block in memory are decoded as well.
ParseText(huffman, len, buf, behind, lower) ==
  LET end  == len.used + len.value
      text == SubSeq(buf \o behind, len.used + 1, end)
      Used(r) == IF r.ok THEN [ok |-> TRUE, string |-> r.string, used |-> end] ELSE ParseFailed
  IN  IF ~len.ok \/ (~huffman /\ end > Len(buf)) THEN ParseFailed
      ELSE Used(IF huffman THEN decode_string(text) ELSE PlainText(text, lower))

\* parse_string and parse_string_key differ in that a plain name with an upper
\* case letter is refused.  behind: the memory behind the block.
Parse(buf, behind, lower) ==
  IF buf = <<>> THEN ParseFailed
  ELSE ParseText(Head(buf) >= 128, StringLength(buf), buf, behind, lower)

parse_string(buf, behind) == Parse(buf, behind, FALSE)

\* Faulty variant: names in upper case are let through.
ParseKeyAnyCase(buf, behind) == Parse(buf, behind, FALSE)

parse_string_key(buf, behind) == Parse(buf, behind, TRUE)
=============================================================================
