--------------------------- MODULE HpackReceiver ----------------------------
(***************************************************************************)
(* The decoder of a connection, _dynamic_table, against peers with other   *)
(* encoders: every kind of representation, size updates included, in       *)
(* header blocks that may be cut into frames anywhere, within a string     *)
(* too.                                                                    *)
(***************************************************************************)
EXTENDS HpackDecoder

CONSTANT
  Representations   \* what other encoders send

\* Indices and sizes may be anything; strings are those with a known size.
ASSUME ReceiverAssumption ==
  /\ Representations \subseteq
       [kind : {"indexed", "update", "incremental", "literal"}, index : Nat,
        key : Keys \cup {""}, value : Values \cup {""}]
  /\ \A rep \in Representations :
       rep.kind \in {"incremental", "literal"} =>
         rep.value \in Values /\ (rep.index = 0 => rep.key \in Keys)

VARIABLES
  d,     \* _dynamic_table
  error  \* what decoding the last frame returned

receiverVars == <<d, error>>

ReceiverInit ==
  /\ d = dynamic_metadata_table
  /\ error = NoError

\* A HEADERS, PUSH_PROMISE or CONTINUATION frame, decoded by itself.
ReceivedFragment(block, cut) ==
  LET r == decode_headers(d, block, cut)
  IN  /\ d' = r.d
      /\ error' = r.error

\* A frame that ends within the octets of a Huffman-coded value.  parse_string
\* compares the length with nothing (decode.cc:78) and decodes what lies behind
\* the frame: it fails, which is a cut like any other, or some value comes out.
\* A name cut like that always fails, for want of the value's length.
ReceivedOverrun(rep, value) ==
  /\ rep.kind \in {"incremental", "literal"}
  /\ ReceivedFragment(<<[rep EXCEPT !.value = value]>>, FALSE)

\* A frame is decoded representation by representation: one is enough here.
ReceiverNext ==
  \/ \E rep \in Representations, cut \in BOOLEAN : ReceivedFragment(<<rep>>, cut)
  \/ \E rep \in Representations, value \in Values : ReceivedOverrun(rep, value)

ReceiverSpec == ReceiverInit /\ [][ReceiverNext]_receiverVars

-----------------------------------------------------------------------------
ReceiverTypeOK ==
  /\ d \in [table : Seq(Field), current_table_size : Nat, max_table_size : 0..InitialTableSize]
  /\ error \in {NoError, CompressionError}

\* The size kept beside the deque is that of its entries, and within the
\* maximum, which is within the limit, after any sequence of insertions,
\* updates and failed decodings.
TableFits ==
  /\ ReceiverTypeOK
  /\ d.current_table_size = BackSize(d.table, Len(d.table))
  /\ d.current_table_size <= d.max_table_size

\* RFC 7541, 4.3 and 4.4: entries leave from the old end only, and only when
\* the table with them would not fit.
EvictsOnlyWhatMust ==
  [][\E added \in {<<>>} \cup {<<f>> : f \in Field} :
       LET full == added \o d.table
           kept == Len(d'.table)
       IN  /\ kept <= Len(full)
           /\ d'.table = SubSeq(full, 1, kept)
           /\ kept < Len(full) =>
                BackSize(SubSeq(full, 1, kept + 1), kept + 1) > d'.max_table_size]_d
=============================================================================
