---------------------------- MODULE HpackDecoder ----------------------------
(***************************************************************************)
(* The HPACK decoder: decode_headers of src/hpack/hpack.cc and the dynamic *)
(* table of src/hpack/dynamic_metadata.cc.  The table is a record d of the *)
(* deque of fields, newest first, the size kept beside it, and the maximum *)
(* size.  The octets of a representation are those of HpackEncoder; what a *)
(* string or an integer may do wrong is not part of this module.           *)
(***************************************************************************)
EXTENDS HpackEncoder

\* _max_table_size_limit: update_max_table_size_limit, which would change
\* it, is not called by the library.
max_table_size_limit == InitialTableSize

dynamic_metadata_table ==
  [table |-> <<>>, current_table_size |-> 0, max_table_size |-> InitialTableSize]

EntrySize(f) == KeySize[f.key] + ValueSize[f.value] + Overhead

\* The size of the n oldest entries: those at the back of the deque.
BackSize(table, n) == Total([i \in 1..n |-> EntrySize(table[Len(table) - i + 1])])

\* Faulty variant: one entry too many is evicted from a table exactly full.
AdjustBelow(d) ==
  LET n == Min({n \in 0..Len(d.table) :
                  \/ d.current_table_size - BackSize(d.table, n) < d.max_table_size
                  \/ n = Len(d.table)})
  IN  [d EXCEPT !.table = SubSeq(@, 1, Len(@) - n),
                !.current_table_size = @ - BackSize(d.table, n)]

adjust_dynamic_table_size(d) ==
  LET n == Min({n \in 0..Len(d.table) :
                  \/ d.current_table_size - BackSize(d.table, n) <= d.max_table_size
                  \/ n = Len(d.table)})
  IN  [d EXCEPT !.table = SubSeq(@, 1, Len(@) - n),
                !.current_table_size = @ - BackSize(d.table, n)]

push_mdelem_data(d, f) ==
  adjust_dynamic_table_size(
    [d EXCEPT !.table = <<f>> \o @, !.current_table_size = @ + EntrySize(f)])

\* Faulty variant: a smaller maximum takes effect with the next insertion only.
UpdateWithoutAdjust(d, size) == [d EXCEPT !.max_table_size = size]

update_max_table_size(d, size) ==
  adjust_dynamic_table_size([d EXCEPT !.max_table_size = size])

\* The field an index refers to; {} when there is none.
get_mdelem_data(d, index) ==
  LET i == index - Len(StaticTable)
  IN  IF index \in 1..Len(StaticTable) THEN {StaticTable[index]}
      ELSE IF i \in 1..Len(d.table) THEN {d.table[i]} ELSE {}

-----------------------------------------------------------------------------
(* One representation.  The result carries the table, the fields decoded   *)
(* so far and the error that ended the decoding.                           *)

NoError == "NoError"
CompressionError == "CompressionError"

Fails(acc) == [acc EXCEPT !.error = CompressionError]

decode_indexed(acc, rep) ==
  LET found == get_mdelem_data(acc.d, rep.index)
  IN  IF found = {} THEN Fails(acc)
      ELSE [acc EXCEPT !.fields = @ \o <<CHOOSE f \in found : TRUE>>]

decode_size_update(acc, rep) ==
  IF rep.index > max_table_size_limit THEN Fails(acc)
  ELSE [acc EXCEPT !.d = update_max_table_size(@, rep.index)]

decode_literal(acc, rep) ==
  LET named == IF rep.index = 0 THEN {rep.key}
               ELSE {f.key : f \in get_mdelem_data(acc.d, rep.index)}
      field == [key |-> CHOOSE k \in named : TRUE, value |-> rep.value]
      added == IF rep.kind = "incremental"
               THEN push_mdelem_data(acc.d, field) ELSE acc.d
  IN  IF named = {} THEN Fails(acc)
      ELSE [acc EXCEPT !.d = added, !.fields = Append(@, field)]

decode_representation(acc, rep) ==
  CASE acc.error # NoError -> acc
    [] acc.error = NoError /\ rep.kind = "indexed" -> decode_indexed(acc, rep)
    [] acc.error = NoError /\ rep.kind = "update" -> decode_size_update(acc, rep)
    [] acc.error = NoError /\ rep.kind \in {"incremental", "literal"} ->
         decode_literal(acc, rep)

\* decode_headers on the representations of one frame.  cut: the frame ends
\* within a further representation, and that is noticed.  (It is not noticed
\* within a Huffman-coded value: HpackReceiver, ReceivedOverrun.)
decode_headers(d, block, cut) ==
  LET first == [d |-> d, fields |-> <<>>, error |-> NoError]
      run[i \in 0..Len(block)] ==
        IF i = 0 THEN first ELSE decode_representation(run[i - 1], block[i])
      whole == run[Len(block)]
  IN  IF cut /\ whole.error = NoError THEN Fails(whole) ELSE whole
=============================================================================
