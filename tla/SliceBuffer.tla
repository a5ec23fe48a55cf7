---------------------------- MODULE SliceBuffer ----------------------------
(***************************************************************************)
(* The queue of slices of utils/slice_buffer.cc: a vector, the index of    *)
(* its first slice that is not consumed, and the number of bytes left.     *)
(* Consumed slices stay in the vector, with their references, until        *)
(* _compact erases them.                                                   *)
(***************************************************************************)
EXTENDS Slice, Totals

EmptyBuffer == [vs |-> <<>>, start |-> 0, length |-> 0]

\* The slices that are not consumed.
Current(buf) == SubSeq(buf.vs, buf.start + 1, Len(buf.vs))

slice_count(buf) == Len(buf.vs) - buf.start

\* The sizes of the first and of the last slice that are left.
FirstSize(buf) == IF slice_count(buf) > 0 THEN buf.vs[buf.start + 1].len ELSE 0
LastSize(buf) == IF slice_count(buf) > 0 THEN Last(buf.vs).len ELSE 0

\* The bytes that the slices ss show, one after the other.
Joined(h, ss) ==
  LET upto[i \in 0..Len(ss)] == IF i = 0 THEN <<>> ELSE upto[i - 1] \o Content(h, ss[i])
  IN  upto[Len(ss)]

BufferBytes(h, buf) == Joined(h, Current(buf))

add_slice(buf, s) ==
  IF s.len = 0 THEN buf
  ELSE [buf EXCEPT !.vs = Append(@, s), !.length = @ + s.len]

MustCompact(buf) == buf.start > 0 /\ (buf.start >= Len(buf.vs) \/ buf.start > Len(buf.vs) \div 2)

\* Faulty variant: the index is left at the place the slices had before.
CompactKeepStart(h, buf) ==
  IF ~MustCompact(buf) THEN [heap |-> h, buf |-> buf]
  ELSE [heap |-> UnrefAll(h, SubSeq(buf.vs, 1, buf.start)),
        buf |-> [buf EXCEPT !.vs = Current(buf), !.start = Min({buf.start - 1, Len(Current(buf))})]]

\* _compact: the erased slices drop their references.
Compact(h, buf) ==
  IF ~MustCompact(buf) THEN [heap |-> h, buf |-> buf]
  ELSE [heap |-> UnrefAll(h, SubSeq(buf.vs, 1, buf.start)),
        buf |-> [buf EXCEPT !.vs = Current(buf), !.start = 0]]

\* The bytes of the first i slices that are left, and how many slices n bytes
\* reach to the end of.
SizeTo(buf, i) == Total([k \in 1..i |-> buf.vs[buf.start + k].len])
Whole(buf, n) == Max({i \in 0..slice_count(buf) : SizeTo(buf, i) <= n})

\* The loop of move_header: whole slices are passed over, the last one is cut.
PassOver(buf, n) ==
  LET left == n - SizeTo(buf, Whole(buf, n))
      at == buf.start + Whole(buf, n)
  IN  [vs |-> IF left = 0 THEN buf.vs
              ELSE [buf.vs EXCEPT ![at + 1] = SlicePopFront(@, left)],
       start |-> at,
       length |-> buf.length - n]

move_header(h, buf, n) ==
  IF buf.length < n \/ n = 0 THEN [heap |-> h, buf |-> buf]
  ELSE Compact(h, PassOver(buf, n))

pop_front(h, buf) ==
  IF buf.start >= Len(buf.vs) THEN [heap |-> h, buf |-> buf]
  ELSE Compact(h, [buf EXCEPT !.length = @ - buf.vs[buf.start + 1].len, !.start = @ + 1])

\* pop_back does not compact: consumed slices may be all that is left.
pop_back(h, buf) ==
  IF buf.start >= Len(buf.vs) THEN [heap |-> h, buf |-> buf]
  ELSE [heap |-> Unref(h, Last(buf.vs)),
        buf |-> [buf EXCEPT !.length = @ - Last(buf.vs).len, !.vs = Front(@)]]

clear_buffer(h, buf) == [heap |-> UnrefAll(h, buf.vs), buf |-> EmptyBuffer]

\* One round of copy_to_buffer: what is left to copy, as far as the slice has it.
CopyFrom(h, acc, s) ==
  LET k == Min({acc.left, s.len})
  IN  [left |-> acc.left - k, out |-> acc.out \o Content(h, [s EXCEPT !.len = k])]

\* copy_to_buffer: the loop ends early when the slices run out.  Its assertion
\* that they do not is a guard of ReadData; the other callers have checked.
copy_to_buffer(h, buf, n) ==
  LET ss == Current(buf)
      run[i \in 0..Len(ss)] ==
        IF i = 0 THEN [left |-> n, out |-> <<>>] ELSE CopyFrom(h, run[i - 1], ss[i])
  IN  run[Len(ss)].out
=============================================================================
