-------------------------------- MODULE Slice --------------------------------
(***************************************************************************)
(* The reference-counted byte ranges of utils/slice.cc.  A heap has a      *)
(* count and the bytes of every block; a slice is a block with the part of *)
(* it that it shows.  Static slices point to bytes that somebody else owns *)
(* and have no count.  Operators take a heap and return the changed one.   *)
(***************************************************************************)
EXTENDS Integers, Sequences, SequencesExt, FiniteSets, FiniteSetsExt

CONSTANTS
  Blocks,        \* memory blocks that malloc hands out
  NoBlock,       \* _refs == nullptr
  StaticBlock,   \* _refs == &s_static_sentinel
  StaticBytes    \* the bytes a static slice points to

Byte == 0..255

ASSUME SliceAssumption ==
  /\ NoBlock \notin Blocks /\ StaticBlock \notin Blocks /\ NoBlock # StaticBlock
  /\ StaticBytes \in Seq(Byte)

EmptyHeap == [refs |-> [b \in Blocks |-> 0], mem |-> [b \in Blocks |-> <<>>]]

EmptySlice == [block |-> NoBlock, off |-> 0, len |-> 0]

IsSlice(s) ==
  /\ s.block \in Blocks \cup {NoBlock, StaticBlock}
  /\ s.off \in Nat /\ s.len \in Nat

Free(h) == {b \in Blocks : h.refs[b] = 0}

\* The bytes a slice points into.
Memory(h, s) ==
  IF s.block \in Blocks THEN h.mem[s.block]
  ELSE IF s.block = StaticBlock THEN StaticBytes ELSE <<>>

\* The bytes that a slice shows; what lies beyond its block is not shown.
Content(h, s) ==
  LET m == Memory(h, s)
  IN  SubSeq(m, s.off + 1, Min({s.off + s.len, Len(m)}))

-----------------------------------------------------------------------------
Ref(h, s) ==
  IF s.block \in Blocks THEN [h EXCEPT !.refs[s.block] = @ + 1] ELSE h

\* Faulty variant: the block is freed when one reference is left.
UnrefEarly(h, s) ==
  IF s.block \notin Blocks THEN h
  ELSE [h EXCEPT !.refs[s.block] = @ - 1,
                 !.mem[s.block] = IF h.refs[s.block] <= 2 THEN <<>> ELSE @]

\* unref: free at the last reference; the bytes are gone then.
Unref(h, s) ==
  IF s.block \notin Blocks THEN h
  ELSE [h EXCEPT !.refs[s.block] = @ - 1,
                 !.mem[s.block] = IF h.refs[s.block] = 1 THEN <<>> ELSE @]

UnrefAll(h, ss) ==
  LET after[i \in 0..Len(ss)] == IF i = 0 THEN h ELSE Unref(after[i - 1], ss[i])
  IN  after[Len(ss)]

\* slice(ptr, len) and MakeSliceByLength filled with the bytes: a fresh block
\* with one reference; no block for no bytes.
Construct(h, bs, b) ==
  IF bs = <<>> THEN [heap |-> h, slice |-> EmptySlice]
  ELSE [heap |-> [h EXCEPT !.refs[b] = 1, !.mem[b] = bs],
        slice |-> [block |-> b, off |-> 0, len |-> Len(bs)]]

MakeStaticSlice(n) ==
  IF n = 0 THEN EmptySlice ELSE [block |-> StaticBlock, off |-> 0, len |-> n]

\* Faulty variant: operator= without the reference of the other.
CopyAssignNoRef(h, old, new) == Unref(h, old)

\* operator=(const slice &), this # &oth: the old block is let go first.
CopyAssign(h, old, new) == Ref(Unref(h, old), new)

\* operator=(slice &&): the reference moves over from the other.
MoveAssign(h, old) == Unref(h, old)

\* Faulty variant: the length stays as it was.
SlicePopFrontKeepLength(s, n) == [s EXCEPT !.off = @ + Min({n, s.len})]

SlicePopFront(s, n) == LET k == Min({n, s.len}) IN [s EXCEPT !.off = @ + k, !.len = @ - k]

SlicePopBack(s, n) == [s EXCEPT !.len = @ - Min({n, s.len})]
=============================================================================
