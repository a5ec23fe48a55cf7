----------------------------- MODULE StreamData -----------------------------
(***************************************************************************)
(* What a stream keeps of the received data (http2/stream.cc) and how the  *)
(* application takes it, on the slices and slice buffers of utils/.  Next  *)
(* to the stream's own calls, callers use slices and buffers directly:     *)
(* every operation of both classes is an action.                           *)
(***************************************************************************)
EXTENDS SliceBuffer

CONSTANTS
  Objects,     \* slice objects of the callers
  Payloads,    \* byte sequences that DATA frames and callers bring
  MaxSlices,   \* bound: slices that hold bytes, in objects and in the vector
  MaxBytes,    \* bound: bytes in the buffer
  MaxBlock,    \* bound: bytes in a block
  NDEBUG       \* whether the build leaves assertions out

ASSUME StreamDataAssumption ==
  /\ IsFiniteSet(Objects)
  /\ Payloads \subseteq Seq(Byte)
  /\ MaxSlices \in Nat /\ MaxBytes \in Nat /\ MaxBlock \in Nat
  /\ NDEBUG \in BOOLEAN

VARIABLES
  heap,      \* the blocks with their counts
  obj,       \* the callers' slice objects
  buf,       \* _data_cache
  call,      \* what this step asks of the buffer: the operation and its argument
  got,       \* the bytes this step handed out
  peeked     \* what PeekData pointed to, until the read that reaches its end

vars == <<heap, obj, buf, call, got, peeked>>

\* A call with a number of bytes, and one that brings bytes.
Ask(op, n) == [op |-> op, n |-> n, bytes |-> <<>>]
Bring(bs) == [op |-> "write", n |-> 0, bytes |-> bs]
Quiet == Ask("look", 0)

NoPeek == [slice |-> EmptySlice, bytes |-> <<>>]

TypeOK ==
  /\ heap.refs \in [Blocks -> Nat]
  /\ \A o \in Objects : IsSlice(obj[o])
  /\ \A i \in 1..Len(buf.vs) : IsSlice(buf.vs[i])
  /\ buf.start \in 0..Len(buf.vs) /\ buf.length \in Nat

Init ==
  /\ heap = EmptyHeap
  /\ obj = [o \in Objects |-> EmptySlice]
  /\ buf = EmptyBuffer
  /\ call = Quiet /\ got = <<>> /\ peeked = NoPeek

-----------------------------------------------------------------------------
\* The callers' slice objects.

Held == Len(buf.vs) + Cardinality({o \in Objects : obj[o].block # NoBlock})

\* o = r.slice, a temporary that goes away: a move assignment.
Receive(o, r) ==
  /\ Held < MaxSlices \/ obj[o].block # NoBlock
  /\ heap' = MoveAssign(r.heap, obj[o])
  /\ obj' = [obj EXCEPT ![o] = r.slice]

SliceConstruct(o, bs) ==
  /\ \E b \in Free(heap) : Receive(o, Construct(heap, bs, b))
  /\ call' = Quiet /\ got' = <<>> /\ UNCHANGED <<buf, peeked>>

SliceStatic(o, n) ==
  /\ Receive(o, [heap |-> heap, slice |-> MakeStaticSlice(n)])
  /\ call' = Quiet /\ got' = <<>> /\ UNCHANGED <<buf, peeked>>

SliceCopy(o, p) ==
  /\ o # p
  /\ Held < MaxSlices \/ obj[o].block # NoBlock
  /\ heap' = CopyAssign(heap, obj[o], obj[p])
  /\ obj' = [obj EXCEPT ![o] = obj[p]]
  /\ call' = Quiet /\ got' = <<>> /\ UNCHANGED <<buf, peeked>>

SliceMove(o, p) ==
  /\ o # p
  /\ heap' = MoveAssign(heap, obj[o])
  /\ obj' = [obj EXCEPT ![o] = obj[p], ![p] = EmptySlice]
  /\ call' = Quiet /\ got' = <<>> /\ UNCHANGED <<buf, peeked>>

SliceCut(o, n) ==
  /\ obj' = [obj EXCEPT ![o] = SlicePopFront(@, n)] \/ obj' = [obj EXCEPT ![o] = SlicePopBack(@, n)]
  /\ call' = Quiet /\ got' = <<>> /\ UNCHANGED <<heap, buf, peeked>>

\* o += p: operator+ copies both into a fresh block, which o then takes.
SliceAppend(o, p) ==
  /\ obj[o].len + obj[p].len <= MaxBlock
  /\ \E b \in Free(heap) :
       Receive(o, Construct(heap, Content(heap, obj[o]) \o Content(heap, obj[p]), b))
  /\ call' = Quiet /\ got' = <<>> /\ UNCHANGED <<buf, peeked>>

-----------------------------------------------------------------------------
\* The buffer, used directly.

AddSlice(o) ==
  /\ Held < MaxSlices /\ buf.length + obj[o].len <= MaxBytes
  /\ buf' = add_slice(buf, obj[o])
  /\ heap' = IF buf' = buf THEN heap ELSE Ref(heap, obj[o])
  /\ call' = Bring(Content(heap, obj[o]))
  /\ got' = <<>> /\ UNCHANGED <<obj, peeked>>

AddSliceMove(o) ==
  /\ buf.length + obj[o].len <= MaxBytes
  /\ buf' = add_slice(buf, obj[o])
  /\ obj' = IF buf' = buf THEN obj ELSE [obj EXCEPT ![o] = EmptySlice]
  /\ call' = Bring(Content(heap, obj[o]))
  /\ got' = <<>> /\ UNCHANGED <<heap, peeked>>

Apply(r) == heap' = r.heap /\ buf' = r.buf

\* The peeked slice has been consumed to its end, or dropped.
ForgetPeek(n) ==
  peeked' = IF buf.start < Len(buf.vs) /\ n < buf.vs[buf.start + 1].len THEN peeked ELSE NoPeek

MoveHeader(n) ==
  /\ Apply(move_header(heap, buf, n))
  /\ ForgetPeek(n)
  /\ call' = Ask("skip", n) /\ got' = <<>> /\ UNCHANGED obj

PopFront ==
  /\ Apply(pop_front(heap, buf)) /\ peeked' = NoPeek
  /\ call' = Ask("skip", FirstSize(buf)) /\ got' = <<>> /\ UNCHANGED obj

PopBack ==
  /\ Apply(pop_back(heap, buf)) /\ peeked' = NoPeek
  /\ call' = Ask("keep", buf.length - LastSize(buf)) /\ got' = <<>> /\ UNCHANGED obj

ClearBuffer ==
  /\ Apply(clear_buffer(heap, buf)) /\ peeked' = NoPeek
  /\ call' = Ask("keep", 0) /\ got' = <<>> /\ UNCHANGED obj

GetHeader(o, n) ==
  LET bs == IF n = 0 \/ buf.length < n THEN <<>> ELSE copy_to_buffer(heap, buf, n)
  IN  /\ \E b \in Free(heap) : Receive(o, Construct(heap, bs, b))
      /\ call' = Ask("look", n) /\ got' = bs
      /\ UNCHANGED <<buf, peeked>>

\* merge: nothing, the only slice itself, or a copy of them all.
Merge(o) ==
  LET all == copy_to_buffer(heap, buf, buf.length)
  IN  /\ \/ slice_count(buf) = 0 /\ Receive(o, [heap |-> heap, slice |-> EmptySlice])
         \/ /\ slice_count(buf) = 1
            /\ Receive(o, [heap |-> Ref(heap, Last(buf.vs)), slice |-> Last(buf.vs)])
         \/ slice_count(buf) > 1 /\ buf.length <= MaxBlock /\ \E b \in Free(heap) : Receive(o, Construct(heap, all, b))
      /\ call' = Ask("look", buf.length) /\ got' = Content(heap', obj'[o])
      /\ UNCHANGED <<buf, peeked>>

-----------------------------------------------------------------------------
\* The stream.

\* append_data copies: the frame's slice points into the receive buffer.
AppendData(bs) ==
  /\ Held < MaxSlices /\ buf.length + Len(bs) <= MaxBytes
  /\ \E b \in Free(heap) :
       LET r == Construct(heap, bs, b)
       IN  heap' = r.heap /\ buf' = add_slice(buf, r.slice)
  /\ call' = Bring(bs) /\ got' = <<>> /\ UNCHANGED <<obj, peeked>>

\* With assertions a read of more than there is aborts the program.
ReadData(n) ==
  /\ NDEBUG \/ n <= buf.length
  /\ got' = copy_to_buffer(heap, buf, n)
  /\ Apply(move_header(heap, buf, Len(got')))
  /\ ForgetPeek(n)
  /\ call' = Ask("read", n) /\ UNCHANGED obj

PeekData ==
  /\ slice_count(buf) > 0
  /\ LET s == buf.vs[buf.start + 1]
     IN  /\ peeked' = [slice |-> s, bytes |-> Content(heap, s)]
         /\ call' = Ask("look", FirstSize(buf)) /\ got' = Content(heap, s)
  /\ UNCHANGED <<heap, obj, buf>>

\* Sizes to cut, consume or read: up to more than there is.
Sizes == 0..(MaxBytes + 1)

SliceNext ==
  \E o \in Objects :
    \/ \E bs \in Payloads : SliceConstruct(o, bs)
    \/ \E n \in 0..Len(StaticBytes) : SliceStatic(o, n)
    \/ \E p \in Objects : SliceCopy(o, p) \/ SliceMove(o, p) \/ SliceAppend(o, p)
    \/ \E n \in Sizes : SliceCut(o, n)

BufferNext ==
  \/ \E o \in Objects : AddSlice(o) \/ AddSliceMove(o) \/ Merge(o)
  \/ \E o \in Objects, n \in 0..MaxBlock : GetHeader(o, n)
  \/ \E n \in Sizes : MoveHeader(n)
  \/ PopFront \/ PopBack \/ ClearBuffer

StreamNext ==
  \/ \E bs \in Payloads : AppendData(bs)
  \/ \E n \in Sizes : ReadData(n)
  \/ PeekData

Next == SliceNext \/ BufferNext \/ StreamNext

Spec == Init /\ [][Next]_vars

-----------------------------------------------------------------------------
\* Every block's count is the number of slices that show it, the consumed
\* ones that the vector still holds included: no block is freed under a
\* slice, none leaks, over any sequence of copies, moves, cuts and merges.
RefcountExact ==
  \A b \in Blocks :
    heap.refs[b] = Cardinality({o \in Objects : obj[o].block = b})
                   + Cardinality({i \in 1..Len(buf.vs) : buf.vs[i].block = b})

\* A slice never shows bytes outside its block, and _length is what the
\* slices that are not consumed add up to: copy_to_buffer and merge fill
\* exactly the memory that was reserved for them.
WindowsFit ==
  /\ TypeOK
  /\ \A o \in Objects : Len(Content(heap, obj[o])) = obj[o].len
  /\ Len(BufferBytes(heap, buf)) = buf.length

\* What PeekData pointed to stays there while more data arrives, while other
\* slices come and go and while parts of it are read, up to the read that
\* reaches its end: there _compact may free the block, earlier than the
\* documentation of PeekData says.
PeekStaysUntilRead == Content(heap, peeked.slice) = peeked.bytes

Stream == INSTANCE ByteStream WITH bytes <- BufferBytes(heap, buf), call <- call, got <- got

\* The buffer is one sequence of bytes whatever happens to the slices it is
\* made of, and each call does to it what was asked: ReadData hands out the
\* first bytes and consumes exactly those, append_data and add_slice add their
\* bytes and no others, move_header and the pops drop their bytes, and the rest
\* leave the sequence as it is: nothing is lost and nothing comes twice.
ImplementsByteStream == Stream!StreamSpec
=============================================================================
