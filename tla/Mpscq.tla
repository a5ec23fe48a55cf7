-------------------------------- MODULE Mpscq --------------------------------
(***************************************************************************)
(* The lock-free queue of utils/mpscq.cc: intrusive nodes linked from the  *)
(* oldest to the newest, with a stub node that the consumer puts back when *)
(* the last element goes.  A step is one access to shared memory.  Every   *)
(* node that a thread follows it got from an acquire load of a pointer     *)
(* that was stored with release order after the node's next was cleared,   *)
(* so interleaving the accesses loses no behaviour of the weaker orders.   *)
(*                                                                         *)
(* Producers own the nodes, get one back when it has been popped and may   *)
(* push it again.  The consumer uses the results the way mpscq.h offers    *)
(* them: it sleeps when PopAndCheckEnd reports empty, and the push that    *)
(* returns true wakes it.                                                  *)
(***************************************************************************)
EXTENDS Naturals, Sequences, SequencesExt, FiniteSets

CONSTANTS
  Nodes,       \* the nodes of the elements
  Producers,   \* the threads that push
  Consumer,    \* the one thread that pops
  stub,        \* the node _stub
  null,        \* nullptr
  MaxPush      \* bound: pushes in a behaviour

ASSUME MpscqAssumption ==
  /\ Consumer \notin Producers
  /\ stub \notin Nodes /\ null \notin Nodes /\ stub # null
  /\ MaxPush \in Nat

VARIABLES
  next,        \* Node::next of every node
  newest,      \* _newest
  oldest,      \* _oldest, the consumer's alone
  push,        \* thread -> where it is in push(), with its node and prev
  pop,         \* where the consumer is in PopAndCheckEnd, with tail
  pushed,      \* history: nodes in the order of their Exchange
  popped,      \* history: nodes in the order they were popped
  asleep       \* the consumer saw empty and no push has returned true since

vars == <<next, newest, oldest, push, pop, pushed, popped, asleep>>

Threads == Producers \cup {Consumer}
Cells == Nodes \cup {stub}
Idle == [at |-> "idle", node |-> null, prev |-> null]
PopIdle == [at |-> "idle", tail |-> null]
NoNode == null

TypeOK ==
  /\ next \in [Cells -> Cells \cup {null}]
  /\ newest \in Cells /\ oldest \in Cells
  /\ push \in [Threads -> [at : {"idle", "exchange", "link"},
                           node : Cells \cup {null}, prev : Cells \cup {null}]]
  /\ pop \in [at : {"idle", "reload", "newest", "stub", "recheck"}, tail : Nodes \cup {null}]
  /\ pushed \in Seq(Nodes) /\ popped \in Seq(Nodes)
  /\ asleep \in BOOLEAN

\* What was exchanged in and not popped yet.
Waiting == SubSeq(pushed, Len(popped) + 1, Len(pushed))

Init ==
  /\ next = [n \in Cells |-> null]
  /\ newest = stub /\ oldest = stub
  /\ push = [t \in Threads |-> Idle]
  /\ pop = PopIdle
  /\ pushed = <<>> /\ popped = <<>>
  /\ asleep = FALSE

-----------------------------------------------------------------------------
\* push(), in the three accesses it makes.

Load(n) == next[n]

Store(n, v) == next' = [next EXCEPT ![n] = v]

\* Faulty variant: next of the node is left as it was.
PushKeepNext(t, n) ==
  /\ push[t].at = "idle"
  /\ push' = [push EXCEPT ![t] = [at |-> "exchange", node |-> n, prev |-> null]]
  /\ UNCHANGED next

PushClear(t, n) ==
  /\ push[t].at = "idle"
  /\ Store(n, null)
  /\ push' = [push EXCEPT ![t] = [at |-> "exchange", node |-> n, prev |-> null]]

Exchange(t) ==
  /\ push[t].at = "exchange"
  /\ newest' = push[t].node
  /\ push' = [push EXCEPT ![t].at = "link", ![t].prev = newest]

\* Faulty variant: true only when the consumer has moved on from the stub.
PushReturnsOldest(t) == push[t].prev = stub /\ oldest # stub

\* "True if this was the first element pushed (useful for wake-up signaling)"
PushReturns(t) == push[t].prev = stub

PushLink(t) ==
  /\ push[t].at = "link"
  /\ Store(push[t].prev, push[t].node)
  /\ push' = [push EXCEPT ![t] = Idle]

\* A producer pushes a node that is not in the queue and not being pushed.
Free(n) ==
  /\ \A i \in 1..Len(Waiting) : Waiting[i] # n
  /\ \A t \in Threads : push[t].node # n

ProducerClear(p) ==
  /\ Len(pushed) + Cardinality({q \in Producers : push[q].at = "exchange"}) < MaxPush
  /\ \E n \in Nodes : Free(n) /\ PushClear(p, n)
  /\ UNCHANGED <<newest, oldest, pop, pushed, popped, asleep>>

ProducerExchange(p) ==
  /\ Exchange(p)
  /\ pushed' = Append(pushed, push[p].node)
  /\ UNCHANGED <<next, oldest, pop, popped, asleep>>

ProducerLink(p) ==
  /\ PushLink(p)
  /\ asleep' = (asleep /\ ~PushReturns(p))
  /\ UNCHANGED <<newest, oldest, pop, pushed, popped>>

-----------------------------------------------------------------------------
\* PopAndCheckEnd(), by the consumer.

ReturnNode(n, obj) ==
  /\ oldest' = obj
  /\ popped' = Append(popped, n)
  /\ pop' = PopIdle
  /\ UNCHANGED asleep

ReturnNull(empty) ==
  /\ pop' = PopIdle
  /\ asleep' = empty
  /\ UNCHANGED <<oldest, popped>>

Continue(at, tail) == pop' = [at |-> at, tail |-> tail] /\ UNCHANGED <<popped, asleep>>

PopStart ==
  LET obj == Load(oldest)
  IN  /\ pop.at = "idle" /\ ~asleep
      /\ \/ oldest = stub /\ obj = null /\ ReturnNull(TRUE)
         \/ oldest = stub /\ obj # null /\ oldest' = obj /\ Continue("reload", obj)
         \/ oldest # stub /\ obj # null /\ ReturnNode(oldest, obj)
         \/ oldest # stub /\ obj = null /\ Continue("newest", oldest) /\ UNCHANGED oldest
      /\ UNCHANGED <<next, newest, push, pushed>>

PopReload ==
  LET obj == Load(pop.tail)
  IN  /\ pop.at = "reload"
      /\ \/ obj # null /\ ReturnNode(pop.tail, obj)
         \/ obj = null /\ Continue("newest", pop.tail) /\ UNCHANGED oldest
      /\ UNCHANGED <<next, newest, push, pushed>>

\* Faulty variant: a push under way is reported as an empty queue.
PopNewestEmpty ==
  /\ pop.at = "newest"
  /\ \/ pop.tail # newest /\ ReturnNull(TRUE)
     \/ pop.tail = newest /\ Continue("stub", pop.tail) /\ UNCHANGED oldest
  /\ UNCHANGED <<next, newest, push, pushed>>

PopNewest ==
  /\ pop.at = "newest"
  /\ \/ pop.tail # newest /\ ReturnNull(FALSE)
     \/ pop.tail = newest /\ Continue("stub", pop.tail) /\ UNCHANGED oldest
  /\ UNCHANGED <<next, newest, push, pushed>>

\* push(&_stub): only one element is left.
StubClear ==
  /\ pop.at = "stub"
  /\ PushClear(Consumer, stub)
  /\ UNCHANGED <<newest, oldest, pop, pushed, popped, asleep>>

StubExchange ==
  /\ Exchange(Consumer)
  /\ UNCHANGED <<next, oldest, pop, pushed, popped, asleep>>

StubLink ==
  /\ PushLink(Consumer)
  /\ Continue("recheck", pop.tail)
  /\ UNCHANGED <<newest, oldest, pushed>>

\* Faulty variant: the tail is returned although a producer has yet to link it.
PopRecheckReturns ==
  /\ pop.at = "recheck"
  /\ ReturnNode(pop.tail, IF Load(pop.tail) = null THEN stub ELSE Load(pop.tail))
  /\ UNCHANGED <<next, newest, push, pushed>>

\* Faulty variant: _oldest is left at the element that is returned.
PopRecheckStays ==
  LET obj == Load(pop.tail)
  IN  /\ pop.at = "recheck"
      /\ \/ obj # null /\ ReturnNode(pop.tail, pop.tail)
         \/ obj = null /\ ReturnNull(FALSE)
      /\ UNCHANGED <<next, newest, push, pushed>>

PopRecheck ==
  LET obj == Load(pop.tail)
  IN  /\ pop.at = "recheck"
      /\ \/ obj # null /\ ReturnNode(pop.tail, obj)
         \/ obj = null /\ ReturnNull(FALSE)
      /\ UNCHANGED <<next, newest, push, pushed>>

Produce(p) == ProducerClear(p) \/ ProducerExchange(p) \/ ProducerLink(p)

Consume ==
  \/ PopStart \/ PopReload \/ PopNewest
  \/ StubClear \/ StubExchange \/ StubLink \/ PopRecheck

Next == Consume \/ \E p \in Producers : Produce(p)

\* A thread inside push() goes on, and so does the consumer unless it sleeps;
\* nobody has to begin another push.
Spec ==
  /\ Init /\ [][Next]_vars
  /\ WF_vars(Consume)
  /\ \A p \in Producers : WF_vars(ProducerExchange(p) \/ ProducerLink(p))

-----------------------------------------------------------------------------
\* The queue hands out its nodes in the order in which the pushes exchanged
\* _newest, none lost, none twice, whatever the producers and the consumer
\* interleave.
Fifo == INSTANCE FifoQueue WITH
  Elements <- Nodes,
  queue <- Waiting,
  delivered <- IF popped = <<>> THEN NoNode ELSE Last(popped)

ImplementsFifo == Fifo!FifoSpec

\* pop returns a node only when no push can touch it any more: its owner may
\* free or reuse it at once.  A push between its Exchange and the store to
\* prev->next holds a prev that is still in the queue, or the stub.
PoppedIsReleased ==
  /\ TypeOK
  /\ \A t \in Threads :
       push[t].at = "link" =>
         push[t].prev = stub \/ \E i \in 1..Len(Waiting) : Waiting[i] = push[t].prev

\* The wake-up protocol of push() and PopAndCheckEnd() loses nothing: when
\* the consumer sleeps on a reported empty and something waits, there is a
\* push under way that will return true.
NoLostWakeup ==
  asleep /\ Waiting # <<>> =>
    \E p \in Producers : push[p].at = "link" /\ push[p].prev = stub

\* The destructor's assertions: when no call is under way and everything
\* pushed has been popped, _newest and _oldest are back at the stub.
DrainedIsReset ==
  (\A t \in Threads : push[t].at # "link") /\ pop.at = "idle" /\ Waiting = <<>> =>
    newest = stub /\ oldest = stub

\* Everything that was exchanged in is popped.  The retry after a null that
\* was not reported as empty, and the wake-up, are all it takes.
EventuallyPopped == \A k \in 1..MaxPush : Len(pushed) >= k ~> Len(popped) >= k
=============================================================================
