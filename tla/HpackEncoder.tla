---------------------------- MODULE HpackEncoder ----------------------------
(***************************************************************************)
(* The HPACK compressor of src/hpack/send_record.cc: what the sending side *)
(* remembers of the dynamic table of its peer.  The table itself is at the *)
(* peer; the compressor keeps the sizes of its entries in a ring buffer,   *)
(* and a small hash table of fields with the number each was inserted      *)
(* under.  Entries are numbered from 1 in the order of insertion; those    *)
(* up to tail_remote_index have been evicted.                              *)
(*                                                                         *)
(* The compressor is a record, and an operation is an operator from one    *)
(* record to the next.  Fields are pairs of a key and a value that have    *)
(* sizes and no characters; integers on the wire are in HpackInteger.      *)
(***************************************************************************)
EXTENDS Integers, SequencesExt, Totals

CONSTANTS
  KeySize,           \* length of each header name
  ValueSize,         \* length of each header value
  BinaryKeys,        \* the names that end in "-bin"
  StaticTable,       \* the static table, a sequence of fields
  Slots,             \* slots of the hash table (HPACK_NUM_VALUES)
  FirstSlot,         \* slot of a name by HASH_FRAGMENT_2
  SecondSlot,        \* slot of a name by HASH_FRAGMENT_3
  InitialTableSize,  \* HPACK_INITIAL_TABLE_SIZE: 4096
  Overhead,          \* size of an entry beyond its strings: 32
  MinCapacity        \* least capacity of the ring after shrinking: 16

Keys == DOMAIN KeySize
Values == DOMAIN ValueSize
Field == [key : Keys, value : Values]

\* A default-constructed mdelem_data: an empty slot of the hash table.
NoField == [key |-> "", value |-> ""]

ASSUME HpackAssumption ==
  /\ KeySize \in [Keys -> Nat \ {0}]
  /\ ValueSize \in [Values -> Nat]
  /\ BinaryKeys \subseteq Keys
  /\ StaticTable \in Seq(Field)
  /\ \A i \in 1..Len(StaticTable) : StaticTable[i].key \notin BinaryKeys
  /\ FirstSlot \in [Keys -> Slots]
  /\ SecondSlot \in [Keys -> Slots]
  /\ InitialTableSize \in Nat \ {0}
  /\ Overhead \in Nat \ {0}
  /\ MinCapacity \in Nat \ {0}
  /\ NoField \notin Field

-----------------------------------------------------------------------------
(* The static table, its two lookup maps, and the size of an entry. *)

full_match_static_mdelem_index(f) ==
  LET matches == {i \in 1..Len(StaticTable) : StaticTable[i] = f}
  IN  IF matches = {} THEN 0 ELSE Min(matches)

\* Faulty variant: every name is indexed, also those outside the static table.
AnyKeyExists(key) == TRUE

check_key_exists(key) ==
  \E i \in 1..Len(StaticTable) : StaticTable[i].key = key

get_size_in_hpack_table(f) ==
  Overhead + KeySize[f.key] + ValueSize[f.value]
    + (IF f.key \in BinaryKeys THEN 1 ELSE 0)

elems_for_bytes(bytes) == (bytes + Overhead - 1) \div Overhead

-----------------------------------------------------------------------------
(* The ring of entry sizes. *)

compressor_init ==
  LET cap == elems_for_bytes(InitialTableSize)
  IN  [max_table_size    |-> InitialTableSize,
       cap_table_elems   |-> cap,
       tail_remote_index |-> 0,
       table_size        |-> 0,
       table_elems       |-> 0,
       table_elem_size   |-> [s \in 0..(cap - 1) |-> 0],
       entries           |-> [s \in Slots |-> [mdel |-> NoField, index |-> 0]]]

\* The numbers of the entries that have not been evicted.
Live(c) == (c.tail_remote_index + 1)..(c.tail_remote_index + c.table_elems)

SizeAt(c, i) == c.table_elem_size[i % c.cap_table_elems]

\* The size of the n oldest entries, those that are evicted first.
OldestSize(c, n) == Total([i \in 1..n |-> SizeAt(c, c.tail_remote_index + i)])

\* evict_entry, n times.
EvictEntries(c, n) ==
  [c EXCEPT !.tail_remote_index = @ + n,
            !.table_size        = @ - OldestSize(c, n),
            !.table_elems       = @ - n]

\* The loops around evict_entry: until the size is at most limit.
EvictDownTo(c, limit) ==
  EvictEntries(c, Min({n \in 0..c.table_elems :
                         \/ c.table_size - OldestSize(c, n) <= limit
                         \/ n = c.table_elems}))

\* An entry larger than the whole table empties it and gets no number (0).
prepare_space_for_new_elem(c, size) ==
  LET new_index == c.tail_remote_index + c.table_elems + 1
      room      == EvictDownTo(c, c.max_table_size - size)
  IN  IF size > c.max_table_size
      THEN [index |-> 0, c |-> EvictDownTo(c, 0)]
      ELSE [index |-> new_index,
            c |-> [room EXCEPT
                     !.table_elem_size[new_index % c.cap_table_elems] = size,
                     !.table_size  = @ + size,
                     !.table_elems = @ + 1]]

\* Faulty variant: the sizes are copied as if the ring began at entry 1.
RebuildFromStart(c, new_cap) ==
  [c EXCEPT !.cap_table_elems = new_cap,
            !.table_elem_size = [s \in 0..(new_cap - 1) |->
               c.table_elem_size[s % c.cap_table_elems]]]

rebuild_elems(c, new_cap) ==
  LET moved(s) == {i \in Live(c) : i % new_cap = s}
  IN  IF c.table_elems > new_cap
      THEN c
      ELSE [c EXCEPT
              !.cap_table_elems = new_cap,
              !.table_elem_size = [s \in 0..(new_cap - 1) |->
                 IF moved(s) = {} THEN 0 ELSE SizeAt(c, Max(moved(s)))]]

NewCapacity(c, elems) ==
  IF elems > c.cap_table_elems THEN Max({elems, 2 * c.cap_table_elems})
  ELSE IF elems < c.cap_table_elems \div 3 THEN Max({elems, MinCapacity})
  ELSE c.cap_table_elems

\* The limit of the local side, max_usable_size, stays at its initial value;
\* rebuild_elems gets the memory it asks for.
compressor_set_max_table_size(c, requested) ==
  LET max     == Min({requested, InitialTableSize})
      shrunk  == [EvictDownTo(c, max) EXCEPT !.max_table_size = max]
      new_cap == NewCapacity(c, elems_for_bytes(max))
  IN  IF max = c.max_table_size THEN c
      ELSE IF new_cap = c.cap_table_elems THEN shrunk
      ELSE rebuild_elems(shrunk, new_cap)

-----------------------------------------------------------------------------
(* The hash table of fields. *)

\* What the hash table knows of a field: an insertion number (0: nothing),
\* and whether it is one of the whole field or only of its name.
GetMatchingIndex(c, f) ==
  LET a == c.entries[FirstSlot[f.key]]
      b == c.entries[SecondSlot[f.key]]
      named == {e.index : e \in {e \in {a, b} : e.mdel.key = f.key}}
      live  == {i \in named : i > c.tail_remote_index}
  IN  CASE a.mdel = f -> [full |-> TRUE, index |-> a.index]
        [] a.mdel # f /\ b.mdel = f -> [full |-> TRUE, index |-> b.index]
        [] f \notin {a.mdel, b.mdel} ->
             [full  |-> FALSE,
              index |-> IF live # {} THEN Min(live)
                        ELSE IF named # {} THEN c.tail_remote_index ELSE 0]

\* Faulty variant: the second slot is not searched for the field itself.
UpdateFirstOrOlder(entries, f, new_index) ==
  LET a == FirstSlot[f.key]
      b == SecondSlot[f.key]
      older == IF entries[a].index < entries[b].index THEN a ELSE b
      slot == IF entries[a].mdel \in {f, NoField} THEN a
              ELSE IF entries[b].mdel = NoField THEN b ELSE older
  IN  [entries EXCEPT ![slot] = [mdel |-> f, index |-> new_index]]

\* The slot for a field: its own, an empty one, or the older of the two.
UpdateAddOrEvict(entries, f, new_index) ==
  LET a == FirstSlot[f.key]
      b == SecondSlot[f.key]
      older == IF entries[a].index < entries[b].index THEN a ELSE b
      slot == IF entries[a].mdel \in {f, NoField} THEN a
              ELSE IF entries[b].mdel \in {f, NoField} THEN b
              ELSE older
  IN  [entries EXCEPT ![slot] = [mdel |-> f, index |-> new_index]]

add_elem(c, f) ==
  LET new == prepare_space_for_new_elem(c, get_size_in_hpack_table(f))
  IN  IF new.index = 0
      THEN new.c
      ELSE [new.c EXCEPT !.entries = UpdateAddOrEvict(@, f, new.index)]

-----------------------------------------------------------------------------
(* Representations.  index 0 stands for a literal name; an index up to the *)
(* length of the static table is one of it, a larger one dynamic.          *)

Representation(kind, index, key, value) ==
  [kind |-> kind, index |-> index, key |-> key, value |-> value]

encode_index(index) == Representation("indexed", index, "", "")
encode_with_incremental_indexing(f) ==
  Representation("incremental", 0, f.key, f.value)
encode_without_indexing(f) == Representation("literal", 0, f.key, f.value)
encode_without_indexing_key(f, index) ==
  Representation("literal", index, "", f.value)

dynidx(c, index) ==
  1 + Len(StaticTable) + c.tail_remote_index + c.table_elems - index

\* Faulty variant: an entry of the hash table is taken to be in the remote
\* table.
EncodeStale(c, f) ==
  LET match == GetMatchingIndex(c, f)
  IN  IF match.full
      THEN [c |-> c, rep |-> encode_index(dynidx(c, match.index))]
      ELSE [c |-> IF check_key_exists(f.key) THEN add_elem(c, f) ELSE c,
            rep |-> IF check_key_exists(f.key)
                    THEN encode_with_incremental_indexing(f)
                    ELSE encode_without_indexing(f)]

hpack_encode_header(c, f) ==
  LET match == GetMatchingIndex(c, f)
      known == match.index > c.tail_remote_index
  IN  CASE known /\ match.full ->
             [c |-> c, rep |-> encode_index(dynidx(c, match.index))]
        [] known /\ ~match.full ->
             [c |-> c,
              rep |-> encode_without_indexing_key(f, dynidx(c, match.index))]
        [] ~known /\ check_key_exists(f.key) ->
             [c |-> add_elem(c, f), rep |-> encode_with_incremental_indexing(f)]
        [] ~known /\ ~check_key_exists(f.key) ->
             [c |-> c, rep |-> encode_without_indexing(f)]

encode_field(c, f) ==
  LET static == full_match_static_mdelem_index(f)
  IN  IF static # 0
      THEN [c |-> c, rep |-> encode_index(static)]
      ELSE hpack_encode_header(c, f)

\* A header list becomes a header block, field by field.
compressor_encode_headers(c, list) ==
  LET first == [c |-> c, block |-> <<>>]
      next(r, f) == LET e == encode_field(r.c, f)
                    IN  [c |-> e.c, block |-> Append(r.block, e.rep)]
      run[i \in 0..Len(list)] == IF i = 0 THEN first ELSE next(run[i - 1], list[i])
  IN  run[Len(list)]
=============================================================================
