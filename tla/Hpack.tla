------------------------------- MODULE Hpack -------------------------------
(***************************************************************************)
(* One direction of a connection between two endpoints of this library:    *)
(* the compressor of the sender, the header blocks under way, and the      *)
(* dynamic table of the receiver.  The receiver's SETTINGS_HEADER_TABLE_   *)
(* SIZE reaches the sender at any time; it changes the compressor and,     *)
(* since the library emits no dynamic table size update and never resizes  *)
(* its own table, nothing else.  From then on the compressor evicts        *)
(* earlier than the decoder does, and what it still refers to has to be    *)
(* the newest part of the decoder's table.                                 *)
(***************************************************************************)
EXTENDS HpackReceiver

CONSTANTS
  HeaderLists,    \* header lists the application sends: sequences of fields
  TableSizes,     \* values of SETTINGS_HEADER_TABLE_SIZE
  MaxInFlight,    \* bound: header blocks under way
  MaxInsertions   \* bound: entries ever numbered by the compressor

ASSUME CompositionAssumption ==
  /\ HeaderLists \subseteq Seq(Field)
  /\ TableSizes \subseteq Nat
  /\ MaxInFlight \in Nat \ {0}
  /\ MaxInsertions \in Nat

VARIABLES
  c,      \* _send_record of the sender
  wire    \* header blocks under way, each with the list it was made from

vars == <<c, wire, d, error>>

Init ==
  /\ c = compressor_init
  /\ wire = <<>>
  /\ ReceiverInit

\* stream_send_headers, stream_send_trailing_headers, send_push_promise.
SendHeaders(list) ==
  LET e == compressor_encode_headers(c, list)
  IN  /\ Len(wire) < MaxInFlight
      /\ c.tail_remote_index + c.table_elems + Len(list) <= MaxInsertions
      /\ c' = e.c
      /\ wire' = Append(wire, [sent |-> list, block |-> e.block])
      /\ UNCHANGED receiverVars

\* HEADER_TABLE_SIZE in the peer's SETTINGS.
ReceivedTableSize(size) ==
  /\ c' = compressor_set_max_table_size(c, size)
  /\ UNCHANGED <<wire, d, error>>

\* received_headers, received_push_promise, received_continuation.
ReceivedHeaders ==
  /\ wire # <<>>
  /\ ReceivedFragment(Head(wire).block, FALSE)
  /\ wire' = Tail(wire)
  /\ UNCHANGED c

Next ==
  \/ \E list \in HeaderLists : SendHeaders(list)
  \/ \E size \in TableSizes : ReceivedTableSize(size)
  \/ ReceivedHeaders

Spec == Init /\ [][Next]_vars

-----------------------------------------------------------------------------
TypeOK ==
  /\ c.max_table_size \in 0..InitialTableSize
  /\ c.cap_table_elems \in Nat \ {0}
  /\ c.tail_remote_index \in 0..MaxInsertions
  /\ c.table_elems \in 0..MaxInsertions
  /\ c.table_elem_size \in [0..(c.cap_table_elems - 1) -> Nat]
  /\ DOMAIN c.entries = Slots
  /\ \A s \in Slots : /\ c.entries[s].mdel \in Field \cup {NoField}
                      /\ c.entries[s].index \in 0..MaxInsertions
  /\ Len(wire) <= MaxInFlight
  /\ \A i \in 1..Len(wire) : wire[i].sent \in HeaderLists
  /\ d.table \in Seq(Field)

\* The receiver decodes exactly the header list that was sent: no index
\* of the block points beyond the decoder's table or at another field.
DecodesWhatWasSent ==
  wire # <<>> =>
    LET r == decode_headers(d, Head(wire).block, FALSE)
    IN  r.error = NoError /\ r.fields = Head(wire).sent

\* The decoder's table once it has caught up with the blocks under way.
CaughtUp ==
  LET after[i \in 0..Len(wire)] ==
        IF i = 0 THEN d ELSE decode_headers(after[i - 1], wire[i].block, FALSE).d
  IN  after[Len(wire)]

\* send_record.h: the compressor tracks the state of the remote table.  The
\* entries it counts as live are the newest of the decoder's, with the sizes
\* in its ring, and a live number in its hash table names that very field.
TracksRemoteTable ==
  LET remote == CaughtUp.table
      position(i) == c.tail_remote_index + c.table_elems - i + 1
  IN  /\ c.table_elems <= Len(remote)
      /\ \A i \in Live(c) : SizeAt(c, i) = EntrySize(remote[position(i)])
      /\ \A s \in Slots : c.entries[s].index \in Live(c) =>
           c.entries[s].mdel = remote[position(c.entries[s].index)]

\* The assertions of evict_entry and prepare_space_for_new_elem hold: the
\* size is that of the live entries and within the maximum, and there are
\* always fewer of them than max_table_elems, so that the ring of sizes does
\* not run over itself, however it was resized.
RingIsExact ==
  /\ TypeOK
  /\ c.table_size = OldestSize(c, c.table_elems)
  /\ c.table_size <= c.max_table_size
  /\ c.table_elems <= elems_for_bytes(c.max_table_size)
  /\ c.table_elems <= c.cap_table_elems
  /\ c.table_size > 0 <=> c.table_elems > 0

\* A field is in one slot of the hash table at most: with two, the stale one
\* could be found first.
OneSlotPerField ==
  \A s, t \in Slots :
    s # t /\ c.entries[s].mdel = c.entries[t].mdel => c.entries[s].mdel = NoField
=============================================================================
