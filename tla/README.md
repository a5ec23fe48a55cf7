# LibHttp2: TLA+ models, model checking and proofs

LibHttp2 is a transport-agnostic HTTP/2 library: the application feeds it the bytes it
received (`Transport::ReceivedData`) and gives it a `SendService` for the bytes to send;
events come back as synchronous callbacks on an `EventHandler`. This directory models the
library from the octets on the wire to the stream map, and its utilities; TLC checks the
models and TLAPS proves their main results for every value of the constants. Paths below are relative to the
repository.

## 1. The system

| Component | State | Operations |
|---|---|---|
| Stream state machine (`src/http2/stream.cc`) | `_state`, `_read_closed`, `_write_closed` | one transition per event: HEADERS, PUSH_PROMISE, END_STREAM, RST_STREAM, sent or received |
| Connection (`src/http2/connection.cc`, `src/http2.cc`) | `_streams`, `_next_local_stream_id`, `_last_stream_id`, `_received_goaway(_stream_id)`, `_sent_goaway(_stream_id)`, `_draining`, `_next_frame_limit`, `_next_stream_id_limit`, `_finish_handshake` | API: `CreateStream`, `SendPushPromise`, `SendGoAway`, `Drain`, `Shutdown`, `Stream::SendHeaders/SendData/SendTrailingHeaders/SendRSTStream`; peer: one handler per frame type, dispatched by `package_process` |
| SETTINGS exchange | `_local_settings`, `_remote_settings`, `_request_settings`, `_settings_pending`, `_ping_pending` | `send_settings`, `send_ping`, `received_settings`, `received_ping` |
| Flow control | `_connection_send_window`, optional `FlowControlHandler` | DATA in both directions, `send_window_update`, `received_window_update` |
| Send buffer and preface | `_send_buffer`, `_buffered_mode`, `_preface_sent` | `send_raw_data`, `flush_buffer`, `ensure_preface_sent` |
| HPACK (`src/hpack`) | encoder record `_send_record`, decoder table `_dynamic_table` | encode and decode a header block, change of the table size |
| Literals (`decode.cc`, `encode.cc`, `huffman*.cc`) | the Huffman automaton's state | integers, Huffman code, strings |
| Frame codec (`frame.cc`, `pack.cc`, `parser.cc`, `byte_order.cc`) | octets not yet consumed | build, pack and parse each frame type; reassembly in `ReceivedData` |
| Slices (`src/utils/slice*.cc`) and the data cache of a stream | blocks with counts, slices, `_start`, `_length` | copy, move, cut, append; add, consume, copy out, merge; `ReadData`, `PeekData` |
| MPSC queue (`src/utils/mpscq.cc`) | `_newest`, `_oldest`, `_stub`, `next` of each node | `push` by many threads, `pop` by one |
| Library initialisation (`src/http2.cc`) | reference counter under a mutex | init, cleanup |

How they interact. A connection is confined to one thread (`assert_same_thread`). The
concurrency that is left is *re-entrancy*: `ReceivedData` runs a frame's handler, the
handler calls the application back, the application calls the API, which may close and
erase the stream that the suspended handler still holds, send a GOAWAY or begin a drain;
then the handler continues. The other sources of trouble are the peer, which chooses the
order of frames; crossing messages (a local RST_STREAM and a CONTINUATION under way, a
WINDOW_UPDATE and the end of its stream, two SETTINGS); state shared by several operations
(`_sent_goaway` serves errors, `SendGoAway`, `Shutdown` and `Drain`); handles of streams
that outlive their map entry; and a transport that fails in the middle of a flush. The queue
is the one part made for several threads.

What makes each part correct, and where it is stated:

- connection: a stream that closed leaves the map, once, whoever closed it
  (`ClosedOnlyInCallback`); a drain completes once, in the step in which the last stream goes
  (`DrainHasWork`, `ShutdownCompleteOnce`, `ImplementsShutdown`, `DrainCompletes`); a GOAWAY
  speaks the truth about the streams being processed (`GoawayCoversStreams`), and the peer's,
  also a second one with another last id, marks the streams it does not cover
  (`GoawayMarksStreams`; that the senders do not read the mark is in section 6); identifiers
  are used once (`LocalIdsFresh`); header blocks are not interleaved (`HeaderBlockUnbroken`);
- SETTINGS and PING: the pending flags are exact, both ends go by the same values and every
  request is answered (`PendingIsExact`, `EndsAgree`, `EventuallyAnswered`);
- sending: frames leave in order behind one preface (`InOrder`), both ends keep the same
  books of the window (`WindowAccounts`), nothing stays behind in the buffer (`AllIsRead`);
- compression: the receiver decodes the header list that was sent (`DecodesWhatWasSent`),
  because the compressor, which does not see the decoder's table, has the right picture of
  its newest part (`TracksRemoteTable`); literals survive (`IntegerRoundTrip`,
  `FittingIntegerIsRead`, `HuffmanRoundTrip`, `FieldRoundTrip`), and the two Huffman tables
  describe one code (`TableFollowsCode`);
- frames: what is read does not depend on how the octets arrive (`PortionsDoNotMatter`) and
  is what was sent (`FramesSurvive`, `ParsedIsThePayload`);
- slices: counts are exact (`RefcountExact`), every call does to one sequence of bytes what it
  says (`ImplementsByteStream`), peeked data stays until it is read (`PeekStaysUntilRead`);
- queue: it is a FIFO queue that loses neither nodes nor wake-ups (`ImplementsFifo`,
  `NoLostWakeup`, `EventuallyPopped`, `PoppedIsReleased`, `DrainedIsReset`).

`PROJECT.json` lists the hazards line by line, with the properties that cover each.

## 2. The modules

| Module | Models |
|---|---|
| `StreamState` | the transition table of `stream.cc` and the compound transitions of the operations |
| `Connection`, `MCConnection` | one connection: state, every API operation, every frame handler, callbacks, properties; against an arbitrary peer, and between cooperating sides with fairness |
| `GracefulShutdown` | abstract specification: what becomes of streams and of `OnShutdownComplete` once a GOAWAY is sent |
| `ConnectionProofs` | theorems about the connection |
| `SettingsExchange`, `MCSettings` | preface, SETTINGS and PING between two endpoints |
| `SettingsProofs` | theorems about `SettingsExchange` |
| `SendPath`, `MCSendPath` | preface, buffered mode and connection window of a client, against a server of this library |
| `SendPathProofs` | theorems about `SendPath` |
| `Totals`, `TotalsProofs` | the total of a sequence of numbers; its lemmas |
| `HpackEncoder`, `HpackDecoder` | the compressor of `send_record.cc`; `decode_headers` and the dynamic table |
| `HpackReceiver` | the decoder's table, against other encoders and fragmented blocks |
| `Hpack`, `MCHpack` | compressor, header blocks under way and decoder composed |
| `HpackProofs` | theorems about the decoder alone, and about both sides |
| `HpackInteger` | the integer codec and the sum that RFC 7541 defines |
| `HuffmanTables`, `Huffman` | both tables of `huffman_data.cc`; encoder and decoder |
| `HpackString`, `MCLiteral` | string literals; the run over all literals |
| `FrameCodec` | builders, packers and parsers of all frame types, octet by octet |
| `FrameStream` | `ReceivedData`: frames out of octets in any portions |
| `FrameTraffic`, `MCFrames` | messages one behind the other, of this library and of others; the layout of RFC 7540 |
| `CodecProofs` | theorems about `FrameStream` and `FrameTraffic` |
| `Slice`, `SliceBuffer` | reference-counted slices; buffers of slices |
| `StreamData`, `MCStreamData` | the data cache of a stream and the callers' slices |
| `ByteStream` | abstract specification of a slice buffer: one sequence of bytes, and what each call does to it |
| `StreamDataProofs` | theorems about `StreamData` |
| `Mpscq` | the queue at the granularity of its atomic accesses |
| `FifoQueue` | abstract specification of the queue |
| `MpscqProofs` | theorems about the queue |

`Connection` takes the effect of a frame on windows, settings and tables out of its handlers;
`SendPath`, `SettingsExchange` and `Hpack` have just that, with two endpoints. `FrameStream`
ends where `package_process` has parsed a frame, where `Connection` begins.

### Connection

The variables carry the names of the members they model (`streams` is `_streams` with the
state of each stream, `"Absent"` for an id that is not mapped; `unwritable` the ids with
`_write_closed`). Three are not members. `released` is the set of ids erased so far, whose
handles the application may still hold. `shutdowns` counts `OnShutdownComplete`. `cb` says
which callback the application is in and which stream the suspended `package_process` holds.

Each API call is one action. A frame is one action, too, up to the callback its handler has
work after: `OnStreamData`, `OnStreamHeaders`, and `OnStreamClosed`. There the action ends
with `cb` set; API actions may follow; `ReturnFromCallback` is the rest of the handler and
of `package_process`. `OnSettings`, `OnPing`, `OnGoAway` and `OnShutdownComplete` are the
last thing that touches this state in their caller, so an API call inside them is the same
as one right after. `ReceivedData` is not called from a callback.

Abstractions. A payload is what its handler branches on: well formed or not, DATA with
bytes, only padding, or empty, END_HEADERS or not, bit 0x1 of the flags. `save_frame_info`
takes that bit as END_STREAM on every type of frame, and so does the model. HPACK and the
parser appear as `good`; a failing send is no step. A handle that is stale twice (its id
reused and the reusing stream orphaned as well) is not tracked apart from an ordinary stale
handle.

`MCConnection` chooses once whether the sides cooperate. If not, the peer sends any frame at any
time. If so (`polite`), streams are opened in order, started and ended by both sides, and the
application may drain; what the peer sends at the end of a stream counts only when
`package_process` lets it through.

### SettingsExchange

Two endpoints of this library and a reliable channel in each direction. An application may
call `SendSettings` and `SendPing` at any time, a server also before the preface is there
(`EarlyCalls`, which the run has with both); the client's first call of any kind sends preface and
initial SETTINGS, the server's answer to the preface is its own. A request is in range,
clamped, refused or for an unknown id. A refused value is answered with GOAWAY after the
values before it have been applied, and never acknowledged.

`early` remembers that a server's request went out before its initial SETTINGS. From then on
two SETTINGS may be outstanding, and the properties say what is left: `PendingIsExact` allows
one more SETTINGS or ACK under way than the flag admits, and by `EndsAgree` the client will go,
value by value, by what the server asks for or by its initial value, when it has read what is on
its way; that the server enforces the same is not so (section 6).

### SendPath

The client side of a connection, whose frames go to `wire` at once or through `sendBuffer`;
`issued` remembers the order of the calls. The application sends HEADERS, data of any size, none
included, and trailers. `SendRawData` may fail at any slice, and takes nothing afterwards; that is
its contract in `transport.h`. The server reads frame by frame and returns both WINDOW_UPDATEs for
DATA of a stream it knows; empty DATA and trailers it answers with GOAWAY, as the code does, and
skips the streams above (`Refuse`); it may end or reset streams at any time. The client's
bookkeeping of streams is reduced to which sides have ended. `stray` counts the stream increments
that `received_window_update` gives to the connection (see `window_overrun`); the books of
`WindowAccounts` balance with them. In `MCSendPath` a behaviour has failing sends or resets; the
proofs have both at once.

### HPACK and literals

`HpackEncoder` and `HpackDecoder` are operators on two records, `c` for the `compressor` and
`d` for the `dynamic_metadata_table`, with the names of the code; the loops that evict are
written as "the least number of entries after which the rest fits". `Hpack` adds the
variables: `SendHeaders` encodes a whole header list, `ReceivedTableSize` is the peer's
HEADER_TABLE_SIZE, `ReceivedHeaders` decodes a block. A block under way carries the list it
was made from, so that `DecodesWhatWasSent` can compare. Names and values have sizes and no
characters; the hash of a name is a parameter, so that names can be made to collide.

What holds the two tables together is not obvious. The library sends no dynamic table size
update and does not resize its own table, so after a SETTINGS frame compressor and decoder
evict at different times. The compressor's maximum never exceeds the decoder's, hence its
live entries are a prefix (the newest) of the decoder's table, and indices, which count from
the newest, agree. Its sizes for names ending in `-bin` are wrong by one, which does no harm
because only names of the static table are indexed, and none of them ends so.

`HpackInteger` keeps the word and group sizes as parameters. `HuffmanTables` holds both
tables of the source in full, and `MCLiteral` walks the decoder's automaton, all of its
states, beside the bits read since the last symbol. Strings are cut anywhere. The parser is
given what lies behind the block as well, since for a Huffman-coded string it reads that
(`decode.cc:78`): `CutLiteralIsRefused` says what may then come out, and `ReceivedOverrun` of
`HpackReceiver` is what the decoder's table makes of it, any value at all. `MCHpack` chooses once
whether the peer's encoder is this library's or another (`foreign`).

### FrameCodec, FrameStream and FrameTraffic

A frame is a record with the fields of its struct; packing gives a sequence of octets,
parsing takes the payload. `FrameStream` is the loop of `ReceivedData`: the application keeps
the octets that a call has not consumed and passes them again in front of the next.
`ReceivedData` also returns -1 when `package_process` does, for a broken header block
(`http2.cc:208`); that is in `Connection`, and here the loop goes on. It depends on the frames and
not on the portions.
Numbers of 32 bits are kept below 2^31, with the top bit apart where a frame has one.

`FrameStream` alone takes any octets. `FrameTraffic` makes them out of messages: frames that
the library's builders give and its packers lay out, frames laid out as RFC 7540 has them
(`Layout`), which may be padded, and frames with any payload. `MCFrames` chooses the messages
of the run among these.

### Slices and StreamData

The heap is a function from blocks to their content and count; a slice is a window on a
block. The stream's cache is one `slice_buffer`; callers have slice objects of their own and
use every operation of both classes. `call` is what a step asks of the buffer and `got` what it
handed out, so that `ByteStream` can say what each call must do; `peeked` is what `PeekData`
pointed to, until the read that reaches the end of that slice. `Joined` puts together what the
slices show, one after the other; it is what `merge` copies and what the refinement takes for the
bytes of the stream. `move_header` is written as a leap: past the slices that the bytes reach to
the end of (`Whole`), then into the next one. `NDEBUG` says whether the build leaves assertions
out: with assertions, `ReadData` for more than is there ends the program, and is no step; without,
it is the short read that `transport.h` describes. `call` and `got` are only written, so the run
takes states that differ in nothing else for one (`MCView`); TLC compares every step with
`ByteStream` all the same.

### Mpscq

Every load, store and exchange is a step. The memory orders of the code (acquire loads,
release stores, an exchange with both) make the interleaving of the accesses enough, as the
module's head argues. A node that was popped is pushed again at once, so a `prev` that a
producer still holds would be caught. The consumer sleeps when it is told the queue is empty
and is woken by a push that returns true, the use for which `mpscq.h` offers both.

## 3. The runs

| Run | Shows | Result |
|---|---|---|
| `server` | server, ids 1..3, all ids used by the peer, GOAWAY of the peer with last ids 0 and 2, limit of one stream; nine safety properties, one of them the refinement of `GracefulShutdown`, and liveness of a drain | holds, 198,815 states |
| `drain_client` | liveness of a drain, client side, ids 1..3 | violated |
| `hpack` | compressor and decoder in step, ring of sizes, hash table; the decoder's accounting and eviction against any encoder; six properties | holds, 601,257 states |
| `literals` | integers, both Huffman tables, strings whole and cut; six properties | holds, 70,332 states |
| `integer_overflow` | an integer that is accepted is the one that was encoded | violated |
| `frames` | all frame types in all portions; three properties | holds, 68,208 states |
| `settings` | the exchange from before the preface to acknowledgement; three properties, one of them liveness | holds, 108,758 states |
| `send_path` | order, window and progress of two streams, with failures or a reset; three properties, one of them liveness | holds, 1,042,033 states |
| `window_overrun` | the client keeps within the window the peer has advertised | violated |
| `empty_end` | an end of a stream sent as empty DATA is recorded by the server | violated |
| `slices` | counts, windows, peeked data; refinement of `ByteStream` | holds, 53,327 states |
| `mpscq` | refinement of `FifoQueue`, wake-ups, release of nodes, liveness | holds, 59,819 states |

The four violated runs state what the change log, a comment or `transport.h` says; `PROJECT.json`
quotes the lines under "findings". A type invariant is the first conjunct of `RingIsExact`,
`TableFits`, `PendingIsExact`, `WindowAccounts`, `WindowsFit` and `PoppedIsReleased`.

Bounds. *Connection*: three identifiers give two of one side against one of the other:
enough for one stream to be held by a callback while another is created, erased or left as
the drain's last, for an id to be reused while its old handle is alive, and for a GOAWAY id
below, at and above a stream. There is no bound on the number of steps: the state space is
finite by itself (`shutdowns` stays below 2, which is a property, not a constraint). The
peer's frames range over all types, flags and identifiers; of the frames that break a header
block two types stand for all.

*HPACK* is scaled by 1/16 and more: a table of 18 octets with an overhead of 2 holds four
entries, as 4096 with 32 holds some hundred, and keeps the ratios the code depends on (a
capacity that shrinks below a third with an entry alive, and doubles back). Three indexed
names on two slots make live entries lose their slot, which is how a second copy of a field
gets into the table. `MaxInsertions` = 6 is enough to fill the table, evict by insertion and
by shrinking, and wrap the smaller ring; one block under way is enough, since decoding does
not act back on the compressor. The integers use a word of 5 bits in groups of 2, so that, as
with 32 and 7, the last group fits in part. The four letters of the strings have codes of 5,
6, 13 and 30 bits, so that all alignments come up in strings of four.

*Frames*: two messages, so that a frame ends in the middle of a portion; MAX_FRAME_SIZE of 12
for what is received and 4 for what is sent cut DATA into one, two and three pieces, at and
beside the boundary.

*Settings*: two requests and one PING at each end, so that a request is made, acknowledged
and made again while the other end does the same, and a server's first may be early.
*SendPath*: two calls of two octets or none, or trailers, against a window of three with frames of
one: the second call is within, or beyond, the window depending on what has come back;
`window_overrun` needs three calls, `empty_end` one stream.

*Slices*: two blocks and three slices that hold bytes, so that the vector has a consumed
slice, a current one and one behind it, and a block is shared between vector and caller.
Blocks and slice objects are symmetric; only safety is checked there. *Mpscq*: three nodes,
two producers and five pushes: a node is reused twice, and one producer can be in the middle
of a push while the other pushes twice.

Fairness. `MCConnection`, between cooperating sides: a callback returns; an application and a peer
start and end the streams they have open (`AppStarts`, `AppEnds`, `PeerEnds`); a peer finishes a
header block it has begun. The code does not schedule these: they are what its users do, and the drain promises to end when they do.
`SettingsExchange` and `SendPath`: an application passes on what has arrived, and a
`ScopedBufferedMode` is left; both are what callers of the library do, and nobody has to make
another call. `Mpscq`: a thread inside `push` goes on, and the consumer goes on unless it
sleeps, which is the scheduler's doing.

Deadlock is checked in the run of HPACK. Elsewhere it is off because the system may rest:
a drained connection, a frame or literal that has been read, all calls made and answered, an empty queue, memory in use.

## 4. The proofs

`ConnectionProofs` proves, for every role, every bound on identifiers, every set of peer
identifiers, last ids and stream limits (`ConnectionAssumption`):

- `TypeCorrect`, `ClosedStreamsRemoved`, `DrainNeverMissed`, `ShutdownOnce`,
  `LocalIdsNeverReused`, `GoawayCovers`, `GoawayMarks`: the invariants of the `server` run, for
  clients as well;
- `HeaderBlocksUnbroken`: the action property;
- `RefinesShutdown`: `Spec => Shutdown!ShutdownSpec`.

The argument. 23 actions against ten conjuncts would be a proof by exhaustion, so it goes
through *effects*: `StepHasEffect` shows, with one step per action, that every step creates
a local stream, settles one, delivers to one, sends a GOAWAY, begins the drain, takes in the
peer's GOAWAY, or does none of these. Each invariant, and the refinement, is then shown for
the seven effects. `ConnectionInv` strengthens the properties by what they need: a drain has
sent its GOAWAY (or it could begin twice); the next local id is local and positive and the
stream held by a callback is mapped or released (or its second erasure could release a fresh
id); remote streams are below `_last_stream_id`, and an automatic GOAWAY freezes that
(or a later stream could rise above the announced id).

`SettingsProofs` (`PendingStaysExact`, `EndsStayInAgreement`) takes any table of parameters
with finitely many ids and defaults within their limits, any requests and any number of them.
Of an end's SETTINGS there is none under way (`Quiet`), one (`Asked`), its ACK (`Answered`),
or it was refused (`RefusedBy`), and what the other end goes by is known in each case: what
was in force before, and from the ACK on all of the request, clamped. A server that has called
`SendSettings` before the client's preface had arrived follows another course
(`EarlyExchange`): at most two SETTINGS or ACKs are under way, two only while it waits (`Lags`),
and what the client will go by is known for each id up to a choice of two values (`Expected`),
counted from the last SETTINGS on its way that has the id (`Upcoming`). `SettingsInv` says so for
both ends, together with the same for PING and PONG and with what remains true when the server
has given the connection up. Nothing is assumed about when the applications call.

`SendPathProofs` (`FramesStayInOrder`, `WindowIsAccounted`) takes any streams, sizes and
windows, with failures of the transport and resets or without. `SendPathInv` has, for the order: what is
on the wire is the beginning of what was issued, and without a failure the buffer is exactly
the rest; the buffer is empty in the unbuffered mode and before the preface, and never holds
the preface. For the window: send window, DATA on the wire and in the buffer, and credit on
its way back add up to the receive window and the stray increments, and to no more than
that after a failure. The streams are taken to have positive ids, as in HTTP/2; 0 stands for
the connection.

`MpscqProofs` proves `MpscqIsFifo` (`Spec => ImplementsFifo`), `WakeupNotLost`,
`PoppedReleased` and `DrainedReset` for any number of producers, nodes and pushes. The
invariant is about the chain of cells from `_oldest` to `_newest`: it is what waits, in
order, with the stub at one place or nowhere; neighbours are linked by `next`, or a push that
has exchanged `_newest` is about to store the link, and every push under way is at such a gap
or at the end. A push extends the chain at its exchange, which is where it takes effect in
the abstract queue; the consumer takes a cell off the front only when there is no gap behind
it.

`HpackProofs` first proves for any static table, sizes of strings, limit, and anything a peer
sends, cut anywhere and read beyond the cut, that the decoder's accounting is right (`TableAlwaysFits`) and that it
evicts only what it must (`EvictsOnlyForRoom`). The sizes of the entries, oldest first, are a
sequence of numbers, and evicting drops the least number of them from the front (`Excess`) that
brings the total down to the limit.

It then proves the other four invariants of the `hpack` run for any hash functions, sizes,
header lists, changes of HEADER_TABLE_SIZE and number of blocks under way: `HeadersArrive`,
`CompressorTracksTable`, `RingStaysExact`, `FieldsHaveOneSlot`. From the inside out:
- the ring of sizes, with its wrapping index, stands for the sequence `LiveSizes` of the sizes
  of the live entries. Each is larger than the overhead, so that there are at most
  `elems_for_bytes(max_table_size)` of them, which the ring has room for; inserting
  (`AddedIs`), evicting (`EvictIs`) and moving to a ring of another size (`RebuildIs`) do to
  that sequence what they should (`RingOK`);
- the hash table has a field in one slot at most (`HashOK`; `UpdateIs`);
- `Tracks`: the live sizes are the sizes of the newest entries of the decoder's table, and a
  live number in the hash table names the field there. When both sides insert, each drops as
  few entries as it must from a sequence that ends the same, and the compressor's limit is
  not the larger one, so it never keeps more (`SameEnd`, `AddElemIs`); a smaller maximum only
  drops more on the compressor's side (`TracksShrunk`);
- hence an encoded field decodes to itself and both sides still agree (`FieldRoundTrips`),
  and so does a list, by induction over its fields (`ListRoundTrips`);
- the invariant of the specification (`Linked`) is that there is a chain of tables, from the
  one the decoder has now, through one for each block under way, to one that the compressor
  agrees with. Sending appends to the chain, receiving takes its first table off, and a
  SETTINGS frame changes the compressor only.

That names ending in `-bin` are not in the static table is an assumption (`HpackAssumption`),
and is needed: the two sides count such entries differently.

`StreamDataProofs` proves `ExactRefcounts`, `WindowsAlwaysFit`, `PeekedBytesStay` and
`StreamsBytes` (`Spec => ImplementsByteStream`) for any blocks, finitely many slice objects, any
payloads, any bounds on sizes, and with assertions or without (`SliceAssumption`, `StreamDataAssumption`). `StreamDataInv`
says of heap, objects, buffer and peeked bytes:
- `Owned`: the count of a block is the number of objects that show it and of places of the
  vector that do, consumed places included, since they hold their reference until `_compact`;
  and every slice is within its block;
- `BufferOK`: `_length` is the total of the slices that are not consumed;
- `PeekOK`: the peeked bytes are in their block, and while that block is counted it is the
  first current slice's, which is why nothing can free and reuse it in between.

`Owned` is about any sequence of slices, so an operation that holds temporaries (a copy on the
stack, the result of `merge`) is shown to keep it one reference at a time. An operation either
adds a slice, consumes from the front (`Consumed`), drops the last slice (`BackGone`), or leaves
the buffer alone; the refinement is shown for these four, each time against the very operation
of `ByteStream` that the step's `call` names. Nothing is freed that a slice still
shows (`Kept`), so the bytes `Joined` from the slices are the same before and after; reading
them in portions is reading one sequence (`CopyFrom`, slice by slice).

`CodecProofs` proves `PortionsDoNotMatterAlways` (`StreamSpec => []PortionsDoNotMatter`) for any
octets, preface, MAX_FRAME_SIZE and portions. The invariant `StreamInv` says: the frames read so
far, followed by those that one call reads from what is held and has yet to come, are the
frames that one call reads from everything (`StillToRead`); what is held has no complete
frame in it (`Quiet`); held and coming octets together are an end of all octets. It needs that
the loop on `a \o b` is the loop on `a`, continued with what it left in front of `b`
(`Splits`), which is an induction over the length of `a`, since every round takes a frame's
nine octets at least (`RoundsEnd`); a frame, or a refusal, that the octets at hand allow is the
same with more octets behind them (`ReadSame`, `LargeSame`).

It also proves `FramesAlwaysSurvive` (`TrafficSpec => []FramesSurvive`) and
`ParsedIsThePayloadAlways` (`TrafficSpec => []ParsedIsThePayload`): for any number of messages
with any fields and payloads, any MAX_FRAME_SIZE of either side, and any portions. `FramesSurvive`
excepts what the code refuses (short HEADERS, and frames above the receiver's MAX_FRAME_SIZE, own
HEADERS among them; section 6). The invariant
is `TrafficInv`: `StreamInv`, and every member of `sent` is a message. Since `StreamInv` makes
what was read equal to what one call reads from all the octets, the rest is about that one call:
- numbers and headers come back as they were put (`Put32`, `PutBack`, `HeaderBack`);
- each type of frame, laid out as RFC 7540 says, is parsed as it was, short HEADERS apart
  (`EveryFrameParses`), and any payload that is parsed without an error is accounted for
  (`EveryPayloadAccounts`);
- the library's builders and packers lay their frames out that way (`OwnIsLaidOut`); DATA goes in
  one piece or in several that join to what was sent (`OnePiece`, `DataReads`, `PiecesJoin`);
- the loop reads a frame and goes on with what follows (`ReadsFrame`, `ReadsAll`), so the entries
  of message k are where `Earlier(k)` says (`TrafficReads`), behind the preface (`AtOnceReads`).

The assumptions are those of the two modules: the own MAX_FRAME_SIZE is positive, the peer's
fits 24 bits, the preface is a sequence of octets.

`TotalsProofs` has the lemmas on totals of sequences that the window, HPACK and slices share. A total
is a recursive function; that it exists and is unique, and every other induction here, is
from `SetInduction`, a form of induction over a set of natural numbers that follows from their
well-foundedness.

Only model-checked: `DrainCompletes`, `EventuallyAnswered`, `AllIsRead` and
`EventuallyPopped`, since liveness under fairness is outside the prover's reach; and the literals,
which are statements about what `RECURSIVE` definitions compute, over tables given in full.

## 5. Not modelled

Library initialisation (a counter under one mutex), hashing (a parameter), test helpers and
the example programs. A custom `FlowControlHandler` is the application's: it replaces the
library's own window altogether. A send that fails after its header block was encoded is not
composed with HPACK: `transport.h` asks for the connection to be closed then. HEADERS skipped
after a GOAWAY are not HPACK-decoded, so the decoder's table then misses their insertions; no
module composes the two. Allocation is taken to succeed; `rebuild_elems`, refused its memory,
would leave a ring that is smaller than the table. `create_stream` counts the streams of both
sides against the peer's limit, which is in the model (`CanCreateStream`) without a property
of its own. Nested scopes of `ScopedBufferedMode` are not modelled: the inner one turns the
mode off.

## 6. Where the code differs from its documentation or from what one expects

Kept in the models as they are. Four have runs of their own: `window_overrun` (below, Settings and
sending), `integer_overflow`, `drain_client` and `empty_end`.

Connection:
- HEADERS on a stream that is not Idle are answered with GOAWAY (`connection.cc:720`), also
  the response to a request that has been sent, although `connection.cc:730` means responses
  to be accepted, and the trailers of the peer, whose END_STREAM is then not recorded;
- trailers that cross a reset of their stream find no stream at the other end and open a new one;
- an empty DATA frame with END_STREAM is answered with GOAWAY and its end not recorded
  (`connection.cc:663`), against `connection.cc:668` and `CHANGELOG.md:27`, although the library
  sends such frames itself (`connection.cc:590`): run `empty_end`;
- a draining client skips every frame on its own streams, whose ids are compared with the
  last id of its GOAWAY, which is about the peer's (`connection.cc:632`), and so never completes,
  against `transport.h:619`: run `drain_client`. A server's pushed streams are not concerned, since
  nothing has to arrive on them;
- `transport.h:618` ("New streams (local or remote) will be rejected") and `README.md:413` have a
  draining connection take no new stream of the peer. The code looks at the id only
  (`connection.cc:632`, `:744`): an id up to the announced one that was skipped, or closed before,
  still opens a stream, which the drain then waits for; and a `SendGoAway` with an explicit id
  after `Drain` may raise the limit. `GracefulShutdown` has it as the code does;
- `_write_closed` is recorded, at the end of a stream and for the streams above the peer's GOAWAY,
  and read by no sender (`connection.cc:536`): nothing keeps an application from sending on them.
  The comment at `connection.cc:956` says that such streams "can still send data";
- a MAX_CONCURRENT_STREAMS of 0 is taken for no limit (`connection.cc:264`);
- an RST_STREAM on an Idle stream reports `OnStreamClosed` but does not close it; a stream
  closed by the local side is erased without `OnStreamClosed`; PUSH_PROMISE does not register
  the promised stream;
- HEADERS on an id that was closed and erased opens a second stream, and a stale handle of
  the first sends on, and erases, the second;
- a reset of a stream between two fragments of its header block leaves the lock in place,
  and the peer's next CONTINUATION is answered with GOAWAY.

Settings and sending:
- the first `SendSettings` of a new client returns false, for the preface it triggers makes
  the initial SETTINGS pending;
- a server that calls `SendPing` before the preface has arrived gets a PONG in front of it
  and gives the connection up; one that calls `SendSettings` then gets the ACK in front of the
  preface, with the same result, unless the preface was under way already: then two SETTINGS are
  outstanding, the initial SETTINGS that follow set the request's values back at the client where
  they name them, the first ACK puts what was requested into force at the server and clears the
  pending flag, and the ACK of the initial SETTINGS then puts a later request into force that the
  client has not seen;
- a WINDOW_UPDATE for a stream that is gone is credited to the connection (`connection.cc:985`),
  which then sends beyond the peer's window, against `CHANGELOG.md:19`: run `window_overrun`;
- DATA beyond the window is dropped while END_STREAM is recorded and true returned
  (`connection.cc:595` says "defer send");
- DATA of a stream that is gone, and padding, is not credited to the connection;
- `Flush` keeps its whole buffer when it fails in the middle; `SetBufferedMode(false)` without
  `Flush` lets later frames overtake.

HPACK and frames:
- `decode_uint32` accepts an octet whose upper bits the shift moves out of the word
  (`decode.cc:29`), against `decode.cc:24` and `CHANGELOG.md:7`: run `integer_overflow`.
  `FittingIntegerIsRead` is what holds: an integer that fits is read as it is;
- the length of a Huffman-coded string is compared with nothing (`decode.cc:78`, `:105`), so one
  that reaches beyond its block is read from what lies behind it, and may be accepted;
- the limit on dynamic table size updates never follows the SETTINGS (`hpack.cc:95`);
- each frame of a header block is decoded by itself, so a block that is cut within a
  representation fails (`cut` in `decode_headers`), or, within a Huffman-coded value, may go on with
  a wrong one (`ReceivedOverrun`);
- HEADERS with fewer than five octets of payload are refused, with PRIORITY or without
  (`parser.cc:89`), the library's own short header blocks among them, where `CHANGELOG.md:10` speaks
  of "Priority flag + short payload";
- HEADERS larger than the peer's MAX_FRAME_SIZE are sent in one frame, for which the peer closes the
  connection (`http2.cc:196`), while `test/test_protocol.cc:375` has 20 KB of headers arrive "through
  CONTINUATION frames".

Slices:
- `transport.h:304` has the pointer of `PeekData` valid until the next `ReceivedData`; the
  `ReadData` that reaches the end of the slice lets `_compact` (`slice_buffer.cc:155`) free the
  block before. `PeekStaysUntilRead` is what holds;
- `ReadData` with a size above `DataSize()`, which `transport.h:298` allows ("Maximum bytes to
  read"), fails the assertion at `slice_buffer.cc:96` in a build with assertions, which the default
  CMake build is (`CMakeLists.txt` sets no build type).

## 7. Plan

1. Done: `StreamState`, `Connection`, `GracefulShutdown`, their runs and proofs.
2. Done: HPACK, literals, frames, settings, send path, slices, queue and their runs; the four runs
   of section 6.
3. Done: the proofs about the queue, the send path, the settings, the decoder, compressor and
   decoder together, the slices, the reassembly of frames, and of each type of frame that
   parsing undoes packing.
4. Left: what is only model-checked (end of section 4), and the parts of section 5.
