---------------------------- MODULE FrameTraffic ----------------------------
(***************************************************************************)
(* What comes out of ReceivedData when messages are sent one behind the    *)
(* other: a frame of this library, as its builders make it and its packers *)
(* lay it out; a frame as another implementation of RFC 7540 lays it out,  *)
(* with padding and reserved bits; or a frame with any payload.            *)
(***************************************************************************)
EXTENDS FrameStream, Totals

CONSTANTS
  RemoteMax   \* the peer's MAX_FRAME_SIZE, at which DATA is cut

\* What 16, 24 and 31 bits hold.
MaxShort  == 65535
MaxLength == 16777215
MaxNumber == 2147483647

ASSUME FrameTrafficAssumption == RemoteMax \in 1..MaxLength

VARIABLE sent   \* the messages

trafficVars == <<vars, sent>>

-----------------------------------------------------------------------------
(* RFC 7540, 4.1 and 6.1 to 6.10: the fields of a frame and their layout. *)

Number == 0..MaxNumber
Header == [length : 0..MaxLength, type : Byte, flags : Byte, stream_id : Number]
PrioritySpec == [depend_stream_id : Number, weight : 1..256, exclusive : BOOLEAN]
Setting == [id : 0..MaxShort, value : Number]

PriorityLayout(p) == Append(PutWithTop(p.exclusive, p.depend_stream_id), p.weight - 1)

HeadersLayout(f) ==
  (IF Has(f.hdr.flags, PriorityFlag) THEN PriorityLayout(f.pspec) ELSE <<>>)
    \o f.header_block_fragment

SettingLayout(s) == put_uint16_in_be_stream(s.id) \o put_uint32_in_be_stream(s.value)
SettingsLayout(f) == FlattenSeq([i \in DOMAIN f.settings |-> SettingLayout(f.settings[i])])

PushPromiseLayout(f) ==
  PutWithTop(f.reserved, f.promised_stream_id) \o f.header_block_fragment

GoAwayLayout(f) ==
  PutWithTop(f.reserved, f.last_stream_id) \o put_uint32_in_be_stream(f.error_code)
    \o f.debug_data

Body(f) ==
  LET type == f.hdr.type
  IN  CASE type = Data -> f.data
        [] type = Headers -> HeadersLayout(f)
        [] type = Priority -> PriorityLayout(f.pspec)
        [] type = RstStream -> put_uint32_in_be_stream(f.error_code)
        [] type = Settings -> SettingsLayout(f)
        [] type = PushPromise -> PushPromiseLayout(f)
        [] type = Ping -> f.opaque_data
        [] type = GoAway -> GoAwayLayout(f)
        [] type = WindowUpdate -> PutWithTop(f.reserved, f.window_size_inc)
        [] type = Continuation -> f.header_block_fragment

MayBePadded(hdr) == hdr.type \in {Data, Headers, PushPromise} /\ Has(hdr.flags, Padded)

Layout(f) ==
  IF MayBePadded(f.hdr)
  THEN <<f.pad_len>> \o Body(f) \o [i \in 1..f.pad_len |-> 0]
  ELSE Body(f)

\* What the fields may be.
Fields(f) ==
  LET type == f.hdr.type
      pri  == IF Has(f.hdr.flags, PriorityFlag) THEN PrioritySpec ELSE {NoPriority}
      pad  == IF MayBePadded(f.hdr) THEN Byte ELSE {0}
  IN  CASE type = Data -> f \in [hdr : Header, pad_len : pad, data : Seq(Byte)]
        [] type = Headers -> f \in [hdr : Header, pad_len : pad, pspec : pri,
                                    header_block_fragment : Seq(Byte)]
        [] type = Priority -> f \in [hdr : Header, pspec : PrioritySpec]
        [] type = RstStream -> f \in [hdr : Header, error_code : Number]
        [] type = Settings -> f \in [hdr : Header, settings : Seq(Setting)]
        [] type = PushPromise -> f \in [hdr : Header, pad_len : pad, reserved : BOOLEAN,
                                        promised_stream_id : Number,
                                        header_block_fragment : Seq(Byte)]
        [] type = Ping -> f \in [hdr : Header, opaque_data : Seq(Byte)] /\ Len(f.opaque_data) = 8
        [] type = GoAway -> f \in [hdr : Header, reserved : BOOLEAN, last_stream_id : Number,
                                   error_code : Number, debug_data : Seq(Byte)]
        [] type = WindowUpdate -> f \in [hdr : Header, reserved : BOOLEAN,
                                         window_size_inc : Number]
        [] type = Continuation -> f \in [hdr : Header, header_block_fragment : Seq(Byte)]
        [] OTHER -> FALSE

WellFormed(f) == Fields(f) /\ f.hdr.length = Len(Layout(f))

-----------------------------------------------------------------------------
(* Messages. *)

\* The builder of f's type, on what f was built from.
Rebuilt(f) ==
  LET hdr == f.hdr
  IN  CASE hdr.type = Data -> build_http2_frame_data(hdr.stream_id, hdr.flags, f.data)
        [] hdr.type = Headers ->
             build_http2_frame_headers(hdr.stream_id, hdr.flags, f.header_block_fragment, f.pspec)
        [] hdr.type = Priority -> build_http2_frame_priority(hdr.stream_id, hdr.flags, f.pspec)
        [] hdr.type = RstStream ->
             build_http2_frame_rst_stream(hdr.stream_id, hdr.flags, f.error_code)
        [] hdr.type = Settings -> build_http2_frame_settings(hdr.flags, f.settings)
        [] hdr.type = PushPromise ->
             build_http2_frame_push_promise(hdr.stream_id, f.promised_stream_id, hdr.flags,
                                            f.header_block_fragment)
        [] hdr.type = Ping -> build_http2_frame_ping(f.opaque_data, hdr.flags = Ack)
        [] hdr.type = GoAway ->
             build_http2_frame_goaway(f.last_stream_id, f.error_code, f.debug_data)
        [] hdr.type = WindowUpdate ->
             build_http2_frame_window_update(hdr.stream_id, f.window_size_inc)

\* DATA of any length: it is cut into pieces.
OwnFrame(f) ==
  /\ f.hdr.type \in Data..WindowUpdate /\ ~MayBePadded(f.hdr)
  /\ IF f.hdr.type = Data
     THEN f.hdr.stream_id \in Number /\ f.hdr.flags \in Byte /\ f.data \in Seq(Byte)
     ELSE Fields(f)
  /\ f = Rebuilt(f)

\* A message: its octets, the frame they are, and how many frames it is cut into.
Own(f) ==
  [octets |-> send_http2_frame(f, RemoteMax), frame |-> f, whole |-> TRUE,
   pieces |-> IF f.hdr.type = Data /\ f.data # <<>>
              THEN (Len(f.data) + RemoteMax - 1) \div RemoteMax ELSE 1]

Foreign(f) ==
  [octets |-> http2_frame_header_pack(f.hdr) \o Layout(f), frame |-> f, whole |-> TRUE,
   pieces |-> 1]

\* Any payload, of a known type or an unknown one.
AnyPayload(hdr, payload) ==
  [octets |-> http2_frame_header_pack(hdr) \o payload, frame |-> [hdr |-> hdr], whole |-> FALSE,
   pieces |-> 1]

IsMessage(m) ==
  \/ m.whole /\ OwnFrame(m.frame) /\ m = Own(m.frame)
  \/ m.whole /\ WellFormed(m.frame) /\ m = Foreign(m.frame)
  \/ /\ ~m.whole /\ m.frame.hdr \in Header /\ From(m.octets, 10) \in Seq(Byte)
     /\ Len(From(m.octets, 10)) = m.frame.hdr.length
     /\ m = AnyPayload(m.frame.hdr, From(m.octets, 10))

Traffic == FlattenSeq([k \in DOMAIN sent |-> sent[k].octets])

\* The preface that a server waits for.
Prefaced == octets = (IF server THEN Preface ELSE <<>>) \o Traffic

-----------------------------------------------------------------------------
\* A client may omit the preface.
TrafficInit ==
  /\ sent \in Seq(Range(sent))
  /\ \A k \in DOMAIN sent : IsMessage(sent[k])
  /\ server \in BOOLEAN
  /\ octets \in {(IF server THEN Preface ELSE <<>>) \o Traffic, Traffic}
  /\ StreamInit

TrafficNext == StreamNext /\ UNCHANGED sent

TrafficSpec == TrafficInit /\ [][TrafficNext]_trafficVars

-----------------------------------------------------------------------------
\* A HEADERS frame that parse_http2_frame_headers refuses although RFC 7540
\* lets it be: without PRIORITY, with a block of less than five octets.
ShortHeaders(f) ==
  /\ f.hdr.type = Headers
  /\ ~Has(f.hdr.flags, PriorityFlag)
  /\ Len(f.header_block_fragment) < 5

\* DATA in pieces: each within RemoteMax, all but the last without END_STREAM,
\* and together what was sent.
JoinTo(pieces, f) ==
  LET n == Len(pieces)
  IN  /\ \A i \in 1..n : pieces[i].error = 0 /\ pieces[i].frame.hdr.length <= RemoteMax
      /\ \A i \in 1..(n - 1) : ~Has(pieces[i].frame.hdr.flags, EndStream)
      /\ pieces[n].frame.hdr.flags = f.hdr.flags
      /\ FlattenSeq([i \in 1..n |-> pieces[i].frame.data]) = f.data

\* The entries of the log for message k, once all has arrived.
Earlier(k) == Total([i \in 1..(k - 1) |-> sent[i].pieces])
LogOf(k) == SubSeq(log, Earlier(k) + 1, Earlier(k) + sent[k].pieces)

\* Every frame of this library and every frame of another, padded or not, comes
\* out of the log once and as it went in; DATA of this library comes in pieces
\* that the peer's MAX_FRAME_SIZE allows.  Nothing is said of the short HEADERS,
\* which the parser refuses although CHANGELOG.md:10 is about frames with PRIORITY
\* only, and nothing of a connection that was closed for a frame above
\* MaxFrameSize: among those are this library's own HEADERS with a large block,
\* which it does not cut, although test_protocol.cc:373 expects CONTINUATION.
FramesSurvive ==
  wire = <<>> /\ ~closed /\ Prefaced =>
    /\ Len(log) = Earlier(Len(sent) + 1)
    /\ \A k \in DOMAIN sent :
         LET f == sent[k].frame
         IN  sent[k].whole =>
               \/ ShortHeaders(f)
               \/ LogOf(k) = <<NoError(f)>>
               \/ sent[k].pieces > 1 /\ JoinTo(LogOf(k), f)

\* f laid out is the payload, octet for octet up to the padding.
LaysOut(f, payload) ==
  LET last == Len(payload) - (IF MayBePadded(f.hdr) THEN f.pad_len ELSE 0)
  IN  /\ Len(Layout(f)) = Len(payload)
      /\ SubSeq(Layout(f), 1, last) = SubSeq(payload, 1, last)

\* Whatever the payload of a frame, what the parser makes of it is all there
\* is: laid out again, it is the payload, octet for octet up to the padding.
ParsedIsThePayload ==
  wire = <<>> /\ ~closed /\ Prefaced =>
    \A k \in DOMAIN sent :
      LET entry == LogOf(k)[1]
      IN  sent[k].pieces = 1 /\ sent[k].frame.hdr.type <= Continuation /\ entry.error = 0
            => LaysOut(entry.frame, From(sent[k].octets, 10))
=============================================================================
