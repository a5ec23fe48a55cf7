----------------------------- MODULE FrameCodec -----------------------------
(***************************************************************************)
(* Frames and their octets: the builders of src/http2/frame.cc, the        *)
(* pack_http2_frame_* functions of src/http2/pack.cc and the               *)
(* parse_http2_frame_* functions of src/http2/parser.cc.  A frame is a     *)
(* record with the fields of its struct in src/http2/frame.h; data, header *)
(* blocks and debug data are sequences of octets.  Numbers of 32 bits are  *)
(* below 2^31 here; the top bit, where a frame has one of its own          *)
(* (exclusive, reserved), is a field.                                      *)
(***************************************************************************)
EXTENDS Integers, SequencesExt

Byte == 0..255

\* Http2FrameType.
Data         == 0
Headers      == 1
Priority     == 2
RstStream    == 3
Settings     == 4
PushPromise  == 5
Ping         == 6
GoAway       == 7
WindowUpdate == 8
Continuation == 9

\* Http2FrameFlag.
EndStream    == 1
Ack          == 1
EndHeaders   == 4
Padded       == 8
PriorityFlag == 32

Has(flags, flag) == (flags \div flag) % 2 = 1
Without(flags, flag) == IF Has(flags, flag) THEN flags - flag ELSE flags

HTTP2_FRAME_HEADER_SIZE == 9

-----------------------------------------------------------------------------
(* src/utils/byte_order.cc: numbers in network order. *)

put_uint16_in_be_stream(n) == <<n \div 256, n % 256>>
put_uint32_in_be_stream(n) ==
  put_uint16_in_be_stream(n \div 65536) \o put_uint16_in_be_stream(n % 65536)
get_uint16_from_be_stream(p) == 256 * p[1] + p[2]
get_uint32_from_be_stream(p) ==
  65536 * get_uint16_from_be_stream(p) + get_uint16_from_be_stream(SubSeq(p, 3, 4))

\* The number with its top bit apart: n | (1 << 31), and p & HTTP2_STREAM_ID_MASK.
TopBit(p) == p[1] >= 128
PutWithTop(top, n) ==
  LET p == put_uint32_in_be_stream(n) IN IF top THEN [p EXCEPT ![1] = @ + 128] ELSE p
GetMasked(p) == get_uint32_from_be_stream([p EXCEPT ![1] = @ % 128])

From(p, n) == SubSeq(p, n, Len(p))

-----------------------------------------------------------------------------
(* The frame header. *)

http2_frame_header_init(length, type, flags, stream_id) ==
  [length |-> length, type |-> type, flags |-> flags, stream_id |-> stream_id]

\* The length leaves as its three low octets.
http2_frame_header_pack(hd) ==
  Tail(put_uint32_in_be_stream(hd.length))
    \o <<hd.type, hd.flags>> \o put_uint32_in_be_stream(hd.stream_id)

http2_frame_header_unpack(buf) ==
  http2_frame_header_init(
    get_uint32_from_be_stream(<<0>> \o SubSeq(buf, 1, 3)), buf[4], buf[5],
    GetMasked(SubSeq(buf, 6, 9)))

-----------------------------------------------------------------------------
(* Builders. *)

NoPriority == [depend_stream_id |-> 0, weight |-> 0, exclusive |-> FALSE]

build_http2_frame_settings(flags, settings) ==
  LET entries == IF Has(flags, Ack) THEN <<>> ELSE settings
  IN  [hdr      |-> http2_frame_header_init(6 * Len(entries), Settings, flags, 0),
       settings |-> entries]

build_http2_frame_ping(data, ack) ==
  [hdr         |-> http2_frame_header_init(8, Ping, IF ack THEN Ack ELSE 0, 0),
   opaque_data |-> data]

build_http2_frame_goaway(last_stream_id, error_code, debug) ==
  [hdr            |-> http2_frame_header_init(8 + Len(debug), GoAway, 0, 0),
   last_stream_id |-> last_stream_id, error_code |-> error_code,
   debug_data     |-> debug, reserved |-> FALSE]

build_http2_frame_window_update(stream_id, window_size_inc) ==
  [hdr             |-> http2_frame_header_init(4, WindowUpdate, 0, stream_id),
   window_size_inc |-> window_size_inc, reserved |-> FALSE]

build_http2_frame_data(stream_id, flags, data) ==
  [hdr     |-> http2_frame_header_init(Len(data), Data, flags, stream_id),
   pad_len |-> 0, data |-> data]

\* spec = NoPriority stands for the null pointer: the flag goes as well.
build_http2_frame_headers(stream_id, flags, block, spec) ==
  LET kept == IF spec = NoPriority THEN Without(flags, PriorityFlag) ELSE flags
      more == IF Has(kept, PriorityFlag) THEN 5 ELSE 0
  IN  [hdr     |-> http2_frame_header_init(Len(block) + more, Headers, kept, stream_id),
       pad_len |-> 0, header_block_fragment |-> block,
       pspec   |-> IF Has(kept, PriorityFlag) THEN spec ELSE NoPriority]

build_http2_frame_push_promise(stream_id, promised_stream_id, flags, block) ==
  [hdr                |-> http2_frame_header_init(4 + Len(block), PushPromise, flags, stream_id),
   promised_stream_id |-> promised_stream_id, header_block_fragment |-> block,
   pad_len            |-> 0, reserved |-> FALSE]

build_http2_frame_rst_stream(stream_id, flags, error_code) ==
  [hdr        |-> http2_frame_header_init(4, RstStream, flags, stream_id),
   error_code |-> error_code]

build_http2_frame_priority(stream_id, flags, spec) ==
  [hdr |-> http2_frame_header_init(5, Priority, flags, stream_id), pspec |-> spec]

-----------------------------------------------------------------------------
(* Packing.  The builders leave no frame padded. *)

\* Faulty variant: every piece keeps the flags of the whole.
PackDataKeepFlags(frame, max_frame_size) ==
  LET size   == Len(frame.data)
      count  == IF size = 0 THEN 1 ELSE (size + max_frame_size - 1) \div max_frame_size
      Piece(i) == SubSeq(frame.data, (i - 1) * max_frame_size + 1,
                         IF i < count THEN i * max_frame_size ELSE size)
  IN  FlattenSeq([i \in 1..count |->
        http2_frame_header_pack([frame.hdr EXCEPT !.length = Len(Piece(i))]) \o Piece(i)])

\* DATA is cut into pieces of at most max_frame_size octets, only the last of
\* which has END_STREAM; without data there is one empty piece.
pack_http2_frame_data(frame, max_frame_size) ==
  LET size   == Len(frame.data)
      count  == IF size = 0 THEN 1 ELSE (size + max_frame_size - 1) \div max_frame_size
      flags  == Without(frame.hdr.flags, Padded)
      Piece(i) == SubSeq(frame.data, (i - 1) * max_frame_size + 1,
                         IF i < count THEN i * max_frame_size ELSE size)
      Hdr(i) == [frame.hdr EXCEPT
                   !.length = Len(Piece(i)),
                   !.flags  = IF i = count THEN flags ELSE Without(flags, EndStream)]
  IN  FlattenSeq([i \in 1..count |-> http2_frame_header_pack(Hdr(i)) \o Piece(i)])

\* The five octets of a priority; a weight of 1 to 256 leaves as 0 to 255.
PackPriority(pspec, weight) ==
  Append(PutWithTop(pspec.exclusive, pspec.depend_stream_id), weight)

pack_http2_frame_headers(frame) ==
  http2_frame_header_pack(frame.hdr)
    \o (IF Has(frame.hdr.flags, PriorityFlag)
        THEN PackPriority(frame.pspec, (frame.pspec.weight + 255) % 256) ELSE <<>>)
    \o frame.header_block_fragment

pack_http2_frame_priority(frame) ==
  http2_frame_header_pack(frame.hdr)
    \o PackPriority(frame.pspec,
                    IF frame.pspec.weight # 0 THEN (frame.pspec.weight - 1) % 256 ELSE 0)

pack_http2_frame_rst_stream(frame) ==
  http2_frame_header_pack(frame.hdr) \o put_uint32_in_be_stream(frame.error_code)

pack_http2_frame_settings(frame) ==
  http2_frame_header_pack(frame.hdr)
    \o FlattenSeq([i \in DOMAIN frame.settings |->
                     put_uint16_in_be_stream(frame.settings[i].id)
                       \o put_uint32_in_be_stream(frame.settings[i].value)])

pack_http2_frame_push_promise(frame) ==
  http2_frame_header_pack(frame.hdr)
    \o put_uint32_in_be_stream(frame.promised_stream_id) \o frame.header_block_fragment

pack_http2_frame_ping(frame) == http2_frame_header_pack(frame.hdr) \o frame.opaque_data

pack_http2_frame_goaway(frame) ==
  http2_frame_header_pack(frame.hdr)
    \o put_uint32_in_be_stream(frame.last_stream_id)
    \o put_uint32_in_be_stream(frame.error_code) \o frame.debug_data

pack_http2_frame_window_update(frame) ==
  http2_frame_header_pack(frame.hdr) \o put_uint32_in_be_stream(frame.window_size_inc)

pack_http2_frame_continuation(frame) ==
  http2_frame_header_pack(frame.hdr) \o frame.header_block_fragment

\* The overloads of http2_connection::send_http2_frame.
send_http2_frame(frame, max_frame_size) ==
  CASE frame.hdr.type = Data         -> pack_http2_frame_data(frame, max_frame_size)
    [] frame.hdr.type = Headers      -> pack_http2_frame_headers(frame)
    [] frame.hdr.type = Priority     -> pack_http2_frame_priority(frame)
    [] frame.hdr.type = RstStream    -> pack_http2_frame_rst_stream(frame)
    [] frame.hdr.type = Settings     -> pack_http2_frame_settings(frame)
    [] frame.hdr.type = PushPromise  -> pack_http2_frame_push_promise(frame)
    [] frame.hdr.type = Ping         -> pack_http2_frame_ping(frame)
    [] frame.hdr.type = GoAway       -> pack_http2_frame_goaway(frame)
    [] frame.hdr.type = WindowUpdate -> pack_http2_frame_window_update(frame)
    [] frame.hdr.type = Continuation -> pack_http2_frame_continuation(frame)

-----------------------------------------------------------------------------
(* Parsing.  input is the payload, hdr.length octets. *)

FrameSizeError == [error |-> 6]
NoError(frame) == [error |-> 0, frame |-> frame]

\* Faulty variant: padding may take the octet of its own length.
UnpadTooMuch(hdr, input) ==
  LET pad == IF Has(hdr.flags, Padded) /\ hdr.length > 0 THEN input[1] ELSE 0
  IN  IF ~Has(hdr.flags, Padded) THEN [ok |-> TRUE, pad_len |-> 0, payload |-> input]
      ELSE [ok      |-> hdr.length > 0 /\ pad <= hdr.length,
            pad_len |-> pad,
            payload |-> SubSeq(input, 2, hdr.length - pad)]

\* Pad Length and the padding around a payload.  A padded frame of length 0 is
\* refused whatever octet its pad length is read from.
Unpad(hdr, input) ==
  LET pad == IF Has(hdr.flags, Padded) /\ hdr.length > 0 THEN input[1] ELSE 0
  IN  IF ~Has(hdr.flags, Padded) THEN [ok |-> TRUE, pad_len |-> 0, payload |-> input]
      ELSE [ok      |-> pad + 1 <= hdr.length,
            pad_len |-> pad,
            payload |-> SubSeq(input, 2, hdr.length - pad)]

ParsePriority(p) ==
  [depend_stream_id |-> GetMasked(SubSeq(p, 1, 4)), exclusive |-> TopBit(p), weight |-> p[5] + 1]

parse_http2_frame_data(hdr, input) ==
  LET u == Unpad(hdr, input)
  IN  IF ~u.ok THEN FrameSizeError
      ELSE NoError([hdr |-> hdr, pad_len |-> u.pad_len, data |-> u.payload])

\* Five octets are asked for with PRIORITY and without.
parse_http2_frame_headers(hdr, input) ==
  LET u   == Unpad(hdr, input)
      pri == Has(hdr.flags, PriorityFlag)
  IN  IF ~u.ok \/ Len(u.payload) < 5 THEN FrameSizeError
      ELSE NoError([hdr     |-> hdr, pad_len |-> u.pad_len,
                    pspec   |-> IF pri THEN ParsePriority(u.payload) ELSE NoPriority,
                    header_block_fragment |-> IF pri THEN From(u.payload, 6) ELSE u.payload])

parse_http2_frame_priority(hdr, input) ==
  IF hdr.length # 5 THEN FrameSizeError
  ELSE NoError([hdr |-> hdr, pspec |-> ParsePriority(input)])

parse_http2_frame_rst_stream(hdr, input) ==
  IF hdr.length # 4 THEN FrameSizeError
  ELSE NoError([hdr |-> hdr, error_code |-> get_uint32_from_be_stream(input)])

parse_http2_frame_settings(hdr, input) ==
  IF hdr.length % 6 # 0 THEN FrameSizeError
  ELSE NoError([hdr |-> hdr, settings |->
         [i \in 1..(hdr.length \div 6) |->
            LET p == From(input, 6 * i - 5)
            IN  [id    |-> get_uint16_from_be_stream(p),
                 value |-> get_uint32_from_be_stream(SubSeq(p, 3, 6))]]])

parse_http2_frame_push_promise(hdr, input) ==
  LET u == Unpad(hdr, input)
  IN  IF ~u.ok \/ Len(u.payload) < 4 THEN FrameSizeError
      ELSE NoError([hdr                |-> hdr,
                    promised_stream_id |-> GetMasked(SubSeq(u.payload, 1, 4)),
                    reserved           |-> TopBit(u.payload), pad_len |-> u.pad_len,
                    header_block_fragment |-> From(u.payload, 5)])

parse_http2_frame_ping(hdr, input) ==
  IF hdr.length # 8 THEN FrameSizeError ELSE NoError([hdr |-> hdr, opaque_data |-> input])

parse_http2_frame_goaway(hdr, input) ==
  IF hdr.length < 8 THEN FrameSizeError
  ELSE NoError([hdr            |-> hdr, reserved |-> TopBit(input),
                last_stream_id |-> GetMasked(SubSeq(input, 1, 4)),
                error_code     |-> get_uint32_from_be_stream(SubSeq(input, 5, 8)),
                debug_data     |-> From(input, 9)])

parse_http2_frame_window_update(hdr, input) ==
  IF hdr.length # 4 THEN FrameSizeError
  ELSE NoError([hdr |-> hdr, reserved |-> TopBit(input),
                window_size_inc |-> GetMasked(input)])

parse_http2_frame_continuation(hdr, input) ==
  NoError([hdr |-> hdr, header_block_fragment |-> input])

\* frame_process_func_array: the internal_*_process functions up to the handler.
ParsePayload(hdr, input) ==
  CASE hdr.type = Data         -> parse_http2_frame_data(hdr, input)
    [] hdr.type = Headers      -> parse_http2_frame_headers(hdr, input)
    [] hdr.type = Priority     -> parse_http2_frame_priority(hdr, input)
    [] hdr.type = RstStream    -> parse_http2_frame_rst_stream(hdr, input)
    [] hdr.type = Settings     -> parse_http2_frame_settings(hdr, input)
    [] hdr.type = PushPromise  -> parse_http2_frame_push_promise(hdr, input)
    [] hdr.type = Ping         -> parse_http2_frame_ping(hdr, input)
    [] hdr.type = GoAway       -> parse_http2_frame_goaway(hdr, input)
    [] hdr.type = WindowUpdate -> parse_http2_frame_window_update(hdr, input)
    [] hdr.type = Continuation -> parse_http2_frame_continuation(hdr, input)
=============================================================================
