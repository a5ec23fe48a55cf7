------------------------------ MODULE MCFrames ------------------------------
(***************************************************************************)
(* The octets of two messages, read in every way they can be portioned: a  *)
(* frame of this library, a frame as another implementation of RFC 7540    *)
(* lays it out, with padding and reserved bits, or any short payload.      *)
(***************************************************************************)
EXTENDS FrameTraffic

MCPreface == <<80, 82, 73>>

-----------------------------------------------------------------------------
(* Frames of this library, and of other implementations. *)

Run(n) == [i \in 1..n |-> i]
Pri == {[depend_stream_id |-> 3, weight |-> w, exclusive |-> e] : w \in {1, 16, 256}, e \in BOOLEAN}

OwnFrames ==
  {build_http2_frame_data(1, f, Run(n)) : f \in {0, EndStream}, n \in {0, 1, 4, 5, 8, 9}}
  \cup {build_http2_frame_headers(258, f, Run(n), NoPriority) :
          f \in {EndHeaders, EndHeaders + EndStream + PriorityFlag}, n \in {1, 4, 5, 6}}
  \cup {build_http2_frame_headers(1, EndHeaders + PriorityFlag, Run(n), p) :
          n \in {0, 2}, p \in Pri}
  \cup {build_http2_frame_priority(1, 0, p) : p \in Pri}
  \cup {build_http2_frame_rst_stream(65537, 0, e) : e \in {0, 13}}
  \cup {build_http2_frame_settings(f, s) : f \in {0, Ack},
          s \in {<<>>, <<[id |-> 4, value |-> 65535]>>,
                 <<[id |-> 1, value |-> 0], [id |-> 260, value |-> 2^24 + 3]>>}}
  \cup {build_http2_frame_push_promise(1, 2, EndHeaders, Run(n)) : n \in {0, 2}}
  \cup {build_http2_frame_ping(Run(8), ack) : ack \in BOOLEAN}
  \cup {build_http2_frame_goaway(5, 2, Run(n)) : n \in {0, 2}}
  \cup {build_http2_frame_window_update(id, 2147483647) : id \in {0, 1}}

\* The frame with the length of its payload.
Measured(f) == [f EXCEPT !.hdr.length = Len(Layout(f))]

Hd(type, flags) == http2_frame_header_init(0, type, flags, 1)

ForeignFrames ==
  {Measured(f) : f \in
    {[hdr |-> Hd(Data, Padded), pad_len |-> p, data |-> Run(n)] : p \in {0, 2, 5}, n \in {0, 3}}
    \cup {[hdr |-> Hd(Headers, Padded + EndHeaders + PriorityFlag), pad_len |-> p, pspec |-> w,
           header_block_fragment |-> Run(n)] : p \in {0, 2}, n \in {0, 3}, w \in Pri}
    \cup {[hdr |-> Hd(Headers, Padded + EndHeaders), pad_len |-> p, pspec |-> NoPriority,
           header_block_fragment |-> Run(5)] : p \in {0, 2}}
    \cup {[hdr |-> Hd(PushPromise, Padded + EndHeaders), pad_len |-> p, reserved |-> r,
           promised_stream_id |-> 4, header_block_fragment |-> Run(n)] :
             p \in {0, 2}, n \in {0, 3}, r \in BOOLEAN}
    \cup {[hdr |-> Hd(GoAway, 0), reserved |-> TRUE, last_stream_id |-> 2147483647,
           error_code |-> 1, debug_data |-> <<>>]}
    \cup {[hdr |-> Hd(WindowUpdate, 0), reserved |-> TRUE, window_size_inc |-> 1]}
    \cup {[hdr |-> Hd(Continuation, EndHeaders), header_block_fragment |-> Run(n)] : n \in {0, 2}}}

\* Payloads of any type and length, the unknown type 10 and a frame over the limit.
Payloads ==
  {AnyPayload(http2_frame_header_init(n, type, flags, 1), [i \in 1..n |-> 5 - (i % 4)]) :
     type \in 0..10, flags \in {0, Padded, PriorityFlag}, n \in (0..9) \cup {MaxFrameSize + 1}}

Messages == {Own(f) : f \in OwnFrames} \cup {Foreign(f) : f \in ForeignFrames} \cup Payloads

\* What follows a message.
Followers == {Own(build_http2_frame_ping(Run(8), FALSE)),
              Own(build_http2_frame_data(1, EndStream, Run(5)))}

-----------------------------------------------------------------------------
\* One client omits the preface.
Init ==
  /\ \E first \in Messages, second \in Followers : sent = <<first, second>>
  /\ TrafficInit
  /\ Prefaced \/ sent[1] = sent[2]

Spec == Init /\ [][TrafficNext]_trafficVars

\* Nothing is left out of the messages above.
ASSUME MessagesAssumption == \A m \in Messages \cup Followers : IsMessage(m)
=============================================================================
