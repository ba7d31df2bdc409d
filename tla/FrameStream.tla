---------------------------- MODULE FrameStream ----------------------------
(***************************************************************************)
(* One direction of a remote connection, byte by byte: length-prefixed     *)
(* frames through the stdio proxy's raw relay to an incremental decoder.   *)
(*                                                                         *)
(*   protocol frame.rs           encode_json, FrameDecoder::push, finish   *)
(*   server connection/stdio.rs  StdioAdapter, StdioReader, FramedRelay    *)
(*   server connection/mod.rs    the hello gate, dispatch and cleanup      *)
(*   server remote/runtime.rs    the first frame is peeked at              *)
(*   desktop bridge.rs           the two relay directions                  *)
(*                                                                         *)
(* "toClient" ends in the bridge, which forwards every frame of a read.    *)
(* "toServer" ends in the runtime, where the first frame is read by one    *)
(* decoder and the rest by another, and a call returns one message.        *)
(***************************************************************************)
EXTENDS Integers, Sequences

CONSTANTS
    PrefixBytes,      \* 4: the length prefix
    MAX_FRAME_BYTES,  \* the largest body
    Misread,          \* what a prefix amounts to when it is read from a later byte on: the rest
                      \* of it and the first bytes of the body, which are the same in every body
    Sizes,            \* body sizes the sender produces
    Directions,       \* subset of {"toClient", "toServer"}
    MaxMessages,      \* messages sent
    MaxRead           \* bytes one read may return

ASSUME FrameAssumption ==
    /\ PrefixBytes \in Nat \ {0} /\ MAX_FRAME_BYTES \in Nat \ {0} /\ Sizes \subseteq Nat
    /\ Directions \subseteq {"toClient", "toServer"}
    /\ MaxMessages \in Nat /\ MaxRead \in Nat \ {0}
    /\ Misread \in [Sizes \X (2 .. PrefixBytes) -> Nat]

\* A message: its place in the order, whether its JSON is one the receiver knows, its size.
Kinds == {"hello", "request", "unknown"}
Messages == [id : 1 .. MaxMessages, kind : Kinds, size : Sizes]

VARIABLES
    dir,       \* which direction this is
    sent,      \* the messages that were framed and written
    stream,    \* all bytes written so far
    relayed,   \* how many of them the proxy has passed on
    taken,     \* how many of those the receiver has read
    buf,       \* FrameDecoder.buf
    stage,     \* the receiver: "peek", "open" or "closed"
    got,       \* the messages the receiver acted on
    registered \* is the connection a client of the hub?

framesVars == <<dir, sent, stream, relayed, taken, buf, stage, got, registered>>

-----------------------------------------------------------------------------
(***************************************************************************)
(* The codec.  Byte k of message m's frame: the prefix, then the body.     *)
(***************************************************************************)
Byte(m, k) == [of |-> m, at |-> k]
FrameLen(m) == PrefixBytes + m.size

\* encode_json.
encode(m) == [k \in 1 .. FrameLen(m) |-> Byte(m, k)]

\* The length read at b[i]: right when b[i] starts a frame.  JSON text read as a length is far over
\* the limit.
declared(b, i) ==
    IF b[i].at = 1 THEN b[i].of.size
    ELSE IF b[i].at > PrefixBytes THEN MAX_FRAME_BYTES + 1
    ELSE Misread[<<b[i].of.size, b[i].at>>]

\* A result of the decoder: a body, or the error Empty or Oversized.
Frame(b) == [ok |-> b # <<>>, body |-> b]
Oversized == [ok |-> FALSE, body |-> <<>>]

\* FrameDecoder::push over the buffered bytes: the complete frames in order, and from which offset
\* on bytes are kept.  An oversized length drops everything.
push(bytes) ==
    LET f[i \in 0 .. Len(bytes)] ==
            LET len == declared(bytes, i + 1) IN
            IF Len(bytes) - i < PrefixBytes THEN [frames |-> <<>>, keep |-> i]
            ELSE IF len > MAX_FRAME_BYTES THEN [frames |-> <<Oversized>>, keep |-> Len(bytes)]
            ELSE IF Len(bytes) - i < PrefixBytes + len THEN [frames |-> <<>>, keep |-> i]
            ELSE LET rest == f[i + PrefixBytes + len] IN
                 [frames |-> <<Frame(SubSeq(bytes, i + PrefixBytes + 1, i + PrefixBytes + len))>> \o rest.frames,
                  keep |-> rest.keep]
    IN f[0]

\* Is the frame the whole body of one message?
IsBody(frame) ==
    /\ frame.body # <<>>
    /\ frame.body = SubSeq(encode(frame.body[1].of), PrefixBytes + 1, FrameLen(frame.body[1].of))

\* decode, decode_client: does the body parse?  (A body that is not one whole message does not.)
Decodes(frame) == IsBody(frame) /\ frame.body[1].of.kind # "unknown"
MessageOf(frame) == frame.body[1].of
\* The hello gate of the session.
Hello(frame) == Decodes(frame) /\ MessageOf(frame).kind = "hello"
DecodedOf(frames) ==
    LET out[i \in 0 .. Len(frames)] ==
            IF i = 0 THEN <<>>
            ELSE IF Decodes(frames[i]) THEN Append(out[i - 1], MessageOf(frames[i])) ELSE out[i - 1]
    IN out[Len(frames)]

-----------------------------------------------------------------------------
(***************************************************************************)
(* The sender and the relay.                                               *)
(***************************************************************************)
\* encode refuses what is too large: the bridge drops it and goes on, the server's pump stops.
\* A body is never empty (JSON).
send(m) ==
    /\ m.id = Len(sent) + 1 /\ m.id <= MaxMessages /\ stage # "closed"
    /\ m.size \in 1 .. MAX_FRAME_BYTES
    /\ dir = "toServer" => (m.kind = "hello" <=> m.id = 1)
    /\ dir = "toClient" => m.kind # "hello"
    /\ sent' = Append(sent, m) /\ stream' = stream \o encode(m)
    /\ UNCHANGED <<dir, relayed, taken, buf, stage, got, registered>>

\* FramedRelay::run: whatever one read returns is written on.
pass_on(n) ==
    /\ relayed + n <= Len(stream) /\ stage # "closed"
    /\ relayed' = relayed + n
    /\ UNCHANGED <<dir, sent, stream, taken, buf, stage, got, registered>>

-----------------------------------------------------------------------------
(***************************************************************************)
(* The receivers.                                                          *)
(***************************************************************************)
Read(n) == taken + n <= relayed /\ taken' = taken + n
Arrived(n) == buf \o SubSeq(stream, taken + 1, taken + n)

\* Seeded bug: a read forwards the first frame it completes.
bridge_read_one(n) ==
    LET r == push(Arrived(n)) IN
    /\ dir = "toClient" /\ stage = "open" /\ Read(n)
    /\ buf' = SubSeq(Arrived(n), r.keep + 1, Len(Arrived(n)))
    /\ got' = got \o SubSeq(DecodedOf(r.frames), 1, IF DecodedOf(r.frames) = <<>> THEN 0 ELSE 1)
    /\ UNCHANGED <<dir, sent, stream, relayed, stage, registered>>

\* run_ws_relay, SSH to browser: every frame of the read is forwarded.
bridge_read(n) ==
    LET r == push(Arrived(n)) IN
    /\ dir = "toClient" /\ stage = "open" /\ Read(n)
    /\ buf' = SubSeq(Arrived(n), r.keep + 1, Len(Arrived(n)))
    /\ got' = got \o DecodedOf(r.frames)
    /\ UNCHANGED <<dir, sent, stream, relayed, stage, registered>>

\* handle_runtime_connection reads until a read's first result is a frame.  The session then gets
\* that frame again through CombinedReader and passes it to the hello gate; the decoder, with
\* whatever else it held, is dropped.  A first message that is no hello closes.
peek(n) ==
    LET r == push(Arrived(n))
        first == r.frames # <<>> /\ r.frames[1].ok IN
    /\ dir = "toServer" /\ stage = "peek" /\ Read(n)
    /\ IF ~first
       THEN /\ buf' = SubSeq(Arrived(n), r.keep + 1, Len(Arrived(n)))
            /\ UNCHANGED <<stage, got, registered>>
       ELSE LET hello == Hello(r.frames[1]) IN
            /\ buf' = <<>>
            /\ stage' = IF hello THEN "open" ELSE "closed"
            /\ got' = IF hello THEN Append(got, MessageOf(r.frames[1])) ELSE got
            /\ registered' = hello
    /\ UNCHANGED <<dir, sent, stream, relayed>>

\* StdioReader::recv: the first frame of the read that decodes is returned; the frames after it
\* are dropped with the vector push returned them in.
recv(n) ==
    LET r == push(Arrived(n))
        msgs == DecodedOf(r.frames) IN
    /\ dir = "toServer" /\ stage = "open" /\ Read(n)
    /\ buf' = SubSeq(Arrived(n), r.keep + 1, Len(Arrived(n)))
    /\ got' = IF msgs = <<>> THEN got ELSE Append(got, msgs[1])
    /\ UNCHANGED <<dir, sent, stream, relayed, stage, registered>>

\* End of stream, at any byte: finish() reports a truncated frame, and the client is removed.
eof ==
    /\ stage # "closed" /\ stage' = "closed" /\ registered' = FALSE
    /\ UNCHANGED <<dir, sent, stream, relayed, taken, buf, got>>

-----------------------------------------------------------------------------
FramesInit ==
    /\ dir \in Directions
    /\ sent = <<>> /\ stream = <<>> /\ relayed = 0 /\ taken = 0 /\ buf = <<>>
    /\ stage = IF dir = "toServer" THEN "peek" ELSE "open"
    /\ got = <<>> /\ registered = FALSE

Receive == \E n \in 1 .. MaxRead : bridge_read(n) \/ peek(n) \/ recv(n)

FramesNext ==
    \/ \E m \in Messages : send(m)
    \/ \E n \in 1 .. MaxRead : pass_on(n)
    \/ Receive \/ eof

FramesSpec == FramesInit /\ [][FramesNext]_framesVars

-----------------------------------------------------------------------------
\* The messages of a kind the receiver knows.
Known(m) == m.kind # "unknown"
known(s) ==
    LET out[i \in 0 .. Len(s)] ==
            IF i = 0 THEN <<>> ELSE IF Known(s[i]) THEN Append(out[i - 1], s[i]) ELSE out[i - 1]
    IN out[Len(s)]

\* How many of the known messages the receiver has read to the last byte.
Settled ==
    LET last == stream[taken]
        n == IF taken = 0 THEN 0 ELSE IF last.at = FrameLen(last.of) THEN last.of.id ELSE last.of.id - 1
    IN Len(known(SubSeq(sent, 1, n)))

Channel == INSTANCE FifoChannel
    WITH sent <- known(sent), delivered <- Settled, lossy <- (dir = "toServer")

\* However the bytes are cut into reads, what the bridge forwards to the browser is the sequence
\* of messages the server framed, each once its last byte is there; on the way to the server the
\* order is kept and nothing is repeated or made up, but messages are skipped (FrameDecoder::push,
\* run_ws_relay, StdioReader::recv).
ImplementsChannel == Channel!Spec
=============================================================================
