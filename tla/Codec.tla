-------------------------------- MODULE Codec --------------------------------
(***************************************************************************)
(* How messages become bytes and bytes messages again on a TCP or KCP      *)
(* connection: encode_message and decode_message with the u24 length, the  *)
(* opcodes and the close codes, and the reads and writes of process() that *)
(* move the bytes, any number at a time (encode.rs, decode.rs, lib.rs,     *)
(* message.rs, protocol.rs, tcp/mod.rs:206-238).                           *)
(*                                                                         *)
(* The two ends of one direction are modelled: the sender's write buffer,  *)
(* the wire, the receiver's read buffer. All three are stretches of one    *)
(* stream of bytes, so positions in that stream stand for their contents.  *)
(* What a payload consists of matters in one case only: when the receiver  *)
(* has lost the frame boundaries and takes payload for a header. junk is   *)
(* what it then reads, the same wherever that happens.                     *)
(***************************************************************************)
EXTENDS Integers, Sequences

CONSTANTS
  Options,   \* the receiver's settings, records of
             \*   raw:    is_raw, of both ends;
             \*   onemsg: onemsg_max_size;
             \*   inbuf:  in_buffer_max
  Messages,  \* what encode_message may be given: [kind, code, payload],
             \* payload being the bytes of the text, the data or the reason
  Junk,      \* what payload may say as a header: [len, op, code, utf8]
  LenMod,    \* 2^24: a length is three bytes
  MaxMsgs    \* bound: frames sent

Kinds  == {"Text", "Binary", "Close", "Ping", "Pong"}
Errors == {"TooShort", "OverMsgSize", "OverInbufferSize", "BadCode", "BadText"}

\* CloseCode: the named ones with their numbers; Other(n) is any number.
Numbers == [Normal |-> 1000, Away |-> 1001, Protocol |-> 1002,
            Unsupported |-> 1003, Status |-> 1005, Abnormal |-> 1006,
            Invalid |-> 1007, Policy |-> 1008, Size |-> 1009,
            Extension |-> 1010, Error |-> 1011, Restart |-> 1012,
            Again |-> 1013, Tls |-> 1015, Empty |-> 0]
U16 == 0 .. 65535
Codes == [name : DOMAIN Numbers, n : {0}] \cup [name : {"Other"}, n : U16]
NoCode == [name |-> "Empty", n |-> 0]

ASSUME CodecAssumption ==
  /\ Options \subseteq [raw : BOOLEAN, onemsg : Nat, inbuf : Nat \ {0}]
  /\ Messages \subseteq [kind : Kinds \cup {"Shutdown", "Unvaid"},
                         code : Codes, payload : Nat]
  /\ Junk \subseteq [len : Nat, op : 0 .. 255, code : U16, utf8 : BOOLEAN]
  /\ LenMod \in Nat \ {0}
  /\ MaxMsgs \in Nat

VARIABLES
  opt,        \* the settings, chosen once
  junk,       \* what payload says as a header, chosen once
  frames,     \* the stream: what encode_message appended, with its extent
  sent,       \* bytes taken by the socket; those behind wait in the writer
  got,        \* bytes the receiver has read
  pos,        \* bytes it has decoded; those up to got are in its read buffer
  rx,         \* what the receiver's process() does next, or how it ended
  delivered   \* history: messages decode_message returned, with their extent

vars == <<opt, junk, frames, sent, got, pos, rx, delivered>>

-----------------------------------------------------------------------------
(* Numbers on the wire.                                                    *)

\* Into<u16> and From<u16> of CloseCode.
ToU16(c) == IF c.name = "Other" THEN c.n ELSE Numbers[c.name]
FromU16(n) ==
  IF \E c \in DOMAIN Numbers : Numbers[c] = n
  THEN [name |-> CHOOSE c \in DOMAIN Numbers : Numbers[c] = n, n |-> 0]
  ELSE [name |-> "Other", n |-> n]

\* The two bytes of a close code, put together again by wrapping_shl(8) and +.
TwoBytes(n) == (((n \div 256) * 256) % 65536) + (n % 256)

\* Into<u8> and From<u8> of OpCode.
OpByte == [Text |-> 1, Binary |-> 2, Close |-> 8, Ping |-> 9, Pong |-> 10]

OpKind(b) ==
  IF \E k \in Kinds : OpByte[k] = b
  THEN CHOOSE k \in Kinds : OpByte[k] = b ELSE "Bad"

-----------------------------------------------------------------------------
(* The sender.                                                             *)

\* The end of the stream so far.
Total == IF frames = <<>> THEN 0 ELSE frames[Len(frames)].to

\* Bytes a message takes: length and opcode, and the code of a Close.
SizeOf(m) == m.payload + (IF opt.raw THEN 0 ELSE IF m.kind = "Close" THEN 6 ELSE 4)

\* encode_u24: what is left of the length in three bytes.
HeaderLen(m) == SizeOf(m) % LenMod

\* encode_message: Shutdown and Unvaid encode to nothing, and on a raw
\* connection all but the data of Text and Binary.
Encoded(m) == m.kind \in (IF opt.raw THEN {"Text", "Binary"} ELSE Kinds)

Encode ==
  /\ Len(frames) < MaxMsgs
  /\ \E m \in Messages :
       frames' = IF Encoded(m)
                 THEN Append(frames, [msg |-> m, len |-> HeaderLen(m),
                                      from |-> Total, to |-> Total + SizeOf(m)])
                 ELSE frames
  /\ UNCHANGED <<opt, junk, sent, got, pos, rx, delivered>>

\* The socket takes the bytes up to n.
Write(n) ==
  /\ n \in sent + 1 .. Total
  /\ sent' = n
  /\ UNCHANGED <<opt, junk, frames, got, pos, rx, delivered>>

-----------------------------------------------------------------------------
(* The receiver. process() decodes until decode_message says None, then    *)
(* looks at the size of its buffer and reads.                              *)

Have == got - pos

\* What the bytes at pos say as a header, and whether the text behind it is
\* one: always, if it is the text that was sent.
Header ==
  IF \E i \in DOMAIN frames : frames[i].from = pos
  THEN LET f == frames[CHOOSE i \in DOMAIN frames : frames[i].from = pos]
       IN [len  |-> f.len,
           op   |-> OpByte[f.msg.kind],
           code |-> TwoBytes(ToU16(f.msg.code)),
           utf8 |-> f.to = pos + f.len \/ junk.utf8]
  ELSE junk

Refuse(e) ==
  /\ rx' = e
  /\ UNCHANGED <<pos, delivered>>

\* Mutant: the bytes of the length are not given back.
RewoundNot == IF Have < 4 THEN pos ELSE pos + 3

\* rewind_mark: an incomplete frame stays in the buffer as it is.
Rewound == pos

\* decode_message returned None.
NotYet ==
  IF Have >= opt.inbuf
  THEN Refuse("OverInbufferSize")
  ELSE /\ rx' = "read"
       /\ pos' = Rewound
       /\ UNCHANGED delivered

\* A message of the next n bytes.
Deliver(kind, code, n) ==
  /\ delivered' = Append(delivered, [kind |-> kind, code |-> code,
                                     from |-> pos, to |-> pos + n])
  /\ pos' = pos + n
  /\ rx' = IF kind = "Close" THEN "closed" ELSE "decode"

\* Mutant: advance_all() is left out.
DecodeRawKept ==
  \/ Have = 0 /\ NotYet
  \/ /\ Have > 0
     /\ delivered' = Append(delivered, [kind |-> "Binary", code |-> NoCode,
                                        from |-> pos, to |-> got])
     /\ rx' = "read"
     /\ UNCHANGED pos

\* A raw message is whatever there is.
DecodeRaw ==
  \/ Have = 0 /\ NotYet
  \/ Have > 0 /\ Deliver("Binary", NoCode, Have)

\* The frame is complete.
Content(h) ==
  LET kind == OpKind(h.op) IN
  \/ kind = "Bad" /\ Refuse("BadCode")
  \/ kind = "Close" /\ h.len < 6 /\ Refuse("TooShort")
  \/ /\ kind = "Text" \/ (kind = "Close" /\ h.len >= 6)
     /\ ~h.utf8
     /\ Refuse("BadText")
  \/ kind = "Text" /\ h.utf8 /\ Deliver(kind, NoCode, h.len)
  \/ /\ kind = "Close" /\ h.len >= 6 /\ h.utf8
     /\ Deliver(kind, FromU16(h.code), h.len)
  \/ kind \notin {"Bad", "Text", "Close"} /\ Deliver(kind, NoCode, h.len)

\* Mutant: a message of just the largest size is refused.
TooLongOrAt(n) == n >= opt.onemsg

TooLong(n) == n > opt.onemsg

DecodeFramed ==
  \/ Have < 4 /\ NotYet
  \/ /\ Have >= 4
     /\ \/ Header.len < 4 /\ Refuse("TooShort")
        \/ Header.len >= 4 /\ TooLong(Header.len) /\ Refuse("OverMsgSize")
        \/ /\ Header.len >= 4 /\ ~TooLong(Header.len)
           /\ IF Have < Header.len THEN NotYet ELSE Content(Header)

Decode ==
  /\ rx = "decode"
  /\ IF opt.raw THEN DecodeRaw ELSE DecodeFramed
  /\ UNCHANGED <<opt, junk, frames, sent, got>>

\* The socket has the bytes up to n.
Read(n) ==
  /\ rx = "read"
  /\ n \in got + 1 .. sent
  /\ got' = n
  /\ rx' = "decode"
  /\ UNCHANGED <<opt, junk, frames, sent, pos, delivered>>

\* The receiver has left its loop, and what is still sent reaches nobody; or
\* it waits for more.
Over ==
  /\ rx \in Errors \cup {"closed"} \/ (rx = "read" /\ got = Total)
  /\ UNCHANGED vars

-----------------------------------------------------------------------------
Init ==
  /\ opt \in Options
  /\ junk \in Junk
  /\ frames = <<>>
  /\ sent = 0
  /\ got = 0
  /\ pos = 0
  /\ rx = "decode"
  /\ delivered = <<>>

WriteSome == \E n \in sent + 1 .. Total : Write(n)
ReadSome  == \E n \in got + 1 .. sent : Read(n)

Next == Encode \/ WriteSome \/ ReadSome \/ Decode \/ Over

Spec == Init /\ [][Next]_vars

\* The network moves what it is given, and the receiver's task runs.
FairSpec == Spec /\ WF_vars(WriteSome) /\ WF_vars(ReadSome) /\ WF_vars(Decode)

-----------------------------------------------------------------------------
(* Properties.                                                             *)

FrameSet == [msg : Messages, len : Nat, from : Nat, to : Nat]
Decoded  == [kind : Kinds, code : Codes, from : Nat, to : Nat]

TypeOK ==
  /\ opt \in Options
  /\ junk \in Junk
  /\ frames \in Seq(FrameSet)
  /\ sent \in Nat /\ got \in Nat /\ pos \in Nat
  /\ rx \in {"decode", "read", "closed"} \cup Errors
  /\ delivered \in Seq(Decoded)

SizeIn(f) == f.to - f.from

\* The length of the frame does not fit into its three bytes.
Wraps(f) == SizeIn(f) >= LenMod

\* The message arrived as it was sent: same kind, same bytes, same code.
Matches(d, f) ==
  /\ d.kind = f.msg.kind
  /\ d.from = f.from /\ d.to = f.to
  /\ d.kind = "Close" =>
       /\ ToU16(d.code) = ToU16(f.msg.code)
       /\ f.msg.code.name # "Other" => d.code = f.msg.code

\* However the stream is cut into writes and reads, the n-th message
\* decode_message returns is the n-th that was encoded, none skipped, torn or
\* made up, and within onemsg_max_size; as long as no length wrapped.
DeliveredExact ==
  ~opt.raw =>
    \A n \in DOMAIN delivered :
      (\A i \in DOMAIN frames : i <= n => ~Wraps(frames[i])) =>
        /\ n \in DOMAIN frames
        /\ Matches(delivered[n], frames[n])
        /\ SizeIn(frames[n]) <= opt.onemsg

\* On a raw connection the boundaries are lost but not the bytes: each is
\* delivered once and in order, and none is held back while process() reads.
RawExact ==
  opt.raw =>
    /\ \A n \in DOMAIN delivered :
         delivered[n].from = IF n = 1 THEN 0 ELSE delivered[n - 1].to
    /\ rx = "read" => pos = got
    /\ pos = IF delivered = <<>> THEN 0 ELSE delivered[Len(delivered)].to

\* A message the receiver's settings allow.
Legal(f) ==
  opt.raw \/ (SizeIn(f) <= opt.onemsg /\ SizeIn(f) <= opt.inbuf /\ ~Wraps(f))

\* The receiver gives up only over a message that is too long, or behind one:
\* no cut of the stream makes a legal one look wrong.
FailsForCause ==
  rx \in Errors =>
    \E i \in DOMAIN frames : i <= Len(delivered) + 1 /\ ~Legal(frames[i])

\* What is legal, and behind nothing but what is legal, arrives; unless a
\* Close comes first. The reads may come in any pieces.
LegalArrives ==
  \A n \in 1 .. MaxMsgs :
    (n \in DOMAIN frames /\ \A i \in 1 .. n : Legal(frames[i]))
      ~> (rx = "closed" \/ (n \in DOMAIN frames /\ pos >= frames[n].to))
=============================================================================
