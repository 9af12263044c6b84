----------------------------- MODULE CodecProofs -----------------------------
(***************************************************************************)
(* Theorems about Codec, for any settings, messages and cuts of the stream.*)
(***************************************************************************)
EXTENDS Codec, TLAPS

\* What Options, Messages and Junk may hold.
LEMMA OptFacts ==
  ASSUME NEW o \in Options
  PROVE  /\ o.raw \in BOOLEAN
         /\ o.onemsg \in Nat
         /\ o.inbuf \in Nat /\ o.inbuf > 0
BY CodecAssumption

LEMMA MsgFacts ==
  ASSUME NEW m \in Messages
  PROVE  /\ m.kind \in Kinds \cup {"Shutdown", "Unvaid"}
         /\ m.code \in Codes
         /\ m.payload \in Nat
BY CodecAssumption

LEMMA JunkFacts ==
  ASSUME NEW j \in Junk
  PROVE  j.len \in Nat /\ j.op \in 0 .. 255 /\ j.code \in U16 /\ j.utf8 \in BOOLEAN
BY CodecAssumption

LEMMA ModNat ==
  ASSUME NEW n \in Nat, NEW k \in Nat \ {0}
  PROVE  n % k \in Nat /\ n % k < k /\ (n < k => n % k = n)
OBVIOUS

-----------------------------------------------------------------------------
(* The numbers on the wire.                                                *)

\* An opcode read back is the one that was written.
LEMMA OpRoundTrip ==
  ASSUME NEW k \in Kinds
  PROVE  OpByte[k] \in 0 .. 255 /\ OpKind(OpByte[k]) = k
<1>1. \A a, b \in Kinds : OpByte[a] = OpByte[b] => a = b
  BY DEF Kinds, OpByte
<1>2. OpByte[k] \in 0 .. 255
  BY DEF Kinds, OpByte
<1> QED
  BY <1>1, <1>2 DEF OpKind

LEMMA OpKindType ==
  ASSUME NEW b
  PROVE  OpKind(b) \in Kinds \cup {"Bad"}
BY DEF OpKind

\* The two bytes of a close code give the code.
LEMMA TwoBytesId ==
  ASSUME NEW n \in U16
  PROVE  TwoBytes(n) = n
<1> DEFINE q == n \div 256
           r == n % 256
<1>1. n \in Int /\ 0 <= n /\ n <= 65535
  BY DEF U16
<1>2. q \in Int /\ r \in Int
  BY <1>1
<1>3. n = 256 * q + r
  BY <1>1
<1>4. 0 <= r /\ r <= 255
  BY <1>1
<1>5. TwoBytes(n) = ((q * 256) % 65536) + r
  BY DEF TwoBytes
<1> HIDE DEF q, r
<1>6. 0 <= q /\ q <= 255
  BY <1>1, <1>2, <1>3, <1>4
<1>7. (q * 256) % 65536 = q * 256
  BY <1>2, <1>6
<1> QED
  BY <1>2, <1>3, <1>5, <1>7

LEMMA NumbersApart ==
  /\ \A c \in DOMAIN Numbers : Numbers[c] \in U16
  /\ \A c, d \in DOMAIN Numbers : Numbers[c] = Numbers[d] => c = d
  /\ "Other" \notin DOMAIN Numbers
<1>1. DOMAIN Numbers =
        {"Normal", "Away", "Protocol", "Unsupported", "Status", "Abnormal",
         "Invalid", "Policy", "Size", "Extension", "Error", "Restart",
         "Again", "Tls", "Empty"}
  BY DEF Numbers
<1>0. /\ Numbers.Normal = 1000 /\ Numbers.Away = 1001 /\ Numbers.Protocol = 1002
      /\ Numbers.Unsupported = 1003 /\ Numbers.Status = 1005
      /\ Numbers.Abnormal = 1006 /\ Numbers.Invalid = 1007
      /\ Numbers.Policy = 1008 /\ Numbers.Size = 1009
      /\ Numbers.Extension = 1010 /\ Numbers.Error = 1011
      /\ Numbers.Restart = 1012 /\ Numbers.Again = 1013
      /\ Numbers.Tls = 1015 /\ Numbers.Empty = 0
  BY DEF Numbers
<1>2. \A c \in DOMAIN Numbers : Numbers[c] \in U16
  <2> SUFFICES ASSUME NEW c \in DOMAIN Numbers PROVE Numbers[c] \in U16
    OBVIOUS
  <2> DEFINE S == {1000, 1001, 1002, 1003, 1005, 1006, 1007, 1008,
                   1009, 1010, 1011, 1012, 1013, 1015, 0}
  <2>1. Numbers[c] \in S
    BY <1>0, <1>1
  <2>2. \A n \in S : n \in U16
    BY DEF U16
  <2> HIDE DEF S
  <2> QED
    BY <2>1, <2>2
<1>3. \A c, d \in DOMAIN Numbers : Numbers[c] = Numbers[d] => c = d
  BY <1>0, <1>1, SMTT(60)
<1>4. "Other" \notin DOMAIN Numbers
  BY <1>1
<1> QED
  BY <1>2, <1>3, <1>4

LEMMA CodeTypes ==
  /\ \A c \in Codes : ToU16(c) \in U16
  /\ \A n \in U16 : FromU16(n) \in Codes
  /\ NoCode \in Codes
<1>1. \A c \in Codes : ToU16(c) \in U16
  BY NumbersApart DEF Codes, ToU16
<1>2. \A n \in U16 : FromU16(n) \in Codes
  BY DEF FromU16, Codes
<1>3. NoCode \in Codes
  BY DEF NoCode, Codes, Numbers
<1> QED
  BY <1>1, <1>2, <1>3

\* A close code keeps its number, and a named one its name.
LEMMA CodeRoundTrip ==
  ASSUME NEW c \in Codes
  PROVE  LET d == FromU16(TwoBytes(ToU16(c)))
         IN  /\ ToU16(d) = ToU16(c)
             /\ c.name # "Other" => d = c
<1> DEFINE n == ToU16(c)
<1>1. n \in U16 /\ TwoBytes(n) = n
  BY CodeTypes, TwoBytesId
<1>2. ToU16(FromU16(n)) = n
  BY NumbersApart DEF FromU16, ToU16
<1>3. ASSUME c.name # "Other"
      PROVE  FromU16(n) = c
  <2>1. c.name \in DOMAIN Numbers /\ c.n = 0 /\ n = Numbers[c.name]
    BY <1>3 DEF Codes, ToU16
  <2>2. (CHOOSE x \in DOMAIN Numbers : Numbers[x] = n) = c.name
    BY <2>1, NumbersApart
  <2>3. FromU16(n) = [name |-> c.name, n |-> 0]
    BY <2>1, <2>2 DEF FromU16
  <2>4. c = [name |-> c.name, n |-> c.n]
    BY DEF Codes
  <2> QED
    BY <2>1, <2>3, <2>4
<1> QED
  BY <1>1, <1>2, <1>3

-----------------------------------------------------------------------------
(* Type correctness.                                                       *)

\* Sizes and lengths are numbers, and a frame is never empty.
LEMMA SizeFacts ==
  ASSUME NEW m \in Messages, opt \in Options
  PROVE  /\ SizeOf(m) \in Nat
         /\ HeaderLen(m) \in Nat
         /\ ~opt.raw => SizeOf(m) >= 4
         /\ SizeOf(m) < LenMod => HeaderLen(m) = SizeOf(m)
<1>1. SizeOf(m) \in Nat /\ (~opt.raw => SizeOf(m) >= 4)
  BY MsgFacts DEF SizeOf
<1>2. LenMod \in Nat \ {0}
  BY CodecAssumption
<1> QED
  BY <1>1, <1>2, ModNat DEF HeaderLen

LEMMA TotalType == TypeOK => Total \in Nat
<1> SUFFICES ASSUME TypeOK, frames # <<>> PROVE frames[Len(frames)].to \in Nat
  BY DEF Total
<1>1. Len(frames) \in DOMAIN frames
  BY DEF TypeOK
<1>2. frames[Len(frames)] \in FrameSet
  BY <1>1 DEF TypeOK
<1> QED
  BY <1>2 DEF FrameSet

LEMMA HeaderType ==
  ASSUME TypeOK, ~opt.raw, \A i \in DOMAIN frames : frames[i].msg.kind \in Kinds
  PROVE  Header.len \in Nat /\ Header.code \in U16 /\ Header.utf8 \in BOOLEAN
<1>1. CASE \E i \in DOMAIN frames : frames[i].from = pos
  <2> DEFINE j == CHOOSE i \in DOMAIN frames : frames[i].from = pos
  <2>1. j \in DOMAIN frames
    BY <1>1
  <2>2. frames[j] \in FrameSet
    BY <2>1 DEF TypeOK
  <2>3. ToU16(frames[j].msg.code) \in U16
    BY <2>2, MsgFacts, CodeTypes DEF FrameSet
  <2>4. TwoBytes(ToU16(frames[j].msg.code)) \in U16
    BY <2>3, TwoBytesId
  <2>5. junk.utf8 \in BOOLEAN
    BY JunkFacts DEF TypeOK
  <2> QED
    BY <1>1, <2>2, <2>4, <2>5 DEF Header, FrameSet
<1>2. CASE ~\E i \in DOMAIN frames : frames[i].from = pos
  BY <1>2, JunkFacts DEF Header, TypeOK
<1> QED
  BY <1>1, <1>2

\* Only messages with an encoding are in the stream.
KindsOK == \A i \in DOMAIN frames : frames[i].msg.kind \in Kinds

TypeInv == TypeOK /\ KindsOK

LEMMA InitType == Init => TypeInv
  BY DEF Init, TypeInv, TypeOK, KindsOK

LEMMA DeliverType ==
  ASSUME TypeOK, NEW kind \in Kinds, NEW code \in Codes, NEW n \in Nat,
         Deliver(kind, code, n)
  PROVE  pos' \in Nat /\ rx' \in {"decode", "closed"} /\ delivered' \in Seq(Decoded)
<1>1. [kind |-> kind, code |-> code, from |-> pos, to |-> pos + n] \in Decoded
  BY DEF TypeOK, Decoded
<1> QED
  BY <1>1 DEF TypeOK, Deliver

LEMMA NotYetType ==
  ASSUME TypeOK, NotYet
  PROVE  /\ pos' = pos /\ delivered' = delivered
         /\ rx' \in {"read", "OverInbufferSize"}
         /\ rx' = "read" <=> Have < opt.inbuf
BY OptFacts DEF TypeOK, NotYet, Refuse, Rewound, Have

LEMMA StepType == TypeInv /\ [Next]_vars => TypeInv'
<1> SUFFICES ASSUME TypeInv, [Next]_vars PROVE TypeInv'
  OBVIOUS
<1> USE DEF TypeInv
<1>1. CASE Encode
  <2>1. PICK m \in Messages :
          frames' = IF Encoded(m)
                    THEN Append(frames, [msg |-> m, len |-> HeaderLen(m),
                                         from |-> Total, to |-> Total + SizeOf(m)])
                    ELSE frames
    BY <1>1 DEF Encode
  <2> DEFINE f == [msg |-> m, len |-> HeaderLen(m),
                   from |-> Total, to |-> Total + SizeOf(m)]
  <2>2. f \in FrameSet
    BY TotalType, SizeFacts DEF TypeOK, FrameSet
  <2>3. Encoded(m) => f.msg.kind \in Kinds
    BY DEF Encoded, Kinds
  <2>4. frames' \in Seq(FrameSet) /\ KindsOK'
    BY <2>1, <2>2, <2>3 DEF TypeOK, KindsOK
  <2> QED
    BY <1>1, <2>4 DEF Encode, TypeOK
<1>2. CASE WriteSome
  BY <1>2, TotalType DEF WriteSome, Write, TypeOK, KindsOK
<1>3. CASE ReadSome
  BY <1>3 DEF ReadSome, Read, TypeOK, KindsOK
<1>4. CASE Decode
  <2>1. UNCHANGED <<opt, junk, frames, sent, got>>
    BY <1>4 DEF Decode
  <2>2. /\ pos' \in Nat
        /\ rx' \in {"decode", "read", "closed"} \cup Errors
        /\ delivered' \in Seq(Decoded)
    <3>1. CASE NotYet
      BY <3>1, NotYetType DEF TypeOK, Errors
    <3>2. CASE \E e \in Errors : Refuse(e)
      BY <3>2 DEF Refuse, TypeOK
    <3>3. CASE opt.raw /\ Have > 0 /\ Deliver("Binary", NoCode, Have)
      <4>1. Have \in Nat /\ "Binary" \in Kinds
        BY <3>3 DEF Have, TypeOK, Kinds
      <4> QED
        BY <3>3, <4>1, CodeTypes, DeliverType
    <3>4. CASE ~opt.raw /\ Content(Header)
      <4>1. Header.len \in Nat /\ Header.code \in U16
        BY <3>4, HeaderType DEF KindsOK
      <4>2. OpKind(Header.op) \in Kinds \cup {"Bad"}
        BY OpKindType
      <4>3. FromU16(Header.code) \in Codes /\ NoCode \in Codes
        BY <4>1, CodeTypes
      <4>4. \/ \E e \in Errors : Refuse(e)
            \/ \E k \in Kinds, c \in Codes : Deliver(k, c, Header.len)
        BY <3>4, <4>2, <4>3 DEF Content, Errors
      <4> QED
        BY <3>2, <4>1, <4>4, DeliverType
    <3> QED
      BY <1>4, <3>1, <3>2, <3>3, <3>4
         DEF Decode, DecodeRaw, DecodeFramed, Errors
  <2> QED
    BY <2>1, <2>2 DEF TypeOK, KindsOK
<1>5. CASE UNCHANGED vars
  BY <1>5 DEF vars, TypeOK, KindsOK
<1> QED
  BY <1>1, <1>2, <1>3, <1>4, <1>5 DEF Next, Over

LEMMA TypeInvCorrect == Spec => []TypeInv
  BY InitType, StepType, PTL DEF Spec

\* The positions are numbers, and only messages of the five kinds come out.
THEOREM TypeCorrect == Spec => []TypeOK
<1>1. TypeInv => TypeOK
  BY DEF TypeInv
<1> QED
  BY <1>1, TypeInvCorrect, PTL

-----------------------------------------------------------------------------
(* Delivery. The three invariants are not inductive alone: one must know   *)
(* where the frames lie, and that the receiver stands at the start of the  *)
(* next one while no length has wrapped (InSync).                          *)

\* Where the n-th frame starts, and how the frames lie one behind the other.
Start(n) == IF n = 1 THEN 0 ELSE frames[n - 1].to

Layout ==
  /\ \A i \in DOMAIN frames :
       /\ frames[i].from = Start(i)
       /\ frames[i].to = frames[i].from + SizeOf(frames[i].msg)
       /\ frames[i].len = HeaderLen(frames[i].msg)
       /\ frames[i].to <= Total
  /\ \A i, j \in DOMAIN frames : i < j => frames[i].to <= frames[j].from

Cursors == pos <= got /\ got <= sent /\ sent <= Total

\* No length of the first n frames wraps.
NoWrap(n) == \A i \in DOMAIN frames : i <= n => ~Wraps(frames[i])

InSync ==
  ~opt.raw /\ NoWrap(Len(delivered)) =>
    /\ Len(delivered) <= Len(frames)
    /\ pos = Start(Len(delivered) + 1)

IInv == TypeInv /\ Layout /\ Cursors /\ InSync
          /\ DeliveredExact /\ RawExact /\ FailsForCause

LEMMA FrameFacts ==
  ASSUME TypeInv, Layout, NEW i \in DOMAIN frames
  PROVE  /\ frames[i].from \in Nat /\ frames[i].to \in Nat /\ frames[i].len \in Nat
         /\ frames[i].msg \in Messages /\ frames[i].msg.kind \in Kinds
         /\ SizeIn(frames[i]) = SizeOf(frames[i].msg)
         /\ SizeIn(frames[i]) \in Nat
         /\ ~opt.raw => SizeIn(frames[i]) >= 4
         /\ ~Wraps(frames[i]) => frames[i].len = SizeIn(frames[i])
<1>1. frames[i] \in FrameSet /\ frames[i].msg.kind \in Kinds
  BY DEF TypeInv, TypeOK, KindsOK
<1>2. /\ frames[i].from \in Nat /\ frames[i].to \in Nat /\ frames[i].len \in Nat
      /\ frames[i].msg \in Messages
  BY <1>1 DEF FrameSet
<1>3. /\ SizeOf(frames[i].msg) \in Nat
      /\ ~opt.raw => SizeOf(frames[i].msg) >= 4
      /\ SizeOf(frames[i].msg) < LenMod => HeaderLen(frames[i].msg) = SizeOf(frames[i].msg)
  BY <1>2, SizeFacts DEF TypeInv, TypeOK
<1>4. frames[i].to = frames[i].from + SizeOf(frames[i].msg)
      /\ frames[i].len = HeaderLen(frames[i].msg)
  BY DEF Layout
<1>5. SizeIn(frames[i]) = SizeOf(frames[i].msg)
  BY <1>2, <1>3, <1>4 DEF SizeIn
<1>6. ~Wraps(frames[i]) => frames[i].len = SizeIn(frames[i])
  BY <1>3, <1>4, <1>5, CodecAssumption DEF Wraps
<1> QED
  BY <1>1, <1>2, <1>3, <1>5, <1>6

\* In sync the header is the next frame's own.
LEMMA HeaderInSync ==
  ASSUME TypeInv, Layout, ~opt.raw, NEW n \in DOMAIN frames, pos = Start(n),
         ~Wraps(frames[n])
  PROVE  /\ Header.len = SizeIn(frames[n])
         /\ Header.utf8
         /\ OpKind(Header.op) = frames[n].msg.kind
         /\ LET d == FromU16(Header.code)
            IN  /\ ToU16(d) = ToU16(frames[n].msg.code)
                /\ frames[n].msg.code.name # "Other" => d = frames[n].msg.code
<1> DEFINE j == CHOOSE i \in DOMAIN frames : frames[i].from = pos
<1>1. frames[n].from = pos
  BY DEF Layout
<1>2. j \in DOMAIN frames /\ frames[j].from = pos
  BY <1>1
<1>3. j = n
  <2>1. j \in Nat /\ n \in Nat
    BY <1>2 DEF TypeInv, TypeOK
  <2>2. frames[j].from < frames[j].to /\ frames[n].from < frames[n].to
    BY <1>2, FrameFacts DEF SizeIn
  <2>3. j < n => frames[j].to <= frames[n].from
    BY <1>2 DEF Layout
  <2>4. n < j => frames[n].to <= frames[j].from
    BY <1>2 DEF Layout
  <2>5. pos \in Nat /\ frames[j].to \in Nat /\ frames[n].to \in Nat
    BY <1>2, FrameFacts DEF TypeInv, TypeOK
  <2> QED
    BY <1>1, <1>2, <2>1, <2>2, <2>3, <2>4, <2>5
<1>4. Header = [len  |-> frames[n].len,
                op   |-> OpByte[frames[n].msg.kind],
                code |-> TwoBytes(ToU16(frames[n].msg.code)),
                utf8 |-> frames[n].to = pos + frames[n].len \/ junk.utf8]
  BY <1>2, <1>3 DEF Header
<1>5. frames[n].len = SizeIn(frames[n]) /\ frames[n].msg \in Messages
      /\ frames[n].msg.kind \in Kinds
  BY FrameFacts
<1>6. frames[n].to = pos + frames[n].len
  BY <1>1, <1>5, FrameFacts DEF SizeIn
<1>7. OpKind(OpByte[frames[n].msg.kind]) = frames[n].msg.kind
  BY <1>5, OpRoundTrip
<1>8. frames[n].msg.code \in Codes
  BY <1>5, MsgFacts
<1>9. LET d == FromU16(TwoBytes(ToU16(frames[n].msg.code)))
      IN  /\ ToU16(d) = ToU16(frames[n].msg.code)
          /\ frames[n].msg.code.name # "Other" => d = frames[n].msg.code
  BY <1>8, CodeRoundTrip
<1> QED
  BY <1>4, <1>5, <1>6, <1>7, <1>9

LEMMA InitInv == Init => IInv
<1> SUFFICES ASSUME Init PROVE IInv
  OBVIOUS
<1>1. TypeInv
  BY InitType
<1>2. Layout /\ Cursors /\ InSync
  BY DEF Init, Layout, Cursors, InSync, Total, Start
<1>3. DeliveredExact /\ RawExact /\ FailsForCause
  BY DEF Init, DeliveredExact, RawExact, FailsForCause, Errors
<1> QED
  BY <1>1, <1>2, <1>3 DEF IInv

\* encode_message adds a frame behind all others.
LEMMA EncodeInv == IInv /\ Encode => IInv'
<1> SUFFICES ASSUME IInv, Encode PROVE IInv'
  OBVIOUS
<1> USE DEF IInv
<1>0. TypeInv'
  BY StepType DEF Next
<1>1. PICK m \in Messages :
        frames' = IF Encoded(m)
                  THEN Append(frames, [msg |-> m, len |-> HeaderLen(m),
                                       from |-> Total, to |-> Total + SizeOf(m)])
                  ELSE frames
  BY DEF Encode
<1>2. UNCHANGED <<opt, junk, sent, got, pos, rx, delivered>>
  BY DEF Encode
<1>3. CASE ~Encoded(m)
  <2>1. UNCHANGED vars
    BY <1>1, <1>2, <1>3 DEF vars
  <2> QED
    BY <1>0, <2>1 DEF vars, Layout, Cursors, InSync, DeliveredExact, RawExact,
          FailsForCause, Total, Start, NoWrap, Wraps, SizeIn, SizeOf, HeaderLen,
          Legal, Matches
<1>4. CASE Encoded(m)
  <2> DEFINE f == [msg |-> m, len |-> HeaderLen(m),
                   from |-> Total, to |-> Total + SizeOf(m)]
             L == Len(frames)
  <2>1. frames' = Append(frames, f) /\ L \in Nat /\ frames \in Seq(FrameSet)
    BY <1>1, <1>4 DEF TypeInv, TypeOK
  <2>2. /\ Len(frames') = L + 1
        /\ DOMAIN frames' = DOMAIN frames \cup {L + 1}
        /\ L + 1 \notin DOMAIN frames
        /\ DOMAIN frames = 1 .. L
        /\ frames'[L + 1] = f
        /\ \A i \in DOMAIN frames : frames'[i] = frames[i]
    BY <2>1
  <2>3. Total \in Nat /\ SizeOf(m) \in Nat
    BY TotalType, SizeFacts DEF TypeInv, TypeOK
  <2>4. Total' = Total + SizeOf(m)
    BY <2>1, <2>2 DEF Total
  <2>5. Total = Start(L + 1)
    BY <2>1 DEF Total, Start
  <2>6. \A n \in 1 .. L + 1 : Start(n)' = Start(n)
    BY <2>2 DEF Start
  <2>7. \A x : SizeOf(x)' = SizeOf(x) /\ HeaderLen(x)' = HeaderLen(x)
    BY <1>2 DEF SizeOf, HeaderLen
  <2>8. \A i \in DOMAIN frames : frames[i].from \in Nat /\ frames[i].to \in Nat
    BY FrameFacts
  <2>9. Layout'
    <3> DEFINE P(i) == /\ frames'[i].from = Start(i)
                       /\ frames'[i].to = frames'[i].from + SizeOf(frames'[i].msg)
                       /\ frames'[i].len = HeaderLen(frames'[i].msg)
                       /\ frames'[i].to <= Total'
    <3>1. P(L + 1)
      BY <2>2, <2>3, <2>4, <2>5
    <3>2. ASSUME NEW i \in DOMAIN frames PROVE P(i)
      <4>1. /\ frames[i].from = Start(i)
            /\ frames[i].to = frames[i].from + SizeOf(frames[i].msg)
            /\ frames[i].len = HeaderLen(frames[i].msg)
            /\ frames[i].to <= Total
        BY DEF Layout
      <4>2. frames[i].to <= Total'
        BY <2>3, <2>4, <2>8, <4>1
      <4> QED
        BY <2>2, <4>1, <4>2
    <3>3. \A i \in DOMAIN frames' : P(i)
      BY <2>2, <3>1, <3>2
    <3>4. \A i \in DOMAIN frames' :
            /\ frames'[i].from = Start(i)'
            /\ frames'[i].to = frames'[i].from + SizeOf(frames[i].msg)'
            /\ frames'[i].len = HeaderLen(frames[i].msg)'
            /\ frames'[i].to <= Total'
      <4>1. \A i \in DOMAIN frames' : Start(i)' = Start(i)
        BY <2>1, <2>2, <2>6
      <4>2. \A i : SizeOf(frames[i].msg)' = SizeOf(frames'[i].msg)
        BY <1>2 DEF SizeOf
      <4>3. \A i : HeaderLen(frames[i].msg)' = HeaderLen(frames'[i].msg)
        BY <4>2 DEF HeaderLen
      <4> HIDE DEF f, L
      <4> QED
        BY <3>3, <4>1, <4>2, <4>3
    <3>5. ASSUME NEW i \in DOMAIN frames', NEW j \in DOMAIN frames', i < j
          PROVE  frames'[i].to <= frames'[j].from
      <4>1. CASE j = L + 1
        <5>1. i \in DOMAIN frames
          BY <2>2, <3>5, <4>1, <2>1
        <5> QED
          BY <5>1, <4>1, <2>2 DEF Layout
      <4>2. CASE j \in DOMAIN frames
        <5>1. i \in DOMAIN frames
          BY <2>2, <3>5, <4>2, <2>1
        <5> QED
          BY <3>5, <5>1, <4>2, <2>2 DEF Layout
      <4> QED
        BY <4>1, <4>2, <2>2
    <3> QED
      BY <3>4, <3>5 DEF Layout
  <2>10. Cursors'
    BY <1>2, <2>3, <2>4 DEF Cursors, TypeInv, TypeOK
  <2>11. \A i \in DOMAIN frames :
            /\ SizeIn(frames'[i]) = SizeIn(frames[i])
            /\ Wraps(frames'[i]) <=> Wraps(frames[i])
            /\ \A d : Matches(d, frames'[i]) <=> Matches(d, frames[i])
    BY <1>2, <2>2 DEF SizeIn, Wraps, Matches
  <2>12. \A n \in Nat : NoWrap(n)' => NoWrap(n)
    BY <2>2, <2>11 DEF NoWrap
  <2>13. Len(delivered) \in Nat
    BY DEF TypeInv, TypeOK
  <2>14. InSync'
    BY <1>2, <2>1, <2>2, <2>6, <2>12, <2>13 DEF InSync
  <2>15. DeliveredExact'
    <3> SUFFICES ASSUME ~opt'.raw, NEW n \in DOMAIN delivered',
                        \A i \in DOMAIN frames' : i <= n => ~Wraps(frames'[i])
                 PROVE  /\ n \in DOMAIN frames'
                        /\ Matches(delivered'[n], frames'[n])
                        /\ SizeIn(frames'[n]) <= opt'.onemsg
      BY DEF DeliveredExact, Matches, SizeIn, Wraps
    <3>1. \A i \in DOMAIN frames : i <= n => ~Wraps(frames[i])
      BY <2>2, <2>11
    <3>2. /\ n \in DOMAIN frames
          /\ Matches(delivered[n], frames[n])
          /\ SizeIn(frames[n]) <= opt.onemsg
      BY <1>2, <3>1 DEF DeliveredExact
    <3> QED
      BY <1>2, <2>2, <2>11, <3>2
  <2>16. RawExact'
    BY <1>2 DEF RawExact
  <2>17. FailsForCause'
    <3> SUFFICES ASSUME rx' \in Errors
                 PROVE  \E i \in DOMAIN frames' :
                          i <= Len(delivered)' + 1 /\ ~Legal(frames[i])'
      BY DEF FailsForCause
    <3>1. PICK i \in DOMAIN frames : i <= Len(delivered) + 1 /\ ~Legal(frames[i])
      BY <1>2 DEF FailsForCause
    <3>2. frames'[i] = frames[i] /\ i \in DOMAIN frames'
      BY <2>2
    <3>3. ~Legal(frames[i])'
      BY <1>2, <3>1, <3>2 DEF Legal, SizeIn, Wraps
    <3> QED
      BY <1>2, <3>1, <3>2, <3>3
  <2> QED
    BY <1>0, <2>9, <2>10, <2>14, <2>15, <2>16, <2>17
<1> QED
  BY <1>3, <1>4

\* Writes and reads move cursors only.
LEMMA MoveInv == IInv /\ (WriteSome \/ ReadSome) => IInv'
<1> SUFFICES ASSUME IInv, WriteSome \/ ReadSome PROVE IInv'
  OBVIOUS
<1> USE DEF IInv
<1>1. TypeInv'
  BY StepType DEF Next
<1>2. UNCHANGED <<opt, junk, frames, pos, delivered>>
  BY DEF WriteSome, ReadSome, Write, Read
<1>3. rx' = rx \/ rx' = "decode"
  BY DEF WriteSome, ReadSome, Write, Read
<1>4. Total' = Total /\ Total \in Nat
  BY <1>2, TotalType DEF Total, TypeInv
<1>5. Cursors'
  BY <1>2, <1>4 DEF Cursors, WriteSome, ReadSome, Write, Read, TypeInv, TypeOK
<1>6. Layout' /\ InSync' /\ DeliveredExact'
  BY <1>2, <1>4 DEF Layout, InSync, DeliveredExact, Start, NoWrap, Wraps, SizeIn,
       SizeOf, HeaderLen, Matches
<1>7. RawExact'
  BY <1>2, <1>3 DEF RawExact, ReadSome, WriteSome, Read, Write
<1>8. FailsForCause'
  <2>1. \A i : Legal(frames[i])' <=> Legal(frames[i])
    BY <1>2 DEF Legal, SizeIn, Wraps
  <2> QED
    BY <1>2, <1>3, <2>1 DEF FailsForCause, Errors
<1> QED
  BY <1>1, <1>5, <1>6, <1>7, <1>8

\* In sync the next frame is the one the receiver stands at.
LEMMA NextFrame ==
  ASSUME IInv, ~opt.raw, NoWrap(Len(delivered) + 1), pos < got
  PROVE  /\ Len(delivered) + 1 \in DOMAIN frames
         /\ pos = Start(Len(delivered) + 1)
         /\ ~Wraps(frames[Len(delivered) + 1])
<1> DEFINE k == Len(delivered)
<1>1. /\ k \in Nat /\ Len(frames) \in Nat /\ DOMAIN frames = 1 .. Len(frames)
      /\ pos \in Nat /\ got \in Nat /\ sent \in Nat
  BY DEF IInv, TypeInv, TypeOK
<1>2. NoWrap(k)
  BY <1>1 DEF NoWrap
<1>3. k <= Len(frames) /\ pos = Start(k + 1)
  BY <1>2 DEF IInv, InSync
<1>4. ASSUME k = Len(frames) PROVE FALSE
  <2>1. pos = Total
    <3>1. CASE k = 0
      <4>1. frames = <<>>
        <5>1. Len(frames) = 0 /\ frames \in Seq(FrameSet)
          BY <1>4, <3>1 DEF IInv, TypeInv, TypeOK
        <5> HIDE DEF k
        <5> QED
          BY <5>1
      <4> QED
        BY <1>3, <3>1, <4>1 DEF Start, Total
    <3>2. CASE k # 0
      <4>1. frames # <<>>
        BY <1>4, <3>2
      <4>2. k + 1 # 1 /\ (k + 1) - 1 = k
        BY <1>1, <3>2
      <4>3. pos = frames[k].to
        BY <1>3, <4>2 DEF Start
      <4> QED
        BY <1>4, <4>1, <4>3 DEF Total
    <3> QED
      BY <3>1, <3>2
  <2>2. Total \in Nat
    BY TotalType DEF IInv, TypeInv
  <2> QED
    BY <1>1, <2>1, <2>2 DEF IInv, Cursors
<1>5. k + 1 \in DOMAIN frames
  BY <1>1, <1>3, <1>4
<1> QED
  BY <1>1, <1>3, <1>5 DEF NoWrap

\* A wrapped length is an illegal frame.
LEMMA WrapIsCause ==
  ASSUME ~opt.raw, ~NoWrap(Len(delivered) + 1)
  PROVE  \E i \in DOMAIN frames : i <= Len(delivered) + 1 /\ ~Legal(frames[i])
BY DEF NoWrap, Legal

\* A framed decode that gives up has a cause.
LEMMA RefuseHasCause ==
  ASSUME IInv, ~opt.raw, DecodeFramed, rx' \in Errors
  PROVE  \E i \in DOMAIN frames : i <= Len(delivered) + 1 /\ ~Legal(frames[i])
<1> DEFINE k == Len(delivered)
<1>1. CASE ~NoWrap(k + 1)
  BY <1>1, WrapIsCause
<1>2. CASE NoWrap(k + 1)
  <2>1. /\ pos \in Nat /\ got \in Nat /\ k \in Nat
        /\ opt.inbuf \in Nat /\ opt.inbuf > 0 /\ opt.onemsg \in Nat
    BY OptFacts DEF IInv, TypeInv, TypeOK
  <2>2. Have >= 4 \/ (NotYet /\ Have >= opt.inbuf)
    <3>1. NotYet => Have >= opt.inbuf
      BY <2>1, NotYetType DEF IInv, TypeInv, Errors, Have
    <3> QED
      BY <2>1, <3>1 DEF DecodeFramed, Have
  <2>3. pos < got
    BY <2>1, <2>2 DEF Have
  <2>4. k + 1 \in DOMAIN frames /\ pos = Start(k + 1) /\ ~Wraps(frames[k + 1])
    BY <1>2, <2>3, NextFrame
  <2> DEFINE f == frames[k + 1]
  <2>5. /\ Header.len = SizeIn(f) /\ Header.utf8
        /\ OpKind(Header.op) = f.msg.kind
    BY <2>4, HeaderInSync DEF IInv
  <2>6. /\ SizeIn(f) \in Nat /\ SizeIn(f) >= 4 /\ f.msg.kind \in Kinds
        /\ f.msg \in Messages /\ SizeIn(f) = SizeOf(f.msg)
    BY <2>4, FrameFacts DEF IInv
  <2>7. f.msg.kind = "Close" => SizeIn(f) >= 6
    BY <2>6, MsgFacts DEF SizeOf
  <2>8. ~Content(Header)
    <3>1. OpKind(Header.op) # "Bad"
      BY <2>5, <2>6 DEF Kinds
    <3>2. OpKind(Header.op) = "Close" => Header.len >= 6
      BY <2>5, <2>7
    <3>3. rx' \notin {"closed", "decode"}
      BY DEF Errors
    <3>4. ASSUME Content(Header)
          PROVE  \/ OpKind(Header.op) = "Bad"
                 \/ OpKind(Header.op) = "Close" /\ Header.len < 6
                 \/ ~Header.utf8
                 \/ rx' \in {"closed", "decode"}
      BY <3>4 DEF Content, Deliver
    <3> QED
      BY <2>5, <2>6, <3>1, <3>2, <3>3, <3>4
  <2>9. SizeIn(f) > opt.onemsg \/ SizeIn(f) > opt.inbuf
    <3>1. CASE NotYet /\ (Have < 4 \/ Have < Header.len)
      <4>1. Have >= opt.inbuf
        BY <3>1, NotYetType, <2>1 DEF IInv, TypeInv, Errors, Have
      <4> QED
        BY <2>1, <2>5, <2>6, <3>1, <4>1 DEF Have
    <3>2. CASE Header.len >= 4 /\ TooLong(Header.len)
      BY <2>5, <3>2 DEF TooLong
    <3> QED
      BY <2>5, <2>6, <2>8, <3>1, <3>2 DEF DecodeFramed
  <2>10. ~Legal(f)
    BY <2>1, <2>6, <2>9 DEF Legal
  <2> QED
    BY <2>1, <2>4, <2>10
<1> QED
  BY <1>1, <1>2

\* A decode that delivers nothing.
LEMMA KeptInv ==
  ASSUME IInv, TypeInv', UNCHANGED <<opt, junk, frames, sent, got, pos, delivered>>,
         opt.raw /\ rx' = "read" => pos = got,
         rx' \in Errors =>
           \E i \in DOMAIN frames : i <= Len(delivered) + 1 /\ ~Legal(frames[i])
  PROVE  IInv'
<1> USE DEF IInv
<1>1. Layout' /\ Cursors' /\ InSync' /\ DeliveredExact'
  BY DEF Layout, InSync, Cursors, DeliveredExact, Start, NoWrap, Wraps, SizeIn,
       SizeOf, HeaderLen, Matches, Total
<1>2. RawExact'
  BY DEF RawExact
<1>3. FailsForCause'
  <2>1. \A i : Legal(frames[i])' <=> Legal(frames[i])
    BY DEF Legal, SizeIn, Wraps
  <2> QED
    BY <2>1 DEF FailsForCause
<1> QED
  BY <1>1, <1>2, <1>3

\* A raw decode that takes all there is.
LEMMA DeliverRawInv ==
  ASSUME IInv, TypeInv', opt.raw, UNCHANGED <<opt, junk, frames, sent, got>>,
         Have > 0, Deliver("Binary", NoCode, Have)
  PROVE  IInv'
<1> USE DEF IInv
<1>1. pos \in Nat /\ got \in Nat /\ delivered \in Seq(Decoded)
  BY DEF TypeInv, TypeOK
<1>2. pos' = got
  BY <1>1 DEF Deliver, Have
<1>3. Layout' /\ Cursors' /\ InSync' /\ DeliveredExact'
  BY <1>1, <1>2 DEF Layout, Cursors, InSync, DeliveredExact, Start, SizeOf,
       HeaderLen, Total
<1>4. rx' = "decode"
  BY DEF Deliver
<1> DEFINE d == [kind |-> "Binary", code |-> NoCode, from |-> pos, to |-> got]
           k == Len(delivered)
<1>5. delivered' = Append(delivered, d)
  BY <1>1, <1>2 DEF Deliver
<1>6. /\ k \in Nat /\ Len(delivered') = k + 1 /\ delivered' # <<>>
      /\ DOMAIN delivered = 1 .. k /\ DOMAIN delivered' = 1 .. k + 1
      /\ delivered'[k + 1] = d
      /\ \A n \in 1 .. k : delivered'[n] = delivered[n]
  BY <1>1, <1>5
<1>7. ASSUME NEW n \in 1 .. k + 1
      PROVE  delivered'[n].from = IF n = 1 THEN 0 ELSE delivered'[n - 1].to
  <2>1. CASE n = k + 1
    <3>1. pos = IF k = 0 THEN 0 ELSE delivered[k].to
      BY <1>6 DEF RawExact
    <3>2. k # 0 => delivered'[k] = delivered[k] /\ n - 1 = k /\ n # 1
      BY <1>6, <2>1
    <3>3. k = 0 => n = 1
      BY <2>1
    <3> QED
      BY <1>6, <2>1, <3>1, <3>2, <3>3
  <2>2. CASE n # k + 1
    <3>1. n \in 1 .. k /\ (n # 1 => n - 1 \in 1 .. k)
      BY <1>6, <2>2
    <3>2. delivered[n].from = IF n = 1 THEN 0 ELSE delivered[n - 1].to
      BY <1>6, <3>1 DEF RawExact
    <3> QED
      BY <1>6, <3>1, <3>2
  <2> QED
    BY <2>1, <2>2
<1>8. RawExact'
  BY <1>2, <1>4, <1>6, <1>7 DEF RawExact
<1>9. FailsForCause'
  BY <1>4 DEF FailsForCause, Errors
<1> QED
  BY <1>3, <1>8, <1>9

\* A framed decode that delivers: in sync, the next frame and all of it.
LEMMA DeliverFramedInv ==
  ASSUME IInv, TypeInv', ~opt.raw, UNCHANGED <<opt, junk, frames, sent, got>>,
         Have >= 4, Header.len >= 4, ~TooLong(Header.len), Have >= Header.len,
         NEW code \in Codes, Deliver(OpKind(Header.op), code, Header.len),
         OpKind(Header.op) = "Close" => code = FromU16(Header.code)
  PROVE  IInv'
<1> USE DEF IInv
<1> DEFINE k == Len(delivered)
           kind == OpKind(Header.op)
           d == [kind |-> kind, code |-> code,
                 from |-> pos, to |-> pos + Header.len]
<1>1. /\ pos \in Nat /\ got \in Nat /\ delivered \in Seq(Decoded) /\ k \in Nat
      /\ Header.len \in Nat /\ opt.onemsg \in Nat
  BY HeaderType, OptFacts DEF TypeInv, TypeOK, KindsOK
<1>2. /\ pos' = pos + Header.len
      /\ delivered' = Append(delivered, d)
      /\ rx' \in {"closed", "decode"}
  BY DEF Deliver
<1>3. /\ Len(delivered') = k + 1
      /\ DOMAIN delivered = 1 .. k /\ DOMAIN delivered' = 1 .. k + 1
      /\ delivered'[k + 1] = d
      /\ \A n \in 1 .. k : delivered'[n] = delivered[n]
  BY <1>1, <1>2
<1>4. Layout'
  BY DEF Layout, Start, SizeOf, HeaderLen, Total
<1>5. Cursors'
  <2>1. Total' = Total
    BY DEF Total
  <2>2. pos + Header.len <= got
    BY <1>1 DEF Have
  <2> QED
    BY <1>2, <2>1, <2>2 DEF Cursors
<1>6. \A n : NoWrap(n)' <=> NoWrap(n)
  BY DEF NoWrap, Wraps, SizeIn
<1>7. ASSUME NoWrap(k + 1)
      PROVE  /\ k + 1 \in DOMAIN frames
             /\ frames[k + 1].from = pos
             /\ frames[k + 1].to = pos + Header.len
             /\ Matches(d, frames[k + 1])
             /\ SizeIn(frames[k + 1]) <= opt.onemsg
  <2> DEFINE f == frames[k + 1]
  <2>1. pos < got
    BY <1>1 DEF Have
  <2>2. k + 1 \in DOMAIN frames /\ pos = Start(k + 1) /\ ~Wraps(f)
    BY <1>7, <2>1, NextFrame
  <2>3. /\ Header.len = SizeIn(f) /\ Header.utf8
        /\ OpKind(Header.op) = f.msg.kind
        /\ LET c == FromU16(Header.code)
           IN  /\ ToU16(c) = ToU16(f.msg.code)
               /\ f.msg.code.name # "Other" => c = f.msg.code
    BY <2>2, HeaderInSync
  <2>4. f.from = pos
    BY <2>2 DEF Layout
  <2>5. f.to = pos + Header.len
    BY <1>1, <2>2, <2>3, <2>4, FrameFacts DEF SizeIn
  <2>6. d.kind = kind /\ d.code = code /\ d.from = pos /\ d.to = pos + Header.len
    OBVIOUS
  <2>7. SizeIn(f) <= opt.onemsg
    BY <1>1, <2>3 DEF TooLong
  <2> HIDE DEF d, kind
  <2>8. Matches(d, f)
    <3>1. kind = f.msg.kind
      BY <2>3 DEF kind
    <3>2. kind = "Close" => code = FromU16(Header.code)
      BY DEF kind
    <3> QED
      BY <2>3, <2>4, <2>5, <2>6, <3>1, <3>2 DEF Matches
  <2> QED
    BY <2>2, <2>4, <2>5, <2>7, <2>8
<1> HIDE DEF d, kind
<1>8. InSync'
  <2> SUFFICES ASSUME NoWrap(k + 1)
               PROVE  k + 1 <= Len(frames) /\ pos' = Start(Len(delivered) + 1)'
    <3>1. NoWrap(Len(delivered))' => NoWrap(k + 1)
      BY <1>3 DEF NoWrap, Wraps, SizeIn
    <3> QED
      BY <1>3, <3>1 DEF InSync
  <2>1. k + 1 \in DOMAIN frames /\ frames[k + 1].to = pos + Header.len
    BY <1>7
  <2>2. Start(Len(delivered) + 1)' = frames[k + 1].to
    <3>1. Len(delivered') + 1 # 1 /\ (Len(delivered') + 1) - 1 = k + 1
      BY <1>1, <1>3
    <3> QED
      BY <3>1 DEF Start
  <2>3. k + 1 <= Len(frames)
    BY <1>1, <2>1 DEF TypeInv, TypeOK
  <2> QED
    BY <1>2, <2>1, <2>2, <2>3
<1>9. DeliveredExact'
  <2>1. ASSUME NEW n \in 1 .. k + 1, NoWrap(n)
        PROVE  /\ n \in DOMAIN frames
               /\ Matches(delivered'[n], frames[n])
               /\ SizeIn(frames[n]) <= opt.onemsg
    <3>1. CASE n = k + 1
      BY <1>3, <1>7, <2>1, <3>1
    <3>2. CASE n # k + 1
      <4>1. n \in 1 .. k
        BY <1>1, <3>2
      <4> QED
        BY <1>3, <2>1, <4>1 DEF DeliveredExact, NoWrap
    <3> QED
      BY <3>1, <3>2
  <2> QED
    BY <1>3, <2>1 DEF DeliveredExact, NoWrap, Matches, SizeIn, Wraps
<1>10. RawExact'
  BY DEF RawExact
<1>11. FailsForCause'
  BY <1>2 DEF FailsForCause, Errors
<1> QED
  BY <1>4, <1>5, <1>8, <1>9, <1>10, <1>11

LEMMA DecodeInv == IInv /\ Decode => IInv'
<1> SUFFICES ASSUME IInv, Decode PROVE IInv'
  OBVIOUS
<1>1. TypeInv'
  BY StepType DEF Next, IInv
<1>2. UNCHANGED <<opt, junk, frames, sent, got>>
  BY DEF Decode
<1>3. TypeOK /\ KindsOK /\ opt.inbuf \in Nat /\ opt.inbuf > 0
      /\ pos \in Nat /\ got \in Nat /\ opt.raw \in BOOLEAN
  BY OptFacts DEF IInv, TypeInv, TypeOK
<1>4. CASE opt.raw /\ Have = 0 /\ NotYet
  <2>1. rx' = "read" /\ pos = got /\ UNCHANGED <<pos, delivered>>
    BY <1>3, <1>4, NotYetType DEF Have
  <2> QED
    BY <1>1, <1>2, <1>4, <2>1, KeptInv DEF Errors
<1>5. CASE opt.raw /\ Have > 0 /\ Deliver("Binary", NoCode, Have)
  BY <1>1, <1>2, <1>5, DeliverRawInv
<1>6. CASE ~opt.raw /\ DecodeFramed /\ UNCHANGED <<pos, delivered>>
  BY <1>1, <1>2, <1>6, KeptInv, RefuseHasCause
<1>7. CASE ~opt.raw /\ DecodeFramed /\ ~UNCHANGED <<pos, delivered>>
  <2>1. ~NotYet /\ \A e : ~Refuse(e)
    BY <1>3, <1>7, NotYetType DEF Refuse
  <2>2. /\ Have >= 4 /\ Header.len >= 4 /\ ~TooLong(Header.len)
        /\ ~(Have < Header.len) /\ Content(Header)
    BY <1>7, <2>1 DEF DecodeFramed
  <2>3. Header.len \in Nat /\ Header.code \in U16
    BY <1>3, <1>7, HeaderType DEF KindsOK
  <2>4. \/ OpKind(Header.op) # "Close" /\ Deliver(OpKind(Header.op), NoCode, Header.len)
        \/ Deliver(OpKind(Header.op), FromU16(Header.code), Header.len)
    BY <2>1, <2>2 DEF Content
  <2>5. NoCode \in Codes /\ FromU16(Header.code) \in Codes
    BY <2>3, CodeTypes
  <2>6. Have >= Header.len
    BY <1>3, <2>2, <2>3 DEF Have
  <2> QED
    BY <1>1, <1>2, <1>7, <2>2, <2>4, <2>5, <2>6, DeliverFramedInv
<1> QED
  BY <1>3, <1>4, <1>5, <1>6, <1>7 DEF Decode, DecodeRaw

LEMMA StepInv == IInv /\ [Next]_vars => IInv'
<1> SUFFICES ASSUME IInv, [Next]_vars PROVE IInv'
  OBVIOUS
<1>1. CASE UNCHANGED vars
  <2>1. TypeInv'
    BY StepType DEF IInv
  <2> QED
    BY <1>1, <2>1, KeptInv DEF vars, IInv, RawExact, FailsForCause
<1> QED
  BY <1>1, EncodeInv, MoveInv, DecodeInv DEF Next, Over

LEMMA IInvCorrect == Spec => []IInv
  BY InitInv, StepInv, PTL DEF Spec

\* What is delivered is what was sent, message for message, whatever the cuts
\* (decode.rs, encode.rs).
THEOREM DeliveredCorrect == Spec => []DeliveredExact
<1>1. IInv => DeliveredExact
  BY DEF IInv
<1> QED
  BY <1>1, IInvCorrect, PTL

\* A raw connection loses no byte and holds none back.
THEOREM RawCorrect == Spec => []RawExact
<1>1. IInv => RawExact
  BY DEF IInv
<1> QED
  BY <1>1, IInvCorrect, PTL

\* The receiver gives up only over a message its settings do not allow.
THEOREM FailsCorrect == Spec => []FailsForCause
<1>1. IInv => FailsForCause
  BY DEF IInv
<1> QED
  BY <1>1, IInvCorrect, PTL
=============================================================================
