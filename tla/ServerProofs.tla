---------------------------- MODULE ServerProofs ----------------------------
(***************************************************************************)
(* Server for any limits, any width of the connection number and any       *)
(* number of sockets.                                                      *)
(*                                                                         *)
(* Counting: CountExact is inductive with the types once the socket numbers*)
(* of the connections are known to be distinct from the next one (NoFresh),*)
(* and LimitKept follows with one addition: the room that TakeSocket saw   *)
(* is still there when Admit comes (RoomSeen).                             *)
(*                                                                         *)
(* Ids: IdsApart needs to know what id each of the last W sockets had      *)
(* (IdRecent), from which a new id differs from all of them.               *)
(***************************************************************************)
EXTENDS Server, FiniteSetTheorems, TLAPS

LEMMA ConnIdType == \A n \in Nat : ConnId(ServerId, n) \in Nat
  BY ServerAssumption DEF ConnId

LEMMA InitType == Init => TypeOK
<1> SUFFICES ASSUME Init PROVE TypeOK
  OBVIOUS
<1>1. max \in Limits \cup {DefaultMax}
  BY DEF Init, Kept
<1>2. IsFiniteSet(conns)
  BY FS_EmptySet DEF Init
<1> QED
  BY <1>1, <1>2, ServerAssumption DEF Init, TypeOK

LEMMA StepType == TypeOK /\ [Next]_vars => TypeOK'
<1> SUFFICES ASSUME TypeOK, [Next]_vars PROVE TypeOK'
  OBVIOUS
<1> USE ServerAssumption DEF TypeOK
<1>1. CASE SetSettings
  BY <1>1 DEF SetSettings
<1>2. CASE Run
  BY <1>2 DEF Run
<1>3. CASE TakeSocket
  BY <1>3 DEF TakeSocket, Incr
<1>4. CASE Admit
  <2>1. ConnId(ServerId, next) \in Nat
    BY ConnIdType
  <2>2. IsFiniteSet(conns')
    BY <1>4, FS_AddElement DEF Admit
  <2> QED
    BY <1>4, <2>1, <2>2 DEF Admit
<1>5. CASE OnAccept
  BY <1>5 DEF OnAccept
<1>6. CASE LoopFails \/ Recv \/ ReportError
  BY <1>6 DEF LoopFails, Recv, ReportError
<1>7. CASE DropListener
  BY <1>7 DEF DropListener, Dropped
<1>8. CASE DropConn
  BY <1>8, FS_RemoveElement DEF DropConn, Dropped
<1>9. CASE UNCHANGED vars
  BY <1>9 DEF vars
<1> QED
  BY <1>1, <1>2, <1>3, <1>4, <1>5, <1>6, <1>7, <1>8, <1>9 DEF Next, Finished

\* The variables of a listener and of what it accepted have their types.
THEOREM TypeCorrect == Spec => []TypeOK
<1>1. Init => TypeOK
  BY InitType
<1>2. TypeOK /\ [Next]_vars => TypeOK'
  BY StepType
<1> QED
  BY <1>1, <1>2, PTL DEF Spec

-----------------------------------------------------------------------------
(* Counting.                                                               *)

\* The socket about to become a connection is none of those that are.
NoFresh ==
  \A c \in conns : c.no <= taken /\ (pc = "admit" => c.no < taken)

LEMMA ConnTypes ==
  ASSUME TypeOK, NEW c \in conns
  PROVE  c.no \in Nat /\ c.id \in Nat
  BY ServerAssumption DEF TypeOK

LEMMA InitFresh == Init => NoFresh
  BY DEF Init, NoFresh

LEMMA StepFresh == TypeOK /\ NoFresh /\ [Next]_vars => NoFresh'
<1> SUFFICES ASSUME TypeOK, NoFresh, [Next]_vars PROVE NoFresh'
  OBVIOUS
<1> USE ConnTypes, ServerAssumption DEF NoFresh
<1> taken \in Nat
  BY DEF TypeOK
<1>1. CASE SetSettings \/ Run \/ OnAccept \/ LoopFails \/ Recv
           \/ ReportError \/ DropListener
  BY <1>1 DEF SetSettings, Run, OnAccept, LoopFails, Recv, ReportError,
              DropListener
<1>2. CASE TakeSocket
  BY <1>2 DEF TakeSocket
<1>3. CASE Admit
  BY <1>3 DEF Admit
<1>4. CASE DropConn
  BY <1>4 DEF DropConn
<1>5. CASE UNCHANGED vars
  BY <1>5 DEF vars
<1> QED
  BY <1>1, <1>2, <1>3, <1>4, <1>5 DEF Next, Finished

LEMMA ConnsFinite ==
  ASSUME TypeOK
  PROVE  /\ IsFiniteSet(conns)
         /\ Cardinality(conns) \in Nat
         /\ Cardinality(conns) = 0 <=> conns = {}
  BY FS_CardinalityType, FS_EmptySet DEF TypeOK

LEMMA InitCount == Init => CountExact
  BY FS_EmptySet DEF Init, CountExact

\* A new connection: one more in the set, one more in the count.
LEMMA AdmitCount ==
  ASSUME TypeOK, NoFresh, CountExact, Admit
  PROVE  CountExact'
<1> DEFINE e == [no |-> taken, id |-> ConnId(ServerId, next)]
<1>1. conns' = conns \cup {e} /\ pc = "admit" /\ pc' = "on_accept"
  BY DEF Admit
<1>2. e \notin conns
  <2> taken \in Nat
    BY DEF TypeOK
  <2> QED
    BY <1>1, ConnTypes DEF NoFresh
<1>3. Cardinality(conns') = Cardinality(conns) + 1
  BY <1>1, <1>2, ConnsFinite, FS_AddElement
<1> QED
  BY <1>1, <1>3 DEF CountExact, Admit

\* A connection fewer: the saturating subtraction is exact while the
\* listener lives, and keeps the difference of one once it does not.
LEMMA DropConnCount ==
  ASSUME TypeOK, CountExact, DropConn
  PROVE  CountExact'
<1> PICK c \in conns : conns' = conns \ {c}
  BY DEF DropConn
<1>1. Cardinality(conns') = Cardinality(conns) - 1
  BY ConnsFinite, FS_RemoveElement
<1>2. Cardinality(conns') = 0 <=> conns' = {}
  <2>1. IsFiniteSet(conns')
    BY ConnsFinite, FS_RemoveElement
  <2> QED
    BY <2>1, FS_EmptySet
<1>3. count' = Dropped(count) /\ pc' = pc /\ kind' = kind
  BY DEF DropConn
<1>4. conns # {}
  OBVIOUS
<1> QED
  BY <1>1, <1>2, <1>3, <1>4, ConnsFinite DEF CountExact, Dropped

LEMMA StepCount == TypeOK /\ NoFresh /\ CountExact /\ [Next]_vars => CountExact'
<1> SUFFICES ASSUME TypeOK, NoFresh, CountExact, [Next]_vars
             PROVE  CountExact'
  OBVIOUS
<1>1. CASE SetSettings \/ Run \/ OnAccept \/ LoopFails \/ Recv \/ ReportError
  BY <1>1 DEF CountExact, SetSettings, Run, OnAccept, LoopFails, Recv,
              ReportError
<1>2. CASE TakeSocket
  BY <1>2 DEF CountExact, TakeSocket
<1>3. CASE Admit
  BY <1>3, AdmitCount
<1>4. CASE DropListener
  BY <1>4, ConnsFinite DEF CountExact, DropListener, Dropped
<1>5. CASE DropConn
  BY <1>5, DropConnCount
<1>6. CASE UNCHANGED vars
  BY <1>6 DEF vars, CountExact
<1> QED
  BY <1>1, <1>2, <1>3, <1>4, <1>5, <1>6 DEF Next, Finished

LEMMA FreshCorrect == Spec => []NoFresh
<1>1. TypeOK /\ NoFresh /\ [Next]_vars => NoFresh'
  BY StepFresh
<1> QED
  BY <1>1, InitFresh, TypeCorrect, PTL DEF Spec

\* OnlineCount counts the connections that are alive, whatever the order in
\* which listener and connections add and subtract.
THEOREM CountCorrect == Spec => []CountExact
<1>1. Init => CountExact
  BY InitCount
<1>2. TypeOK /\ NoFresh /\ CountExact /\ [Next]_vars => CountExact'
  BY StepCount
<1> QED
  BY <1>1, <1>2, TypeCorrect, FreshCorrect, PTL DEF Spec

\* No socket is turned away while fewer than max connections are alive.
THEOREM NoneTurnedAwayCorrect == Spec => NoneTurnedAway
<1>1. CountExact /\ [Next]_vars =>
        [(taken' # taken /\ pc' = "loop") =>
           (kind # "kcp" /\ Cardinality(conns) >= max)]_vars
  <2> SUFFICES ASSUME CountExact, [Next]_vars, taken' # taken, pc' = "loop"
               PROVE  kind # "kcp" /\ Cardinality(conns) >= max
    OBVIOUS
  <2>1. TakeSocket
    BY DEF Next, SetSettings, Run, Admit, OnAccept, LoopFails, Recv,
           ReportError, DropListener, DropConn, Finished, vars
  <2>2. Full(count) /\ pc = "loop"
    BY <2>1 DEF TakeSocket
  <2> QED
    BY <2>2 DEF Full, CountExact
<1> QED
  BY <1>1, CountCorrect, PTL DEF Spec, NoneTurnedAway

-----------------------------------------------------------------------------
(* The limit.                                                              *)

\* The room TakeSocket saw is still there for Admit, and settings change
\* only while there is no connection.
RoomSeen ==
  kind # "kcp" =>
    /\ pc = "admit" => Cardinality(conns) < max
    /\ pc = "bound" => conns = {}

LimitInv == RoomSeen /\ LimitKept

LEMMA InitLimit == Init => LimitInv
  BY FS_EmptySet, ServerAssumption
     DEF Init, LimitInv, RoomSeen, LimitKept, Kept

LEMMA StepLimit ==
  TypeOK /\ NoFresh /\ CountExact /\ LimitInv /\ [Next]_vars => LimitInv'
<1> SUFFICES ASSUME TypeOK, NoFresh, CountExact, LimitInv, [Next]_vars,
                    (kind # "kcp")'
             PROVE  LimitInv'
  BY DEF LimitInv, RoomSeen, LimitKept
<1> USE DEF LimitInv, RoomSeen, LimitKept
<1> max \in Nat /\ Cardinality(conns) \in Nat
  BY ConnsFinite, ServerAssumption DEF TypeOK
<1>1. CASE SetSettings
  BY <1>1, FS_EmptySet, ServerAssumption DEF SetSettings
<1>2. CASE Run \/ OnAccept \/ LoopFails \/ Recv \/ ReportError \/ DropListener
  BY <1>2 DEF Run, OnAccept, LoopFails, Recv, ReportError, DropListener
<1>3. CASE TakeSocket
  <2>1. pc' = "admit" => count < max
    BY <1>3 DEF TakeSocket, Full, TypeOK
  <2> QED
    BY <1>3, <2>1 DEF TakeSocket, CountExact
<1>4. CASE Admit
  <2>1. PICK e : conns' = conns \cup {e}
    BY <1>4 DEF Admit
  <2>2. IsFiniteSet(conns)
    BY ConnsFinite
  <2>3. Cardinality(conns')
          = IF e \in conns THEN Cardinality(conns) ELSE Cardinality(conns) + 1
    BY <2>1, <2>2, FS_AddElement
  <2> QED
    BY <1>4, <2>3 DEF Admit
<1>5. CASE DropConn
  <2>1. Cardinality(conns') = Cardinality(conns) - 1
    BY <1>5, ConnsFinite, FS_RemoveElement DEF DropConn
  <2> QED
    BY <1>5, <2>1 DEF DropConn
<1>6. CASE UNCHANGED vars
  BY <1>6 DEF vars
<1> QED
  BY <1>1, <1>2, <1>3, <1>4, <1>5, <1>6 DEF Next, Finished

\* At most max connections are alive, though now() and add() are two steps.
THEOREM LimitCorrect == Spec => []LimitKept
<1>1. Init => LimitInv
  BY InitLimit
<1>2. TypeOK /\ NoFresh /\ CountExact /\ LimitInv /\ [Next]_vars => LimitInv'
  BY StepLimit
<1>3. LimitInv => LimitKept
  BY DEF LimitInv
<1> QED
  BY <1>1, <1>2, <1>3, TypeCorrect, FreshCorrect, CountCorrect, PTL DEF Spec

-----------------------------------------------------------------------------
(* Ids.                                                                    *)

\* server_id << 32 plus a u32 says which server and which number: ids of
\* different listeners never meet.
THEOREM ConnIdInjective ==
  ASSUME NEW s \in Nat, NEW t \in Nat,
         NEW m \in 0 .. W - 1, NEW n \in 0 .. W - 1,
         ConnId(s, m) = ConnId(t, n)
  PROVE  s = t /\ m = n
<1> USE ServerAssumption
<1>1. \A a, b \in Nat : a < b => a * W + W <= b * W
  <2> SUFFICES ASSUME NEW a \in Nat, NEW b \in Nat, a < b
               PROVE  a * W + W <= b * W
    OBVIOUS
  <2>1. PICK d \in Nat : b = a + 1 + d
    <3>1. b - a - 1 \in Nat /\ b = a + 1 + (b - a - 1)
      OBVIOUS
    <3> QED
      BY <3>1
  <2>2. b * W = a * W + W + d * W
    BY <2>1
  <2>3. d * W \in Nat /\ a * W \in Nat
    OBVIOUS
  <2> QED
    BY <2>2, <2>3
<1>2. s * W \in Nat /\ t * W \in Nat
  OBVIOUS
<1>3. s * W + m = t * W + n
  BY DEF ConnId
<1>4. ~(s < t) /\ ~(t < s)
  BY <1>1, <1>2, <1>3
<1>5. s = t
  BY <1>4
<1> QED
  BY <1>2, <1>3, <1>5

\* The number drawn g sockets before the one that drew n.
Back(n, g) == IF n >= g THEN n - g ELSE n - g + W

\* A connection whose socket is one of the last W has the id drawn then.
IdRecent ==
  \A c \in conns :
    taken - c.no < W => c.id = ConnId(ServerId, Back(next, taken - c.no))

IdInv == IdRecent /\ IdsApart

LEMMA BackStep ==
  ASSUME NEW n \in 0 .. W - 1, NEW g \in Nat, g + 1 < W
  PROVE  Back(Incr(n), g + 1) = Back(n, g)
  BY ServerAssumption DEF Back, Incr

LEMMA BackDiffers ==
  ASSUME NEW n \in 0 .. W - 1, NEW g \in 1 .. W - 1
  PROVE  Back(n, g) \in 0 .. W - 1 /\ Back(n, g) # n
  BY ServerAssumption DEF Back

LEMMA InitId == Init => IdInv
  BY DEF Init, IdInv, IdRecent, IdsApart

LEMMA TakeSocketId ==
  ASSUME TypeOK, NoFresh, IdInv, TakeSocket
  PROVE  IdInv'
<1> taken \in Nat /\ next \in 0 .. W - 1
  BY DEF TypeOK
<1>1. conns' = conns /\ taken' = taken + 1 /\ next' = Incr(next)
  BY DEF TakeSocket
<1>2. IdRecent'
  <2> SUFFICES ASSUME NEW c \in conns', taken' - c.no < W
               PROVE  c.id = ConnId(ServerId, Back(next', taken' - c.no))
    BY DEF IdRecent
  <2> c \in conns
    BY <1>1
  <2>1. c.no \in Nat /\ c.no <= taken
    BY ConnTypes DEF NoFresh
  <2> DEFINE g == taken - c.no
  <2>2. g \in Nat /\ g + 1 < W /\ g < W /\ taken' - c.no = g + 1
    BY <1>1, <2>1, ServerAssumption
  <2>3. c.id = ConnId(ServerId, Back(next, g))
    BY <2>2 DEF IdInv, IdRecent
  <2>4. Back(Incr(next), g + 1) = Back(next, g)
    BY <2>2, BackStep
  <2> QED
    BY <1>1, <2>2, <2>3, <2>4
<1> QED
  BY <1>1, <1>2 DEF IdInv, IdsApart

LEMMA AdmitId ==
  ASSUME TypeOK, NoFresh, IdInv, Admit
  PROVE  IdInv'
<1> DEFINE e == [no |-> taken, id |-> ConnId(ServerId, next)]
<1> taken \in Nat /\ next \in 0 .. W - 1
  BY DEF TypeOK
<1>1. /\ conns' = conns \cup {e} /\ pc = "admit"
      /\ taken' = taken /\ next' = next
  BY DEF Admit
<1>2. IdRecent'
  <2> SUFFICES ASSUME NEW c \in conns', taken - c.no < W
               PROVE  c.id = ConnId(ServerId, Back(next, taken - c.no))
    BY <1>1 DEF IdRecent
  <2>1. CASE c \in conns
    BY <2>1 DEF IdInv, IdRecent
  <2>2. CASE c = e
    <3>1. taken - c.no = 0 /\ c.id = ConnId(ServerId, next)
      BY <2>2
    <3>2. Back(next, 0) = next
      BY DEF Back
    <3> QED
      BY <3>1, <3>2
  <2> QED
    BY <1>1, <2>1, <2>2
<1>3. \A d \in conns : d.id = e.id => e.no - d.no >= W
  <2> SUFFICES ASSUME NEW d \in conns, taken - d.no < W PROVE d.id # e.id
    BY ConnTypes, ServerAssumption
  <2>1. d.no \in Nat /\ d.no < taken
    BY <1>1, ConnTypes DEF NoFresh
  <2>2. taken - d.no \in 1 .. W - 1
    BY <2>1, ServerAssumption
  <2> DEFINE b == Back(next, taken - d.no)
  <2>3. d.id = ConnId(ServerId, b)
    BY DEF IdInv, IdRecent
  <2>4. b \in 0 .. W - 1 /\ b # next
    BY <2>2, BackDiffers
  <2> HIDE DEF b
  <2>5. ConnId(ServerId, b) # ConnId(ServerId, next)
    BY <2>4, ConnIdInjective, ServerAssumption
  <2> QED
    BY <2>3, <2>5
<1>4. IdsApart'
  <2> SUFFICES ASSUME NEW c \in conns', NEW d \in conns',
                      c.id = d.id, c.no # d.no
               PROVE  c.no - d.no >= W \/ d.no - c.no >= W
    BY DEF IdsApart
  <2>1. CASE c \in conns /\ d \in conns
    BY <2>1 DEF IdInv, IdsApart
  <2>2. CASE c = e /\ d \in conns
    BY <1>3, <2>2
  <2>3. CASE c \in conns /\ d = e
    BY <1>3, <2>3
  <2> QED
    BY <1>1, <2>1, <2>2, <2>3
<1> QED
  BY <1>2, <1>4 DEF IdInv

LEMMA StepId == TypeOK /\ NoFresh /\ IdInv /\ [Next]_vars => IdInv'
<1> SUFFICES ASSUME TypeOK, NoFresh, IdInv, [Next]_vars PROVE IdInv'
  OBVIOUS
<1>1. CASE SetSettings \/ Run \/ OnAccept \/ LoopFails \/ Recv
           \/ ReportError \/ DropListener \/ DropConn
  <2>1. next' = next /\ taken' = taken /\ conns' \subseteq conns
    BY <1>1 DEF SetSettings, Run, OnAccept, LoopFails, Recv, ReportError,
                DropListener, DropConn
  <2> QED
    BY <2>1 DEF IdInv, IdRecent, IdsApart
<1>2. CASE TakeSocket
  BY <1>2, TakeSocketId
<1>3. CASE Admit
  BY <1>3, AdmitId
<1>4. CASE UNCHANGED vars
  BY <1>4 DEF vars, IdInv, IdRecent, IdsApart
<1> QED
  BY <1>1, <1>2, <1>3, <1>4 DEF Next, Finished

\* Connections alive at once share an id only when a whole round of the
\* u32, W sockets, lies between them.
THEOREM IdsCorrect == Spec => []IdsApart
<1>1. TypeOK /\ NoFresh /\ IdInv /\ [Next]_vars => IdInv'
  BY StepId
<1>2. IdInv => IdsApart
  BY DEF IdInv
<1> QED
  BY <1>1, <1>2, InitId, TypeCorrect, FreshCorrect, PTL DEF Spec
=============================================================================
