--------------------------- MODULE IdCenterProofs ---------------------------
(***************************************************************************)
(* IdCenter for any number of threads and any MAX_ID. NowBounded and       *)
(* IssuedBound are inductive together with the types: the first needs the  *)
(* set of threads at the store to grow and shrink by one, the second only  *)
(* that an id is returned when NOW passes it.                              *)
(***************************************************************************)
EXTENDS IdCenter, FiniteSetTheorems, TLAPS

LEMMA InitType == Init => TypeOK
  BY IdAssumption DEF Init, TypeOK, First

LEMMA StepType == TypeOK /\ [Next]_vars => TypeOK'
<1> SUFFICES ASSUME TypeOK, [Next]_vars PROVE TypeOK'
  OBVIOUS
<1> USE IdAssumption DEF TypeOK
<1>1. ASSUME NEW t \in Threads, Call(t) PROVE TypeOK'
  BY <1>1 DEF Call
<1>2. ASSUME NEW t \in Threads, FetchAdd(t) PROVE TypeOK'
  <2>1. now' \in Nat \ {0} /\ calls' \in 0 .. MaxCalls /\ resets' \in Nat
    BY <1>2 DEF FetchAdd, Added
  <2>2. CASE OverMax(now)
    BY <1>2, <2>1, <2>2 DEF FetchAdd
  <2>3. CASE ~OverMax(now)
    <3>1. now \in 1 .. MaxId
      BY <2>3 DEF OverMax
    <3>2. issued' = [issued EXCEPT ![now] = @ + 1]
      BY <1>2, <2>3 DEF FetchAdd
    <3>3. issued' \in [1 .. MaxId -> Nat]
      BY <3>1, <3>2
    <3> QED
      BY <1>2, <2>1, <2>3, <3>3 DEF FetchAdd
  <2> QED
    BY <2>2, <2>3
<1>3. ASSUME NEW t \in Threads, Store(t) PROVE TypeOK'
  BY <1>3 DEF Store, First
<1>4. CASE UNCHANGED vars
  BY <1>4 DEF vars
<1> QED
  BY <1>1, <1>2, <1>3, <1>4 DEF Next, Finished

\* The counter, the calls and what was returned have their types; an id is
\* never 0 nor above MAX_ID.
THEOREM TypeCorrect == Spec => []TypeOK
<1>1. Init => TypeOK
  BY InitType
<1>2. TypeOK /\ [Next]_vars => TypeOK'
  BY StepType
<1> QED
  BY <1>1, <1>2, PTL DEF Spec

-----------------------------------------------------------------------------

\* The threads at the store are finitely many.
LEMMA AtStoreFinite ==
  IsFiniteSet(AtStore) /\ Cardinality(AtStore) \in Nat
<1>1. AtStore \subseteq Threads
  BY DEF AtStore
<1> QED
  BY <1>1, FS_Subset, FS_CardinalityType, IdAssumption

LEMMA InitBound == Init => NowBounded
  BY AtStoreFinite, IdAssumption DEF Init, NowBounded, First

\* A thread passes MAX_ID and joins those at the store as it does.
LEMMA FetchAddBound ==
  ASSUME TypeOK, NowBounded, NEW t \in Threads, FetchAdd(t)
  PROVE  NowBounded'
<1> USE IdAssumption, AtStoreFinite DEF TypeOK, FetchAdd, Added
<1>1. CASE OverMax(now)
  <2>1. AtStore' = AtStore \cup {t} /\ t \notin AtStore
    BY <1>1 DEF AtStore
  <2>2. Cardinality(AtStore') = Cardinality(AtStore) + 1
    BY <2>1, FS_AddElement
  <2> QED
    BY <2>2 DEF NowBounded
<1>2. CASE ~OverMax(now)
  <2>1. IsFiniteSet(AtStore)'
    <3>1. AtStore' \subseteq Threads
      BY DEF AtStore
    <3> QED
      BY <3>1, FS_Subset
  <2>2. Cardinality(AtStore') \in Nat
    BY <2>1, FS_CardinalityType
  <2> QED
    BY <1>2, <2>2 DEF NowBounded, OverMax
<1> QED
  BY <1>1, <1>2

LEMMA StepBound == TypeOK /\ NowBounded /\ [Next]_vars => NowBounded'
<1> SUFFICES ASSUME TypeOK, NowBounded, [Next]_vars PROVE NowBounded'
  OBVIOUS
<1>1. ASSUME NEW t \in Threads, Call(t) PROVE NowBounded'
  <2>1. AtStore' = AtStore
    BY <1>1 DEF AtStore, Call, TypeOK
  <2> QED
    BY <1>1, <2>1 DEF NowBounded, Call
<1>2. ASSUME NEW t \in Threads, FetchAdd(t) PROVE NowBounded'
  BY <1>2, FetchAddBound
<1>3. ASSUME NEW t \in Threads, Store(t) PROVE NowBounded'
  <2>1. AtStore' \subseteq Threads
    BY DEF AtStore
  <2>2. Cardinality(AtStore') \in Nat
    BY <2>1, FS_Subset, FS_CardinalityType, IdAssumption
  <2> QED
    BY <1>3, <2>2, IdAssumption DEF NowBounded, Store, First
<1>4. CASE UNCHANGED vars
  BY <1>4 DEF vars, NowBounded, AtStore
<1> QED
  BY <1>1, <1>2, <1>3, <1>4 DEF Next, Finished

\* NOW never comes near the overflow of its u64: it exceeds MAX_ID by at
\* most one more than there are threads waiting to store 1 back.
THEOREM BoundCorrect == Spec => []NowBounded
<1>1. Init => NowBounded
  BY InitBound
<1>2. TypeOK /\ NowBounded /\ [Next]_vars => NowBounded'
  BY StepBound
<1> QED
  BY <1>1, <1>2, TypeCorrect, PTL DEF Spec

-----------------------------------------------------------------------------

LEMMA InitIssued == Init => IssuedBound
  BY IdAssumption DEF Init, IssuedBound, First

\* Only the id NOW stands at is returned, and NOW passes it.
LEMMA FetchAddIssued ==
  ASSUME TypeOK, IssuedBound, NEW t \in Threads, FetchAdd(t)
  PROVE  IssuedBound'
<1> USE IdAssumption DEF TypeOK, FetchAdd, Added
<1> SUFFICES ASSUME NEW i \in 1 .. MaxId
             PROVE  issued'[i] <= resets' + (IF i < now' THEN 1 ELSE 0)
  BY DEF IssuedBound
<1>1. /\ issued[i] \in Nat
      /\ issued[i] <= resets + (IF i < now THEN 1 ELSE 0)
  BY DEF IssuedBound
<1>2. CASE OverMax(now)
  BY <1>1, <1>2
<1>3. CASE ~OverMax(now)
  <2>1. issued' = [issued EXCEPT ![now] = @ + 1]
    BY <1>3
  <2>2. CASE i = now
    <3>1. issued'[i] = issued[i] + 1
      BY <2>1, <2>2
    <3> QED
      BY <1>1, <2>2, <3>1
  <2>3. CASE i # now
    <3>1. issued'[i] = issued[i]
      BY <2>1, <2>3
    <3> QED
      BY <1>1, <3>1
  <2> QED
    BY <2>2, <2>3
<1> QED
  BY <1>2, <1>3

LEMMA StepIssued == TypeOK /\ IssuedBound /\ [Next]_vars => IssuedBound'
<1> SUFFICES ASSUME TypeOK, IssuedBound, [Next]_vars PROVE IssuedBound'
  OBVIOUS
<1>1. ASSUME NEW t \in Threads, Call(t) PROVE IssuedBound'
  BY <1>1 DEF IssuedBound, Call
<1>2. ASSUME NEW t \in Threads, FetchAdd(t) PROVE IssuedBound'
  BY <1>2, FetchAddIssued
<1>3. ASSUME NEW t \in Threads, Store(t) PROVE IssuedBound'
  <2> SUFFICES ASSUME NEW i \in 1 .. MaxId
               PROVE  issued'[i] <= resets' + (IF i < now' THEN 1 ELSE 0)
    BY DEF IssuedBound
  <2>1. /\ issued[i] \in Nat
        /\ issued[i] <= resets + (IF i < now THEN 1 ELSE 0)
    BY DEF IssuedBound, TypeOK
  <2> QED
    BY <1>3, <2>1 DEF Store, First, TypeOK
<1>4. CASE UNCHANGED vars
  BY <1>4 DEF vars, IssuedBound
<1> QED
  BY <1>1, <1>2, <1>3, <1>4 DEF Next, Finished

\* Before the first reset no id is returned twice, and after n resets none
\* was returned more than n + 1 times.
THEOREM IssuedCorrect == Spec => []IssuedBound
<1>1. Init => IssuedBound
  BY InitIssued
<1>2. TypeOK /\ IssuedBound /\ [Next]_vars => IssuedBound'
  BY StepIssued
<1> QED
  BY <1>1, <1>2, TypeCorrect, PTL DEF Spec
=============================================================================
