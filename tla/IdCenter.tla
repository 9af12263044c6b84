----------------------------- MODULE IdCenter ------------------------------
(***************************************************************************)
(* IdCenter::next_connect_id (id_center.rs): one atomic counter that every *)
(* thread making a connection or a listener takes its id from. NOW is      *)
(* fetched and added to in one atomic step and, past MAX_ID, stored back   *)
(* to 1 in another; between the two other threads run. Both accesses are   *)
(* Relaxed, but of a single location, so their interleavings are all there *)
(* is.                                                                     *)
(***************************************************************************)
EXTENDS Integers, FiniteSets

CONSTANTS
  Threads,   \* the threads that call next_connect_id
  MaxId,     \* MAX_ID, u64::MAX >> 33 in the code
  MaxCalls   \* bound: calls made

ASSUME IdAssumption ==
  /\ IsFiniteSet(Threads)
  /\ MaxId \in Nat \ {0}
  /\ MaxCalls \in Nat

VARIABLES
  now,      \* NOW
  pc,       \* pc[t]: "idle", or at the "fetch_add" or the "store" of a call
  calls,    \* calls begun
  issued,   \* history: issued[i] is how often id i was returned
  resets    \* history: how often NOW was stored back to 1

vars == <<now, pc, calls, issued, resets>>

TypeOK ==
  /\ now \in Nat \ {0}
  /\ pc \in [Threads -> {"idle", "fetch_add", "store"}]
  /\ calls \in 0 .. MaxCalls
  /\ issued \in [1 .. MaxId -> Nat]
  /\ resets \in Nat

\* Mutant: back to the value before the first.
FirstZero == 0

\* What NOW starts from and is stored back to.
First == 1

Init ==
  /\ now = First
  /\ pc = [t \in Threads |-> "idle"]
  /\ calls = 0
  /\ issued = [i \in 1 .. MaxId |-> 0]
  /\ resets = 0

Call(t) ==
  /\ pc[t] = "idle"
  /\ calls < MaxCalls
  /\ calls' = calls + 1
  /\ pc' = [pc EXCEPT ![t] = "fetch_add"]
  /\ UNCHANGED <<now, issued, resets>>

\* Mutant: off by one at the top of the range.
OverMaxOrAt(next) == next > MaxId + 1

\* Past the end of the range.
OverMax(next) == next > MaxId

\* Mutant: a load in place of the fetch_add.
AddedNone(n) == n

\* fetch_add(1). By NowBounded it cannot overflow.
Added(n) == n + 1

\* let next = NOW.fetch_add(1): it is returned, or is out of range.
FetchAdd(t) ==
  /\ pc[t] = "fetch_add"
  /\ now' = Added(now)
  /\ IF OverMax(now)
     THEN /\ pc' = [pc EXCEPT ![t] = "store"]
          /\ UNCHANGED issued
     ELSE /\ pc' = [pc EXCEPT ![t] = "idle"]
          /\ issued' = [issued EXCEPT ![now] = @ + 1]
  /\ UNCHANGED <<calls, resets>>

\* Mutant: the store is retried until it is seen to hold.
StoreSpins(t) ==
  /\ pc[t] = "store"
  /\ now' = First
  /\ UNCHANGED <<pc, calls, issued, resets>>

\* NOW.store(1), and round the loop again.
Store(t) ==
  /\ pc[t] = "store"
  /\ now' = First
  /\ resets' = resets + 1
  /\ pc' = [pc EXCEPT ![t] = "fetch_add"]
  /\ UNCHANGED <<calls, issued>>

Finished ==
  /\ calls = MaxCalls
  /\ \A t \in Threads : pc[t] = "idle"
  /\ UNCHANGED vars

Next == (\E t \in Threads : Call(t) \/ FetchAdd(t) \/ Store(t)) \/ Finished

Spec == Init /\ [][Next]_vars

\* Every thread with a call under way goes on with it.
FairSpec ==
  Spec /\ \A t \in Threads : WF_vars(FetchAdd(t) \/ Store(t))

-----------------------------------------------------------------------------
(* Properties.                                                             *)

AtStore == {t \in Threads : pc[t] = "store"}

\* NOW runs past MAX_ID by one for each thread that still has to store 1
\* back, and by no more: however the threads race, it stays far from the
\* overflow of its u64.
NowBounded == now <= MaxId + 1 + Cardinality(AtStore)

\* An id is returned a second time only after NOW was stored back, and once
\* more for each time it was: before the first reset all ids are distinct.
\* (Each of several racing threads stores 1 back, so that one pass over the
\* range may return an id as often as there are threads.)
IssuedBound ==
  \A i \in 1 .. MaxId : issued[i] <= resets + (IF i < now THEN 1 ELSE 0)

\* The loop ends: once the other threads make no more calls, a thread that
\* keeps running out of the range gets an id.
CallsReturn == \A t \in Threads : (pc[t] # "idle") ~> (pc[t] = "idle")
=============================================================================
