---------------------------- MODULE ConnectProofs ----------------------------
(* Theorems about Connect, for any calls, timeouts and units.              *)
EXTENDS Connect, TLAPS

LEMMA CallFacts ==
  ASSUME NEW c \in Calls
  PROVE  /\ c.net \in {"Tcp", "Kcp", "Ws"} /\ c.how \in Offered[c.net]
         /\ c.net = "Ws" => c.how \in {"plain", "settings", "stream"}
         /\ c.net = "Kcp" => c.how \notin {"tls", "tls_timeout"}
         /\ c.ask \in Settings
BY ConnectAssumption DEF Offered

LEMMA StoredType ==
  ASSUME NEW c \in Calls
  PROVE  Stored(c) \in Settings
<1>1. c.ask \in Settings /\ Default \in Settings
  BY CallFacts, ConnectAssumption DEF Default, Settings
<1>2. GivenTimeout(c.net, c.ask.timeout) \in Nat
  BY <1>1, ConnectAssumption DEF GivenTimeout, Settings
<1> QED
  BY <1>1, <1>2 DEF Stored, Settings

-----------------------------------------------------------------------------
(* What the properties need besides themselves: whose the settings are,    *)
(* that the clock stands still but for the connect, and when a number is   *)
(* drawn.                                                                  *)

Kept ==
  /\ phase = "unconnected" => InLoop
  /\ ~InLoop => settings = Stored(call)
  /\ InLoop => settings \in {Default, call.ask}

Clock ==
  /\ Timed /\ phase = "dial" => waited <= Limit
  /\ phase \in {"lookup", "unconnected", "given"} => waited = 0
  /\ err = "Timeout" => Timed /\ phase = "failed" /\ waited = Limit

Number ==
  /\ drawn >= Drawn
  /\ phase # "made" => id = 0 /\ ~tls
  /\ phase = "tls" => Secured
  /\ phase = "made" => (tls <=> Secured) /\ (InLoop => id = 0) /\ (~InLoop => id > Drawn)

IInv == TypeOK /\ Kept /\ Clock /\ Number

LEMMA InitInv == Init => IInv
<1> SUFFICES ASSUME Init PROVE IInv
  OBVIOUS
<1> USE DEF Init
<1>1. TypeOK
  <2>1. call \in Calls /\ settings \in Settings
    BY StoredType
  <2>2. phase \in {"lookup", "unconnected", "given", "dial", "tls", "made", "failed"}
    OBVIOUS
  <2>3. drawn \in Nat /\ cmds \in 0 .. MaxCmd
    BY ConnectAssumption
  <2> QED
    BY <2>1, <2>2, <2>3 DEF TypeOK
<1>2. Kept
  BY DEF Kept, InLoop, Stored
<1>3. Limit \in Nat
  BY <1>1, CallFacts, ConnectAssumption DEF TypeOK, Limit, GivenTimeout, Settings
<1>4. Clock
  BY <1>3 DEF Clock
<1>5. Number
  BY ConnectAssumption DEF Number
<1> QED
  BY <1>1, <1>2, <1>4, <1>5 DEF IInv

LEMMA LimitType == TypeOK => Limit \in Nat
BY ConnectAssumption DEF TypeOK, Limit, GivenTimeout, Settings

LEMMA StepInv == IInv /\ [Next]_vars => IInv'
<1> SUFFICES ASSUME IInv, [Next]_vars PROVE IInv'
  OBVIOUS
<1> USE DEF IInv
<1>0. Limit \in Nat /\ waited \in Nat /\ drawn \in Nat /\ Drawn \in Nat /\ MaxCmd \in Nat
  BY LimitType, ConnectAssumption DEF TypeOK
\* The steps that leave the settings alone.
<1>1. ASSUME UNCHANGED <<call, settings>>
      PROVE  /\ Limit' = Limit /\ (Timed' <=> Timed) /\ (Secured' <=> Secured)
             /\ InLoop' <=> InLoop
             /\ (phase' = "unconnected" => InLoop) => Kept'
  BY <1>1 DEF Limit, Timed, Secured, InLoop, Kept, Stored, GivenTimeout
<1>2. ASSUME NEW s \in BOOLEAN, Made(s), phase \in {"given", "dial", "tls"}, s <=> Secured
      PROVE  IInv'
  <2>1. UNCHANGED <<call, settings, waited, err, cmds>>
    BY <1>2 DEF Made
  <2>2. phase' = "made" /\ tls' = s /\ drawn' = drawn + 1
        /\ id' = IF InLoop THEN id ELSE drawn'
    BY <1>2 DEF Made
  <2>3. TypeOK'
    BY <1>0, <2>1, <2>2 DEF TypeOK
  <2>4. Clock'
    BY <1>1, <1>2, <2>1, <2>2 DEF Clock
  <2>5. InLoop => id = 0
    BY <1>2 DEF Number
  <2>6. Number'
    BY <1>0, <1>1, <1>2, <2>1, <2>2, <2>5 DEF Number
  <2> QED
    BY <1>1, <2>1, <2>2, <2>3, <2>4, <2>6
<1>3. ASSUME NEW e \in {"io", "tls", "Timeout"}, Fails(e),
             phase \in {"lookup", "dial", "tls"},
             e = "Timeout" => Timed /\ waited = Limit
      PROVE  IInv'
  <2>1. UNCHANGED <<call, settings, waited, tls, id, drawn, cmds>>
        /\ phase' = "failed" /\ err' = e
    BY <1>3 DEF Fails
  <2>2. TypeOK' /\ Number'
    BY <1>1, <1>3, <2>1 DEF TypeOK, Number
  <2>4. Clock'
    BY <1>0, <1>1, <1>3, <2>1 DEF Clock
  <2> QED
    BY <1>1, <2>1, <2>2, <2>4
<1>4. ASSUME phase \in {"given", "dial"}, Streamed
      PROVE  IInv'
  <2>1. CASE ~Secured /\ Made(FALSE)
    BY <1>2, <1>4, <2>1
  <2>2. CASE Secured /\ phase' = "tls"
             /\ UNCHANGED <<call, settings, waited, tls, id, drawn, err, cmds>>
    BY <1>1, <1>4, <2>2 DEF TypeOK, Clock, Number
  <2> QED
    BY <1>4, <2>1, <2>2 DEF Streamed
<1>5. CASE WithStream
  BY <1>4, <1>5 DEF WithStream
<1>6. CASE Dialed
  BY <1>4, <1>6 DEF Dialed
<1>7. CASE Resolved
  BY <1>0, <1>1, <1>7 DEF Resolved, TypeOK, Clock, Number
<1>8. CASE LookupFails \/ Refused \/ ShakeFails
  BY <1>3, <1>8 DEF LookupFails, Refused, ShakeFails
<1>9. CASE TimesOut
  <2>1. waited = Limit
    BY <1>0, <1>9 DEF TimesOut, Clock
  <2> QED
    BY <1>3, <1>9, <2>1 DEF TimesOut
<1>10. CASE Tick
  BY <1>0, <1>1, <1>10 DEF Tick, TypeOK, Clock, Number
<1>11. CASE Shaken
  <2>1. Secured
    BY <1>11 DEF Shaken, Number
  <2> QED
    BY <1>2, <1>11, <2>1 DEF Shaken
<1>12. CASE SetSettings
  <2>1. call \in Calls /\ call.ask \in Settings
    BY CallFacts DEF TypeOK
  <2>2. TypeOK'
    BY <1>12, <2>1 DEF SetSettings, TypeOK
  <2>3. InLoop /\ (InLoop' <=> InLoop)
    BY <1>12 DEF SetSettings, Kept, InLoop
  <2>4. Kept'
    BY <1>12, <2>3 DEF SetSettings, Kept
  <2>5. waited = 0 /\ phase' = "unconnected" /\ UNCHANGED <<waited, err, id, tls, drawn>>
    BY <1>12 DEF SetSettings, Clock
  <2>6. Clock'
    BY <1>12, <2>5 DEF SetSettings, Clock
  <2>7. Number'
    BY <1>12, <2>5 DEF SetSettings, Number
  <2> QED
    BY <2>2, <2>4, <2>6, <2>7
<1>13. CASE Run
  BY <1>0, <1>1, <1>13 DEF Run, TypeOK, Clock, Number
<1>14. CASE Restart
  BY <1>0, <1>1, <1>14 DEF Restart, TypeOK, Clock, Number
<1>15. CASE UNCHANGED vars
  <2>1. UNCHANGED <<call, phase, settings, waited, tls, id, drawn, err, cmds>>
    BY <1>15 DEF vars
  <2>2. phase' = "unconnected" => InLoop
    BY <2>1 DEF Kept
  <2> QED
    BY <1>1, <2>1, <2>2 DEF TypeOK, Clock, Number
<1> QED
  BY <1>5, <1>6, <1>7, <1>8, <1>9, <1>10, <1>11, <1>12, <1>13, <1>14, <1>15
     DEF Next, Over

LEMMA IInvCorrect == Spec => []IInv
  BY InitInv, StepInv, PTL DEF Spec

-----------------------------------------------------------------------------
(* The theorems.                                                           *)

\* The limit of an attempt is the time that was asked for, or more.
LEMMA LimitAsked ==
  TypeOK /\ Kept => Limit >= AskedTime /\ (InMillis => Limit = AskedTime)
<1> SUFFICES ASSUME TypeOK, Kept
             PROVE  Limit >= AskedTime /\ (InMillis => Limit = AskedTime)
  OBVIOUS
<1>1. call \in Calls /\ settings \in Settings /\ settings.timeout \in Nat
      /\ call.ask.timeout \in Nat
  BY CallFacts DEF TypeOK, Settings
<1>2. ASSUME NEW t \in Nat
      PROVE  /\ GivenTimeout(call.net, t) >= t
             /\ call.net # "Tcp" => GivenTimeout(call.net, t) = t
  <2>1. MicrosPerMilli \in Nat \ {0}
    BY ConnectAssumption
  <2>2. t * MicrosPerMilli >= t
    BY <2>1
  <2> QED
    BY <2>2 DEF GivenTimeout
<1>3. CASE call.how \in {"timeout", "tls_timeout"}
  <2>1. settings.timeout = GivenTimeout(call.net, call.ask.timeout)
    BY <1>3 DEF Kept, InLoop, Stored, Default
  <2>2. Limit = settings.timeout /\ AskedTime = call.ask.timeout
    BY <1>3 DEF Limit, InLoop, AskedTime
  <2> QED
    BY <1>1, <1>2, <1>3, <2>1, <2>2 DEF InMillis
<1>4. CASE call.how = "new"
  <2>1. Limit = GivenTimeout(call.net, settings.timeout) /\ AskedTime = settings.timeout
    BY <1>4 DEF Limit, InLoop, AskedTime
  <2> QED
    BY <1>1, <1>2, <1>4, <2>1 DEF InMillis
<1>5. CASE call.how \notin {"timeout", "tls_timeout", "new"}
  BY <1>1, <1>5 DEF Limit, InLoop, AskedTime
<1> QED
  BY <1>3, <1>4, <1>5

\* The positions of the clock, the settings and the numbers have their types.
THEOREM TypeCorrect == Spec => []TypeOK
<1>1. IInv => TypeOK
  BY DEF IInv
<1> QED
  BY <1>1, IInvCorrect, PTL

\* No attempt reports Timeout before the time its caller asked for, nor, where
\* milliseconds are taken as such, waits past it: whatever the timeout, the
\* unit TCP mistakes it for and the number of restarts.
THEOREM TimeoutCorrect == Spec => []TimeoutExact
<1>1. IInv => TimeoutExact
  <2> SUFFICES ASSUME IInv, phase = "dial" \/ err = "Timeout", Timed
               PROVE  /\ InMillis => waited <= AskedTime
                      /\ err = "Timeout" => waited >= AskedTime
    BY DEF TimeoutExact
  <2>1. Limit \in Nat /\ waited \in Nat /\ AskedTime \in Nat
    <3>1. call \in Calls
      BY DEF IInv, TypeOK
    <3> QED
      BY <3>1, LimitType, CallFacts DEF IInv, TypeOK, AskedTime, Settings
  <2>2. waited <= Limit /\ (err = "Timeout" => waited = Limit)
    BY <2>1 DEF IInv, Clock
  <2> QED
    BY <2>1, <2>2, LimitAsked DEF IInv
<1> QED
  BY <1>1, IInvCorrect, PTL

\* A connection has the settings and the TLS its constructor was asked for.
THEOREM AsAskedCorrect == Spec => []AsAsked
<1>1. IInv => AsAsked
  <2> SUFFICES ASSUME IInv, phase = "made" PROVE AsAsked
    BY DEF AsAsked
  <2>1. call \in Calls
    BY DEF IInv, TypeOK
  <2>2. CASE InLoop
    <3>1. ~Secured
      BY <2>1, <2>2, CallFacts DEF Secured, InLoop
    <3> QED
      BY <2>2, <3>1 DEF IInv, Kept, Number, AsAsked
  <2>3. CASE ~InLoop
    <3>1. settings = Stored(call) /\ (call.how = "settings" => settings = call.ask)
      BY <2>3 DEF IInv, Kept, Stored
    <3>2. call.net = "Tcp" => (Secured <=> AskedTls)
      BY <2>1, <2>3, <3>1, CallFacts
         DEF Secured, AskedTls, Stored, Default, InLoop, Offered
    <3>3. call.net = "Kcp" => (Secured <=> AskedTls)
      BY <2>1, CallFacts DEF Secured, AskedTls
    <3>4. call.net = "Ws" => (Secured <=> AskedTls)
      BY <2>1, CallFacts DEF Secured, AskedTls
    <3>5. Secured <=> AskedTls
      BY <2>1, <3>2, <3>3, <3>4, CallFacts
    <3> QED
      BY <2>3, <3>1, <3>5 DEF IInv, Number, AsAsked
  <2> QED
    BY <2>2, <2>3
<1> QED
  BY <1>1, IInvCorrect, PTL
=============================================================================
