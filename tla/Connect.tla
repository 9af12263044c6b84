------------------------------- MODULE Connect -------------------------------
(***************************************************************************)
(* How a client's connection is made: the constructors of NetConn, TcpConn,*)
(* KcpConn, WsConn and Builder, from the call to a connection that can run *)
(* (conn.rs, builder.rs, tcp/mod.rs, kcp/mod.rs, ws/mod.rs, ws/client.rs,  *)
(* stream.rs). One call is followed, on a clock of milliseconds.           *)
(*                                                                         *)
(* Most constructors connect before they return. NetConn::new (TcpConn,    *)
(* KcpConn) does not: its connection connects inside its own loop, where   *)
(* every command and every on_logic drops the attempt and the next turn    *)
(* starts another. What else the loop does meanwhile is StreamConn's.      *)
(***************************************************************************)
EXTENDS Integers

CONSTANTS
  Calls,            \* the calls looked at, records of
                    \*   net:   "Tcp", "Kcp" or "Ws";
                    \*   how:   which constructor;
                    \*   ask:   the settings it is given, or of which it is
                    \*          given the timeout or the domain; those of
                    \*          set_settings for "new";
                    \*   wss:   the scheme of a WebSocket's Url;
                    \*   logic: an on_logic that completes now and then
  DefaultTimeout,   \* connect_timeout of Settings::default()
  MicrosPerMilli,   \* 1000
  Drawn,            \* ids IdCenter has given out before
  MaxCmd            \* bound: commands taken while the loop connects

\* Settings, as far as connecting looks at them: connect_timeout, whether
\* there is a domain, and whose the other fields are.
Settings == [timeout : Nat, domain : BOOLEAN, rest : {"default", "own"}]

\* The constructors of each transport.
Offered ==
  [Tcp |-> {"plain", "settings", "timeout", "tls", "tls_timeout", "stream", "new"},
   Kcp |-> {"plain", "settings", "timeout", "stream", "new"},
   Ws  |-> {"plain", "settings", "stream"}]

ASSUME ConnectAssumption ==
  /\ \A c \in Calls :
       /\ c.net \in DOMAIN Offered /\ c.how \in Offered[c.net]
       /\ c.ask \in Settings
       /\ c.wss \in BOOLEAN /\ c.logic \in BOOLEAN
  /\ DefaultTimeout \in Nat
  /\ MicrosPerMilli \in Nat \ {0}
  /\ Drawn \in Nat
  /\ MaxCmd \in Nat

VARIABLES
  call,      \* the call, chosen once
  phase,     \* how far it has come
  settings,  \* the settings of the connection, or of the one in the making
  waited,    \* milliseconds since the attempt under way began
  tls,       \* is the stream a TLS stream?
  id,        \* the connection's id, 0 while it has none
  drawn,     \* ids IdCenter has given out
  err,       \* why it failed
  cmds       \* commands the loop has taken while connecting

vars == <<call, phase, settings, waited, tls, id, drawn, err, cmds>>

-----------------------------------------------------------------------------
(* Settings.                                                               *)

Default == [timeout |-> DefaultTimeout, domain |-> FALSE, rest |-> "default"]

\* Mutant: KCP has the micros, too.
GivenTimeoutMicros(net, t) == t * MicrosPerMilli

\* The timeout an `impl ..._with_timeout` puts into connect_timeout, which is
\* read as milliseconds: KCP converts with as_millis, TCP with as_micros.
GivenTimeout(net, t) == IF net = "Tcp" THEN t * MicrosPerMilli ELSE t

\* The settings a constructor goes by and stores. (NetConn hands
\* connect_with_stream of TCP the default ones; KCP's takes none.)
Stored(c) ==
  CASE c.how = "settings" -> c.ask
    [] c.how = "stream" /\ c.net = "Ws" -> c.ask
    [] c.how = "timeout" -> [Default EXCEPT !.timeout = GivenTimeout(c.net, c.ask.timeout)]
    [] c.how = "tls" -> [Default EXCEPT !.domain = TRUE]
    [] c.how = "tls_timeout" -> [Default EXCEPT !.domain = TRUE,
                                   !.timeout = GivenTimeout(c.net, c.ask.timeout)]
    [] OTHER -> Default

\* The loop connects with connect_with_timeout(settings.connect_timeout).
InLoop == call.how = "new"

\* Milliseconds until the attempt under way times out. A WebSocket client
\* connects without a timeout.
Timed == call.net # "Ws"
Limit == IF InLoop THEN GivenTimeout(call.net, settings.timeout) ELSE settings.timeout

\* Does the constructor go on with a TLS handshake? WebSocket looks at the
\* scheme. In its loop TCP connects with default settings, so without.
Secured ==
  \/ call.net = "Tcp" /\ call.how # "stream" /\ ~InLoop /\ settings.domain
  \/ call.net = "Ws" /\ call.wss

-----------------------------------------------------------------------------
(* The connection is made.                                                 *)

\* Mutant: settings are lost on the way, as they are in bind_with_listener.
MadeBare(secure) ==
  /\ phase' = "made"
  /\ tls' = secure
  /\ drawn' = drawn + 1
  /\ id' = IF InLoop THEN id ELSE drawn'
  /\ settings' = Default
  /\ UNCHANGED <<call, waited, err, cmds>>

\* An id is drawn. In the loop it goes away with the connection it was drawn
\* for, of which only the stream is kept.
Made(secure) ==
  /\ phase' = "made"
  /\ tls' = secure
  /\ drawn' = drawn + 1
  /\ id' = IF InLoop THEN id ELSE drawn'
  /\ UNCHANGED <<call, settings, waited, err, cmds>>

Fails(e) ==
  /\ phase' = "failed"
  /\ err' = e
  /\ UNCHANGED <<call, settings, waited, tls, id, drawn, cmds>>

\* There is a stream of bytes.
Streamed ==
  \/ ~Secured /\ Made(FALSE)
  \/ /\ Secured
     /\ phase' = "tls"
     /\ UNCHANGED <<call, settings, waited, tls, id, drawn, err, cmds>>

\* connect_with_stream is given it.
WithStream == phase = "given" /\ Streamed

-----------------------------------------------------------------------------
(* The name is looked up; by KCP and NetConn::new before there is a timer. *)

Resolved ==
  /\ phase = "lookup"
  /\ phase' = IF InLoop THEN "unconnected" ELSE "dial"
  /\ UNCHANGED <<call, settings, waited, tls, id, drawn, err, cmds>>

LookupFails == phase = "lookup" /\ Fails("io")

-----------------------------------------------------------------------------
(* The connect, a race of the network with the timer.                      *)

Dialed == phase = "dial" /\ Streamed

Refused == phase = "dial" /\ Fails("io")

\* Mutant: a timeout starts the next attempt.
TimesOutAgain ==
  /\ phase = "dial" /\ Timed
  /\ waited >= Limit
  /\ waited' = 0
  /\ UNCHANGED <<call, phase, settings, tls, id, drawn, err, cmds>>

TimesOut ==
  /\ phase = "dial" /\ Timed
  /\ waited >= Limit
  /\ Fails("Timeout")

\* A millisecond passes.
Tick ==
  /\ phase = "dial" /\ Timed
  /\ waited < Limit
  /\ waited' = waited + 1
  /\ UNCHANGED <<call, phase, settings, tls, id, drawn, err, cmds>>

-----------------------------------------------------------------------------
(* The TLS handshake, under no timeout.                                    *)

Shaken == phase = "tls" /\ Made(TRUE)

ShakeFails == phase = "tls" /\ Fails("tls")

-----------------------------------------------------------------------------
(* NetConn::new, and the loop of its connection.                           *)

SetSettings ==
  /\ phase = "unconnected"
  /\ settings' = call.ask
  /\ UNCHANGED <<call, phase, waited, tls, id, drawn, err, cmds>>

Run ==
  /\ phase = "unconnected"
  /\ phase' = "dial"
  /\ UNCHANGED <<call, settings, waited, tls, id, drawn, err, cmds>>

\* The loop turns because of a command or of on_logic: the attempt is
\* dropped, and the next one has all its time again.
Restart ==
  /\ phase = "dial" /\ InLoop
  /\ \/ cmds < MaxCmd /\ cmds' = cmds + 1
     \/ call.logic /\ UNCHANGED cmds
  /\ waited' = 0
  /\ UNCHANGED <<call, phase, settings, tls, id, drawn, err>>

Over == phase \in {"made", "failed"} /\ UNCHANGED vars

-----------------------------------------------------------------------------
Init ==
  /\ call \in Calls
  /\ phase = IF call.how = "stream" THEN "given"
             ELSE IF call.how = "new" \/ call.net = "Kcp" THEN "lookup" ELSE "dial"
  /\ settings = Stored(call)
  /\ waited = 0
  /\ tls = FALSE
  /\ id = 0
  /\ drawn = Drawn
  /\ err = "none"
  /\ cmds = 0

Next ==
  \/ WithStream \/ Resolved \/ LookupFails
  \/ Dialed \/ Refused \/ TimesOut \/ Tick
  \/ Shaken \/ ShakeFails
  \/ SetSettings \/ Run \/ Restart
  \/ Over

Spec == Init /\ [][Next]_vars

\* The clock goes on, and a timer that is due wakes its task. Nothing is
\* assumed of the network.
FairSpec == Spec /\ WF_vars(Tick) /\ WF_vars(TimesOut)

-----------------------------------------------------------------------------
(* Properties.                                                             *)

TypeOK ==
  /\ call \in Calls
  /\ phase \in {"lookup", "unconnected", "given", "dial", "tls", "made", "failed"}
  /\ settings \in Settings
  /\ waited \in Nat
  /\ tls \in BOOLEAN
  /\ id \in Nat
  /\ drawn \in Nat
  /\ err \in {"none", "io", "tls", "Timeout"}
  /\ cmds \in 0 .. MaxCmd

\* The time the caller gave the attempt under way.
AskedTime ==
  IF call.how \in {"timeout", "tls_timeout"} THEN call.ask.timeout ELSE settings.timeout

\* Are the milliseconds that were asked for taken as such? Not where TCP takes
\* them through as_micros.
InMillis == ~(call.net = "Tcp" /\ call.how \in {"timeout", "tls_timeout", "new"})

\* The timer and the network race fairly: an attempt reports Timeout only when
\* it has waited as long as its caller asked, and, where the milliseconds are
\* taken as such, it waits no longer, though commands start it anew.
TimeoutExact ==
  (phase = "dial" \/ err = "Timeout") /\ Timed =>
    /\ InMillis => waited <= AskedTime
    /\ err = "Timeout" => waited >= AskedTime

\* Did the caller ask for TLS?
AskedTls ==
  \/ call.net = "Ws" /\ call.wss
  \/ call.net = "Tcp" /\ call.how = "settings" /\ call.ask.domain
  \/ call.how \in {"tls", "tls_timeout"}

\* What was asked of a constructor is what the connection has when it is
\* handed out: the settings, TLS when it was asked for and never instead of
\* it a plain stream, and a number that no connection had before. (Only
\* NetConn::new does otherwise: no number, and never TLS.)
AsAsked ==
  phase = "made" =>
    IF InLoop THEN id = 0 /\ ~tls /\ settings \in {Default, call.ask}
    ELSE /\ tls <=> AskedTls
         /\ call.how = "settings" => settings = call.ask
         /\ id > Drawn

\* An attempt under a timer ends, however long the peer stays silent and
\* though commands start it anew: unless an on_logic does so for ever.
Ends == (phase = "dial" /\ Timed /\ ~(InLoop /\ call.logic)) ~> (phase # "dial")

-----------------------------------------------------------------------------
(* What the documentation says, and the code does not do.                  *)

\* settings.rs:25: connect_timeout is the longest time of connecting.
TimeoutKept == phase = "dial" /\ Timed => waited <= AskedTime
=============================================================================
