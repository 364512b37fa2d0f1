---------------------------- MODULE RndcSession ----------------------------
(***************************************************************************)
(* rndc connections from connect to close (bind9-sdk-net rndc/mod.rs), and *)
(* the three ways they are used: by Bind9Client, one command under one     *)
(* timeout (config.rs); by JsRndcLimiter, one command in a limiter's slot  *)
(* (bindings/limiter.rs); and directly, by a caller who keeps a connection *)
(* and may drop a command half way.                                        *)
(*                                                                         *)
(* Client and named have clocks that differ by skew.  Every byte that is   *)
(* read comes off a stream; a read that is dropped takes a part with it.   *)
(***************************************************************************)
EXTENDS RndcLimiter, RndcCodec, RndcCommand

CONSTANTS
  Clients,       \* calls of Bind9Client
  Directs,       \* callers with a connection of their own
  Scenarios,     \* who takes part
  Skews,         \* named's clock minus the client's
  Channels,      \* where named is and what the client's policy allows
  Keys,          \* keys the callers may have: algorithm and secret
  Secret,        \* the secret named has
  FirstSerials,  \* where a session's random serial may start
  Texts,         \* raw commands of the limiter's users
  DirectCommands, \* commands of the direct callers
  MaxTime,       \* bound: seconds that pass
  MaxAttempts    \* bound: commands on one connection

Callers == Clients \cup Users \cup Directs
MaxReply == 46  \* cells of the longest reply of named
Version == "9.20.18"

(* A caller is of one kind.  No connection carries 2^32 commands, and no   *)
(* reply is longer than what is read.  A text that is not a command would  *)
(* ask for a nonce again.                                                  *)
ASSUME SessionAssumption ==
  /\ Clients \cap Users = {} /\ Clients \cap Directs = {} /\ Users \cap Directs = {}
  /\ Scenarios \subseteq SUBSET (Clients \cup Users \cup Directs)
  /\ Skews \subseteq Int /\ FirstSerials \subseteq 0..SerialMod - 1
  /\ MaxTime \in Nat /\ MaxAttempts \in 1..SerialMod - 1
  /\ MaxMessage >= MaxReply
  /\ NoNonce \notin Clients \cup Users \cup Directs
  /\ None # Version
  /\ <<"null">> \notin Texts /\ DirectCommands \subseteq Commands

VARIABLES
  live,      \* the callers that take part
  time,      \* the client's clock
  skew,      \* named's clock is ahead by this
  channel,   \* whether the control channel is remote, and the RndcTransportPolicy
  key,       \* the key of the client side
  pc,        \* where each caller is
  cmd,       \* the command in hand
  attempt,   \* how many commands were sent on the connection
  serial, sentAt, nonce,  \* the session
  up,        \* requests named has not read
  down,      \* cells the client has not read
  told,      \* what the caller was told last
  done,      \* what named executed on each connection (history)
  torn       \* a command was dropped while its reply was to come (history)

worldVars   == <<live, skew, channel, key>>
sessionVars == <<serial, sentAt, nonce>>
wireVars    == <<up, down>>
vars == <<limiterVars, worldVars, time, pc, cmd, attempt, sessionVars, wireVars, told, done, torn>>

Nothing == [is |-> "nothing"]
Failed(why) == [is |-> why]
NoCommand == [kind |-> "none"]

Init ==
  /\ LimiterInit
  /\ live \in Scenarios /\ skew \in Skews /\ channel \in Channels /\ key \in Keys
  /\ time = 0
  /\ pc = [s \in Callers |-> "idle"]
  /\ cmd = [s \in Callers |-> NoCommand]
  /\ attempt = [s \in Callers |-> 0]
  /\ serial = [s \in Callers |-> 0]
  /\ sentAt = [s \in Callers |-> 0]
  /\ nonce = [s \in Callers |-> NoNonce]
  /\ up = [s \in Callers |-> <<>>]
  /\ down = [s \in Callers |-> <<>>]
  /\ told = [s \in Callers |-> Nothing]
  /\ done = [s \in Callers |-> <<>>]
  /\ torn = [s \in Callers |-> FALSE]
-----------------------------------------------------------------------------
(* The permit is not tied to the guard. *)
Bug_End(s, outcome) ==
  /\ pc' = [pc EXCEPT ![s] = "done"]
  /\ told' = [told EXCEPT ![s] = outcome]
  /\ IF s \in holding THEN holding' = holding \ {s} /\ UNCHANGED <<permits, waiting>>
                      ELSE UNCHANGED limiterVars

(* A call is over: the connection is dropped, and with it a guard.         *)
End(s, outcome) ==
  /\ pc' = [pc EXCEPT ![s] = "done"]
  /\ told' = [told EXCEPT ![s] = outcome]
  /\ IF s \in holding THEN Release(s) ELSE UNCHANGED limiterVars

(* A command of a connection that is kept. *)
Settle(s, outcome) ==
  IF s \in Directs
  THEN /\ pc' = [pc EXCEPT ![s] = "ready"]
       /\ told' = [told EXCEPT ![s] = outcome]
       /\ UNCHANGED limiterVars
  ELSE End(s, outcome)

(* What this caller may ask for. *)
CommandsOf(s) ==
  IF s \in Clients THEN UNION {ClientCommands(z, v) : z \in Names, v \in Maybe(Views)}
  ELSE IF s \in Users THEN RawCommands(Texts) ELSE DirectCommands

(* A call: the limiter's users queue for a slot first. *)
Call(s) ==
  /\ pc[s] = "idle" /\ s \in live
  /\ \E c \in CommandsOf(s) : cmd' = [cmd EXCEPT ![s] = c]
  /\ IF s \in Users THEN Enqueue(s) /\ pc' = [pc EXCEPT ![s] = "acquire"]
                    ELSE UNCHANGED limiterVars /\ pc' = [pc EXCEPT ![s] = "connect"]
  /\ UNCHANGED <<worldVars, time, attempt, sessionVars, wireVars, told, done, torn>>

Admit(s) ==
  /\ pc[s] = "acquire" /\ Acquire(s)
  /\ pc' = [pc EXCEPT ![s] = "connect"]
  /\ UNCHANGED <<worldVars, time, cmd, attempt, sessionVars, wireVars, told, done, torn>>

(* Only Bind9Client knows a policy; everybody else connects to loopback.   *)
Reachable(s) == ~channel.remote \/ (s \in Clients /\ channel.policy = "protected")

ConnectFails(s) ==
  /\ pc[s] = "connect"
  /\ \/ ~Reachable(s) /\ End(s, Failed("tls required"))
     \/ Reachable(s) /\ End(s, Failed("connection"))
     \/ Reachable(s) /\ ~Usable(key) /\ End(s, Failed("protocol"))
  /\ UNCHANGED <<worldVars, time, cmd, attempt, sessionVars, wireVars, done, torn>>

(* The signed null command that asks for a nonce. *)
Handshake(s) ==
  /\ pc[s] = "connect" /\ Reachable(s) /\ Usable(key)
  /\ \E n \in FirstSerials :
       /\ serial' = [serial EXCEPT ![s] = n]
       /\ up' = [up EXCEPT ![s] =
                   Append(@, [of |-> 0, cells |-> CommandFrame(key, n, time, NoNonce, <<"null">>)])]
  /\ sentAt' = [sentAt EXCEPT ![s] = time]
  /\ pc' = [pc EXCEPT ![s] = "auth"]
  /\ UNCHANGED <<limiterVars, worldVars, time, cmd, attempt, nonce, down, told, done, torn>>

(* The next command; the clock is read before anything is written. *)
Command(s) ==
  /\ pc[s] = "ready" /\ attempt[s] < MaxAttempts
  /\ IF attempt[s] = 0 THEN UNCHANGED cmd
                       ELSE \E c \in DirectCommands : cmd' = [cmd EXCEPT ![s] = c]
  /\ attempt' = [attempt EXCEPT ![s] = @ + 1]
  /\ serial' = [serial EXCEPT ![s] = WrappingNext(@)]
  /\ sentAt' = [sentAt EXCEPT ![s] = time]
  /\ up' = [up EXCEPT ![s] =
       Append(@, [of |-> attempt[s] + 1,
                  cells |-> CommandFrame(key, WrappingNext(serial[s]), time, nonce[s],
                                         Words(cmd'[s]))])]
  /\ pc' = [pc EXCEPT ![s] = "await"]
  /\ told' = [told EXCEPT ![s] = Nothing]
  /\ UNCHANGED <<limiterVars, worldVars, time, nonce, down, done, torn>>

(* The expected type of the reply in hand. *)
ExpectedType(s) == IF pc[s] = "auth" THEN <<"null">> ELSE Words(cmd[s])

Accepts(s, r) ==
  /\ r.is = "message"
  /\ Verified(key, r.v, r.input, serial[s], sentAt[s], nonce[s], ExpectedType(s))

(* The result of a command: its text, an error when the code is not 0 or   *)
(* the text reads like one.                                                *)
Result(data) ==
  LET text == ResponseText(data)
  IN Response(IF MapString(data, "result") = <<"0">> THEN text
              ELSE <<<<"rndc: ", text>>>>)

Outcome(s, data) ==
  IF s \in Users THEN [is |-> "text", text |-> Result(data).text]
  ELSE [is |-> IF Result(data).ok THEN "ok" ELSE "error", text |-> Result(data).text]

ReadAuth(s) ==
  /\ pc[s] = "auth" /\ Arrived(down[s])
  /\ LET r == ReadMessage(down[s])
         data == GetMap(r.v, "_data")
     IN IF Accepts(s, r) /\ MapString(data, "result") = <<"0">>
        THEN /\ nonce' = [nonce EXCEPT ![s] = MapString(GetMap(r.v, "_ctrl"), "_nonce")[1]]
             /\ pc' = [pc EXCEPT ![s] = "ready"]
             /\ UNCHANGED <<limiterVars, told>>
        ELSE End(s, Failed("refused")) /\ UNCHANGED nonce
  /\ down' = [down EXCEPT ![s] = SubSeq(@, FrameEnd(@) + 1, Len(@))]
  /\ UNCHANGED <<worldVars, time, cmd, attempt, serial, sentAt, up, done, torn>>

(* Callers with one command close the connection before they return.       *)
ReadReply(s) ==
  /\ pc[s] = "await" /\ Arrived(down[s])
  /\ LET r == ReadMessage(down[s])
     IN IF Accepts(s, r)
        THEN /\ pc' = [pc EXCEPT ![s] = IF s \in Directs THEN "ready" ELSE "close"]
             /\ told' = [told EXCEPT ![s] = Outcome(s, GetMap(r.v, "_data"))]
             /\ UNCHANGED limiterVars
        ELSE Settle(s, Failed("refused"))
  /\ down' = [down EXCEPT ![s] = SubSeq(@, FrameEnd(@) + 1, Len(@))]
  /\ UNCHANGED <<worldVars, time, cmd, attempt, sessionVars, up, done, torn>>

Close(s) ==
  /\ pc[s] = "close" \/ (s \in Directs /\ pc[s] = "ready")
  /\ \/ End(s, told[s])
     \/ End(s, Failed("connection"))
  /\ UNCHANGED <<worldVars, time, cmd, attempt, sessionVars, wireVars, done, torn>>

(* The timeout around a whole Bind9Client call. *)
Timeout(s) ==
  /\ s \in Clients /\ pc[s] \notin {"idle", "done"}
  /\ End(s, Failed("timeout"))
  /\ UNCHANGED <<worldVars, time, cmd, attempt, sessionVars, wireVars, done, torn>>

(* A direct caller drops the future of a command.  read_exact may have     *)
(* taken a part of the reply, its length first.                            *)
Drop(s) ==
  /\ s \in Directs /\ pc[s] = "await"
  /\ \E n \in 0..Len(down[s]) :
       /\ Arrived(down[s]) => n < FrameEnd(down[s])
       /\ down' = [down EXCEPT ![s] = SubSeq(@, n + 1, Len(@))]
  /\ pc' = [pc EXCEPT ![s] = "ready"]
  /\ told' = [told EXCEPT ![s] = Failed("dropped")]
  /\ torn' = [torn EXCEPT ![s] = TRUE]
  /\ UNCHANGED <<limiterVars, worldVars, time, cmd, attempt, sessionVars, up, done>>

(* A user of the limiter drops its call, in the queue or with a slot.      *)
DropCall(s) ==
  /\ s \in Users /\ pc[s] \notin {"idle", "done"}
  /\ \/ /\ pc[s] = "acquire" /\ Leave(s)
        /\ pc' = [pc EXCEPT ![s] = "done"]
        /\ told' = [told EXCEPT ![s] = Failed("dropped")]
     \/ pc[s] # "acquire" /\ End(s, Failed("dropped"))
  /\ UNCHANGED <<worldVars, time, cmd, attempt, sessionVars, wireVars, done, torn>>

Broken(s) ==
  /\ pc[s] \in {"auth", "await"} /\ ~Arrived(down[s])
  /\ End(s, Failed("connection"))
  /\ UNCHANGED <<worldVars, time, cmd, attempt, sessionVars, wireVars, done, torn>>
-----------------------------------------------------------------------------
(* named: reads a request, checks it, executes it, and answers with tables *)
(* in an order of its own.                                                 *)

Plain(k, v) == Entry(k, TypeBinary, <<Utf8(v)>>)
Ours == [algorithm |-> key.algorithm, secret |-> Secret]

PeerFrame(n, now, non, fields) ==
  LET ctrl == Entry("_ctrl", TypeTable,
                Plain("_ser", n) \o Plain("_tim", now) \o Plain("_exp", now + Window)
                \o Plain("_rpl", "1") \o Plain("_nonce", non))
      body == ctrl \o Entry("_data", TypeTable, fields)
      auth == Entry("_auth", TypeTable, Entry("hsha", TypeBinary, <<Raw(Hsha(Ours, body))>>))
      payload == <<Num(1)>> \o auth \o body
  IN <<Num(Len(payload))>> \o payload

(* The nonce of a connection: one that no other connection has. *)
PeerNonce(s) == s
StatusLines == <<<<"version:", Version>>, <<"number of zones:", "2">>,
                 <<"server is up and running", "">>>>

(* The text names the execution it is about. *)
PeerText(u, n) == <<<<"execution", n>>>> \o (IF u.verb = "status" THEN StatusLines ELSE <<>>)

Serve(s) ==
  /\ up[s] # <<>>
  /\ LET m == Decode(Tail(Head(up[s]).cells)).v
         ctrl == GetMap(m, "_ctrl")
         words == MapString(GetMap(m, "_data"), "type")[1]
         now == time + skew
         n == Len(done[s]) + 1
         u == Understand(words)
         reply(fields) == down' = [down EXCEPT ![s] =
           @ \o PeerFrame(MapString(ctrl, "_ser")[1], now, PeerNonce(s),
                          Plain("type", words) \o fields)]
     IN /\ GetMap(m, "_auth")["hsha"].v.secret = Secret
        /\ MapString(ctrl, "_exp")[1] >= now
        /\ IF words = <<"null">> THEN reply(Plain("result", "0")) /\ UNCHANGED done
           ELSE /\ MapString(ctrl, "_nonce") = <<PeerNonce(s)>>
                /\ \/ /\ u # Refused
                      /\ done' = [done EXCEPT ![s] =
                           Append(@, [of |-> Head(up[s]).of, what |-> u, ok |-> TRUE])]
                      /\ reply(Plain("result", "0") \o Plain("text", PeerText(u, n)))
                   \/ /\ done' = [done EXCEPT ![s] =
                           Append(@, [of |-> Head(up[s]).of, what |-> u, ok |-> FALSE])]
                      /\ \E f \in {"err", "text"}, why \in {"not found", "zone not loaded"} :
                           reply(Plain("result", "7") \o Plain(f, <<<<why, n>>>>))
  /\ up' = [up EXCEPT ![s] = Tail(@)]
  /\ UNCHANGED <<limiterVars, worldVars, time, pc, cmd, attempt, sessionVars, told, torn>>

Tick ==
  /\ time < MaxTime /\ time' = time + 1
  /\ UNCHANGED <<limiterVars, worldVars, pc, cmd, attempt, sessionVars, wireVars, told, done, torn>>

Caller(s) ==
  \/ Call(s) \/ Admit(s) \/ ConnectFails(s) \/ Handshake(s) \/ Command(s) \/ ReadAuth(s)
  \/ ReadReply(s) \/ Close(s) \/ Timeout(s) \/ Drop(s) \/ DropCall(s) \/ Broken(s)

Next == Tick \/ \E s \in Callers : Caller(s) \/ Serve(s)

Spec == Init /\ [][Next]_vars
-----------------------------------------------------------------------------
(* Properties.                                                             *)

(* The execution a reply is about, by the text named gave it. *)
ExecutionIn(text) == IF text[1][1] = "rndc: " THEN text[1][2][1][2] ELSE text[1][2]

(* What a caller is told of a command is what named did with it: with this *)
(* command, and not one of another session, an earlier one whose reply was *)
(* left on the stream, or one that was read out of step; in the zone,      *)
(* class and view it was meant for; a success if and only if named said    *)
(* so.  A user of the limiter gets a text, which tells a failure from a    *)
(* success.  A status is the one named reported.                           *)
ToldIsDone ==
  \A s \in Callers : told[s].is \in {"ok", "error", "text"} =>
    LET n == ExecutionIn(told[s].text)
        success == IF told[s].is = "text" THEN Response(told[s].text).ok ELSE told[s].is = "ok"
    IN /\ n \in DOMAIN done[s] /\ done[s][n].of = attempt[s]
       /\ done[s][n].ok = success
       /\ done[s][n].what = Understand(Words(cmd[s]))
       /\ success /\ cmd[s].kind # "Raw" => done[s][n].what.scope = Scope(cmd[s])
       /\ success /\ cmd[s].kind = "Status" =>
            ParseServerStatus(told[s].text) = [version |-> Version, zones |-> "2", up |-> TRUE]

(* A reply of named is refused for a reason: the caller dropped a command  *)
(* of this connection before, named's clock is behind the client's, or the *)
(* reply was made later than the window allows.                            *)
HonestReplyAccepted ==
  \A s \in Callers : told[s].is = "refused" =>
    torn[s] \/ skew < 0 \/ time + skew > sentAt[s] + Window

(* What named makes of each command. *)
Readings == {<<c, Understand(Words(c))>> : c \in Commands}

Unambiguous ==
  /\ \A r \in Readings : r[2] # Refused /\ r[2].scope = Scope(r[1])
  /\ \A q, r \in Readings : q[2] = r[2] => Normal(q[1]) = Normal(r[1])

(* named understands every command a caller can send, in the zone, class   *)
(* and view it was meant for, and takes none for another one: positions    *)
(* and option names are all it has to go by.                               *)
CommandsUnderstood ==
  /\ (\A s \in Callers : cmd[s] = NoCommand) =>
       /\ Unambiguous
       /\ \A z \in Names : /\ NodeCommands(z) \subseteq Commands
                            /\ CliZoneCommands(z) \cup CliDnssecCommands(z)
                                 \subseteq ClientCommands(z, None)
  /\ \A s \in Clients \cup Directs : cmd[s] # NoCommand => cmd[s] \in Commands
=============================================================================
