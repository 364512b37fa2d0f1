------------------------------ MODULE RndcPool ------------------------------
(***************************************************************************)
(* The persistent rndc connection pool of bind9-sdk-net (pool.rs) with the *)
(* part of the rndc session it drives (rndc/mod.rs, command_shared).       *)
(*                                                                         *)
(* A call is one future returned by RndcPool::execute.  A call takes the   *)
(* index of an available worker out of a bounded channel, hands its        *)
(* command to that worker over a channel of capacity one and waits on a    *)
(* oneshot channel.  A worker owns at most one connection, writes the      *)
(* command, reads one reply, retries once on a new connection, puts its    *)
(* index back and only then answers the call.  Every await point of the    *)
(* code is a state in which other tasks run; the steps between two awaits  *)
(* that touch shared atomics or channels are separate actions because the  *)
(* runtime is multi-threaded.                                              *)
(*                                                                         *)
(* named is the environment: it answers the requests of a connection in    *)
(* order, at any speed; a connection breaks at any time; a request that    *)
(* was written may still be executed after its connection is abandoned.    *)
(***************************************************************************)
EXTENDS Naturals, Sequences, FiniteSets

CONSTANTS
  Calls,         \* the execute() futures; each is polled at most once to its end
  Workers,       \* the worker indices, size of the pool
  None,          \* no call, no worker, no message
  Error,         \* the NetError outcome
  CountMod,      \* the atomic counter is a usize: arithmetic modulo CountMod
  SerialMod,     \* a session serial is a u32: arithmetic modulo SerialMod
  CancelPoints,  \* the awaits of execute() at which a caller may drop the future
  Stoppable      \* workers whose task may end early (their runtime shuts down)

ASSUME PoolAssumption ==
  /\ IsFiniteSet(Calls) /\ IsFiniteSet(Workers) /\ Workers # {}
  /\ None \notin Calls \cup Workers /\ Error \notin Calls /\ Error # None
  /\ CountMod \in Nat /\ Cardinality(Workers) < CountMod
  /\ SerialMod \in Nat /\ SerialMod > 1
  /\ CancelPoints \subseteq {"waiting", "sending", "release", "sent"}
  /\ Stoppable \subseteq Workers

VARIABLES
  dropped,   \* the last clone of the pool is gone (PoolInner dropped)
  cpc,       \* where each call is in execute()
  held,      \* the worker index a call took from the available channel
  waiters,   \* calls queued on the mutex of available_rx; the head holds it
  queue,     \* the available channel: indices of free workers
  count,     \* available_count
  inbox,     \* per worker, its job channel of capacity one
  reply,     \* per call, its oneshot response channel
  wpc,       \* where each worker task is
  cur,       \* the call whose command a worker executes
  attempt,   \* the loop variable of execute_with_reconnect
  outcome,   \* the result execute_with_reconnect returned
  conn,      \* "none", "up", or "down" (open here, broken underneath)
  serial,    \* serial of the session on the connection
  wire,      \* requests written on the connection whose reply was not read
  executed,  \* how often named executed the command of each call
  orphan,    \* copies of a command written on abandoned connections
  created,   \* connections_created
  lost       \* indices nobody will put back (history variable)

callVars  == <<cpc, held, waiters, reply>>
tokenVars == <<queue, count, lost>>
connVars  == <<conn, serial, wire, created>>
workVars  == <<wpc, cur, attempt, outcome>>
serverVars == <<executed, orphan>>
vars == <<dropped, callVars, tokenVars, inbox, workVars, connVars, serverVars>>

CallPCs   == {"idle", "waiting", "taken", "sending", "sent",
              "release", "released", "done", "cancelled"}
WorkerPCs == {"recv", "exec", "await", "finish", "count", "stopped"}
Live(c)   == cpc[c] \notin {"idle", "done", "cancelled"}
Request   == [call : Calls, serial : 0..(SerialMod - 1), done : BOOLEAN]

TypeOK ==
  /\ dropped \in BOOLEAN
  /\ cpc \in [Calls -> CallPCs]
  /\ held \in [Calls -> Workers \cup {None}]
  /\ waiters \in Seq(Calls)
  /\ queue \in Seq(Workers)
  /\ count \in 0..(CountMod - 1)
  /\ inbox \in [Workers -> Calls \cup {None}]
  /\ reply \in [Calls -> Calls \cup {None, Error}]
  /\ wpc \in [Workers -> WorkerPCs]
  /\ cur \in [Workers -> Calls \cup {None}]
  /\ attempt \in [Workers -> 0..1]
  /\ outcome \in [Workers -> Calls \cup {None, Error}]
  /\ conn \in [Workers -> {"none", "up", "down"}]
  /\ serial \in [Workers -> 0..(SerialMod - 1)]
  /\ wire \in [Workers -> Seq(Request)]
  /\ executed \in [Calls -> Nat]
  /\ orphan \in [Calls -> Nat]
  /\ created \in Nat
  /\ lost \subseteq Workers

(* Variants named Bug_... stand for plausible slips in the code that the   *)
(* definition after them models; no specification uses them.               *)

(* arithmetic that does not wrap *)
Bug_WrapInc(x, m) == x + 1
WrapInc(x, m) == IF x = m - 1 THEN 0 ELSE x + 1
WrapDec(x, m) == IF x = 0 THEN m - 1 ELSE x - 1

(* RndcPool::new queues every index, in order, and spawns every worker *)
Init ==
  /\ dropped = FALSE
  /\ cpc = [c \in Calls |-> "idle"]
  /\ held = [c \in Calls |-> None]
  /\ waiters = <<>>
  /\ queue \in {q \in [1..Cardinality(Workers) -> Workers] :
                  \A i, j \in DOMAIN q : q[i] = q[j] => i = j}
  /\ count = Cardinality(Workers)
  /\ inbox = [w \in Workers |-> None]
  /\ reply = [c \in Calls |-> None]
  /\ wpc = [w \in Workers |-> "recv"]
  /\ cur = [w \in Workers |-> None]
  /\ attempt = [w \in Workers |-> 0]
  /\ outcome = [w \in Workers |-> None]
  /\ conn = [w \in Workers |-> "none"]
  /\ serial = [w \in Workers |-> 0]
  /\ wire = [w \in Workers |-> <<>>]
  /\ executed = [c \in Calls |-> 0]
  /\ orphan = [c \in Calls |-> 0]
  /\ created = 0
  /\ lost = {}

-----------------------------------------------------------------------------
(* The caller: RndcPool::execute.                                          *)

(* Queue on the mutex around the receiver (a tokio mutex is fair). *)
Start(c) ==
  /\ ~dropped /\ cpc[c] = "idle"
  /\ cpc' = [cpc EXCEPT ![c] = "waiting"]
  /\ waiters' = Append(waiters, c)
  /\ UNCHANGED <<dropped, held, reply, tokenVars, inbox, workVars, connVars, serverVars>>

(* The mutex holder receives an index and drops the guard. *)
Take(c) ==
  /\ cpc[c] = "waiting" /\ waiters # <<>> /\ Head(waiters) = c /\ queue # <<>>
  /\ cpc' = [cpc EXCEPT ![c] = "taken"]
  /\ held' = [held EXCEPT ![c] = Head(queue)]
  /\ waiters' = Tail(waiters)
  /\ queue' = Tail(queue)
  /\ UNCHANGED <<dropped, reply, count, lost, inbox, workVars, connVars, serverVars>>

(* available_count.fetch_sub, without an await since the receive *)
CountDown(c) ==
  /\ cpc[c] = "taken"
  /\ cpc' = [cpc EXCEPT ![c] = "sending"]
  /\ count' = WrapDec(count, CountMod)
  /\ UNCHANGED <<dropped, held, waiters, reply, queue, lost, inbox, workVars, connVars, serverVars>>

(* The index is put back as soon as the job is handed over. *)
Bug_Send(c) ==
  /\ cpc[c] = "sending" /\ wpc[held[c]] # "stopped" /\ inbox[held[c]] = None
  /\ cpc' = [cpc EXCEPT ![c] = "sent"]
  /\ inbox' = [inbox EXCEPT ![held[c]] = c]
  /\ queue' = Append(queue, held[c])
  /\ UNCHANGED <<dropped, held, waiters, reply, count, lost, workVars, connVars, serverVars>>

(* workers[index].send(job): there is room and the worker still receives *)
Send(c) ==
  /\ cpc[c] = "sending" /\ wpc[held[c]] # "stopped" /\ inbox[held[c]] = None
  /\ cpc' = [cpc EXCEPT ![c] = "sent"]
  /\ inbox' = [inbox EXCEPT ![held[c]] = c]
  /\ UNCHANGED <<dropped, held, waiters, reply, tokenVars, workVars, connVars, serverVars>>

(* The send fails because the worker task has ended. *)
SendRefused(c) ==
  /\ cpc[c] = "sending" /\ wpc[held[c]] = "stopped"
  /\ cpc' = [cpc EXCEPT ![c] = "release"]
  /\ UNCHANGED <<dropped, held, waiters, reply, tokenVars, inbox, workVars, connVars, serverVars>>

(* release_worker: the index goes back, then the counter follows. *)
ReleaseIndex(c) ==
  /\ cpc[c] = "release"
  /\ cpc' = [cpc EXCEPT ![c] = "released"]
  /\ queue' = Append(queue, held[c])
  /\ UNCHANGED <<dropped, held, waiters, reply, count, lost, inbox, workVars, connVars, serverVars>>

(* release_worker without its fetch_add *)
Bug_ReleaseCount(c) ==
  /\ cpc[c] = "released"
  /\ cpc' = [cpc EXCEPT ![c] = "done"]
  /\ reply' = [reply EXCEPT ![c] = Error]
  /\ UNCHANGED <<dropped, held, waiters, tokenVars, inbox, workVars, connVars, serverVars>>

ReleaseCount(c) ==
  /\ cpc[c] = "released"
  /\ cpc' = [cpc EXCEPT ![c] = "done"]
  /\ reply' = [reply EXCEPT ![c] = Error]
  /\ count' = WrapInc(count, CountMod)
  /\ UNCHANGED <<dropped, held, waiters, queue, lost, inbox, workVars, connVars, serverVars>>

(* The oneshot has a value, or its sender was dropped (an Error). *)
Receive(c) ==
  /\ cpc[c] = "sent" /\ reply[c] # None
  /\ cpc' = [cpc EXCEPT ![c] = "done"]
  /\ UNCHANGED <<dropped, held, waiters, reply, tokenVars, inbox, workVars, connVars, serverVars>>

RemoveAt(s, i) == [j \in 1..(Len(s) - 1) |-> IF j < i THEN s[j] ELSE s[j + 1]]

(* The caller drops the future at an await.  Nothing in execute() restores *)
(* an index that was received but not yet handed to its worker.            *)
Cancel(c) ==
  /\ cpc[c] \in CancelPoints
  /\ cpc' = [cpc EXCEPT ![c] = "cancelled"]
  /\ \/ /\ cpc[c] = "waiting"
        /\ \E i \in DOMAIN waiters : waiters[i] = c /\ waiters' = RemoveAt(waiters, i)
        /\ UNCHANGED lost
     \/ /\ cpc[c] \in {"sending", "release"}
        /\ lost' = lost \cup {held[c]}
        /\ UNCHANGED waiters
     \/ /\ cpc[c] = "sent"
        /\ UNCHANGED <<waiters, lost>>
  /\ UNCHANGED <<dropped, held, reply, queue, count, inbox, workVars, connVars, serverVars>>

(* The last clone of the pool is dropped; a live call borrows a clone. *)
DropPool ==
  /\ ~dropped /\ \A c \in Calls : ~Live(c)
  /\ dropped' = TRUE
  /\ UNCHANGED <<callVars, tokenVars, inbox, workVars, connVars, serverVars>>

-----------------------------------------------------------------------------
(* The worker: pool_worker and execute_with_reconnect.                     *)

(* execute_with_reconnect is running, or its result is in hand *)
Busy(w) == wpc[w] \in {"exec", "await", "finish"}

Unserved(s, c) == Cardinality({i \in DOMAIN s : s[i].call = c /\ ~s[i].done})

(* The connection value is dropped: what it still carries may yet be run. *)
Discard(w, rest) ==
  /\ conn' = [conn EXCEPT ![w] = "none"]
  /\ serial' = [serial EXCEPT ![w] = 0]
  /\ wire' = [wire EXCEPT ![w] = <<>>]
  /\ orphan' = [c \in Calls |-> orphan[c] + Unserved(rest, c)]
  /\ UNCHANGED created

RecvJob(w) ==
  /\ wpc[w] = "recv" /\ inbox[w] # None
  /\ wpc' = [wpc EXCEPT ![w] = "exec"]
  /\ cur' = [cur EXCEPT ![w] = inbox[w]]
  /\ inbox' = [inbox EXCEPT ![w] = None]
  /\ attempt' = [attempt EXCEPT ![w] = 0]
  /\ UNCHANGED <<dropped, callVars, tokenVars, outcome, connVars, serverVars>>

(* The idle timer only runs for a connection that is known to be clean. *)
Bug_IdleClose(w) ==
  /\ wpc[w] = "recv" /\ inbox[w] = None /\ conn[w] # "none" /\ wire[w] = <<>>
  /\ Discard(w, wire[w])
  /\ UNCHANGED <<dropped, callVars, tokenVars, inbox, workVars, executed>>

(* The idle timeout elapses with no job queued: close and receive again. *)
IdleClose(w) ==
  /\ wpc[w] = "recv" /\ inbox[w] = None /\ conn[w] # "none"
  /\ Discard(w, wire[w])
  /\ UNCHANGED <<dropped, callVars, tokenVars, inbox, workVars, executed>>

(* The return is nested in the "connection is some" branch. *)
Bug_Shutdown(w) ==
  /\ wpc[w] = "recv" /\ inbox[w] = None /\ dropped /\ conn[w] # "none"
  /\ wpc' = [wpc EXCEPT ![w] = "stopped"]
  /\ Discard(w, wire[w])
  /\ UNCHANGED <<dropped, callVars, tokenVars, inbox, cur, attempt, outcome, executed>>

(* The job channel is closed and empty: close the connection and return. *)
Shutdown(w) ==
  /\ wpc[w] = "recv" /\ inbox[w] = None /\ dropped
  /\ wpc' = [wpc EXCEPT ![w] = "stopped"]
  /\ Discard(w, wire[w])
  /\ UNCHANGED <<dropped, callVars, tokenVars, inbox, cur, attempt, outcome, executed>>

(* connect_authenticated: a fresh TCP connection and a fresh session *)
Connect(w) ==
  /\ wpc[w] = "exec" /\ conn[w] = "none"
  /\ conn' = [conn EXCEPT ![w] = "up"]
  /\ created' = created + 1
  /\ UNCHANGED <<dropped, callVars, tokenVars, inbox, workVars, serial, wire, serverVars>>

(* Its error leaves execute_with_reconnect at once, on either attempt. *)
ConnectFails(w) ==
  /\ wpc[w] = "exec" /\ conn[w] = "none"
  /\ wpc' = [wpc EXCEPT ![w] = "finish"]
  /\ outcome' = [outcome EXCEPT ![w] = Error]
  /\ UNCHANGED <<dropped, callVars, tokenVars, inbox, cur, attempt, connVars, serverVars>>

(* command_shared: the serial advances first; the frame may not get out *)
Write(w) ==
  /\ wpc[w] = "exec" /\ conn[w] # "none"
  /\ wpc' = [wpc EXCEPT ![w] = "await"]
  /\ LET s == WrapInc(serial[w], SerialMod)
         request == [call |-> cur[w], serial |-> s, done |-> FALSE]
     IN /\ serial' = [serial EXCEPT ![w] = s]
        /\ \/ conn[w] = "up" /\ wire' = [wire EXCEPT ![w] = Append(@, request)]
           \/ UNCHANGED wire
  /\ UNCHANGED <<dropped, callVars, tokenVars, inbox, cur, attempt, outcome, conn, created, serverVars>>

(* The connection is not taken before the retry. *)
Bug_KeepConnection(w, rest) ==
  \/ /\ attempt[w] = 0
     /\ attempt' = [attempt EXCEPT ![w] = 1]
     /\ wpc' = [wpc EXCEPT ![w] = "exec"]
     /\ wire' = [wire EXCEPT ![w] = rest]
     /\ UNCHANGED <<outcome, conn, serial, created, orphan>>
  \/ /\ attempt[w] = 1
     /\ outcome' = [outcome EXCEPT ![w] = Error]
     /\ wpc' = [wpc EXCEPT ![w] = "finish"]
     /\ wire' = [wire EXCEPT ![w] = rest]
     /\ UNCHANGED <<attempt, conn, serial, created, orphan>>

(* The first failure discards the connection and retries; the second one *)
(* is returned and the connection stays with the worker.                 *)
ExchangeFails(w, rest) ==
  \/ /\ attempt[w] = 0
     /\ attempt' = [attempt EXCEPT ![w] = 1]
     /\ wpc' = [wpc EXCEPT ![w] = "exec"]
     /\ Discard(w, rest)
     /\ UNCHANGED outcome
  \/ /\ attempt[w] = 1
     /\ outcome' = [outcome EXCEPT ![w] = Error]
     /\ wpc' = [wpc EXCEPT ![w] = "finish"]
     /\ wire' = [wire EXCEPT ![w] = rest]
     /\ UNCHANGED <<attempt, conn, serial, created, orphan>>

(* The reply is authenticated but not tied to its request. *)
Bug_Verified(w, message) == TRUE

(* verify_authenticated_response: serial, nonce and time tie a reply to    *)
(* its request; within one session the serial is what tells them apart     *)
Verified(w, message) == message.serial = serial[w]

(* One reply frame is read; it answers the oldest request on the wire. *)
ReadReply(w) ==
  /\ wpc[w] = "await" /\ wire[w] # <<>> /\ Head(wire[w]).done
  /\ \/ /\ Verified(w, Head(wire[w]))
        /\ outcome' = [outcome EXCEPT ![w] = Head(wire[w]).call]
        /\ wpc' = [wpc EXCEPT ![w] = "finish"]
        /\ wire' = [wire EXCEPT ![w] = Tail(@)]
        /\ UNCHANGED <<attempt, conn, serial, created, orphan>>
     \/ /\ ~Verified(w, Head(wire[w]))
        /\ ExchangeFails(w, Tail(wire[w]))
  /\ UNCHANGED <<dropped, callVars, tokenVars, inbox, cur, executed>>

(* No operation timeout: only the end of the stream ends the wait. *)
Bug_Interrupt(w) ==
  /\ wpc[w] = "await" /\ conn[w] = "down"
  /\ ExchangeFails(w, wire[w])
  /\ UNCHANGED <<dropped, callVars, tokenVars, inbox, cur, executed>>

(* operation_timeout elapses, or the stream reports an error or its end *)
Interrupt(w) ==
  /\ wpc[w] = "await"
  /\ ExchangeFails(w, wire[w])
  /\ UNCHANGED <<dropped, callVars, tokenVars, inbox, cur, executed>>

(* A failed command returns early and its index is not put back. *)
Bug_Return(w) ==
  /\ wpc[w] = "finish" /\ ~dropped
  /\ wpc' = [wpc EXCEPT ![w] = "count"]
  /\ queue' = IF outcome[w] = Error THEN queue ELSE Append(queue, w)
  /\ UNCHANGED <<dropped, callVars, count, lost, inbox, cur, attempt, outcome, connVars, serverVars>>

(* available_tx.send(index) *)
Return(w) ==
  /\ wpc[w] = "finish" /\ ~dropped
  /\ wpc' = [wpc EXCEPT ![w] = "count"]
  /\ queue' = Append(queue, w)
  /\ UNCHANGED <<dropped, callVars, count, lost, inbox, cur, attempt, outcome, connVars, serverVars>>

(* The availability queue is closed: the worker answers an error, ends. *)
ReturnRefused(w) ==
  /\ wpc[w] = "finish" /\ dropped
  /\ wpc' = [wpc EXCEPT ![w] = "stopped"]
  /\ reply' = [reply EXCEPT ![cur[w]] = Error]
  /\ lost' = lost \cup {w}
  /\ Discard(w, wire[w])
  /\ UNCHANGED <<dropped, cpc, held, waiters, queue, count, inbox, cur, attempt, outcome, executed>>

(* available_count.fetch_add and the oneshot send *)
Reply(w) ==
  /\ wpc[w] = "count"
  /\ wpc' = [wpc EXCEPT ![w] = "recv"]
  /\ count' = WrapInc(count, CountMod)
  /\ reply' = [reply EXCEPT ![cur[w]] = outcome[w]]
  /\ cur' = [cur EXCEPT ![w] = None]
  /\ outcome' = [outcome EXCEPT ![w] = None]
  /\ attempt' = [attempt EXCEPT ![w] = 0]
  /\ UNCHANGED <<dropped, cpc, held, waiters, queue, lost, inbox, connVars, serverVars>>

(* The task ends at an await: its channels and its connection go with it. *)
Stop(w) ==
  /\ w \in Stoppable /\ wpc[w] \notin {"count", "stopped"}
  /\ wpc' = [wpc EXCEPT ![w] = "stopped"]
  /\ inbox' = [inbox EXCEPT ![w] = None]
  /\ LET failed == {c \in Calls : c = inbox[w] \/ (Busy(w) /\ c = cur[w])}
     IN /\ reply' = [c \in Calls |-> IF c \in failed THEN Error ELSE reply[c]]
        /\ lost' = IF failed = {} THEN lost ELSE lost \cup {w}
  /\ Discard(w, wire[w])
  /\ UNCHANGED <<dropped, cpc, held, waiters, queue, count, cur, attempt, outcome, executed>>

-----------------------------------------------------------------------------
(* named and the network.                                                  *)

(* named executes the oldest unanswered request and sends its reply. *)
Serve(w) ==
  /\ conn[w] = "up"
  /\ \E i \in DOMAIN wire[w] :
       /\ ~wire[w][i].done /\ \A j \in 1..(i - 1) : wire[w][j].done
       /\ wire' = [wire EXCEPT ![w][i].done = TRUE]
       /\ executed' = [executed EXCEPT ![wire[w][i].call] = @ + 1]
  /\ UNCHANGED <<dropped, callVars, tokenVars, inbox, workVars, conn, serial, created, orphan>>

(* The connection breaks: replies already received may survive it. *)
Break(w) ==
  /\ conn[w] = "up"
  /\ conn' = [conn EXCEPT ![w] = "down"]
  /\ \E k \in 0..Len(wire[w]) :
       /\ \A i \in 1..k : wire[w][i].done
       /\ wire' = [wire EXCEPT ![w] = SubSeq(@, 1, k)]
  /\ orphan' = [c \in Calls |-> orphan[c] + Unserved(wire[w], c)]
  /\ UNCHANGED <<dropped, callVars, tokenVars, inbox, workVars, serial, created, executed>>

(* named reads a request of an abandoned connection and executes it. *)
ServeOrphan(c) ==
  /\ orphan[c] > 0
  /\ orphan' = [orphan EXCEPT ![c] = @ - 1]
  /\ executed' = [executed EXCEPT ![c] = @ + 1]
  /\ UNCHANGED <<dropped, callVars, tokenVars, inbox, workVars, connVars>>

-----------------------------------------------------------------------------
CallStep(c) == Take(c) \/ CountDown(c) \/ Send(c) \/ SendRefused(c)
               \/ ReleaseIndex(c) \/ ReleaseCount(c) \/ Receive(c)

WorkerStep(w) == RecvJob(w) \/ IdleClose(w) \/ Shutdown(w) \/ Connect(w)
                 \/ ConnectFails(w) \/ Write(w) \/ ReadReply(w) \/ Interrupt(w)
                 \/ Return(w) \/ ReturnRefused(w) \/ Reply(w)

Environment == \/ \E w \in Workers : Serve(w) \/ Break(w) \/ Stop(w)
               \/ \E c \in Calls : ServeOrphan(c)

(* Everything has ended: the only state in which nothing is left to do. *)
Finished == dropped /\ (\A w \in Workers : wpc[w] = "stopped") /\ UNCHANGED vars

Next == \/ \E c \in Calls : Start(c) \/ CallStep(c) \/ Cancel(c)
        \/ DropPool
        \/ \E w \in Workers : WorkerStep(w)
        \/ Environment
        \/ Finished

Spec == Init /\ [][Next]_vars

(* The runtime polls every ready task and fires every timer; it owes       *)
(* nothing to callers (Start, Cancel, DropPool) nor to named.              *)
Fairness == /\ \A c \in Calls : WF_vars(CallStep(c))
            /\ \A w \in Workers : WF_vars(WorkerStep(w))

FairSpec == Spec /\ Fairness

-----------------------------------------------------------------------------
(* Safety.                                                                 *)

(* Where the index of a worker can be found. *)
Holders(w) == {c \in Calls : held[c] = w /\ cpc[c] \in {"taken", "sending", "release"}}
Places(w) ==
  {<<"queue", i>> : i \in {j \in DOMAIN queue : queue[j] = w}}
  \cup {<<"call", c>> : c \in Holders(w)}
  \cup (IF inbox[w] # None THEN {<<"inbox", w>>} ELSE {})
  \cup (IF Busy(w) THEN {<<"worker", w>>} ELSE {})
  \cup (IF w \in lost THEN {<<"lost", w>>} ELSE {})

(* Every worker index is in exactly one place: the available channel, a    *)
(* call between receive and send, the worker's job channel, the worker's   *)
(* own hands, or lost for good with its task or with a cancelled call.     *)
(* Nothing is duplicated (two calls on one worker) and nothing leaks       *)
(* silently, whatever calls, retries, cancellations and stops interleave.  *)
TokenConserved == \A w \in Workers : \E p \in Places(w) : Places(w) = {p}

(* The counter lags the channel by exactly the updates still to come: the  *)
(* decrements of calls that received and the increments of workers (and    *)
(* releasing calls) that sent.  So it is exact whenever nobody is between  *)
(* a channel operation and its atomic update.                              *)
CountAccounts ==
  LET owing(S, pcs, q) == Cardinality({x \in S : pcs[x] = q})
  IN (count + owing(Workers, wpc, "count") + owing(Calls, cpc, "released")) % CountMod
     = (Len(queue) + owing(Calls, cpc, "taken")) % CountMod

(* A caller never gets the reply to somebody else's command, even when its *)
(* worker kept a connection on which an earlier reply is still to come.    *)
OwnReply == \A c \in Calls : reply[c] \in {None, Error, c}

(* A connection that is kept after a failure carries at most that one      *)
(* unread exchange: the backlog of a stream never grows past the request   *)
(* in hand and one stale one.                                              *)
BacklogBounded ==
  \A w \in Workers : Len(wire[w]) <= IF wpc[w] = "await" THEN 2 ELSE 1

-----------------------------------------------------------------------------
(* Refinement of CommandService.                                           *)

OwnerOf(w) ==
  IF w \in lost THEN Error
  ELSE IF Holders(w) # {} THEN CHOOSE c \in Calls : c \in Holders(w)
  ELSE IF inbox[w] # None THEN inbox[w]
  ELSE IF Busy(w) THEN cur[w]
  ELSE None

PhaseOf(c) ==
  CASE cpc[c] = "idle" -> "idle"
    [] cpc[c] = "cancelled" -> "abandoned"
    [] cpc[c] = "done" -> IF reply[c] = Error THEN "failed" ELSE "ok"
    [] OTHER -> "open"

Service == INSTANCE CommandService
  WITH Free <- None, Gone <- Error,
       phase <- [c \in Calls |-> PhaseOf(c)],
       owner <- [w \in Workers |-> OwnerOf(w)],
       handed <- {c \in Calls : held[c] # None},
       runs <- executed

(* Every step of the pool, its workers, its callers and named is a step of *)
(* the service, or invisible to it.                                        *)
RefinesService == Service!Spec

-----------------------------------------------------------------------------
(* Liveness, under FairSpec.                                               *)

(* Every call that is not dropped by its caller returns, with named silent *)
(* or gone: the operation timeout bounds each exchange.  Only when calls   *)
(* that were dropped took every index with them (Cancel) does a call wait  *)
(* for ever.                                                               *)
EveryCallReturns == \A c \in Calls : Live(c) ~> (~Live(c) \/ lost = Workers)

(* The pool recovers from every history of failures and timeouts, and from *)
(* the dropped calls too as far as the code can: in the end every index is *)
(* back in the channel but those that calls dropped between the receive    *)
(* and the send took with them (Cancel), which are gone for good, and      *)
(* available() reports what is in the channel (or the pool is gone).       *)
PoolRecovers ==
  <>[](dropped \/ (Len(queue) + Cardinality(lost) = Cardinality(Workers) /\ count = Len(queue)))

(* Idle connections are closed, the ones kept after a failure included. *)
IdleConnectionsClose == <>[](\A w \in Workers : conn[w] = "none")

(* Dropping the pool ends every worker task, busy ones included. *)
WorkersExit == dropped ~> \A w \in Workers : wpc[w] = "stopped"

-----------------------------------------------------------------------------
(* Statements of the documentation that the code does not keep.            *)

(* pool.rs:147, of available(): "Number of workers currently available to  *)
(* execute a command."                                                     *)
AvailableWithinSize == count <= Cardinality(Workers)
=============================================================================
