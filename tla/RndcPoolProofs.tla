--------------------------- MODULE RndcPoolProofs ---------------------------
(***************************************************************************)
(* Proofs about RndcPool, for any number of calls and workers, any width   *)
(* of the counter and of the session serial, any set of cancellation       *)
(* points and any set of workers whose task may end.                       *)
(***************************************************************************)
EXTENDS RndcPool, FiniteSetTheorems, TLAPS

-----------------------------------------------------------------------------
(* Operators.                                                              *)

(* The number of unserved copies on a wire is a natural number. *)
LEMMA UnservedNat ==
  ASSUME NEW s \in Seq(Request), NEW c
  PROVE  Unserved(s, c) \in Nat
<1> DEFINE D == {i \in DOMAIN s : s[i].call = c /\ ~s[i].done}
<1>1. IsFiniteSet(1..Len(s))
  BY FS_Interval
<1>2. D \subseteq 1..Len(s)
  OBVIOUS
<1>3. IsFiniteSet(D)
  BY <1>1, <1>2, FS_Subset
<1>4. QED
  BY <1>3, FS_CardinalityType DEF Unserved

(* Modular increments stay in range. *)
LEMMA WrapType ==
  ASSUME NEW m \in Nat \ {0}, NEW x \in 0..(m - 1)
  PROVE  /\ WrapInc(x, m) \in 0..(m - 1)
         /\ WrapDec(x, m) \in 0..(m - 1)
BY DEF WrapInc, WrapDec

LEMMA WorkersCardinality == Cardinality(Workers) \in Nat /\ CountMod \in Nat \ {0}
BY PoolAssumption, FS_CardinalityType

(* Removing an element from a sequence leaves a sequence. *)
LEMMA RemoveAtType ==
  ASSUME NEW S, NEW s \in Seq(S), NEW i \in DOMAIN s
  PROVE  RemoveAt(s, i) \in Seq(S)
<1>1. Len(s) - 1 \in Nat
  OBVIOUS
<1>2. \A j \in 1..(Len(s) - 1) : RemoveAt(s, i)[j] \in S
  BY DEF RemoveAt
<1>3. QED
  BY <1>1, <1>2 DEF RemoveAt

-----------------------------------------------------------------------------
(* Type correctness.                                                       *)

(* What a dropped connection leaves behind is well typed. *)
LEMMA DiscardType ==
  ASSUME TypeOK, NEW w \in Workers, NEW rest \in Seq(Request), Discard(w, rest)
  PROVE  /\ conn' \in [Workers -> {"none", "up", "down"}]
         /\ serial' \in [Workers -> 0..(SerialMod - 1)]
         /\ wire' \in [Workers -> Seq(Request)]
         /\ orphan' \in [Calls -> Nat]
         /\ created' \in Nat
<1>1. 0 \in 0..(SerialMod - 1)
  BY PoolAssumption
<1>2. \A c \in Calls : orphan[c] + Unserved(rest, c) \in Nat
  BY UnservedNat DEF TypeOK
<1>3. QED
  BY <1>1, <1>2 DEF Discard, TypeOK

LEMMA ExchangeFailsType ==
  ASSUME TypeOK, NEW w \in Workers, NEW rest \in Seq(Request), ExchangeFails(w, rest)
  PROVE  /\ wpc' \in [Workers -> WorkerPCs]
         /\ attempt' \in [Workers -> 0..1]
         /\ outcome' \in [Workers -> Calls \cup {None, Error}]
         /\ conn' \in [Workers -> {"none", "up", "down"}]
         /\ serial' \in [Workers -> 0..(SerialMod - 1)]
         /\ wire' \in [Workers -> Seq(Request)]
         /\ orphan' \in [Calls -> Nat]
         /\ created' \in Nat
<1>1. CASE /\ attempt' = [attempt EXCEPT ![w] = 1]
           /\ wpc' = [wpc EXCEPT ![w] = "exec"]
           /\ Discard(w, rest)
           /\ UNCHANGED outcome
  <2>1. /\ conn' \in [Workers -> {"none", "up", "down"}]
        /\ serial' \in [Workers -> 0..(SerialMod - 1)]
        /\ wire' \in [Workers -> Seq(Request)]
        /\ orphan' \in [Calls -> Nat]
        /\ created' \in Nat
    BY <1>1, DiscardType
  <2>2. wpc' \in [Workers -> WorkerPCs]
    BY <1>1 DEF TypeOK, WorkerPCs
  <2>3. /\ attempt' \in [Workers -> 0..1]
        /\ outcome' \in [Workers -> Calls \cup {None, Error}]
    BY <1>1 DEF TypeOK
  <2>4. QED
    BY <2>1, <2>2, <2>3
<1>2. CASE /\ outcome' = [outcome EXCEPT ![w] = Error]
           /\ wpc' = [wpc EXCEPT ![w] = "finish"]
           /\ wire' = [wire EXCEPT ![w] = rest]
           /\ UNCHANGED <<attempt, conn, serial, created, orphan>>
  BY <1>2 DEF TypeOK, WorkerPCs
<1>3. QED
  BY <1>1, <1>2 DEF ExchangeFails

(* A call past the receive holds the index of a worker; TypeOK alone is    *)
(* not inductive, since a released index goes back into the channel.       *)
HeldOK == \A c \in Calls :
  cpc[c] \in {"taken", "sending", "sent", "release", "released"} => held[c] \in Workers

LEMMA HeldInit == Init => HeldOK
BY DEF Init, HeldOK

LEMMA HeldNext == TypeOK /\ HeldOK /\ [Next]_vars => HeldOK'
<1> SUFFICES ASSUME TypeOK, HeldOK, [Next]_vars PROVE HeldOK'
  OBVIOUS
<1> USE DEF HeldOK, TypeOK, callVars, tokenVars
<1>1. ASSUME NEW c \in Calls, Start(c) PROVE HeldOK'
  BY <1>1 DEF Start
<1>2. ASSUME NEW c \in Calls, Take(c) PROVE HeldOK'
  BY <1>2 DEF Take
<1>3. ASSUME NEW c \in Calls, CallStep(c), ~Take(c) PROVE HeldOK'
  BY <1>3 DEF CallStep, CountDown, Send, SendRefused, ReleaseIndex, ReleaseCount, Receive
<1>4. ASSUME NEW c \in Calls, Cancel(c) PROVE HeldOK'
  BY <1>4 DEF Cancel
<1>5. ASSUME \/ DropPool \/ UNCHANGED vars
             \/ \E w \in Workers : WorkerStep(w)
             \/ Environment
      PROVE  UNCHANGED <<cpc, held>>
  BY <1>5 DEF vars, DropPool, WorkerStep, Environment, RecvJob, IdleClose, Shutdown, Connect,
     ConnectFails, Write, ReadReply, Interrupt, Return, ReturnRefused, Reply, Serve, Break,
     Stop, ServeOrphan
<1>6. QED
  BY <1>1, <1>2, <1>3, <1>4, <1>5 DEF Next, Finished

(* A worker past its receive executes the command of a call. *)
BusyOK == \A w \in Workers : wpc[w] \in {"exec", "await", "finish", "count"} => cur[w] \in Calls

LEMMA BusyInit == Init => BusyOK
BY DEF Init, BusyOK

LEMMA BusyNext == TypeOK /\ BusyOK /\ [Next]_vars => BusyOK'
<1> SUFFICES ASSUME TypeOK, BusyOK, [Next]_vars PROVE BusyOK'
  OBVIOUS
<1> USE DEF BusyOK, TypeOK, workVars
<1>1. ASSUME NEW w \in Workers, RecvJob(w) PROVE BusyOK'
  BY <1>1 DEF RecvJob
<1>2. ASSUME NEW w \in Workers, Shutdown(w) \/ ConnectFails(w) \/ Write(w) \/ Return(w)
                                \/ ReturnRefused(w) \/ Stop(w)
      PROVE  BusyOK'
  BY <1>2 DEF Shutdown, ConnectFails, Write, Return, ReturnRefused, Stop
<1>3. ASSUME NEW w \in Workers, Reply(w) PROVE BusyOK'
  BY <1>3 DEF Reply
<1>4. ASSUME NEW w \in Workers, ReadReply(w) \/ Interrupt(w) PROVE BusyOK'
  BY <1>4 DEF ReadReply, Interrupt, ExchangeFails
<1>5. ASSUME \/ DropPool \/ UNCHANGED vars
             \/ \E c \in Calls : Start(c) \/ CallStep(c) \/ Cancel(c) \/ ServeOrphan(c)
             \/ \E w \in Workers : IdleClose(w) \/ Connect(w) \/ Serve(w) \/ Break(w)
      PROVE  UNCHANGED <<wpc, cur>>
  BY <1>5 DEF vars, DropPool, Start, CallStep, Take, CountDown, Send, SendRefused,
     ReleaseIndex, ReleaseCount, Receive, Cancel, ServeOrphan, IdleClose, Connect, Serve, Break
<1>6. QED
  BY <1>1, <1>2, <1>3, <1>4, <1>5 DEF Next, Finished, WorkerStep, Environment

LEMMA TypeInit == Init => TypeOK
<1> SUFFICES ASSUME Init PROVE TypeOK
  OBVIOUS
<1>1. queue \in Seq(Workers)
  BY WorkersCardinality DEF Init
<1>2. count \in 0..(CountMod - 1)
  BY WorkersCardinality, PoolAssumption DEF Init
<1>3. 0 \in 0..(SerialMod - 1)
  BY PoolAssumption
<1>4. cpc \in [Calls -> CallPCs] /\ wpc \in [Workers -> WorkerPCs]
  BY DEF Init, CallPCs, WorkerPCs
<1>5. /\ waiters \in Seq(Calls)
      /\ wire \in [Workers -> Seq(Request)]
  BY DEF Init
<1>6. /\ held \in [Calls -> Workers \cup {None}]
      /\ inbox \in [Workers -> Calls \cup {None}]
      /\ reply \in [Calls -> Calls \cup {None, Error}]
      /\ cur \in [Workers -> Calls \cup {None}]
      /\ outcome \in [Workers -> Calls \cup {None, Error}]
  BY DEF Init
<1>7. /\ attempt \in [Workers -> 0..1]
      /\ conn \in [Workers -> {"none", "up", "down"}]
      /\ serial \in [Workers -> 0..(SerialMod - 1)]
      /\ executed \in [Calls -> Nat] /\ orphan \in [Calls -> Nat]
  BY <1>3 DEF Init
<1>8. dropped \in BOOLEAN /\ created \in Nat /\ lost \subseteq Workers
  BY DEF Init
<1>9. QED
  BY <1>1, <1>2, <1>4, <1>5, <1>6, <1>7, <1>8 DEF TypeOK

LEMMA TypeNext == TypeOK /\ HeldOK /\ BusyOK /\ [Next]_vars => TypeOK'
<1> SUFFICES ASSUME TypeOK, HeldOK, BusyOK, [Next]_vars PROVE TypeOK'
  OBVIOUS
<1> USE DEF TypeOK, callVars, tokenVars, connVars, workVars, serverVars
<1>1. ASSUME NEW c \in Calls, Start(c) PROVE TypeOK'
  BY <1>1 DEF Start, CallPCs
<1>2. ASSUME NEW c \in Calls, Take(c) PROVE TypeOK'
  <2>1. Head(queue) \in Workers /\ Tail(queue) \in Seq(Workers)
    <3>1. queue \in Seq(Workers) /\ queue # <<>>
      BY <1>2 DEF Take
    <3>2. QED
      BY <3>1
  <2>2. Tail(waiters) \in Seq(Calls)
    <3>1. waiters \in Seq(Calls) /\ waiters # <<>>
      BY <1>2 DEF Take
    <3>2. QED
      BY <3>1
  <2>3. cpc' \in [Calls -> CallPCs]
    BY <1>2 DEF Take, CallPCs
  <2>4. held' \in [Calls -> Workers \cup {None}]
    BY <1>2, <2>1 DEF Take
  <2>5. queue' \in Seq(Workers) /\ waiters' \in Seq(Calls)
    BY <1>2, <2>1, <2>2 DEF Take
  <2>6. QED
    BY <1>2, <2>3, <2>4, <2>5 DEF Take
<1>3. ASSUME NEW c \in Calls, CountDown(c) PROVE TypeOK'
  BY <1>3, WrapType, WorkersCardinality DEF CountDown, CallPCs
<1>4. ASSUME NEW c \in Calls, Send(c) PROVE TypeOK'
  BY <1>4 DEF Send, CallPCs
<1>5. ASSUME NEW c \in Calls, SendRefused(c) PROVE TypeOK'
  BY <1>5 DEF SendRefused, CallPCs
<1>6. ASSUME NEW c \in Calls, ReleaseIndex(c) PROVE TypeOK'
  BY <1>6 DEF ReleaseIndex, CallPCs, HeldOK
<1>7. ASSUME NEW c \in Calls, ReleaseCount(c) PROVE TypeOK'
  BY <1>7, WrapType, WorkersCardinality DEF ReleaseCount, CallPCs
<1>8. ASSUME NEW c \in Calls, Receive(c) PROVE TypeOK'
  BY <1>8 DEF Receive, CallPCs
<1>9. ASSUME NEW c \in Calls, Cancel(c) PROVE TypeOK'
  <2>1. cpc' \in [Calls -> CallPCs]
    BY <1>9 DEF Cancel, CallPCs
  <2>2. waiters' \in Seq(Calls)
    BY <1>9, RemoveAtType DEF Cancel
  <2>3. lost' \subseteq Workers
    BY <1>9 DEF Cancel, HeldOK
  <2>4. QED
    BY <1>9, <2>1, <2>2, <2>3 DEF Cancel
<1>10. ASSUME DropPool PROVE TypeOK'
  BY <1>10 DEF DropPool
<1>11. ASSUME NEW w \in Workers, RecvJob(w) PROVE TypeOK'
  BY <1>11 DEF RecvJob, WorkerPCs
<1>12. ASSUME NEW w \in Workers, IdleClose(w) PROVE TypeOK'
  BY <1>12, DiscardType DEF IdleClose
<1>13. ASSUME NEW w \in Workers, Shutdown(w) PROVE TypeOK'
  BY <1>13, DiscardType DEF Shutdown, WorkerPCs
<1>14. ASSUME NEW w \in Workers, Connect(w) PROVE TypeOK'
  BY <1>14 DEF Connect
<1>15. ASSUME NEW w \in Workers, ConnectFails(w) PROVE TypeOK'
  BY <1>15 DEF ConnectFails, WorkerPCs
<1>16. ASSUME NEW w \in Workers, Write(w) PROVE TypeOK'
  <2> DEFINE s == WrapInc(serial[w], SerialMod)
             request == [call |-> cur[w], serial |-> s, done |-> FALSE]
  <2>1. s \in 0..(SerialMod - 1)
    <3>1. SerialMod \in Nat \ {0} /\ serial[w] \in 0..(SerialMod - 1)
      BY PoolAssumption
    <3>2. QED
      BY <3>1, WrapType
  <2>2. CASE wire' = [wire EXCEPT ![w] = Append(@, request)]
    <3>0. cur[w] \in Calls
      BY <1>16 DEF BusyOK, Write
    <3>1. request \in Request
      <4> HIDE DEF s
      <4>1. QED
        BY <2>1, <3>0 DEF Request
    <3>2. wire' \in [Workers -> Seq(Request)]
      BY <3>1, <2>2
    <3>3. QED
      BY <1>16, <2>1, <3>2 DEF Write, WorkerPCs
  <2>3. CASE UNCHANGED wire
    BY <1>16, <2>1, <2>3 DEF Write, WorkerPCs
  <2>4. QED
    BY <1>16, <2>2, <2>3 DEF Write
<1>17. ASSUME NEW w \in Workers, ReadReply(w) PROVE TypeOK'
  <2>1. /\ wire[w] \in Seq(Request) /\ wire[w] # <<>>
        /\ Tail(wire[w]) \in Seq(Request) /\ Head(wire[w]) \in Request
    BY <1>17 DEF ReadReply
  <2>2. CASE ExchangeFails(w, Tail(wire[w]))
    BY <1>17, <2>1, <2>2, ExchangeFailsType DEF ReadReply
  <2>3. CASE /\ outcome' = [outcome EXCEPT ![w] = Head(wire[w]).call]
             /\ wpc' = [wpc EXCEPT ![w] = "finish"]
             /\ wire' = [wire EXCEPT ![w] = Tail(@)]
             /\ UNCHANGED <<attempt, conn, serial, created, orphan>>
    <3>1. Head(wire[w]).call \in Calls
      BY <2>1 DEF Request
    <3>2. /\ outcome' \in [Workers -> Calls \cup {None, Error}]
          /\ wire' \in [Workers -> Seq(Request)]
      BY <2>1, <2>3, <3>1
    <3>3. QED
      BY <1>17, <2>3, <3>2 DEF ReadReply, WorkerPCs
  <2>4. QED
    BY <1>17, <2>2, <2>3 DEF ReadReply
<1>18. ASSUME NEW w \in Workers, Interrupt(w) PROVE TypeOK'
  BY <1>18, ExchangeFailsType DEF Interrupt
<1>19. ASSUME NEW w \in Workers, Return(w) PROVE TypeOK'
  BY <1>19 DEF Return, WorkerPCs
<1>20. ASSUME NEW w \in Workers, ReturnRefused(w) PROVE TypeOK'
  BY <1>20, DiscardType DEF ReturnRefused, WorkerPCs
<1>21. ASSUME NEW w \in Workers, Reply(w) PROVE TypeOK'
  <2>1. count' \in 0..(CountMod - 1)
    BY <1>21, WrapType, WorkersCardinality DEF Reply
  <2>2. /\ reply' \in [Calls -> Calls \cup {None, Error}]
        /\ cur' \in [Workers -> Calls \cup {None}]
        /\ outcome' \in [Workers -> Calls \cup {None, Error}]
    BY <1>21 DEF Reply
  <2>3. wpc' \in [Workers -> WorkerPCs] /\ attempt' \in [Workers -> 0..1]
    BY <1>21 DEF Reply, WorkerPCs
  <2>4. QED
    BY <1>21, <2>1, <2>2, <2>3 DEF Reply
<1>22. ASSUME NEW w \in Workers, Stop(w) PROVE TypeOK'
  BY <1>22, DiscardType DEF Stop, WorkerPCs
<1>23. ASSUME NEW w \in Workers, Serve(w) PROVE TypeOK'
  <2>1. PICK i \in DOMAIN wire[w] :
          /\ wire' = [wire EXCEPT ![w][i].done = TRUE]
          /\ executed' = [executed EXCEPT ![wire[w][i].call] = @ + 1]
    BY <1>23 DEF Serve
  <2>2. wire[w] \in Seq(Request) /\ wire[w][i] \in Request
    OBVIOUS
  <2>3. [wire[w][i] EXCEPT !.done = TRUE] \in Request
    BY <2>2 DEF Request
  <2>4. [wire[w] EXCEPT ![i].done = TRUE] \in Seq(Request)
    BY <2>2, <2>3
  <2>5. wire' \in [Workers -> Seq(Request)]
    BY <2>1, <2>4
  <2>6. executed' \in [Calls -> Nat]
    <3>1. wire[w][i].call \in Calls
      BY <2>2 DEF Request
    <3>2. executed[wire[w][i].call] + 1 \in Nat
      BY <3>1
    <3>3. QED
      BY <2>1, <3>1, <3>2
  <2>7. QED
    BY <1>23, <2>5, <2>6 DEF Serve
<1>24. ASSUME NEW w \in Workers, Break(w) PROVE TypeOK'
  <2>1. conn' \in [Workers -> {"none", "up", "down"}]
    BY <1>24 DEF Break
  <2>2. wire' \in [Workers -> Seq(Request)]
    <3>1. PICK k \in 0..Len(wire[w]) : wire' = [wire EXCEPT ![w] = SubSeq(@, 1, k)]
      BY <1>24 DEF Break
    <3>2. wire[w] \in Seq(Request)
      OBVIOUS
    <3>3. SubSeq(wire[w], 1, k) \in Seq(Request)
      BY <3>2
    <3>4. QED
      BY <3>1, <3>3
  <2>3. orphan' \in [Calls -> Nat]
    <3>1. \A c \in Calls : orphan[c] + Unserved(wire[w], c) \in Nat
      BY UnservedNat
    <3>2. QED
      BY <1>24, <3>1 DEF Break
  <2>4. QED
    BY <1>24, <2>1, <2>2, <2>3 DEF Break
<1>25. ASSUME NEW c \in Calls, ServeOrphan(c) PROVE TypeOK'
  BY <1>25 DEF ServeOrphan
<1>26. CASE UNCHANGED vars
  BY <1>26 DEF vars
<1>27. QED
  BY <1>1, <1>2, <1>3, <1>4, <1>5, <1>6, <1>7, <1>8, <1>9, <1>10, <1>11, <1>12, <1>13,
     <1>14, <1>15, <1>16, <1>17, <1>18, <1>19, <1>20, <1>21, <1>22, <1>23, <1>24, <1>25,
     <1>26 DEF Next, CallStep, WorkerStep, Environment, Finished

(* Every variable of the pool stays within its type: the counter and the   *)
(* serials wrap, queues hold worker indices, oneshots hold results.        *)
THEOREM TypeCorrect == Spec => []TypeOK
<1>1. Spec => [](TypeOK /\ HeldOK /\ BusyOK)
  BY TypeInit, HeldInit, BusyInit, TypeNext, HeldNext, BusyNext, PTL DEF Spec
<1>2. QED
  BY <1>1, PTL

-----------------------------------------------------------------------------
(* A reply belongs to the call that gets it.                               *)

(* What a worker's connection may carry.  Outside an exchange it carries   *)
(* at most the one exchange that was given up, under the current serial;   *)
(* in an exchange only the last request bears the current serial, and it   *)
(* is the current call's; the second attempt starts on an empty stream.    *)
Matching(w) == \A i \in DOMAIN wire[w] : wire[w][i].serial = serial[w]

StreamAt(w) ==
  /\ conn[w] = "none" => wire[w] = <<>>
  /\ wpc[w] # "await" => Len(wire[w]) <= 1 /\ Matching(w)
  /\ wpc[w] = "await" =>
       /\ Len(wire[w]) <= 2
       /\ \A i \in DOMAIN wire[w] :
            wire[w][i].serial = serial[w] => i = Len(wire[w]) /\ wire[w][i].call = cur[w]
  /\ wpc[w] = "exec" /\ attempt[w] = 1 => wire[w] = <<>>
  /\ wpc[w] = "await" /\ attempt[w] = 1 => Len(wire[w]) <= 1 /\ Matching(w)

StreamOK == \A w \in Workers : StreamAt(w)

(* What a worker, named or the network does at w touches no other worker.  *)
LEMMA WorkerFrame ==
  ASSUME TypeOK, NEW w \in Workers, WorkerStep(w) \/ Serve(w) \/ Break(w) \/ Stop(w),
         NEW v \in Workers, v # w
  PROVE  /\ wire'[v] = wire[v] /\ conn'[v] = conn[v] /\ serial'[v] = serial[v]
         /\ wpc'[v] = wpc[v] /\ attempt'[v] = attempt[v] /\ cur'[v] = cur[v]
         /\ outcome'[v] = outcome[v] /\ inbox'[v] = inbox[v]
<1> USE DEF TypeOK, callVars, tokenVars, connVars, workVars, serverVars
<1>1. CASE RecvJob(w) \/ Connect(w) \/ ConnectFails(w) \/ Write(w)
  BY <1>1 DEF RecvJob, Connect, ConnectFails, Write
<1>2. CASE IdleClose(w) \/ Shutdown(w) \/ ReturnRefused(w) \/ Stop(w)
  BY <1>2 DEF IdleClose, Shutdown, ReturnRefused, Stop, Discard
<1>3. CASE ReadReply(w) \/ Interrupt(w)
  BY <1>3 DEF ReadReply, Interrupt, ExchangeFails, Discard
<1>4. CASE Return(w) \/ Reply(w) \/ Serve(w) \/ Break(w)
  BY <1>4 DEF Return, Reply, Serve, Break
<1>5. QED
  BY <1>1, <1>2, <1>3, <1>4 DEF WorkerStep

LEMMA StreamInit == Init => StreamOK
BY DEF Init, StreamOK, StreamAt, Matching

(* Steps that leave the session of a worker alone. *)
LEMMA StreamFrame ==
  ASSUME NEW v \in Workers, StreamAt(v),
         wire'[v] = wire[v], conn'[v] = conn[v], serial'[v] = serial[v],
         wpc'[v] = wpc[v], attempt'[v] = attempt[v], cur'[v] = cur[v]
  PROVE  StreamAt(v)'
BY DEF StreamAt, Matching

(* Dropping the connection outside an exchange leaves an empty stream. *)
LEMMA StreamDiscard ==
  ASSUME TypeOK, NEW w \in Workers, NEW rest \in Seq(Request), Discard(w, rest),
         wpc'[w] # "await"
  PROVE  StreamAt(w)'
BY DEF Discard, StreamAt, Matching, TypeOK

LEMMA ExchangeFailsStream ==
  ASSUME TypeOK, StreamOK, NEW w \in Workers, NEW rest \in Seq(Request),
         wpc[w] = "await", ExchangeFails(w, rest), Len(rest) <= Len(wire[w]),
         attempt[w] = 1 => \A i \in DOMAIN rest : rest[i].serial = serial[w]
  PROVE  StreamAt(w)'
<1>1. CASE /\ attempt' = [attempt EXCEPT ![w] = 1]
           /\ wpc' = [wpc EXCEPT ![w] = "exec"]
           /\ Discard(w, rest)
           /\ UNCHANGED outcome
  BY <1>1 DEF Discard, StreamAt, Matching, TypeOK
<1>2. CASE /\ attempt[w] = 1
           /\ outcome' = [outcome EXCEPT ![w] = Error]
           /\ wpc' = [wpc EXCEPT ![w] = "finish"]
           /\ wire' = [wire EXCEPT ![w] = rest]
           /\ UNCHANGED <<attempt, conn, serial, created, orphan>>
  <2>1. Len(rest) <= 1
    BY <1>2 DEF StreamOK, StreamAt, TypeOK
  <2>2. conn[w] = "none" => rest = <<>>
    BY DEF StreamOK, StreamAt, TypeOK
  <2>3. QED
    BY <1>2, <2>1, <2>2 DEF StreamAt, Matching, TypeOK
<1>3. QED
  BY <1>1, <1>2 DEF ExchangeFails

LEMMA StreamNext == TypeOK /\ BusyOK /\ StreamOK /\ [Next]_vars => StreamOK'
<1> SUFFICES ASSUME TypeOK, BusyOK, StreamOK, [Next]_vars PROVE StreamOK'
  OBVIOUS
<1> USE DEF callVars, tokenVars, connVars, workVars, serverVars
<1>1. ASSUME NEW w \in Workers,
             WorkerStep(w) \/ Serve(w) \/ Break(w) \/ Stop(w),
             NEW v \in Workers, v # w
      PROVE  StreamAt(v)'
  <2>1. /\ wire'[v] = wire[v] /\ conn'[v] = conn[v] /\ serial'[v] = serial[v]
        /\ wpc'[v] = wpc[v] /\ attempt'[v] = attempt[v] /\ cur'[v] = cur[v]
    BY <1>1, WorkerFrame
  <2>2. QED
    BY <2>1, StreamFrame DEF StreamOK
<1>2. ASSUME NEW w \in Workers, RecvJob(w) \/ ConnectFails(w) \/ Return(w) \/ Reply(w)
      PROVE  StreamAt(w)'
  BY <1>2 DEF StreamOK, StreamAt, Matching, TypeOK, RecvJob, ConnectFails, Return, Reply
<1>3. ASSUME NEW w \in Workers,
             IdleClose(w) \/ Shutdown(w) \/ ReturnRefused(w) \/ Stop(w)
      PROVE  StreamAt(w)'
  <2>1. wpc'[w] # "await" /\ Discard(w, wire[w])
    BY <1>3 DEF TypeOK, IdleClose, Shutdown, ReturnRefused, Stop
  <2>2. QED
    BY <2>1, StreamDiscard DEF TypeOK
<1>4. ASSUME NEW w \in Workers, Connect(w) PROVE StreamAt(w)'
  BY <1>4 DEF StreamOK, StreamAt, Matching, TypeOK, Connect
<1>5. ASSUME NEW w \in Workers, Write(w) PROVE StreamAt(w)'
  <2> DEFINE s == WrapInc(serial[w], SerialMod)
             request == [call |-> cur[w], serial |-> s, done |-> FALSE]
  <2>1. s # serial[w]
    BY PoolAssumption DEF TypeOK, WrapInc
  <2>2. /\ wpc[w] = "exec" /\ conn[w] # "none"
        /\ wpc'[w] = "await" /\ serial'[w] = s /\ conn'[w] = conn[w]
        /\ cur'[w] = cur[w] /\ attempt'[w] = attempt[w]
    BY <1>5 DEF Write, TypeOK
  <2>3. Len(wire[w]) <= 1 /\ Matching(w) /\ (attempt[w] = 1 => wire[w] = <<>>)
    BY <2>2 DEF StreamOK, StreamAt
  <2>4. CASE wire'[w] = Append(wire[w], request)
    <3>1. /\ Len(wire'[w]) = Len(wire[w]) + 1
          /\ \A i \in DOMAIN wire'[w] : \/ i = Len(wire'[w]) /\ wire'[w][i] = request
                                        \/ i \in DOMAIN wire[w] /\ wire'[w][i] = wire[w][i]
      BY <2>4 DEF TypeOK
    <3>2. \A i \in DOMAIN wire'[w] :
            wire'[w][i].serial = s => i = Len(wire'[w]) /\ wire'[w][i].call = cur[w]
      BY <3>1, <2>1, <2>3 DEF Matching
    <3>3. attempt[w] = 1 => Len(wire'[w]) <= 1 /\ \A i \in DOMAIN wire'[w] : wire'[w][i].serial = s
      BY <3>1, <2>3
    <3>4. Len(wire'[w]) <= 2
      BY <3>1, <2>3 DEF TypeOK
    <3>5. QED
      BY <2>2, <3>2, <3>3, <3>4 DEF StreamAt, Matching
  <2>5. CASE wire'[w] = wire[w]
    BY <2>1, <2>2, <2>3, <2>5 DEF StreamAt, Matching
  <2>6. QED
    BY <1>5, <2>4, <2>5 DEF Write, TypeOK
<1>6. ASSUME NEW w \in Workers, ReadReply(w) PROVE StreamAt(w)'
  <2>1. /\ wpc[w] = "await" /\ wire[w] # <<>> /\ wire[w] \in Seq(Request)
        /\ Len(wire[w]) <= 2
    BY <1>6 DEF ReadReply, TypeOK, StreamOK, StreamAt
  <2>2. /\ Tail(wire[w]) \in Seq(Request)
        /\ Len(Tail(wire[w])) = Len(wire[w]) - 1
        /\ \A i \in DOMAIN Tail(wire[w]) :
             i + 1 \in DOMAIN wire[w] /\ Tail(wire[w])[i] = wire[w][i + 1]
        /\ Head(wire[w]) = wire[w][1] /\ 1 \in DOMAIN wire[w]
    BY <2>1
  <2>3. CASE ExchangeFails(w, Tail(wire[w]))
    <3>1. attempt[w] = 1 => \A i \in DOMAIN Tail(wire[w]) : Tail(wire[w])[i].serial = serial[w]
      BY <2>1, <2>2 DEF StreamOK, StreamAt, Matching
    <3>2. Len(Tail(wire[w])) <= Len(wire[w])
      BY <2>1, <2>2
    <3>3. QED
      BY <2>1, <2>2, <2>3, <3>1, <3>2, ExchangeFailsStream
  <2>4. CASE /\ Verified(w, Head(wire[w]))
             /\ wpc' = [wpc EXCEPT ![w] = "finish"]
             /\ wire' = [wire EXCEPT ![w] = Tail(@)]
             /\ UNCHANGED <<attempt, conn, serial, created, orphan>>
    <3>1. Len(wire[w]) = 1
      BY <2>1, <2>2, <2>4 DEF StreamOK, StreamAt, Verified
    <3>2. Tail(wire[w]) = <<>>
      BY <2>1, <2>2, <3>1
    <3>3. wire'[w] = <<>> /\ wpc'[w] = "finish"
      BY <2>4, <3>2 DEF TypeOK
    <3>4. QED
      BY <3>3 DEF StreamAt, Matching
  <2>5. QED
    BY <1>6, <2>3, <2>4 DEF ReadReply
<1>7. ASSUME NEW w \in Workers, Interrupt(w) PROVE StreamAt(w)'
  BY <1>7, ExchangeFailsStream DEF Interrupt, StreamOK, StreamAt, Matching, TypeOK
<1>8. ASSUME NEW w \in Workers, Serve(w) PROVE StreamAt(w)'
  <2>1. PICK i \in DOMAIN wire[w] : wire' = [wire EXCEPT ![w][i].done = TRUE]
    BY <1>8 DEF Serve
  <2>2. wire[w] \in Seq(Request) /\ \A j \in DOMAIN wire[w] : wire[w][j] \in Request
    BY DEF TypeOK
  <2>3. /\ DOMAIN wire'[w] = DOMAIN wire[w] /\ Len(wire'[w]) = Len(wire[w])
        /\ wire'[w] = [wire[w] EXCEPT ![i].done = TRUE]
    BY <2>1, <2>2 DEF TypeOK
  <2>4. \A j \in DOMAIN wire[w] : /\ wire'[w][j].serial = wire[w][j].serial
                                  /\ wire'[w][j].call = wire[w][j].call
    BY <2>2, <2>3 DEF Request
  <2>5. wire[w] # <<>> /\ wire'[w] # <<>>
    BY <2>1, <2>2, <2>3
  <2>6. QED
    BY <1>8, <2>3, <2>4, <2>5 DEF Serve, StreamOK, StreamAt, Matching
<1>9. ASSUME NEW w \in Workers, Break(w) PROVE StreamAt(w)'
  <2>1. PICK k \in 0..Len(wire[w]) : wire' = [wire EXCEPT ![w] = SubSeq(@, 1, k)]
    BY <1>9 DEF Break
  <2>2. wire[w] \in Seq(Request)
    BY DEF TypeOK
  <2>3. /\ Len(wire'[w]) = k /\ k <= Len(wire[w]) /\ k \in Nat
        /\ DOMAIN wire'[w] = 1..k
        /\ \A j \in 1..k : wire'[w][j] = wire[w][j]
    BY <2>1, <2>2 DEF TypeOK
  <2>4. 1..k \subseteq DOMAIN wire[w] /\ (Len(wire[w]) = 0 => wire'[w] = wire[w])
    BY <2>2, <2>3
  <2>5. QED
    BY <1>9, <2>2, <2>3, <2>4 DEF Break, StreamOK, StreamAt, Matching, TypeOK
<1>10. ASSUME \/ DropPool \/ UNCHANGED vars
              \/ \E c \in Calls : Start(c) \/ CallStep(c) \/ Cancel(c) \/ ServeOrphan(c)
       PROVE  StreamOK'
  <2>1. UNCHANGED <<wire, conn, serial, wpc, attempt, cur>>
    BY <1>10 DEF vars, DropPool, Start, CallStep, Take, CountDown, Send, SendRefused,
       ReleaseIndex, ReleaseCount, Receive, Cancel, ServeOrphan
  <2>2. QED
    BY <2>1 DEF StreamOK, StreamAt, Matching
<1>11. ASSUME NEW w \in Workers, WorkerStep(w) \/ Serve(w) \/ Break(w) \/ Stop(w)
       PROVE  StreamOK'
  <2>1. StreamAt(w)'
    BY <1>2, <1>3, <1>4, <1>5, <1>6, <1>7, <1>8, <1>9, <1>11 DEF WorkerStep
  <2>2. QED
    BY <1>1, <1>11, <2>1 DEF StreamOK
<1>12. QED
  BY <1>10, <1>11 DEF Next, Finished, Environment

(* A worker answers with the result of its own job or with an error. *)
AnswerAt(w) == wpc[w] \in {"finish", "count"} => outcome[w] \in {cur[w], Error}
AnswerOK == \A w \in Workers : AnswerAt(w)

LEMMA AnswerInit == Init => AnswerOK
BY DEF Init, AnswerOK, AnswerAt

LEMMA AnswerNext == TypeOK /\ BusyOK /\ StreamOK /\ AnswerOK /\ [Next]_vars => AnswerOK'
<1> SUFFICES ASSUME TypeOK, BusyOK, StreamOK, AnswerOK, [Next]_vars,
                    NEW v \in Workers
             PROVE  AnswerAt(v)'
  BY DEF AnswerOK
<1> USE DEF callVars, tokenVars, connVars, workVars, serverVars
<1>1. ASSUME NEW w \in Workers, WorkerStep(w) \/ Serve(w) \/ Break(w) \/ Stop(w), v # w
      PROVE  AnswerAt(v)'
  <2>1. wpc'[v] = wpc[v] /\ outcome'[v] = outcome[v] /\ cur'[v] = cur[v]
    BY <1>1, WorkerFrame
  <2>2. QED
    BY <2>1 DEF AnswerOK, AnswerAt
<1>2. ASSUME RecvJob(v) \/ IdleClose(v) \/ Shutdown(v) \/ Connect(v) \/ Write(v)
             \/ ReturnRefused(v) \/ Reply(v) \/ Stop(v)
      PROVE  AnswerAt(v)'
  BY <1>2 DEF AnswerOK, AnswerAt, TypeOK, RecvJob, IdleClose, Discard, Shutdown, Connect, Write,
     ReturnRefused, Reply, Stop
<1>3. ASSUME ConnectFails(v) \/ Return(v) \/ Serve(v) \/ Break(v) PROVE AnswerAt(v)'
  BY <1>3 DEF AnswerOK, AnswerAt, TypeOK, ConnectFails, Return, Serve, Break
<1>4. ASSUME wpc[v] = "await", NEW rest, ExchangeFails(v, rest), UNCHANGED cur
      PROVE  AnswerAt(v)'
  BY <1>4 DEF AnswerAt, TypeOK, ExchangeFails
<1>5. ASSUME ReadReply(v) PROVE AnswerAt(v)'
  <2>1. CASE ExchangeFails(v, Tail(wire[v]))
    BY <1>4, <1>5, <2>1 DEF ReadReply
  <2>2. CASE /\ Verified(v, Head(wire[v]))
             /\ outcome' = [outcome EXCEPT ![v] = Head(wire[v]).call]
    <3>1. Head(wire[v]) = wire[v][1] /\ 1 \in DOMAIN wire[v]
      BY <1>5 DEF ReadReply, TypeOK
    <3>2. Head(wire[v]).call = cur[v]
      BY <1>5, <2>2, <3>1 DEF ReadReply, Verified, StreamOK, StreamAt
    <3>3. QED
      BY <1>5, <2>2, <3>2 DEF ReadReply, AnswerAt, TypeOK
  <2>3. QED
    BY <1>5, <2>1, <2>2 DEF ReadReply
<1>6. ASSUME Interrupt(v) PROVE AnswerAt(v)'
  BY <1>4, <1>6 DEF Interrupt
<1>7. CASE \/ DropPool \/ UNCHANGED vars
           \/ \E c \in Calls : Start(c) \/ CallStep(c) \/ Cancel(c) \/ ServeOrphan(c)
  <2>1. UNCHANGED <<wpc, outcome, cur>>
    BY <1>7 DEF vars, DropPool, Start, CallStep, Take, CountDown, Send, SendRefused,
       ReleaseIndex, ReleaseCount, Receive, Cancel, ServeOrphan
  <2>2. QED
    BY <2>1 DEF AnswerOK, AnswerAt
<1>8. CASE \E w \in Workers : WorkerStep(w) \/ Serve(w) \/ Break(w) \/ Stop(w)
  BY <1>1, <1>2, <1>3, <1>5, <1>6, <1>8 DEF WorkerStep
<1>9. QED
  BY <1>7, <1>8 DEF Next, Finished, Environment

LEMMA OwnReplyNext ==
  TypeOK /\ BusyOK /\ AnswerOK /\ OwnReply /\ [Next]_vars => OwnReply'
<1> SUFFICES ASSUME TypeOK, BusyOK, AnswerOK, OwnReply, [Next]_vars,
                    NEW c \in Calls
             PROVE  reply'[c] \in {None, Error, c}
  BY DEF OwnReply
<1> USE DEF callVars, tokenVars, connVars, workVars, serverVars
<1>1. reply[c] \in {None, Error, c}
  BY DEF OwnReply
<1>2. CASE UNCHANGED reply
  BY <1>1, <1>2
<1>3. ASSUME NEW d \in Calls, ReleaseCount(d) PROVE reply'[c] \in {None, Error, c}
  BY <1>1, <1>3 DEF ReleaseCount, TypeOK
<1>4. ASSUME NEW w \in Workers, Reply(w) PROVE reply'[c] \in {None, Error, c}
  BY <1>1, <1>4 DEF Reply, AnswerOK, AnswerAt, TypeOK
<1>5. ASSUME NEW w \in Workers, ReturnRefused(w) PROVE reply'[c] \in {None, Error, c}
  BY <1>1, <1>5 DEF ReturnRefused, TypeOK
<1>6. ASSUME NEW w \in Workers, Stop(w) PROVE reply'[c] \in {None, Error, c}
  BY <1>1, <1>6 DEF Stop, TypeOK
<1>7. CASE \E d \in Calls : Start(d) \/ Take(d) \/ CountDown(d) \/ Send(d) \/ SendRefused(d)
                            \/ ReleaseIndex(d) \/ Receive(d) \/ Cancel(d) \/ ServeOrphan(d)
  <2>1. UNCHANGED reply
    BY <1>7 DEF Start, Take, CountDown, Send, SendRefused, ReleaseIndex, Receive, Cancel, ServeOrphan
  <2>2. QED
    BY <1>2, <2>1
<1>8. CASE \E w \in Workers : RecvJob(w) \/ IdleClose(w) \/ Shutdown(w) \/ Connect(w)
             \/ ConnectFails(w) \/ Write(w) \/ ReadReply(w) \/ Interrupt(w) \/ Return(w)
             \/ Serve(w) \/ Break(w)
  <2>1. UNCHANGED reply
    BY <1>8 DEF RecvJob, IdleClose, Shutdown, Connect, ConnectFails, Write, ReadReply,
       Interrupt, Return, Serve, Break
  <2>2. QED
    BY <1>2, <2>1
<1>9. CASE DropPool \/ UNCHANGED vars
  BY <1>2, <1>9 DEF DropPool, vars
<1>10. QED
  BY <1>3, <1>4, <1>5, <1>6, <1>7, <1>8, <1>9
     DEF Next, CallStep, WorkerStep, Environment, Finished

(* The pool never hands a caller the reply to another caller's command: a  *)
(* stale reply on a kept connection carries an older serial than the       *)
(* request in hand, and is refused.                                        *)
THEOREM OwnReplyCorrect == Spec => []OwnReply
<1>1. Init => OwnReply
  BY DEF Init, OwnReply
<1>2. Spec => [](TypeOK /\ HeldOK /\ BusyOK /\ StreamOK /\ AnswerOK /\ OwnReply)
  BY <1>1, TypeInit, HeldInit, BusyInit, StreamInit, AnswerInit,
     TypeNext, HeldNext, BusyNext, StreamNext, AnswerNext, OwnReplyNext, PTL DEF Spec
<1>3. QED
  BY <1>2, PTL

(* A connection kept after a failed exchange carries no more than that one *)
(* exchange: streams do not accumulate unread replies.                     *)
THEOREM BacklogCorrect == Spec => []BacklogBounded
<1>1. TypeOK /\ StreamOK => BacklogBounded
  BY DEF TypeOK, StreamOK, StreamAt, BacklogBounded
<1>2. Spec => [](TypeOK /\ HeldOK /\ BusyOK /\ StreamOK)
  BY TypeInit, HeldInit, BusyInit, StreamInit,
     TypeNext, HeldNext, BusyNext, StreamNext, PTL DEF Spec
<1>3. QED
  BY <1>1, <1>2, PTL

-----------------------------------------------------------------------------
(* Conservation of the worker indices.                                     *)

Among(x, q) == \E i \in DOMAIN q : q[i] = x
Distinct(q) == \A i, j \in DOMAIN q : q[i] = q[j] => i = j

LEMMA DistinctAppend ==
  ASSUME NEW q \in Seq(Workers), NEW x \in Workers
  PROVE  /\ \A w : Among(w, Append(q, x)) <=> Among(w, q) \/ w = x
         /\ Distinct(q) /\ ~Among(x, q) => Distinct(Append(q, x))
<1>1. /\ DOMAIN q = 1..Len(q) /\ Len(q) \in Nat
      /\ DOMAIN Append(q, x) = 1..(Len(q) + 1)
      /\ \A i \in 1..Len(q) : Append(q, x)[i] = q[i]
      /\ Append(q, x)[Len(q) + 1] = x
  OBVIOUS
<1>2. \A i \in DOMAIN Append(q, x) : i \in DOMAIN q \/ i = Len(q) + 1
  BY <1>1
<1>3. ASSUME NEW w PROVE Among(w, Append(q, x)) <=> Among(w, q) \/ w = x
  <2>1. Among(w, Append(q, x)) => Among(w, q) \/ w = x
    BY <1>1, <1>2 DEF Among
  <2>2. Among(w, q) => Among(w, Append(q, x))
    BY <1>1 DEF Among
  <2>3. w = x => Among(w, Append(q, x))
    BY <1>1 DEF Among
  <2>4. QED
    BY <2>1, <2>2, <2>3
<1>4. Distinct(q) /\ ~Among(x, q) => Distinct(Append(q, x))
  BY <1>1, <1>2 DEF Among, Distinct
<1>5. QED
  BY <1>3, <1>4

LEMMA DistinctTail ==
  ASSUME NEW q \in Seq(Workers), q # <<>>
  PROVE  /\ \A w : Among(w, q) <=> w = Head(q) \/ Among(w, Tail(q))
         /\ Distinct(q) => Distinct(Tail(q)) /\ ~Among(Head(q), Tail(q))
<1>1. /\ DOMAIN q = 1..Len(q) /\ Len(q) \in Nat \ {0}
      /\ DOMAIN Tail(q) = 1..(Len(q) - 1)
      /\ \A i \in 1..(Len(q) - 1) : i + 1 \in DOMAIN q /\ Tail(q)[i] = q[i + 1]
      /\ Head(q) = q[1]
  OBVIOUS
<1>2. \A i \in DOMAIN q : i = 1 \/ (i - 1 \in DOMAIN Tail(q) /\ Tail(q)[i - 1] = q[i])
  BY <1>1
<1>3. ASSUME NEW w PROVE Among(w, q) <=> w = Head(q) \/ Among(w, Tail(q))
  <2>1. Among(w, q) => w = Head(q) \/ Among(w, Tail(q))
    BY <1>1, <1>2 DEF Among
  <2>2. Among(w, Tail(q)) => Among(w, q)
    BY <1>1 DEF Among
  <2>3. w = Head(q) => Among(w, q)
    BY <1>1 DEF Among
  <2>4. QED
    BY <2>1, <2>2, <2>3
<1>4. ASSUME Distinct(q) PROVE Distinct(Tail(q)) /\ ~Among(Head(q), Tail(q))
  <2>1. ASSUME NEW i \in DOMAIN Tail(q), NEW j \in DOMAIN Tail(q), Tail(q)[i] = Tail(q)[j]
        PROVE  i = j
    <3>1. q[i + 1] = q[j + 1] /\ i + 1 \in DOMAIN q /\ j + 1 \in DOMAIN q
      BY <1>1, <2>1
    <3>2. i + 1 = j + 1
      BY <1>4, <3>1 DEF Distinct
    <3>3. QED
      BY <1>1, <3>2
  <2>2. ASSUME NEW i \in DOMAIN Tail(q), Tail(q)[i] = Head(q) PROVE FALSE
    <3>1. q[i + 1] = q[1] /\ i + 1 \in DOMAIN q /\ 1 \in DOMAIN q
      BY <1>1, <2>2
    <3>2. i + 1 = 1
      BY <1>4, <3>1 DEF Distinct
    <3>3. QED
      BY <1>1, <3>2
  <2>3. QED
    BY <2>1, <2>2 DEF Distinct, Among
<1>5. QED
  BY <1>3, <1>4

(* A call that holds an index, and the five places an index can be. *)
Holding(c) == cpc[c] \in {"taken", "sending", "release"}
Carried(w) == \E c \in Calls : held[c] = w /\ Holding(c)
Handed(w)  == inbox[w] # None

TokenAt(w) ==
  /\ Among(w, queue) \/ Carried(w) \/ Handed(w) \/ Busy(w) \/ w \in lost
  /\ Among(w, queue) => ~Carried(w) /\ ~Handed(w) /\ ~Busy(w) /\ w \notin lost
  /\ Carried(w) => ~Handed(w) /\ ~Busy(w) /\ w \notin lost
  /\ Handed(w) => ~Busy(w) /\ w \notin lost
  /\ Busy(w) => w \notin lost

TokenOK ==
  /\ Distinct(queue)
  /\ \A c, d \in Calls : Holding(c) /\ Holding(d) /\ held[c] = held[d] => c = d
  /\ \A w \in Workers : TokenAt(w)

LEMMA TokenInit == Init => TokenOK
<1> SUFFICES ASSUME Init PROVE TokenOK
  OBVIOUS
<1> DEFINE N == Cardinality(Workers)
<1>1. N \in Nat /\ queue \in [1..N -> Workers] /\ Distinct(queue)
  BY PoolAssumption, FS_CardinalityType DEF Init, Distinct
<1>2. queue \in Injection(1..N, Workers)
  BY <1>1 DEF Injection, IsInjective, Distinct
<1>3. Cardinality(1..N) = N
  BY <1>1, FS_Interval
<1>4. queue \in Surjection(1..N, Workers)
  BY <1>2, <1>3, FS_Injection, PoolAssumption
<1>5. \A w \in Workers : Among(w, queue)
  BY <1>1, <1>4 DEF Surjection, Among
<1>6. QED
  BY <1>1, <1>5 DEF Init, TokenOK, TokenAt, Holding, Carried, Handed, Busy

(* Steps that move no index leave all five places as they are. *)
LEMMA TokenFrame ==
  ASSUME TokenOK, UNCHANGED <<queue, inbox, lost>>,
         \A w \in Workers : Busy(w)' <=> Busy(w),
         \A c \in Calls : Holding(c)' <=> Holding(c),
         \A c \in Calls : Holding(c) => held'[c] = held[c]
  PROVE  TokenOK'
<1>1. \A w \in Workers : Carried(w)' <=> Carried(w)
  BY DEF Carried
<1>2. \A w \in Workers : TokenAt(w)'
  BY <1>1 DEF TokenOK, TokenAt, Handed
<1>3. QED
  BY <1>2 DEF TokenOK

(* An index leaves the places of the workers other than w as they are. *)
LEMMA TokenOthers ==
  ASSUME TokenOK, NEW w \in Workers, NEW v \in Workers, v # w,
         Among(v, queue)' <=> Among(v, queue), Carried(v)' <=> Carried(v),
         inbox'[v] = inbox[v], Busy(v)' <=> Busy(v), v \in lost' <=> v \in lost
  PROVE  TokenAt(v)'
BY DEF TokenOK, TokenAt, Handed

LEMMA TokenNext == TypeOK /\ HeldOK /\ BusyOK /\ TokenOK /\ [Next]_vars => TokenOK'
<1> SUFFICES ASSUME TypeOK, HeldOK, BusyOK, TokenOK, [Next]_vars PROVE TokenOK'
  OBVIOUS
<1> USE DEF callVars, tokenVars, connVars, workVars, serverVars
<1>1. CASE \/ DropPool \/ UNCHANGED vars
           \/ \E c \in Calls : Start(c) \/ CountDown(c) \/ SendRefused(c)
                               \/ ReleaseCount(c) \/ Receive(c) \/ ServeOrphan(c)
  <2>1. UNCHANGED <<queue, inbox, lost, wpc, held>>
    BY <1>1 DEF vars, DropPool, Start, CountDown, SendRefused, ReleaseCount, Receive, ServeOrphan
  <2>2. \A c \in Calls : Holding(c)' <=> Holding(c)
    BY <1>1 DEF TypeOK, Holding, vars, DropPool, Start, CountDown, SendRefused, ReleaseCount,
       Receive, ServeOrphan
  <2>3. QED
    BY <2>1, <2>2, TokenFrame DEF Busy
<1>2. CASE \E w \in Workers : IdleClose(w) \/ Shutdown(w) \/ Connect(w) \/ ConnectFails(w)
             \/ Write(w) \/ ReadReply(w) \/ Interrupt(w) \/ Reply(w) \/ Serve(w) \/ Break(w)
  <2>1. UNCHANGED <<queue, inbox, lost, cpc, held>>
    BY <1>2 DEF IdleClose, Shutdown, Connect, ConnectFails, Write, ReadReply, Interrupt,
       Reply, Serve, Break
  <2>2. \A w \in Workers : Busy(w)' <=> Busy(w)
    BY <1>2 DEF TypeOK, Busy, IdleClose, Shutdown, Connect, ConnectFails, Write, ReadReply,
       Interrupt, ExchangeFails, Discard, Reply, Serve, Break
  <2>3. QED
    BY <2>1, <2>2, TokenFrame DEF Holding
<1>3. ASSUME NEW c \in Calls, Take(c) PROVE TokenOK'
  <2>0. PICK w \in Workers : w = Head(queue)
    BY <1>3 DEF Take, TypeOK
  <2>1. /\ queue \in Seq(Workers) /\ queue # <<>> /\ w = Head(queue) /\ queue' = Tail(queue)
        /\ held'[c] = w
    BY <1>3, <2>0 DEF Take, TypeOK
  <2>2. /\ UNCHANGED <<inbox, lost, wpc>> /\ Holding(c)' /\ ~Holding(c)
        /\ \A d \in Calls \ {c} : (Holding(d)' <=> Holding(d)) /\ held'[d] = held[d]
    BY <1>3 DEF Take, TypeOK, Holding
  <2>3. Among(w, queue) /\ ~Carried(w)
    BY <2>1, DistinctTail DEF TokenOK, TokenAt
  <2>4. Distinct(queue)' /\ ~Among(w, queue')
    BY <2>1, DistinctTail DEF TokenOK
  <2>5. \A v \in Workers \ {w} : (Among(v, queue)' <=> Among(v, queue)) /\ (Carried(v)' <=> Carried(v))
    BY <2>1, <2>2, DistinctTail DEF Carried
  <2>6. Carried(w)'
    BY <2>1, <2>2 DEF Carried
  <2>7. TokenAt(w)'
    BY <2>1, <2>2, <2>3, <2>4, <2>6 DEF TokenOK, TokenAt, Handed, Busy
  <2>8. \A v \in Workers \ {w} : TokenAt(v)'
    BY <2>1, <2>2, <2>5, TokenOthers DEF Busy
  <2>9. \A d, e \in Calls : Holding(d)' /\ Holding(e)' /\ held'[d] = held'[e] => d = e
    BY <2>1, <2>2, <2>3 DEF TokenOK, Carried
  <2>10. QED
    BY <2>4, <2>7, <2>8, <2>9 DEF TokenOK
<1>4. ASSUME NEW c \in Calls, Send(c) \/ ReleaseIndex(c)
                              \/ (Cancel(c) /\ cpc[c] \in {"sending", "release"})
      PROVE TokenOK'
  <2>0. PICK w \in Workers : w = held[c]
    BY <1>4 DEF Send, ReleaseIndex, HeldOK
  <2>1. Holding(c) /\ w = held[c] /\ Carried(w)
    BY <1>4, <2>0 DEF Send, ReleaseIndex, Holding, Carried
  <2>2. /\ UNCHANGED <<held, wpc>> /\ ~Holding(c)'
        /\ \A d \in Calls \ {c} : Holding(d)' <=> Holding(d)
    BY <1>4 DEF Send, ReleaseIndex, Cancel, TypeOK, Holding
  <2>3. ~Carried(w)' /\ \A v \in Workers \ {w} : Carried(v)' <=> Carried(v)
    BY <2>1, <2>2 DEF Carried, TokenOK
  <2>4. \A d, e \in Calls : Holding(d)' /\ Holding(e)' /\ held'[d] = held'[e] => d = e
    BY <2>2 DEF TokenOK
  <2>5. ~Among(w, queue) /\ ~Handed(w) /\ ~Busy(w) /\ w \notin lost
    BY <2>1 DEF TokenOK, TokenAt
  <2>6. CASE Send(c)
    <3>1. UNCHANGED <<queue, lost>> /\ inbox' = [inbox EXCEPT ![w] = c] /\ c # None
      BY <2>1, <2>6, PoolAssumption DEF Send
    <3>2. Handed(w)' /\ \A v \in Workers \ {w} : inbox'[v] = inbox[v]
      BY <2>1, <3>1 DEF Handed, TypeOK
    <3>3. TokenAt(w)'
      BY <2>2, <2>3, <2>5, <3>1, <3>2 DEF TokenAt, Busy
    <3>4. \A v \in Workers \ {w} : TokenAt(v)'
      BY <2>1, <2>2, <2>3, <3>1, <3>2, TokenOthers DEF Busy
    <3>5. QED
      BY <2>4, <3>1, <3>3, <3>4 DEF TokenOK
  <2>7. CASE ReleaseIndex(c)
    <3>1. UNCHANGED <<inbox, lost>> /\ queue' = Append(queue, w) /\ queue \in Seq(Workers)
      BY <2>1, <2>7 DEF ReleaseIndex, TypeOK
    <3>2. /\ Distinct(queue)' /\ Among(w, queue)'
          /\ \A v \in Workers \ {w} : Among(v, queue)' <=> Among(v, queue)
      BY <2>1, <2>5, <3>1, DistinctAppend DEF TokenOK
    <3>3. TokenAt(w)'
      BY <2>2, <2>3, <2>5, <3>1, <3>2 DEF TokenAt, Busy, Handed
    <3>4. \A v \in Workers \ {w} : TokenAt(v)'
      BY <2>1, <2>2, <2>3, <3>1, <3>2, TokenOthers DEF Busy
    <3>5. QED
      BY <2>4, <3>2, <3>3, <3>4 DEF TokenOK
  <2>8. CASE Cancel(c) /\ cpc[c] \in {"sending", "release"}
    <3>1. UNCHANGED <<inbox, queue>> /\ lost' = lost \cup {w}
      BY <2>1, <2>8 DEF Cancel
    <3>2. TokenAt(w)'
      BY <2>2, <2>3, <2>5, <3>1 DEF TokenAt, Busy, Handed
    <3>3. \A v \in Workers \ {w} : TokenAt(v)'
      BY <2>1, <2>2, <2>3, <3>1, TokenOthers DEF Busy
    <3>4. QED
      BY <2>4, <3>1, <3>2, <3>3 DEF TokenOK
  <2>9. QED
    BY <1>4, <2>6, <2>7, <2>8
<1>5. ASSUME NEW c \in Calls, Cancel(c), cpc[c] \notin {"sending", "release"} PROVE TokenOK'
  <2>1. UNCHANGED <<queue, inbox, lost, wpc, held>>
    BY <1>5 DEF Cancel
  <2>2. \A d \in Calls : Holding(d)' <=> Holding(d)
    BY <1>5, PoolAssumption DEF Cancel, Holding, TypeOK
  <2>3. QED
    BY <2>1, <2>2, TokenFrame DEF Busy
<1>6. ASSUME NEW w \in Workers, RecvJob(w) \/ Return(w) \/ ReturnRefused(w) PROVE TokenOK'
  <2>1. /\ UNCHANGED <<cpc, held>>
        /\ \A v \in Workers \ {w} : inbox'[v] = inbox[v] /\ (Busy(v)' <=> Busy(v))
    BY <1>6 DEF RecvJob, Return, ReturnRefused, TypeOK, Busy
  <2>2. /\ \A v \in Workers : Carried(v)' <=> Carried(v)
        /\ \A d, e \in Calls : Holding(d)' /\ Holding(e)' /\ held'[d] = held'[e] => d = e
    BY <2>1 DEF Carried, Holding, TokenOK
  <2>3. CASE RecvJob(w)
    <3>1. UNCHANGED <<queue, lost>> /\ Handed(w) /\ ~Handed(w)' /\ Busy(w)'
      BY <2>3 DEF RecvJob, TypeOK, Handed, Busy
    <3>2. TokenAt(w)'
      BY <2>2, <3>1 DEF TokenOK, TokenAt
    <3>3. QED
      BY <2>1, <2>2, <3>1, <3>2, TokenOthers DEF TokenOK
  <2>4. CASE Return(w)
    <3>1. /\ UNCHANGED <<inbox, lost>> /\ Busy(w) /\ ~Busy(w)'
          /\ queue' = Append(queue, w) /\ queue \in Seq(Workers)
      BY <2>4 DEF Return, TypeOK, Busy
    <3>2. ~Among(w, queue)
      BY <3>1 DEF TokenOK, TokenAt
    <3>3. /\ Distinct(queue)' /\ Among(w, queue)'
          /\ \A v \in Workers \ {w} : Among(v, queue)' <=> Among(v, queue)
      BY <3>1, <3>2, DistinctAppend DEF TokenOK
    <3>4. TokenAt(w)'
      BY <2>2, <3>1, <3>3 DEF TokenOK, TokenAt, Handed
    <3>5. QED
      BY <2>1, <2>2, <3>1, <3>3, <3>4, TokenOthers DEF TokenOK
  <2>5. CASE ReturnRefused(w)
    <3>1. UNCHANGED <<inbox, queue>> /\ Busy(w) /\ ~Busy(w)' /\ lost' = lost \cup {w}
      BY <2>5 DEF ReturnRefused, TypeOK, Busy
    <3>2. TokenAt(w)'
      BY <2>2, <3>1 DEF TokenOK, TokenAt, Handed
    <3>3. QED
      BY <2>1, <2>2, <3>1, <3>2, TokenOthers DEF TokenOK
  <2>6. QED
    BY <1>6, <2>3, <2>4, <2>5
<1>7. ASSUME NEW w \in Workers, Stop(w) PROVE TokenOK'
  <2>1. /\ UNCHANGED <<cpc, held, queue>> /\ ~Busy(w)' /\ ~Handed(w)'
        /\ \A v \in Workers \ {w} : inbox'[v] = inbox[v] /\ (Busy(v)' <=> Busy(v))
    BY <1>7 DEF Stop, TypeOK, Busy, Handed
  <2>2. /\ \A v \in Workers : Carried(v)' <=> Carried(v)
        /\ \A d, e \in Calls : Holding(d)' /\ Holding(e)' /\ held'[d] = held'[e] => d = e
    BY <2>1 DEF Carried, Holding, TokenOK
  <2>3. lost' = IF Handed(w) \/ Busy(w) THEN lost \cup {w} ELSE lost
    <3> DEFINE failed == {c \in Calls : c = inbox[w] \/ (Busy(w) /\ c = cur[w])}
    <3>1. lost' = IF failed = {} THEN lost ELSE lost \cup {w}
      BY <1>7 DEF Stop
    <3>2. Busy(w) => cur[w] \in Calls
      BY DEF BusyOK, Busy
    <3>3. Handed(w) <=> inbox[w] \in Calls
      BY PoolAssumption DEF Handed, TypeOK
    <3>4. failed = {} <=> ~(Handed(w) \/ Busy(w))
      BY <3>2, <3>3
    <3>5. QED
      BY <3>1, <3>4
  <2>4. TokenAt(w)'
    BY <2>1, <2>2, <2>3 DEF TokenOK, TokenAt
  <2>5. \A v \in Workers \ {w} : TokenAt(v)'
    BY <2>1, <2>2, <2>3, TokenOthers
  <2>6. QED
    BY <2>1, <2>2, <2>4, <2>5 DEF TokenOK
<1>8. QED
  BY <1>1, <1>2, <1>3, <1>4, <1>5, <1>6, <1>7
     DEF Next, CallStep, WorkerStep, Environment, Finished

(* Every worker index is in exactly one place at all times: no failure,    *)
(* retry, cancellation or ending task duplicates one, and one that leaves  *)
(* the pool is accounted for.                                              *)
THEOREM TokenCorrect == Spec => []TokenConserved
<1>1. TypeOK /\ TokenOK => TokenConserved
  <2> SUFFICES ASSUME TypeOK, TokenOK, NEW w \in Workers
               PROVE  \E p \in Places(w) : Places(w) = {p}
    BY DEF TokenConserved
  <2> DEFINE Q == {<<"queue", i>> : i \in {j \in DOMAIN queue : queue[j] = w}}
             H == {<<"call", c>> : c \in Holders(w)}
  <2>1. /\ Q = {} <=> ~Among(w, queue)
        /\ H = {} <=> ~Carried(w)
    BY DEF Among, Carried, Holders, Holding
  <2>2. CASE Among(w, queue)
    <3>1. PICK i \in DOMAIN queue : queue[i] = w
      BY <2>2 DEF Among
    <3>2. Q = {<<"queue", i>>}
      BY <3>1 DEF TokenOK, Distinct
    <3>3. Places(w) = {<<"queue", i>>}
      BY <2>1, <2>2, <3>2 DEF TokenOK, TokenAt, Places, Handed
    <3>4. QED
      BY <3>3
  <2>3. CASE Carried(w)
    <3>1. PICK c \in Calls : c \in Holders(w)
      BY <2>3 DEF Carried, Holders, Holding
    <3>2. H = {<<"call", c>>}
      BY <3>1 DEF TokenOK, Holders, Holding
    <3>3. Places(w) = {<<"call", c>>}
      BY <2>1, <2>3, <3>2 DEF TokenOK, TokenAt, Places, Handed
    <3>4. QED
      BY <3>3
  <2>4. CASE ~Among(w, queue) /\ ~Carried(w)
    <3>1. Q = {} /\ H = {}
      BY <2>1, <2>4
    <3>2. CASE Handed(w)
      BY <3>1, <3>2 DEF TokenOK, TokenAt, Places, Handed
    <3>3. CASE Busy(w)
      BY <3>1, <3>3 DEF TokenOK, TokenAt, Places, Handed
    <3>4. CASE w \in lost
      BY <3>1, <3>4 DEF TokenOK, TokenAt, Places, Handed
    <3>5. QED
      BY <2>4, <3>2, <3>3, <3>4 DEF TokenOK, TokenAt
  <2>5. QED
    BY <2>2, <2>3, <2>4
<1>2. Spec => [](TypeOK /\ HeldOK /\ BusyOK /\ TokenOK)
  BY TypeInit, HeldInit, BusyInit, TokenInit, TypeNext, HeldNext, BusyNext, TokenNext, PTL DEF Spec
<1>3. QED
  BY <1>1, <1>2, PTL

-----------------------------------------------------------------------------
(* The counter of available workers.                                       *)

(* How many of S are at q. *)
Number(S, pcs, q) == Cardinality({x \in S : pcs[x] = q})

LEMMA NumberNat ==
  ASSUME NEW S, IsFiniteSet(S), NEW f, NEW q
  PROVE  Number(S, f, q) \in Nat
<1>1. {x \in S : f[x] = q} \in SUBSET S
  OBVIOUS
<1>2. QED
  BY <1>1, FS_Subset, FS_CardinalityType DEF Number

(* One member that moves changes the number at q by what it did. *)
LEMMA NumberMove ==
  ASSUME NEW S, IsFiniteSet(S), NEW f, NEW g, NEW q, NEW x \in S,
         \A y \in S \ {x} : g[y] = f[y]
  PROVE  /\ f[x] # q /\ g[x] = q => Number(S, g, q) = Number(S, f, q) + 1
         /\ f[x] = q /\ g[x] # q => Number(S, g, q) = Number(S, f, q) - 1
         /\ (f[x] = q <=> g[x] = q) => Number(S, g, q) = Number(S, f, q)
<1> DEFINE F == {y \in S : f[y] = q}
           G == {y \in S : g[y] = q}
<1>0. F \in SUBSET S
  OBVIOUS
<1>1. IsFiniteSet(F)
  BY <1>0, FS_Subset
<1>2. ASSUME f[x] # q, g[x] = q PROVE Cardinality(G) = Cardinality(F) + 1
  <2>1. G = F \cup {x} /\ x \notin F
    BY <1>2
  <2>2. QED
    BY <1>1, <2>1, FS_AddElement
<1>3. ASSUME f[x] = q, g[x] # q PROVE Cardinality(G) = Cardinality(F) - 1
  <2>1. G = F \ {x} /\ x \in F
    BY <1>3
  <2>2. QED
    BY <1>1, <2>1, FS_RemoveElement
<1>4. ASSUME f[x] = q <=> g[x] = q PROVE G = F
  BY <1>4
<1>5. QED
  BY <1>2, <1>3, <1>4 DEF Number

(* Numbers that differ by a multiple of m have one remainder. *)
LEMMA SameRemainder ==
  ASSUME NEW m \in Nat \ {0}, NEW a \in Nat, NEW b \in Nat, NEW k \in Int,
         a = b + k * m
  PROVE  a % m = b % m
<1> DEFINE p == a \div m
           q == b \div m
           r == a % m
           s == b % m
<1>1. /\ p \in Int /\ q \in Int /\ r \in 0..(m - 1) /\ s \in 0..(m - 1)
      /\ a = m * p + r /\ b = m * q + s
  OBVIOUS
<1> HIDE DEF p, q, r, s
<1> DEFINE d == p - q - k
<1>2. d \in Int /\ m * d = s - r
  BY <1>1
<1>3. -m < m * d /\ m * d < m
  BY <1>1, <1>2
<1> HIDE DEF d
<1>4. d >= 1 => m * d >= m
  BY <1>2
<1>5. d <= -1 => m * d <= -m
  BY <1>2
<1>6. d = 0
  BY <1>2, <1>3, <1>4, <1>5
<1>7. r = s
  BY <1>1, <1>2, <1>6
<1>8. QED
  BY <1>7 DEF r, s

(* The counter and what is owed to it against the channel and what was     *)
(* taken from it: equal up to turns of the counter.  CountAccounts is not  *)
(* inductive in the form it has, a remainder keeps no trace of the turns.  *)
Balance(n, counting, released, length, taken) ==
  \E k \in Int : n + counting + released = length + taken + k * CountMod

CounterOK ==
  Balance(count, Number(Workers, wpc, "count"), Number(Calls, cpc, "released"),
          Len(queue), Number(Calls, cpc, "taken"))

LEMMA BalanceSteps ==
  ASSUME NEW n \in 0..(CountMod - 1), NEW a \in Nat, NEW b \in Nat,
         NEW l \in Nat, NEW t \in Nat, Balance(n, a, b, l, t)
  PROVE  /\ Balance(n, a, b, l - 1, t + 1)
         /\ Balance(n, a, b + 1, l + 1, t)
         /\ Balance(n, a + 1, b, l + 1, t)
         /\ Balance(WrapDec(n, CountMod), a, b, l, t - 1)
         /\ Balance(WrapInc(n, CountMod), a, b - 1, l, t)
         /\ Balance(WrapInc(n, CountMod), a - 1, b, l, t)
<1>1. CountMod \in Nat \ {0}
  BY WorkersCardinality
<1>2. PICK k \in Int : n + a + b = l + t + k * CountMod
  BY DEF Balance
<1>3. PICK j \in Int : WrapInc(n, CountMod) = n + 1 + j * CountMod
  <2>1. CASE n = CountMod - 1
    <3>1. WrapInc(n, CountMod) = n + 1 + (-1) * CountMod
      BY <1>1, <2>1 DEF WrapInc
    <3>2. QED
      BY <3>1
  <2>2. CASE n # CountMod - 1
    <3>1. WrapInc(n, CountMod) = n + 1 + 0 * CountMod
      BY <1>1, <2>2 DEF WrapInc
    <3>2. QED
      BY <3>1
  <2>3. QED
    BY <2>1, <2>2
<1>4. PICK i \in Int : WrapDec(n, CountMod) = n - 1 + i * CountMod
  <2>1. CASE n = 0
    <3>1. WrapDec(n, CountMod) = n - 1 + 1 * CountMod
      BY <1>1, <2>1 DEF WrapDec
    <3>2. QED
      BY <3>1
  <2>2. CASE n # 0
    <3>1. WrapDec(n, CountMod) = n - 1 + 0 * CountMod
      BY <1>1, <2>2 DEF WrapDec
    <3>2. QED
      BY <3>1
  <2>3. QED
    BY <2>1, <2>2
<1>5. /\ (k + j) * CountMod = k * CountMod + j * CountMod /\ k + j \in Int
      /\ (k + i) * CountMod = k * CountMod + i * CountMod /\ k + i \in Int
      /\ k * CountMod \in Int /\ j * CountMod \in Int /\ i * CountMod \in Int
  BY <1>1
<1>6. /\ n + a + b = (l - 1) + (t + 1) + k * CountMod
      /\ n + a + (b + 1) = (l + 1) + t + k * CountMod
      /\ n + (a + 1) + b = (l + 1) + t + k * CountMod
  BY <1>1, <1>2, <1>5
<1>7. WrapDec(n, CountMod) + a + b = l + (t - 1) + (k + i) * CountMod
  BY <1>1, <1>2, <1>4, <1>5
<1>8. /\ WrapInc(n, CountMod) + a + (b - 1) = l + t + (k + j) * CountMod
      /\ WrapInc(n, CountMod) + (a - 1) + b = l + t + (k + j) * CountMod
  BY <1>1, <1>2, <1>3, <1>5
<1>9. QED
  BY <1>5, <1>6, <1>7, <1>8 DEF Balance

LEMMA CounterInit == Init => CounterOK
<1> SUFFICES ASSUME Init PROVE CounterOK
  OBVIOUS
<1>1. Cardinality(Workers) \in Nat /\ CountMod \in Nat
  BY WorkersCardinality
<1>2. count = Cardinality(Workers) /\ Len(queue) = Cardinality(Workers)
  BY <1>1 DEF Init
<1>3. /\ {w \in Workers : wpc[w] = "count"} = {}
      /\ {c \in Calls : cpc[c] = "released"} = {}
      /\ {c \in Calls : cpc[c] = "taken"} = {}
  BY DEF Init
<1>4. /\ Number(Workers, wpc, "count") = 0
      /\ Number(Calls, cpc, "released") = 0
      /\ Number(Calls, cpc, "taken") = 0
  BY <1>3, FS_EmptySet DEF Number
<1>5. count + 0 + 0 = Len(queue) + 0 + 0 * CountMod
  BY <1>1, <1>2
<1>6. QED
  BY <1>4, <1>5 DEF CounterOK, Balance

LEMMA CounterNext == TypeOK /\ HeldOK /\ CounterOK /\ [Next]_vars => CounterOK'
<1> SUFFICES ASSUME TypeOK, HeldOK, CounterOK, [Next]_vars PROVE CounterOK'
  OBVIOUS
<1> USE DEF callVars, tokenVars, connVars, workVars, serverVars
<1> DEFINE a == Number(Workers, wpc, "count")
           b == Number(Calls, cpc, "released")
           l == Len(queue)
           t == Number(Calls, cpc, "taken")
<1>0. IsFiniteSet(Calls) /\ IsFiniteSet(Workers)
  BY PoolAssumption
<1>1. /\ a \in Nat /\ b \in Nat /\ t \in Nat
      /\ l \in Nat /\ count \in 0..(CountMod - 1)
      /\ Balance(count, a, b, l, t)
  BY <1>0, NumberNat DEF TypeOK, CounterOK
<1>2. /\ Balance(count, a, b, l - 1, t + 1)
      /\ Balance(count, a, b + 1, l + 1, t)
      /\ Balance(count, a + 1, b, l + 1, t)
      /\ Balance(WrapDec(count, CountMod), a, b, l, t - 1)
      /\ Balance(WrapInc(count, CountMod), a, b - 1, l, t)
      /\ Balance(WrapInc(count, CountMod), a - 1, b, l, t)
  BY <1>1, BalanceSteps
<1>3. ASSUME NEW c \in Calls, NEW p \in CallPCs, cpc' = [cpc EXCEPT ![c] = p]
      PROVE  /\ cpc'[c] = p /\ \A d \in Calls \ {c} : cpc'[d] = cpc[d]
             /\ cpc[c] # "released" /\ p = "released" => b' = b + 1
             /\ cpc[c] = "released" /\ p # "released" => b' = b - 1
             /\ (cpc[c] = "released" <=> p = "released") => b' = b
             /\ cpc[c] # "taken" /\ p = "taken" => t' = t + 1
             /\ cpc[c] = "taken" /\ p # "taken" => t' = t - 1
             /\ (cpc[c] = "taken" <=> p = "taken") => t' = t
  <2>1. cpc'[c] = p /\ \A d \in Calls \ {c} : cpc'[d] = cpc[d]
    BY <1>3 DEF TypeOK
  <2>2. QED
    BY <1>0, <2>1, NumberMove
<1>4. ASSUME NEW w \in Workers, NEW p \in WorkerPCs, wpc' = [wpc EXCEPT ![w] = p]
      PROVE  /\ wpc[w] # "count" /\ p = "count" => a' = a + 1
             /\ wpc[w] = "count" /\ p # "count" => a' = a - 1
             /\ (wpc[w] = "count" <=> p = "count") => a' = a
  <2>1. wpc'[w] = p /\ \A v \in Workers \ {w} : wpc'[v] = wpc[v]
    BY <1>4 DEF TypeOK
  <2>2. QED
    BY <1>0, <2>1, NumberMove
<1>5. CounterOK' <=> Balance(count', a', b', l', t')
  BY DEF CounterOK
<1>6. ASSUME UNCHANGED <<count, queue>>, a' = a, b' = b, t' = t
      PROVE  CounterOK'
  BY <1>1, <1>5, <1>6
<1>7. ASSUME NEW c \in Calls, Take(c) PROVE CounterOK'
  <2>1. a' = a /\ b' = b /\ t' = t + 1
    BY <1>3, <1>7 DEF Take, CallPCs
  <2>2. l' = l - 1 /\ count' = count
    <3>1. queue \in Seq(Workers) /\ queue # <<>> /\ queue' = Tail(queue)
      BY <1>7 DEF Take, TypeOK
    <3>2. QED
      BY <1>7, <3>1 DEF Take
  <2>3. QED
    BY <1>2, <1>5, <2>1, <2>2
<1>8. ASSUME NEW c \in Calls, CountDown(c) PROVE CounterOK'
  <2>1. a' = a /\ b' = b /\ t' = t - 1
    BY <1>3, <1>8 DEF CountDown, CallPCs
  <2>2. l' = l /\ count' = WrapDec(count, CountMod)
    BY <1>8 DEF CountDown
  <2>3. QED
    BY <1>2, <1>5, <2>1, <2>2
<1>9. ASSUME NEW c \in Calls, ReleaseIndex(c) PROVE CounterOK'
  <2>1. a' = a /\ b' = b + 1 /\ t' = t
    BY <1>3, <1>9 DEF ReleaseIndex, CallPCs
  <2>2. l' = l + 1 /\ count' = count
    <3>1. queue \in Seq(Workers) /\ held[c] \in Workers /\ queue' = Append(queue, held[c])
      BY <1>9 DEF ReleaseIndex, TypeOK, HeldOK
    <3>2. QED
      BY <1>9, <3>1 DEF ReleaseIndex
  <2>3. QED
    BY <1>2, <1>5, <2>1, <2>2
<1>10. ASSUME NEW c \in Calls, ReleaseCount(c) PROVE CounterOK'
  <2>1. a' = a /\ b' = b - 1 /\ t' = t
    BY <1>3, <1>10 DEF ReleaseCount, CallPCs
  <2>2. l' = l /\ count' = WrapInc(count, CountMod)
    BY <1>10 DEF ReleaseCount
  <2>3. QED
    BY <1>2, <1>5, <2>1, <2>2
<1>11. ASSUME NEW w \in Workers, Return(w) PROVE CounterOK'
  <2>1. a' = a + 1 /\ b' = b /\ t' = t
    BY <1>4, <1>11 DEF Return, WorkerPCs
  <2>2. l' = l + 1 /\ count' = count
    <3>1. queue \in Seq(Workers) /\ queue' = Append(queue, w)
      BY <1>11 DEF Return, TypeOK
    <3>2. QED
      BY <1>11, <3>1 DEF Return
  <2>3. QED
    BY <1>2, <1>5, <2>1, <2>2
<1>12. ASSUME NEW w \in Workers, Reply(w) PROVE CounterOK'
  <2>1. a' = a - 1 /\ b' = b /\ t' = t
    BY <1>4, <1>12 DEF Reply, WorkerPCs
  <2>2. l' = l /\ count' = WrapInc(count, CountMod)
    BY <1>12 DEF Reply
  <2>3. QED
    BY <1>2, <1>5, <2>1, <2>2
<1>13. CASE DropPool \/ UNCHANGED vars \/ \E c \in Calls : ServeOrphan(c)
  <2>1. UNCHANGED <<count, queue, cpc, wpc>>
    BY <1>13 DEF DropPool, vars, ServeOrphan
  <2>2. QED
    BY <1>6, <2>1
<1>14. ASSUME NEW c \in Calls, Start(c) \/ Send(c) \/ SendRefused(c) \/ Receive(c) \/ Cancel(c)
       PROVE  CounterOK'
  <2>1. UNCHANGED <<count, queue, wpc>>
    BY <1>14 DEF Start, Send, SendRefused, Receive, Cancel
  <2>2. PICK p \in {"waiting", "sent", "release", "done", "cancelled"} :
          cpc' = [cpc EXCEPT ![c] = p]
    BY <1>14 DEF Start, Send, SendRefused, Receive, Cancel
  <2>3. cpc[c] \notin {"taken", "released"}
    BY <1>14, PoolAssumption DEF Start, Send, SendRefused, Receive, Cancel
  <2>4. b' = b /\ t' = t
    BY <1>3, <2>2, <2>3 DEF CallPCs
  <2>5. QED
    BY <1>6, <2>1, <2>4
<1>15. ASSUME NEW w \in Workers, IdleClose(w) \/ Connect(w) \/ Serve(w) \/ Break(w)
       PROVE  CounterOK'
  <2>1. UNCHANGED <<count, queue, cpc, wpc>>
    BY <1>15 DEF IdleClose, Connect, Serve, Break
  <2>2. QED
    BY <1>6, <2>1
<1>16. ASSUME NEW w \in Workers,
              RecvJob(w) \/ Shutdown(w) \/ ConnectFails(w) \/ Write(w) \/ ReadReply(w)
              \/ Interrupt(w) \/ ReturnRefused(w) \/ Stop(w)
       PROVE  CounterOK'
  <2>1. UNCHANGED <<count, queue, cpc>>
    BY <1>16 DEF RecvJob, Shutdown, ConnectFails, Write, ReadReply, Interrupt, ReturnRefused, Stop
  <2>2. PICK p \in {"exec", "await", "finish", "stopped"} : wpc' = [wpc EXCEPT ![w] = p]
    BY <1>16 DEF RecvJob, Shutdown, ConnectFails, Write, ReadReply, Interrupt, ExchangeFails,
       ReturnRefused, Stop
  <2>3. wpc[w] # "count"
    BY <1>16 DEF RecvJob, Shutdown, ConnectFails, Write, ReadReply, Interrupt, ReturnRefused, Stop
  <2>4. a' = a
    BY <1>4, <2>2, <2>3 DEF WorkerPCs
  <2>5. QED
    BY <1>6, <2>1, <2>4
<1>17. QED
  BY <1>7, <1>8, <1>9, <1>10, <1>11, <1>12, <1>13, <1>14, <1>15, <1>16
     DEF Next, CallStep, WorkerStep, Environment, Finished

(* available() is the number of indices in the channel, up to the updates  *)
(* its callers and workers still owe, after any number of calls, failures, *)
(* dropped futures and ended workers: no path takes an index without its   *)
(* decrement or puts one back without its increment.                       *)
THEOREM CountCorrect == Spec => []CountAccounts
<1>1. TypeOK /\ CounterOK => CountAccounts
  <2> SUFFICES ASSUME TypeOK, CounterOK PROVE CountAccounts
    OBVIOUS
  <2> DEFINE a == Number(Workers, wpc, "count")
             b == Number(Calls, cpc, "released")
             t == Number(Calls, cpc, "taken")
  <2>1. /\ a \in Nat /\ b \in Nat /\ t \in Nat
        /\ count \in Nat /\ Len(queue) \in Nat
    BY NumberNat, PoolAssumption DEF TypeOK
  <2>2. PICK k \in Int : count + a + b = Len(queue) + t + k * CountMod
    BY DEF CounterOK, Balance
  <2>3. (count + a + b) % CountMod = (Len(queue) + t) % CountMod
    <3> HIDE DEF a, b, t
    <3>1. CountMod \in Nat \ {0}
      BY WorkersCardinality
    <3>2. count + a + b \in Nat /\ Len(queue) + t \in Nat
      BY <2>1
    <3>3. QED
      BY <2>2, <3>1, <3>2, SameRemainder
  <2>4. QED
    BY <2>3 DEF CountAccounts, Number
<1>2. Spec => [](TypeOK /\ HeldOK /\ BusyOK /\ CounterOK)
  BY TypeInit, HeldInit, BusyInit, CounterInit, TypeNext, HeldNext, BusyNext, CounterNext, PTL DEF Spec
<1>3. QED
  BY <1>1, <1>2, PTL
=============================================================================
