------------------------- MODULE RndcPoolRefinement -------------------------
(***************************************************************************)
(* RndcPool implements CommandService, for every value of the constants:   *)
(* the invariants the refinement mapping needs, then the mapping of the    *)
(* initial states and of every step.                                       *)
(***************************************************************************)
EXTENDS RndcPoolProofs

-----------------------------------------------------------------------------
(* The unserved copies of a command on a stream.                           *)

Pending(s, c) == {i \in DOMAIN s : s[i].call = c /\ ~s[i].done}

LEMMA PendingFinite ==
  ASSUME NEW s \in Seq(Request), NEW c
  PROVE  /\ IsFiniteSet(Pending(s, c))
         /\ Unserved(s, c) = Cardinality(Pending(s, c)) /\ Unserved(s, c) \in Nat
<1>1. IsFiniteSet(1..Len(s))
  BY FS_Interval
<1>2. Pending(s, c) \in SUBSET (1..Len(s))
  BY DEF Pending
<1>3. Unserved(s, c) = Cardinality(Pending(s, c))
  BY DEF Unserved, Pending
<1>4. QED
  BY <1>1, <1>2, <1>3, FS_Subset, UnservedNat

LEMMA UnservedZero ==
  ASSUME NEW s \in Seq(Request), NEW c,
         \A i \in DOMAIN s : s[i].call = c => s[i].done
  PROVE  Unserved(s, c) = 0
<1>1. Pending(s, c) = {}
  BY DEF Pending
<1>2. QED
  BY <1>1, PendingFinite, FS_EmptySet

LEMMA UnservedEmpty ==
  ASSUME NEW c
  PROVE  Unserved(<<>>, c) = 0
<1>1. <<>> \in Seq(Request) /\ \A i \in DOMAIN <<>> : FALSE
  OBVIOUS
<1>2. QED
  BY <1>1, UnservedZero

LEMMA UnservedPositive ==
  ASSUME NEW s \in Seq(Request), NEW i \in DOMAIN s, ~s[i].done
  PROVE  Unserved(s, s[i].call) >= 1
<1> DEFINE P == Pending(s, s[i].call)
<1>1. i \in P
  BY DEF Pending
<1>2. P # {}
  BY <1>1
<1>3. Cardinality(P) # 0 /\ Unserved(s, s[i].call) = Cardinality(P) /\ Cardinality(P) \in Nat
  BY <1>2, PendingFinite, FS_EmptySet
<1>4. QED
  BY <1>3

(* A request written counts for its own call only. *)
LEMMA UnservedAppend ==
  ASSUME NEW s \in Seq(Request), NEW r \in Request, ~r.done, NEW c
  PROVE  Unserved(Append(s, r), c) = Unserved(s, c) + IF r.call = c THEN 1 ELSE 0
<1> DEFINE n == Len(s) + 1
           t == Append(s, r)
<1>1. /\ t \in Seq(Request) /\ DOMAIN t = DOMAIN s \cup {n} /\ n \notin DOMAIN s /\ t[n] = r
      /\ \A i \in DOMAIN s : t[i] = s[i]
  <2>1. /\ DOMAIN s = 1..Len(s) /\ Len(s) \in Nat /\ DOMAIN t = 1..n
        /\ t \in Seq(Request) /\ t[n] = r
        /\ \A i \in 1..Len(s) : t[i] = s[i]
    OBVIOUS
  <2>2. 1..n = (1..Len(s)) \cup {n} /\ n \notin 1..Len(s)
    BY <2>1
  <2>3. QED
    BY <2>1, <2>2
<1> HIDE DEF t, n
<1>2. IsFiniteSet(Pending(s, c)) /\ n \notin Pending(s, c)
  BY <1>1, PendingFinite DEF Pending
<1>3. /\ Unserved(t, c) = Cardinality(Pending(t, c))
      /\ Unserved(s, c) = Cardinality(Pending(s, c)) /\ Unserved(s, c) \in Nat
  BY <1>1, PendingFinite
<1>4. CASE r.call = c
  <2>1. Pending(t, c) = Pending(s, c) \cup {n}
    BY <1>1, <1>4 DEF Pending
  <2>2. Cardinality(Pending(t, c)) = Cardinality(Pending(s, c)) + 1
    BY <1>2, <2>1, FS_AddElement
  <2>3. QED
    BY <1>3, <1>4, <2>2 DEF t
<1>5. CASE r.call # c
  <2>1. Pending(t, c) = Pending(s, c)
    BY <1>1, <1>5 DEF Pending
  <2>2. Unserved(t, c) = Unserved(s, c) + 0
    BY <1>3, <2>1
  <2>3. QED
    BY <1>5, <2>2 DEF t
<1>6. QED
  BY <1>4, <1>5

(* Reading the reply of a request that was executed changes no count. *)
LEMMA UnservedTail ==
  ASSUME NEW s \in Seq(Request), s # <<>>, Head(s).done, NEW c
  PROVE  Tail(s) \in Seq(Request) /\ Unserved(Tail(s), c) = Unserved(s, c)
<1> DEFINE t == Tail(s)
           S == Pending(s, c)
           T == Pending(t, c)
           f == [i \in T |-> i + 1]
<1>1. /\ t \in Seq(Request) /\ DOMAIN s = 1..Len(s) /\ Len(s) \in Nat \ {0}
      /\ DOMAIN t = 1..(Len(s) - 1) /\ s[1].done
      /\ \A i \in 1..(Len(s) - 1) : t[i] = s[i + 1]
  OBVIOUS
<1>2. \A i \in T : i \in Nat /\ i + 1 \in S
  BY <1>1 DEF Pending
<1>3. \A i \in S : i \in Nat /\ i - 1 \in T /\ (i - 1) + 1 = i
  <2> SUFFICES ASSUME NEW i \in S PROVE i \in Nat /\ i - 1 \in T /\ (i - 1) + 1 = i
    OBVIOUS
  <2>1. i \in 1..Len(s) /\ s[i].call = c /\ ~s[i].done
    BY <1>1 DEF Pending
  <2>2. i # 1
    BY <1>1, <2>1
  <2>3. i - 1 \in 1..(Len(s) - 1) /\ (i - 1) + 1 = i
    BY <1>1, <2>1, <2>2
  <2>4. t[i - 1] = s[i]
    BY <1>1, <2>3
  <2>5. i - 1 \in T
    BY <1>1, <2>1, <2>3, <2>4 DEF Pending
  <2>6. QED
    BY <2>1, <2>3, <2>5
<1> HIDE DEF t, S, T
<1>4. f \in Bijection(T, S)
  <2>1. f \in [T -> S]
    BY <1>2
  <2>2. \A i, j \in T : f[i] = f[j] => i = j
    BY <1>2
  <2>3. \A j \in S : \E i \in T : f[i] = j
    BY <1>3
  <2>4. QED
    BY <2>1, <2>2, <2>3 DEF Bijection, Injection, IsInjective, Surjection
<1>5. IsFiniteSet(T) /\ Cardinality(S) = Cardinality(T)
  <2>1. IsFiniteSet(T)
    BY <1>1, PendingFinite DEF T
  <2>2. ExistsBijection(T, S)
    BY <1>4 DEF ExistsBijection
  <2>3. QED
    BY <2>1, <2>2, FS_Bijection
<1>6. QED
  BY <1>1, <1>5, PendingFinite DEF S, T, t

(* Executing a request takes its own call's count down by one. *)
LEMMA UnservedServe ==
  ASSUME NEW s \in Seq(Request), NEW i \in DOMAIN s, ~s[i].done, NEW c
  PROVE  Unserved([s EXCEPT ![i].done = TRUE], c)
         = Unserved(s, c) - IF s[i].call = c THEN 1 ELSE 0
<1> DEFINE t == [s EXCEPT ![i].done = TRUE]
<1>0. s[i] \in Request
  OBVIOUS
<1>1. [s[i] EXCEPT !.done = TRUE] \in Request
  BY <1>0 DEF Request
<1>2. /\ t \in Seq(Request) /\ DOMAIN t = DOMAIN s
      /\ t[i] = [s[i] EXCEPT !.done = TRUE]
      /\ \A j \in DOMAIN s \ {i} : t[j] = s[j]
  BY <1>1
<1>3. t[i].call = s[i].call /\ t[i].done
  BY <1>0, <1>2 DEF Request
<1> HIDE DEF t
<1>4. /\ Unserved(t, c) = Cardinality(Pending(t, c))
      /\ Unserved(s, c) = Cardinality(Pending(s, c)) /\ Unserved(s, c) \in Nat
      /\ IsFiniteSet(Pending(s, c))
  BY <1>2, PendingFinite
<1>5. CASE s[i].call = c
  <2>1. Pending(t, c) = Pending(s, c) \ {i} /\ i \in Pending(s, c)
    BY <1>2, <1>3, <1>5 DEF Pending
  <2>2. Cardinality(Pending(t, c)) = Cardinality(Pending(s, c)) - 1
    BY <1>4, <2>1, FS_RemoveElement
  <2>3. QED
    BY <1>4, <1>5, <2>2 DEF t
<1>6. CASE s[i].call # c
  <2>1. Pending(t, c) = Pending(s, c)
    BY <1>2, <1>3, <1>6 DEF Pending
  <2>2. Unserved(t, c) = Unserved(s, c) - 0
    BY <1>4, <2>1
  <2>3. QED
    BY <1>6, <2>2 DEF t
<1>7. QED
  BY <1>5, <1>6

-----------------------------------------------------------------------------
(* Where a command is.                                                     *)

Working(w) == wpc[w] \in {"exec", "await", "finish", "count"}
InHands(c, w) == inbox[w] = c \/ (Working(w) /\ cur[w] = c)

(* A call holds no index before its turn and has no answer before its      *)
(* command is handed over; a command is in the hands of the worker whose   *)
(* index its call took, once, and its call has not been answered.          *)
StageOK ==
  /\ \A c \in Calls :
       /\ cpc[c] \in {"idle", "waiting"} => held[c] = None
       /\ cpc[c] \in {"idle", "waiting", "taken", "sending"} => reply[c] = None
       /\ \A w \in Workers : InHands(c, w) =>
            held[c] = w /\ cpc[c] \in {"sent", "cancelled"} /\ reply[c] = None
  /\ \A w \in Workers : inbox[w] # None /\ Working(w) => inbox[w] # cur[w]

LEMMA StageInit == Init => StageOK
BY PoolAssumption DEF Init, StageOK, InHands, Working

(* Steps that put no command in new hands and answer none.                 *)
LEMMA StageFrame ==
  ASSUME StageOK,
         \A c \in Calls : held'[c] = held[c] /\ reply'[c] = reply[c] /\ cpc'[c] = cpc[c],
         \A w \in Workers : inbox'[w] = inbox[w] \/ inbox'[w] = None,
         \A w \in Workers : Working(w)' => Working(w) /\ cur'[w] = cur[w]
  PROVE  StageOK'
<1>1. ASSUME NEW c \in Calls, NEW w \in Workers, InHands(c, w)' PROVE InHands(c, w)
  BY <1>1, PoolAssumption DEF InHands
<1>2. \A w \in Workers : inbox'[w] # None /\ Working(w)' => inbox'[w] # cur'[w]
  BY DEF StageOK
<1>3. QED
  BY <1>1, <1>2 DEF StageOK

LEMMA StageNext ==
  TypeOK /\ HeldOK /\ BusyOK /\ TokenOK /\ StageOK /\ [Next]_vars => StageOK'
<1> SUFFICES ASSUME TypeOK, HeldOK, BusyOK, TokenOK, StageOK, [Next]_vars PROVE StageOK'
  OBVIOUS
<1> USE DEF callVars, tokenVars, connVars, workVars, serverVars
(* A caller that moves while no worker has its command. *)
<1>1. ASSUME NEW c \in Calls, UNCHANGED <<inbox, wpc, cur>>,
             cpc[c] \notin {"sent", "cancelled"} \/ reply[c] # None,
             \A d \in Calls \ {c} : held'[d] = held[d] /\ reply'[d] = reply[d] /\ cpc'[d] = cpc[d],
             cpc'[c] \in {"idle", "waiting"} => held'[c] = None,
             cpc'[c] \in {"idle", "waiting", "taken", "sending"} => reply'[c] = None
      PROVE  StageOK'
  <2>1. \A d \in Calls, w \in Workers : InHands(d, w)' <=> InHands(d, w)
    BY <1>1 DEF InHands, Working
  <2>2. \A w \in Workers : ~InHands(c, w)
    BY <1>1 DEF StageOK
  <2>3. \A w \in Workers : Working(w)' <=> Working(w)
    BY <1>1 DEF Working
  <2>4. QED
    BY <1>1, <2>1, <2>2, <2>3 DEF StageOK
<1>2. ASSUME NEW c \in Calls, Start(c) PROVE StageOK'
  <2>1. \A d \in Calls \ {c} : held'[d] = held[d] /\ reply'[d] = reply[d] /\ cpc'[d] = cpc[d]
    BY <1>2 DEF Start, TypeOK
  <2>2. cpc[c] = "idle" /\ cpc'[c] = "waiting" /\ held'[c] = None /\ reply'[c] = None
    BY <1>2 DEF Start, TypeOK, StageOK
  <2>3. QED
    BY <1>1, <1>2, <2>1, <2>2 DEF Start
<1>3. ASSUME NEW c \in Calls, Take(c) PROVE StageOK'
  <2>1. \A d \in Calls \ {c} : held'[d] = held[d] /\ reply'[d] = reply[d] /\ cpc'[d] = cpc[d]
    BY <1>3 DEF Take, TypeOK
  <2>2. cpc[c] = "waiting" /\ cpc'[c] = "taken" /\ reply'[c] = None
    BY <1>3 DEF Take, TypeOK, StageOK
  <2>3. QED
    BY <1>1, <1>3, <2>1, <2>2 DEF Take
<1>4. ASSUME NEW c \in Calls,
             CountDown(c) \/ SendRefused(c) \/ ReleaseIndex(c) \/ ReleaseCount(c) \/ Receive(c)
      PROVE  StageOK'
  <2>1. \A d \in Calls \ {c} : held'[d] = held[d] /\ reply'[d] = reply[d] /\ cpc'[d] = cpc[d]
    BY <1>4 DEF CountDown, SendRefused, ReleaseIndex, ReleaseCount, Receive, TypeOK
  <2>2. cpc[c] \notin {"sent", "cancelled"} \/ reply[c] # None
    BY <1>4 DEF CountDown, SendRefused, ReleaseIndex, ReleaseCount, Receive
  <2>3. /\ cpc'[c] \notin {"idle", "waiting"}
        /\ cpc'[c] \in {"taken", "sending"} => reply'[c] = None
    BY <1>4 DEF CountDown, SendRefused, ReleaseIndex, ReleaseCount, Receive, TypeOK, StageOK
  <2>4. UNCHANGED <<inbox, wpc, cur>>
    BY <1>4 DEF CountDown, SendRefused, ReleaseIndex, ReleaseCount, Receive
  <2>5. QED
    BY <1>1, <2>1, <2>2, <2>3, <2>4
<1>5. ASSUME NEW c \in Calls, Send(c) PROVE StageOK'
  <2> DEFINE u == held[c]
  <2>1. /\ u \in Workers /\ cpc[c] = "sending" /\ cpc'[c] = "sent" /\ inbox[u] = None
        /\ inbox'[u] = c /\ \A w \in Workers \ {u} : inbox'[w] = inbox[w]
        /\ \A d \in Calls \ {c} : cpc'[d] = cpc[d]
        /\ UNCHANGED <<held, reply, wpc, cur>>
    BY <1>5 DEF Send, HeldOK, TypeOK
  <2>2. \A w \in Workers : ~InHands(c, w) /\ (Working(w)' <=> Working(w))
    BY <2>1 DEF StageOK, Working
  <2>3. \A d \in Calls \ {c}, w \in Workers : InHands(d, w)' => InHands(d, w)
    BY <2>1, <2>2 DEF InHands
  <2>4. \A w \in Workers : InHands(c, w)' => w = u
    BY <2>1, <2>2 DEF InHands
  <2>5. reply[c] = None
    BY <2>1 DEF StageOK
  <2>6. \A w \in Workers : inbox'[w] # None /\ Working(w)' => inbox'[w] # cur'[w]
    BY <2>1, <2>2 DEF StageOK, InHands
  <2>7. QED
    BY <2>1, <2>3, <2>4, <2>5, <2>6 DEF StageOK
<1>6. ASSUME NEW c \in Calls, Cancel(c) PROVE StageOK'
  <2>1. /\ cpc'[c] = "cancelled" /\ \A d \in Calls \ {c} : cpc'[d] = cpc[d]
        /\ UNCHANGED <<held, reply, inbox, wpc, cur>>
    BY <1>6 DEF Cancel, TypeOK
  <2>2. /\ \A d \in Calls, w \in Workers : InHands(d, w)' <=> InHands(d, w)
        /\ \A w \in Workers : Working(w)' <=> Working(w)
    BY <2>1 DEF InHands, Working
  <2>3. QED
    BY <2>1, <2>2 DEF StageOK
(* A worker takes its job: it changes hands, and it was idle. *)
<1>7. ASSUME NEW w \in Workers, RecvJob(w) PROVE StageOK'
  <2>1. /\ wpc[w] = "recv" /\ inbox'[w] = None /\ cur'[w] = inbox[w]
        /\ \A v \in Workers \ {w} : inbox'[v] = inbox[v] /\ wpc'[v] = wpc[v] /\ cur'[v] = cur[v]
        /\ UNCHANGED <<cpc, held, reply>>
    BY <1>7 DEF RecvJob, TypeOK
  <2>2. \A d \in Calls, v \in Workers : InHands(d, v)' => InHands(d, v)
    BY <2>1, PoolAssumption DEF InHands, Working
  <2>3. \A v \in Workers : inbox'[v] # None /\ Working(v)' => inbox'[v] # cur'[v]
    BY <2>1 DEF StageOK, Working
  <2>4. QED
    BY <2>1, <2>2, <2>3 DEF StageOK
(* A worker goes on with its command, or ends without one. *)
<1>8. ASSUME NEW w \in Workers, wpc'[w] \in WorkerPCs, Working(w) \/ wpc'[w] = "stopped",
             \A v \in Workers \ {w} : wpc'[v] = wpc[v],
             UNCHANGED <<cpc, held, reply, inbox, cur>>
      PROVE  StageOK'
  <2>1. \A v \in Workers : Working(v)' => Working(v) /\ cur'[v] = cur[v]
    BY <1>8 DEF Working
  <2>2. QED
    BY <1>8, <2>1, StageFrame
<1>9. ASSUME NEW w \in Workers,
             Shutdown(w) \/ ConnectFails(w) \/ Write(w) \/ ReadReply(w) \/ Interrupt(w) \/ Return(w)
      PROVE  StageOK'
  <2>1. UNCHANGED <<cpc, held, reply, inbox, cur>>
    BY <1>9 DEF Shutdown, ConnectFails, Write, ReadReply, Interrupt, Return
  <2>2. Working(w) \/ wpc'[w] = "stopped"
    BY <1>9 DEF Shutdown, ConnectFails, Write, ReadReply, Interrupt, Return, Working, TypeOK
  <2>3. /\ \A v \in Workers \ {w} : wpc'[v] = wpc[v]
        /\ wpc'[w] \in WorkerPCs
    BY <1>9 DEF Shutdown, ConnectFails, Write, ReadReply, Interrupt, ExchangeFails, Return,
       TypeOK, WorkerPCs
  <2>4. QED
    BY <1>8, <2>1, <2>2, <2>3
(* A worker answers: the command leaves its hands with the answer. *)
<1>10. ASSUME NEW w \in Workers, NEW c \in Calls, cur[w] = c, Working(w),
              inbox[w] # c, ~Working(w)',
              \A d \in Calls \ {c} : reply'[d] = reply[d],
              \A v \in Workers \ {w} : wpc'[v] = wpc[v] /\ cur'[v] = cur[v],
              \A v \in Workers : inbox'[v] = inbox[v] \/ inbox'[v] = None,
              UNCHANGED <<cpc, held>>
       PROVE  StageOK'
  <2>1. /\ held[c] = w /\ cpc[c] \in {"sent", "cancelled"}
        /\ \A v \in Workers \ {w} : ~InHands(c, v)
    BY <1>10 DEF StageOK, InHands
  <2>2. \A d \in Calls, v \in Workers : InHands(d, v)' => InHands(d, v) /\ d # c
    <3> SUFFICES ASSUME NEW d \in Calls, NEW v \in Workers, InHands(d, v)'
                 PROVE  InHands(d, v) /\ d # c
      OBVIOUS
    <3>1. CASE v = w
      BY <1>10, <3>1, PoolAssumption DEF InHands
    <3>2. CASE v # w
      <4>1. InHands(d, v)
        BY <1>10, <3>2, PoolAssumption DEF InHands, Working
      <4>2. QED
        BY <2>1, <3>2, <4>1
    <3>3. QED
      BY <3>1, <3>2
  <2>3. \A v \in Workers : inbox'[v] # None /\ Working(v)' => inbox'[v] # cur'[v]
    BY <1>10 DEF StageOK, Working
  <2>4. QED
    BY <1>10, <2>1, <2>2, <2>3 DEF StageOK
<1>11. ASSUME NEW w \in Workers, ReturnRefused(w) \/ Reply(w) PROVE StageOK'
  <2> DEFINE c == cur[w]
  <2>1. c \in Calls /\ Working(w)
    BY <1>11 DEF ReturnRefused, Reply, BusyOK, Working
  <2>2. inbox[w] # c
    BY <2>1, PoolAssumption DEF StageOK
  <2>3. ~Working(w)'
    BY <1>11 DEF ReturnRefused, Reply, Working, TypeOK
  <2>4. \A d \in Calls \ {c} : reply'[d] = reply[d]
    BY <1>11 DEF ReturnRefused, Reply, TypeOK
  <2>5. \A v \in Workers \ {w} : wpc'[v] = wpc[v] /\ cur'[v] = cur[v]
    BY <1>11 DEF ReturnRefused, Reply, TypeOK
  <2>6. UNCHANGED <<cpc, held, inbox>>
    BY <1>11 DEF ReturnRefused, Reply
  <2>7. QED
    BY <1>10, <2>1, <2>2, <2>3, <2>4, <2>5, <2>6
<1>12. ASSUME NEW w \in Workers, Stop(w) PROVE StageOK'
  <2>1. /\ wpc'[w] = "stopped" /\ inbox'[w] = None /\ UNCHANGED <<cpc, held, cur>>
        /\ \A v \in Workers \ {w} : wpc'[v] = wpc[v] /\ inbox'[v] = inbox[v]
    BY <1>12 DEF Stop, TypeOK
  <2>2. \A d \in Calls : reply'[d] # reply[d] => InHands(d, w)
    BY <1>12 DEF Stop, TypeOK, InHands, Busy, Working
  <2>3. \A d \in Calls, v \in Workers : InHands(d, v)' => InHands(d, v) /\ v # w
    BY <2>1, PoolAssumption DEF InHands, Working
  <2>4. \A d \in Calls, v \in Workers : InHands(d, v)' => ~InHands(d, w)
    BY <2>3 DEF StageOK
  <2>5. \A v \in Workers : inbox'[v] # None /\ Working(v)' => inbox'[v] # cur'[v]
    BY <2>1 DEF StageOK, Working
  <2>6. \A d \in Calls : cpc[d] \in {"idle", "waiting", "taken", "sending"} => reply'[d] = reply[d]
    BY <2>2 DEF StageOK
  <2>7. QED
    BY <2>1, <2>2, <2>3, <2>4, <2>5, <2>6 DEF StageOK
<1>13. CASE \/ DropPool \/ UNCHANGED vars \/ \E c \in Calls : ServeOrphan(c)
            \/ \E w \in Workers : IdleClose(w) \/ Connect(w) \/ Serve(w) \/ Break(w)
  <2>1. UNCHANGED <<cpc, held, reply, inbox, wpc, cur>>
    BY <1>13 DEF DropPool, vars, ServeOrphan, IdleClose, Connect, Serve, Break
  <2>2. QED
    BY <2>1, StageFrame DEF Working
<1>14. QED
  BY <1>2, <1>3, <1>4, <1>5, <1>6, <1>7, <1>9, <1>11, <1>12, <1>13
     DEF Next, CallStep, WorkerStep, Environment, Finished

-----------------------------------------------------------------------------
(* How often a command can still be run.                                   *)

(* The copies of the command of c that its worker w may still write. *)
Left(c, w) ==
  IF Holding(c) \/ inbox[w] = c THEN 2
  ELSE IF cur[w] # c THEN 0
  ELSE IF wpc[w] = "exec" THEN 2 - attempt[w]
  ELSE IF wpc[w] = "await" THEN 1 - attempt[w]
  ELSE 0

Total(c, w) == executed[c] + orphan[c] + Unserved(wire[w], c) + Left(c, w)

(* Requests are only on the stream of the worker their call was lent; what *)
(* was run, what is left on abandoned connections, what is unread and what *)
(* may still be written come to two at most.                               *)
OnWire == \A w \in Workers : \A i \in DOMAIN wire[w] : held[wire[w][i].call] = w
RunsOK ==
  /\ OnWire
  /\ \A c \in Calls : held[c] = None => executed[c] = 0 /\ orphan[c] = 0
  /\ \A c \in Calls, w \in Workers : held[c] = w => Total(c, w) <= 2

LEMMA LeftNat ==
  ASSUME NEW c \in Calls, NEW w \in Workers
  PROVE  /\ TypeOK => Left(c, w) \in 0..2
         /\ TypeOK' => Left(c, w)' \in 0..2
<1>1. TypeOK => attempt[w] \in 0..1
  BY DEF TypeOK
<1>2. TypeOK' => attempt'[w] \in 0..1
  BY DEF TypeOK
<1>3. QED
  BY <1>1, <1>2 DEF Left

LEMMA RunsInit == Init => RunsOK
<1> SUFFICES ASSUME Init PROVE RunsOK
  OBVIOUS
<1>1. OnWire
  BY DEF Init, OnWire
<1>2. \A c \in Calls : held[c] = None /\ executed[c] = 0 /\ orphan[c] = 0
  BY DEF Init
<1>3. QED
  BY <1>1, <1>2, PoolAssumption DEF RunsOK

(* A stream without requests of a call counts none for it. *)
LEMMA ElsewhereZero ==
  ASSUME TypeOK, OnWire, NEW c \in Calls, NEW w \in Workers, held[c] # w
  PROVE  Unserved(wire[w], c) = 0
<1>1. wire[w] \in Seq(Request)
  BY DEF TypeOK
<1>2. \A i \in DOMAIN wire[w] : wire[w][i].call # c
  BY DEF OnWire
<1>3. QED
  BY <1>1, <1>2, UnservedZero

(* The numbers of one call do not grow in total. *)
LEMMA RunsStep ==
  ASSUME RunsOK, OnWire', held' = held,
         \A c \in Calls : held[c] = None => executed'[c] = executed[c] /\ orphan'[c] = orphan[c],
         \A c \in Calls, w \in Workers : held[c] = w => Total(c, w)' <= Total(c, w),
         \A c \in Calls, w \in Workers : Total(c, w) \in Int /\ Total(c, w)' \in Int
  PROVE  RunsOK'
<1>1. ASSUME NEW c \in Calls, NEW w \in Workers, held[c] = w PROVE Total(c, w)' <= 2
  <2>1. Total(c, w)' <= Total(c, w) /\ Total(c, w) <= 2 /\ Total(c, w) \in Int /\ Total(c, w)' \in Int
    BY <1>1 DEF RunsOK
  <2>2. QED
    BY <2>1
<1>2. QED
  BY <1>1 DEF RunsOK

LEMMA TotalNat ==
  ASSUME TypeOK, NEW c \in Calls, NEW w \in Workers
  PROVE  /\ executed[c] \in Nat /\ orphan[c] \in Nat /\ Unserved(wire[w], c) \in Nat
         /\ Left(c, w) \in Nat /\ Total(c, w) \in Nat
<1>1. executed[c] \in Nat /\ orphan[c] \in Nat /\ wire[w] \in Seq(Request)
  BY DEF TypeOK
<1>2. Unserved(wire[w], c) \in Nat /\ Left(c, w) \in Nat
  BY <1>1, UnservedNat, LeftNat
<1>3. QED
  BY <1>1, <1>2 DEF Total

(* Steps of callers and of the pool's owner: the streams stay as they are. *)
LEMMA RunsCaller ==
  ASSUME TypeOK, TypeOK', RunsOK, UNCHANGED <<held, wire, executed, orphan>>,
         \A c \in Calls, w \in Workers : Left(c, w)' <= Left(c, w)
  PROVE  RunsOK'
<1>1. OnWire'
  BY DEF RunsOK, OnWire
<1>2. ASSUME NEW c \in Calls, NEW w \in Workers
      PROVE  Total(c, w) \in Int /\ Total(c, w)' \in Int /\ Total(c, w)' <= Total(c, w)
  <2>1. executed'[c] = executed[c] /\ orphan'[c] = orphan[c]
        /\ Unserved(wire'[w], c) = Unserved(wire[w], c)
    OBVIOUS
  <2>2. /\ executed[c] \in Nat /\ orphan[c] \in Nat /\ Unserved(wire[w], c) \in Nat
        /\ Left(c, w) \in Nat /\ Left(c, w)' \in Nat
    <3>1. Left(c, w)' \in 0..2
      BY LeftNat
    <3>2. QED
      BY <3>1, TotalNat
  <2>3. Left(c, w)' <= Left(c, w)
    OBVIOUS
  <2>4. QED
    BY <2>1, <2>2, <2>3 DEF Total
<1>3. QED
  BY <1>1, <1>2, RunsStep

(* Steps at one worker: only its own calls and its own stream change. *)
LEMMA RunsWorker ==
  ASSUME TypeOK, TypeOK', RunsOK, UNCHANGED <<cpc, held>>, NEW w \in Workers,
         \A v \in Workers \ {w} : /\ wire'[v] = wire[v] /\ inbox'[v] = inbox[v]
                                  /\ wpc'[v] = wpc[v] /\ cur'[v] = cur[v]
                                  /\ attempt'[v] = attempt[v],
         \A c \in Calls : held[c] # w => executed'[c] = executed[c] /\ orphan'[c] = orphan[c],
         \A c \in Calls : held[c] = w => Total(c, w)' <= Total(c, w),
         \A i \in DOMAIN wire'[w] : held[wire'[w][i].call] = w
  PROVE  RunsOK'
<1>1. OnWire'
  BY DEF RunsOK, OnWire
<1>2. \A c \in Calls, v \in Workers : Total(c, v) \in Nat /\ Total(c, v)' \in Nat
  <2> SUFFICES ASSUME NEW c \in Calls, NEW v \in Workers
               PROVE  Total(c, v) \in Nat /\ Total(c, v)' \in Nat
    OBVIOUS
  <2>1. wire'[v] \in Seq(Request) /\ executed'[c] \in Nat /\ orphan'[c] \in Nat
    BY DEF TypeOK
  <2>2. Unserved(wire'[v], c) \in Nat /\ Left(c, v)' \in 0..2
    BY <2>1, UnservedNat, LeftNat
  <2>3. Total(c, v)' \in Nat
    BY <2>1, <2>2 DEF Total
  <2>4. QED
    BY <2>3, TotalNat
<1>3. ASSUME NEW c \in Calls, NEW v \in Workers, held[c] = v
      PROVE  Total(c, v)' <= Total(c, v)
  <2>1. CASE v = w
    BY <1>3, <2>1
  <2>2. CASE v # w
    <3>1. executed'[c] = executed[c] /\ orphan'[c] = orphan[c]
          /\ Unserved(wire'[v], c) = Unserved(wire[v], c)
      BY <1>3, <2>2
    <3>2. Left(c, v)' = Left(c, v)
      BY <2>2 DEF Left, Holding
    <3>3. Total(c, v)' = Total(c, v)
      BY <3>1, <3>2 DEF Total
    <3>4. QED
      BY <1>2, <3>3
  <2>3. QED
    BY <2>1, <2>2
<1>4. \A c \in Calls : held[c] = None => executed'[c] = executed[c] /\ orphan'[c] = orphan[c]
  BY PoolAssumption
<1>5. QED
  BY <1>1, <1>2, <1>3, <1>4, RunsStep

(* A dropped connection moves its unserved copies to the orphans. *)
LEMMA RunsDiscard ==
  ASSUME TypeOK, TypeOK', RunsOK, UNCHANGED <<cpc, held, executed>>, NEW w \in Workers,
         \A v \in Workers \ {w} : /\ wire'[v] = wire[v] /\ inbox'[v] = inbox[v]
                                  /\ wpc'[v] = wpc[v] /\ cur'[v] = cur[v]
                                  /\ attempt'[v] = attempt[v],
         \A c \in Calls : /\ orphan'[c] = orphan[c] + Unserved(wire[w], c)
                          /\ Unserved(wire'[w], c) = 0,
         \A i \in DOMAIN wire'[w] : held[wire'[w][i].call] = w,
         \A c \in Calls : held[c] = w => Left(c, w)' <= Left(c, w)
  PROVE  RunsOK'
<1>1. ASSUME NEW c \in Calls, held[c] # w PROVE executed'[c] = executed[c] /\ orphan'[c] = orphan[c]
  <2>1. Unserved(wire[w], c) = 0 /\ orphan[c] \in Nat
    BY <1>1, ElsewhereZero, TotalNat DEF RunsOK
  <2>2. orphan'[c] = orphan[c] + Unserved(wire[w], c)
    OBVIOUS
  <2>3. QED
    BY <2>1, <2>2
<1>2. ASSUME NEW c \in Calls, held[c] = w PROVE Total(c, w)' <= Total(c, w)
  <2>1. /\ executed[c] \in Nat /\ orphan[c] \in Nat /\ Unserved(wire[w], c) \in Nat
        /\ Left(c, w) \in Nat
    BY TotalNat
  <2>2. Left(c, w)' \in 0..2
    BY LeftNat
  <2>3. /\ executed'[c] = executed[c] /\ orphan'[c] = orphan[c] + Unserved(wire[w], c)
        /\ Unserved(wire'[w], c) = 0 /\ Left(c, w)' <= Left(c, w)
    BY <1>2
  <2>4. QED
    BY <2>1, <2>2, <2>3 DEF Total
<1>3. QED
  BY <1>1, <1>2, RunsWorker

(* Steps of one worker that leave the streams and named alone. *)
LEMMA RunsQuiet ==
  ASSUME TypeOK, TypeOK', RunsOK, UNCHANGED <<cpc, held, wire, executed, orphan>>,
         NEW w \in Workers,
         \A v \in Workers \ {w} : /\ inbox'[v] = inbox[v] /\ wpc'[v] = wpc[v]
                                  /\ cur'[v] = cur[v] /\ attempt'[v] = attempt[v],
         \A c \in Calls : Left(c, w)' <= Left(c, w)
  PROVE  RunsOK'
<1>1. \A c \in Calls, v \in Workers : Left(c, v)' <= Left(c, v)
  <2> SUFFICES ASSUME NEW c \in Calls, NEW v \in Workers, v # w
               PROVE  Left(c, v)' <= Left(c, v)
    OBVIOUS
  <2>1. Left(c, v)' = Left(c, v)
    BY DEF Left, Holding
  <2>2. Left(c, v) \in 0..2
    BY LeftNat
  <2>3. QED
    BY <2>1, <2>2
<1>2. QED
  BY <1>1, RunsCaller

LEMMA RunsCalls ==
  ASSUME TypeOK, TypeOK', HeldOK, StageOK, RunsOK,
         NEW c \in Calls, Start(c) \/ CallStep(c) \/ Cancel(c)
  PROVE  RunsOK'
<1> USE DEF callVars, tokenVars, connVars, workVars, serverVars
<1>1. CASE Start(c) \/ CountDown(c) \/ SendRefused(c) \/ ReleaseIndex(c) \/ ReleaseCount(c)
           \/ Receive(c) \/ Cancel(c)
  <2>1. UNCHANGED <<held, wire, executed, orphan, inbox, wpc, cur, attempt>>
    BY <1>1 DEF Start, CountDown, SendRefused, ReleaseIndex, ReleaseCount, Receive, Cancel
  <2>2. \A d \in Calls : Holding(d)' => Holding(d)
    BY <1>1 DEF TypeOK, Holding, Start, CountDown, SendRefused, ReleaseIndex, ReleaseCount,
       Receive, Cancel
  <2>3. ASSUME NEW d \in Calls, NEW w \in Workers PROVE Left(d, w)' <= Left(d, w)
    <3>1. Left(d, w)' = Left(d, w) \/ Left(d, w) = 2
      BY <2>1, <2>2 DEF Left
    <3>2. QED
      BY <3>1, LeftNat
  <2>4. QED
    BY <2>1, <2>3, RunsCaller
<1>2. CASE Send(c)
  <2>1. UNCHANGED <<held, wire, executed, orphan, wpc, cur, attempt>> /\ Holding(c)
        /\ held[c] \in Workers /\ inbox' = [inbox EXCEPT ![held[c]] = c]
    BY <1>2 DEF Send, Holding, HeldOK
  <2>2. \A d \in Calls : Holding(d)' => Holding(d)
    BY <1>2 DEF TypeOK, Holding, Send
  <2>3. ASSUME NEW d \in Calls, NEW w \in Workers PROVE Left(d, w)' <= Left(d, w)
    <3>1. d # c /\ inbox'[w] = d => inbox[w] = d
      BY <2>1 DEF TypeOK
    <3>2. Left(d, w)' = Left(d, w) \/ Left(d, w) = 2 \/ Left(d, w)' = 0
      <4>1. CASE d = c
        BY <2>1, <4>1 DEF Left
      <4>2. CASE d # c
        <5>1. Holding(d)' => Holding(d)
          BY <2>2
        <5>2. UNCHANGED <<wpc, cur, attempt>>
          BY <2>1
        <5>3. QED
          BY <3>1, <4>2, <5>1, <5>2 DEF Left
      <4>3. QED
        BY <4>1, <4>2
    <3>3. QED
      BY <3>2, LeftNat
  <2>4. QED
    BY <2>1, <2>3, RunsCaller
<1>3. CASE Take(c)
  <2>1. /\ UNCHANGED <<wire, executed, orphan, inbox, wpc, cur, attempt>>
        /\ \A d \in Calls \ {c} : held'[d] = held[d] /\ cpc'[d] = cpc[d]
        /\ held[c] = None
    BY <1>3 DEF Take, TypeOK, StageOK
  <2>2. /\ executed[c] = 0 /\ orphan[c] = 0
        /\ \A w \in Workers : held[c] # w /\ Unserved(wire[w], c) = 0
    BY <2>1, PoolAssumption, ElsewhereZero DEF RunsOK
  <2>3. OnWire'
    <3>1. ASSUME NEW w \in Workers, NEW i \in DOMAIN wire[w] PROVE held'[wire[w][i].call] = w
      <4>1. wire[w][i] \in Request /\ held[wire[w][i].call] = w
        BY DEF TypeOK, RunsOK, OnWire
      <4>2. wire[w][i].call \in Calls \ {c}
        BY <2>2, <4>1 DEF Request
      <4>3. QED
        BY <2>1, <4>1, <4>2
    <3>2. QED
      BY <2>1, <3>1 DEF OnWire
  <2>4. \A d \in Calls : held'[d] = None => executed'[d] = 0 /\ orphan'[d] = 0
    BY <2>1, <2>2 DEF RunsOK
  <2>5. ASSUME NEW d \in Calls, NEW w \in Workers, held'[d] = w PROVE Total(d, w)' <= 2
    <3>1. CASE d = c
      <4>1. /\ executed'[d] = 0 /\ orphan'[d] = 0 /\ Unserved(wire'[w], d) = 0
            /\ Left(d, w)' \in 0..2
        BY <2>1, <2>2, <3>1, LeftNat
      <4>2. QED
        BY <4>1 DEF Total
    <3>2. CASE d # c
      <4>1. Holding(d)' <=> Holding(d)
        BY <2>1, <3>2 DEF Holding
      <4>2. Left(d, w)' = Left(d, w)
        BY <2>1, <4>1 DEF Left
      <4>3. Total(d, w)' = Total(d, w)
        BY <2>1, <4>2 DEF Total
      <4>4. held[d] = w
        BY <2>1, <2>5, <3>2
      <4>5. QED
        BY <4>3, <4>4 DEF RunsOK
    <3>3. QED
      BY <3>1, <3>2
  <2>6. QED
    BY <2>3, <2>4, <2>5 DEF RunsOK
<1>4. QED
  BY <1>1, <1>2, <1>3 DEF CallStep

(* What ends an exchange without an answer: the copies move, none is added. *)
LEMMA RunsExchangeFails ==
  ASSUME TypeOK, TypeOK', BusyOK, StageOK, RunsOK, UNCHANGED <<cpc, held, executed, inbox, cur>>,
         NEW w \in Workers, wpc[w] = "await", NEW rest \in Seq(Request), ExchangeFails(w, rest),
         \A v \in Workers \ {w} : /\ wire'[v] = wire[v] /\ inbox'[v] = inbox[v]
                                  /\ wpc'[v] = wpc[v] /\ cur'[v] = cur[v]
                                  /\ attempt'[v] = attempt[v],
         \A c \in Calls : Unserved(rest, c) = Unserved(wire[w], c),
         \A i \in DOMAIN rest : held[rest[i].call] = w
  PROVE  RunsOK'
<1>1. CASE attempt[w] = 0
  <2>1. /\ attempt'[w] = 1 /\ wpc'[w] = "exec" /\ wire'[w] = <<>>
        /\ \A c \in Calls : orphan'[c] = orphan[c] + Unserved(rest, c)
    BY <1>1 DEF ExchangeFails, Discard, TypeOK
  <2>2. \A c \in Calls : orphan'[c] = orphan[c] + Unserved(wire[w], c)
    BY <2>1
  <2>3. \A c \in Calls : Unserved(wire'[w], c) = 0
    BY <2>1, UnservedEmpty
  <2>4. ASSUME NEW c \in Calls PROVE Left(c, w)' <= Left(c, w)
    <3>1. Left(c, w)' = Left(c, w)
      <4>1. Holding(c)' <=> Holding(c)
        BY DEF Holding
      <4>2. 2 - attempt'[w] = 1 /\ 1 - attempt[w] = 1
        BY <1>1, <2>1
      <4>3. QED
        BY <2>1, <4>1, <4>2 DEF Left
    <3>2. QED
      BY <3>1, LeftNat
  <2>5. QED
    BY <2>1, <2>2, <2>3, <2>4, RunsDiscard
<1>2. CASE attempt[w] = 1
  <2>1. wpc'[w] = "finish" /\ wire'[w] = rest /\ UNCHANGED <<attempt, orphan>>
    BY <1>2 DEF ExchangeFails, TypeOK
  <2>2. ASSUME NEW c \in Calls PROVE Total(c, w)' <= Total(c, w)
    <3>1. Left(c, w)' <= Left(c, w) /\ Left(c, w)' \in Nat
      <4>1. Left(c, w)' = Left(c, w) \/ Left(c, w)' = 0
        BY <2>1 DEF Left, Holding
      <4>2. Left(c, w) \in Nat
        BY TotalNat
      <4>3. QED
        BY <4>1, <4>2
    <3>2. Unserved(wire'[w], c) = Unserved(wire[w], c)
      BY <2>1
    <3>3. /\ executed[c] \in Nat /\ orphan[c] \in Nat /\ Unserved(wire[w], c) \in Nat
          /\ Left(c, w) \in Nat
      BY TotalNat
    <3>4. executed'[c] = executed[c] /\ orphan'[c] = orphan[c]
      BY <2>1
    <3>5. QED
      BY <3>1, <3>2, <3>3, <3>4 DEF Total
  <2>3. QED
    BY <2>1, <2>2, RunsWorker
<1>3. QED
  BY <1>1, <1>2 DEF TypeOK

LEMMA RunsWork ==
  ASSUME TypeOK, TypeOK', BusyOK, StageOK, RunsOK,
         NEW w \in Workers, WorkerStep(w) \/ Serve(w) \/ Break(w) \/ Stop(w)
  PROVE  RunsOK'
<1> USE DEF callVars, tokenVars, connVars, workVars, serverVars
<1>0. /\ UNCHANGED <<cpc, held>>
      /\ wire[w] \in Seq(Request) /\ wire'[w] \in Seq(Request)
      /\ \A i \in DOMAIN wire[w] : held[wire[w][i].call] = w
      /\ \A c \in Calls : Holding(c)' <=> Holding(c)
  <2>1. UNCHANGED <<cpc, held>>
    <3>1. CASE RecvJob(w) \/ IdleClose(w) \/ Shutdown(w) \/ Connect(w) \/ ConnectFails(w)
               \/ Write(w) \/ ReadReply(w) \/ Interrupt(w)
      BY <3>1 DEF RecvJob, IdleClose, Shutdown, Connect, ConnectFails, Write, ReadReply, Interrupt
    <3>2. CASE Return(w) \/ ReturnRefused(w) \/ Reply(w) \/ Serve(w) \/ Break(w) \/ Stop(w)
      BY <3>2 DEF Return, ReturnRefused, Reply, Serve, Break, Stop
    <3>3. QED
      BY <3>1, <3>2 DEF WorkerStep
  <2>2. QED
    BY <2>1 DEF TypeOK, RunsOK, OnWire, Holding
<1>1. \A v \in Workers \ {w} : /\ wire'[v] = wire[v] /\ inbox'[v] = inbox[v]
                               /\ wpc'[v] = wpc[v] /\ cur'[v] = cur[v]
                               /\ attempt'[v] = attempt[v]
  BY WorkerFrame
<1>2. CASE RecvJob(w) \/ Connect(w) \/ ConnectFails(w) \/ Return(w) \/ Reply(w)
  <2>1. UNCHANGED <<wire, executed, orphan>>
    BY <1>2 DEF RecvJob, Connect, ConnectFails, Return, Reply
  <2>2. ASSUME NEW c \in Calls PROVE Left(c, w)' <= Left(c, w)
    <3>1. CASE RecvJob(w)
      <4>1. inbox'[w] = None /\ cur'[w] = inbox[w] /\ c # None
        BY <3>1, PoolAssumption DEF RecvJob, TypeOK
      <4>2. Left(c, w) = 2 \/ Left(c, w)' = 0
        BY <1>0, <4>1 DEF Left
      <4>3. QED
        BY <4>2, LeftNat
    <3>2. CASE Connect(w) \/ ConnectFails(w) \/ Return(w)
      <4>1. UNCHANGED <<inbox, cur, attempt>> /\ (wpc'[w] = wpc[w] \/ wpc'[w] \in {"finish", "count"})
        BY <3>2 DEF Connect, ConnectFails, Return, TypeOK
      <4>2. Left(c, w)' = Left(c, w) \/ Left(c, w)' = 0
        BY <1>0, <4>1 DEF Left
      <4>3. QED
        BY <4>2, LeftNat
    <3>3. CASE Reply(w)
      <4>1. UNCHANGED inbox /\ cur'[w] = None /\ c # None
        BY <3>3, PoolAssumption DEF Reply, TypeOK
      <4>2. Left(c, w)' = Left(c, w) \/ Left(c, w)' = 0
        BY <1>0, <4>1 DEF Left
      <4>3. QED
        BY <4>2, LeftNat
    <3>4. QED
      BY <1>2, <3>1, <3>2, <3>3
  <2>3. QED
    BY <1>0, <1>1, <2>1, <2>2, RunsQuiet
<1>3. CASE IdleClose(w) \/ Shutdown(w) \/ ReturnRefused(w) \/ Stop(w)
  <2>1. Discard(w, wire[w]) /\ UNCHANGED <<executed, cur, attempt>>
    BY <1>3 DEF IdleClose, Shutdown, ReturnRefused, Stop
  <2>2. /\ wire'[w] = <<>>
        /\ \A c \in Calls : orphan'[c] = orphan[c] + Unserved(wire[w], c)
    BY <2>1 DEF Discard, TypeOK
  <2>3. \A c \in Calls : Unserved(wire'[w], c) = 0
    BY <2>2, UnservedEmpty
  <2>4. ASSUME NEW c \in Calls PROVE Left(c, w)' <= Left(c, w)
    <3>1. inbox'[w] = inbox[w] \/ inbox'[w] = None
      BY <1>3 DEF IdleClose, Shutdown, ReturnRefused, Stop, TypeOK
    <3>2. wpc'[w] = wpc[w] \/ wpc'[w] = "stopped"
      BY <1>3 DEF IdleClose, Shutdown, ReturnRefused, Stop, TypeOK
    <3>3. inbox'[w] = c => inbox[w] = c
      BY <3>1, PoolAssumption
    <3>4. Left(c, w) = 2 \/ Left(c, w)' = Left(c, w) \/ Left(c, w)' = 0
      BY <1>0, <2>1, <3>2, <3>3 DEF Left
    <3>5. QED
      BY <3>4, LeftNat
  <2>5. \A i \in DOMAIN wire'[w] : held[wire'[w][i].call] = w
    BY <2>2
  <2>6. QED
    BY <1>0, <1>1, <2>1, <2>2, <2>3, <2>4, <2>5, RunsDiscard
<1>4. CASE Write(w)
  <2> DEFINE request == [call |-> cur[w], serial |-> WrapInc(serial[w], SerialMod), done |-> FALSE]
  <2>1. /\ wpc[w] = "exec" /\ wpc'[w] = "await" /\ UNCHANGED <<executed, orphan, inbox, cur, attempt>>
        /\ cur[w] \in Calls /\ held[cur[w]] = w
    BY <1>4 DEF Write, TypeOK, BusyOK, StageOK, InHands, Working
  <2>2. wire'[w] = Append(wire[w], request) \/ wire'[w] = wire[w]
    BY <1>4 DEF Write, TypeOK
  <2>3. request \in Request /\ request.call = cur[w] /\ ~request.done
    <3>1. WrapInc(serial[w], SerialMod) \in 0..(SerialMod - 1)
      <4>1. SerialMod \in Nat \ {0} /\ serial[w] \in 0..(SerialMod - 1)
        BY PoolAssumption DEF TypeOK
      <4>2. QED
        BY <4>1, WrapType
    <3>2. QED
      BY <2>1, <3>1 DEF Request
  <2> HIDE DEF request
  <2>4. \A i \in DOMAIN wire'[w] : held[wire'[w][i].call] = w
    <3>1. CASE wire'[w] = wire[w]
      BY <1>0, <3>1
    <3>2. CASE wire'[w] = Append(wire[w], request)
      <4>1. \A i \in DOMAIN wire'[w] : wire'[w][i] = request
                                       \/ (i \in DOMAIN wire[w] /\ wire'[w][i] = wire[w][i])
        BY <1>0, <3>2
      <4>2. QED
        BY <1>0, <2>1, <2>3, <4>1
    <3>3. QED
      BY <2>2, <3>1, <3>2
  <2>5. ASSUME NEW c \in Calls, held[c] = w PROVE Total(c, w)' <= Total(c, w)
    <3>1. Unserved(wire'[w], c) <= Unserved(wire[w], c) + IF cur[w] = c THEN 1 ELSE 0
      <4>1. Unserved(wire[w], c) \in Nat
        BY TotalNat
      <4>2. CASE wire'[w] = wire[w]
        BY <4>1, <4>2
      <4>3. CASE wire'[w] = Append(wire[w], request)
        <5>1. Unserved(wire'[w], c) = Unserved(wire[w], c) + IF cur[w] = c THEN 1 ELSE 0
          BY <1>0, <2>3, <4>3, UnservedAppend
        <5>2. QED
          BY <4>1, <5>1
      <4>4. QED
        BY <2>2, <4>2, <4>3
    <3>2. (~Holding(c) /\ inbox[w] # c) \/ cur[w] # c
      <4>1. Working(w) /\ InHands(cur[w], w)
        BY <2>1 DEF Working, InHands
      <4>2. cpc[cur[w]] \in {"sent", "cancelled"} /\ inbox[w] # cur[w]
        BY <2>1, <4>1, PoolAssumption DEF StageOK
      <4>3. QED
        BY <4>2 DEF Holding
    <3>3. Left(c, w)' = Left(c, w) - IF cur[w] = c THEN 1 ELSE 0
      <4>1. attempt[w] \in 0..1 /\ Left(c, w) \in Nat
        BY TotalNat DEF TypeOK
      <4>2. CASE cur[w] # c
        <5>1. Left(c, w)' = Left(c, w)
          BY <1>0, <2>1, <4>2 DEF Left
        <5>2. QED
          BY <4>1, <4>2, <5>1
      <4>3. CASE cur[w] = c
        <5>1. Left(c, w) = 2 - attempt[w] /\ Left(c, w)' = 1 - attempt[w]
          BY <1>0, <2>1, <3>2, <4>3 DEF Left
        <5>2. QED
          BY <4>1, <4>3, <5>1
      <4>4. QED
        BY <4>2, <4>3
    <3>4. /\ executed[c] \in Nat /\ orphan[c] \in Nat /\ Unserved(wire[w], c) \in Nat
          /\ Left(c, w) \in Nat /\ Unserved(wire'[w], c) \in Nat
      BY <1>0, TotalNat, UnservedNat
    <3>5. executed'[c] = executed[c] /\ orphan'[c] = orphan[c]
      BY <2>1
    <3>6. QED
      BY <3>1, <3>3, <3>4, <3>5 DEF Total
  <2>6. QED
    BY <1>0, <1>1, <2>1, <2>4, <2>5, RunsWorker
<1>5. CASE ReadReply(w)
  <2> DEFINE rest == Tail(wire[w])
  <2>1. /\ wpc[w] = "await" /\ wire[w] # <<>> /\ Head(wire[w]).done
        /\ UNCHANGED <<executed, inbox, cur>>
    BY <1>5 DEF ReadReply
  <2>2. rest \in Seq(Request) /\ \A c \in Calls : Unserved(rest, c) = Unserved(wire[w], c)
    BY <1>0, <2>1, UnservedTail
  <2>3. \A i \in DOMAIN rest : held[rest[i].call] = w
    <3>1. \A i \in DOMAIN rest : i + 1 \in DOMAIN wire[w] /\ rest[i] = wire[w][i + 1]
      BY <1>0, <2>1
    <3>2. QED
      BY <1>0, <3>1
  <2> HIDE DEF rest
  <2>4. CASE ExchangeFails(w, rest)
    BY <1>0, <1>1, <2>1, <2>2, <2>3, <2>4, RunsExchangeFails
  <2>5. CASE wpc'[w] = "finish" /\ wire'[w] = rest /\ UNCHANGED <<attempt, orphan>>
    <3>1. ASSUME NEW c \in Calls PROVE Total(c, w)' <= Total(c, w)
      <4>1. Left(c, w)' <= Left(c, w) /\ Left(c, w)' \in Nat
        <5>1. Left(c, w)' = Left(c, w) \/ Left(c, w)' = 0
          BY <1>0, <2>1, <2>5 DEF Left
        <5>2. Left(c, w) \in Nat
          BY TotalNat
        <5>3. QED
          BY <5>1, <5>2
      <4>2. /\ Unserved(wire'[w], c) = Unserved(wire[w], c)
            /\ executed'[c] = executed[c] /\ orphan'[c] = orphan[c]
        BY <2>1, <2>2, <2>5
      <4>3. /\ executed[c] \in Nat /\ orphan[c] \in Nat /\ Unserved(wire[w], c) \in Nat
            /\ Left(c, w) \in Nat
        BY TotalNat
      <4>4. QED
        BY <4>1, <4>2, <4>3 DEF Total
    <3>2. QED
      BY <1>0, <1>1, <2>1, <2>3, <2>5, <3>1, RunsWorker
  <2>6. ExchangeFails(w, rest)
        \/ (wpc'[w] = "finish" /\ wire'[w] = rest /\ UNCHANGED <<attempt, orphan>>)
    BY <1>5 DEF ReadReply, TypeOK, rest
  <2>7. QED
    BY <2>4, <2>5, <2>6
<1>6. CASE Interrupt(w)
  <2>1. wpc[w] = "await" /\ ExchangeFails(w, wire[w]) /\ UNCHANGED <<executed, inbox, cur>>
    BY <1>6 DEF Interrupt
  <2>2. QED
    BY <1>0, <1>1, <2>1, RunsExchangeFails
<1>7. CASE Serve(w)
  <2>1. PICK i \in DOMAIN wire[w] :
          /\ ~wire[w][i].done
          /\ wire' = [wire EXCEPT ![w][i].done = TRUE]
          /\ executed' = [executed EXCEPT ![wire[w][i].call] = @ + 1]
    BY <1>7 DEF Serve
  <2>2. UNCHANGED <<orphan, inbox, wpc, cur, attempt>>
    BY <1>7 DEF Serve
  <2>3. /\ wire[w][i] \in Request /\ wire[w][i].call \in Calls
        /\ wire'[w] = [wire[w] EXCEPT ![i].done = TRUE]
    <3>1. wire[w][i] \in Request
      BY <1>0
    <3>2. QED
      BY <2>1, <3>1 DEF Request, TypeOK
  <2> DEFINE c0 == wire[w][i].call
  <2>4. /\ executed'[c0] = executed[c0] + 1
        /\ \A c \in Calls \ {c0} : executed'[c] = executed[c]
        /\ held[c0] = w
    BY <1>0, <2>1, <2>3 DEF TypeOK
  <2>5. \A c \in Calls : Unserved(wire'[w], c) = Unserved(wire[w], c) - IF c0 = c THEN 1 ELSE 0
    BY <1>0, <2>1, <2>3, UnservedServe
  <2>6. \A k \in DOMAIN wire'[w] : held[wire'[w][k].call] = w
    <3>1. ASSUME NEW k \in DOMAIN wire'[w]
          PROVE  k \in DOMAIN wire[w] /\ wire'[w][k].call = wire[w][k].call
      <4>1. k \in DOMAIN wire[w] /\ wire[w][k] \in Request
        BY <1>0, <2>3
      <4>2. wire'[w][k] = IF k = i THEN [wire[w][i] EXCEPT !.done = TRUE] ELSE wire[w][k]
        BY <2>3, <4>1
      <4>3. QED
        BY <2>3, <4>1, <4>2 DEF Request
    <3>2. QED
      BY <1>0, <3>1
  <2> HIDE DEF c0
  <2>7. ASSUME NEW c \in Calls PROVE Total(c, w)' <= Total(c, w)
    <3>1. Left(c, w)' = Left(c, w)
      BY <1>0, <2>2 DEF Left
    <3>2. /\ executed[c] \in Nat /\ orphan[c] \in Nat /\ Unserved(wire[w], c) \in Nat
          /\ Left(c, w) \in Nat
      BY TotalNat
    <3>3. orphan'[c] = orphan[c]
      BY <2>2
    <3>4. CASE c = c0
      <4>1. executed'[c] = executed[c] + 1 /\ Unserved(wire'[w], c) = Unserved(wire[w], c) - 1
        BY <2>4, <2>5, <3>4
      <4>2. QED
        BY <3>1, <3>2, <3>3, <4>1 DEF Total
    <3>5. CASE c # c0
      <4>1. executed'[c] = executed[c] /\ Unserved(wire'[w], c) = Unserved(wire[w], c) - 0
        BY <2>4, <2>5, <3>5
      <4>2. QED
        BY <3>1, <3>2, <3>3, <4>1 DEF Total
    <3>6. QED
      BY <3>4, <3>5
  <2>8. \A c \in Calls : held[c] # w => executed'[c] = executed[c] /\ orphan'[c] = orphan[c]
    BY <2>2, <2>4
  <2>9. QED
    BY <1>0, <1>1, <2>6, <2>7, <2>8, RunsWorker
<1>8. CASE Break(w)
  <2>1. PICK k \in 0..Len(wire[w]) :
          (\A i \in 1..k : wire[w][i].done) /\ wire' = [wire EXCEPT ![w] = SubSeq(@, 1, k)]
    BY <1>8 DEF Break
  <2>2. /\ UNCHANGED <<executed, inbox, wpc, cur, attempt>>
        /\ \A c \in Calls : orphan'[c] = orphan[c] + Unserved(wire[w], c)
    BY <1>8 DEF Break, TypeOK
  <2>3. /\ DOMAIN wire'[w] = 1..k /\ 1..k \subseteq DOMAIN wire[w]
        /\ \A i \in 1..k : wire'[w][i] = wire[w][i]
    <3>1. wire'[w] = SubSeq(wire[w], 1, k) /\ wire[w] \in Seq(Request)
      BY <2>1 DEF TypeOK
    <3>2. /\ k \in Nat /\ k <= Len(wire[w]) /\ Len(wire[w]) \in Nat
          /\ DOMAIN wire[w] = 1..Len(wire[w])
      BY <3>1
    <3>3. DOMAIN wire'[w] = 1..k /\ \A i \in 1..k : wire'[w][i] = wire[w][i]
      BY <3>1, <3>2
    <3>4. 1..k \subseteq DOMAIN wire[w]
      BY <3>2
    <3>5. QED
      BY <3>3, <3>4
  <2>4. \A c \in Calls : Unserved(wire'[w], c) = 0
    <3>1. \A i \in DOMAIN wire'[w] : wire'[w][i].done
      BY <2>1, <2>3
    <3>2. QED
      BY <1>0, <3>1, UnservedZero
  <2>5. \A i \in DOMAIN wire'[w] : held[wire'[w][i].call] = w
    BY <1>0, <2>3
  <2>6. ASSUME NEW c \in Calls PROVE Left(c, w)' <= Left(c, w)
    <3>1. Left(c, w)' = Left(c, w)
      BY <1>0, <2>2 DEF Left
    <3>2. QED
      BY <3>1, LeftNat
  <2>7. QED
    BY <1>0, <1>1, <2>2, <2>4, <2>5, <2>6, RunsDiscard
<1>9. QED
  BY <1>2, <1>3, <1>4, <1>5, <1>6, <1>7, <1>8 DEF WorkerStep

LEMMA RunsNext ==
  TypeOK /\ TypeOK' /\ HeldOK /\ BusyOK /\ StageOK /\ RunsOK /\ [Next]_vars => RunsOK'
<1> SUFFICES ASSUME TypeOK, TypeOK', HeldOK, BusyOK, StageOK, RunsOK, [Next]_vars PROVE RunsOK'
  OBVIOUS
<1>1. CASE DropPool \/ UNCHANGED vars
  <2>1. UNCHANGED <<cpc, held, inbox, wpc, cur, attempt, wire, executed, orphan>>
    BY <1>1 DEF DropPool, vars, callVars, workVars, connVars, serverVars
  <2>2. ASSUME NEW c \in Calls, NEW w \in Workers PROVE Left(c, w)' <= Left(c, w)
    <3>1. Left(c, w)' = Left(c, w)
      BY <2>1 DEF Left, Holding
    <3>2. QED
      BY <3>1, LeftNat
  <2>3. QED
    BY <2>1, <2>2, RunsCaller
<1>2. ASSUME NEW c \in Calls, ServeOrphan(c) PROVE RunsOK'
  <2>1. /\ UNCHANGED <<cpc, held, inbox, wpc, cur, attempt, wire>>
        /\ orphan[c] > 0 /\ orphan'[c] = orphan[c] - 1 /\ executed'[c] = executed[c] + 1
        /\ \A d \in Calls \ {c} : orphan'[d] = orphan[d] /\ executed'[d] = executed[d]
    BY <1>2 DEF ServeOrphan, TypeOK, callVars, workVars, connVars
  <2>2. OnWire'
    BY <2>1 DEF RunsOK, OnWire
  <2>3. \A d \in Calls : held[d] = None => executed'[d] = executed[d] /\ orphan'[d] = orphan[d]
    BY <2>1 DEF RunsOK
  <2>4. ASSUME NEW d \in Calls, NEW w \in Workers
        PROVE  Total(d, w)' = Total(d, w) /\ Total(d, w) \in Int
    <3>1. Left(d, w)' = Left(d, w) /\ Unserved(wire'[w], d) = Unserved(wire[w], d)
      BY <2>1 DEF Left, Holding
    <3>2. /\ executed[d] \in Nat /\ orphan[d] \in Nat /\ Unserved(wire[w], d) \in Nat
          /\ Left(d, w) \in Nat
      BY TotalNat
    <3>3. executed'[d] + orphan'[d] = executed[d] + orphan[d]
      BY <2>1, <3>2
    <3>4. executed'[d] \in Int /\ orphan'[d] \in Int
      BY <2>1, <3>2
    <3>5. QED
      BY <3>1, <3>2, <3>3, <3>4 DEF Total
  <2>5. \A d \in Calls, w \in Workers :
          Total(d, w)' <= Total(d, w) /\ Total(d, w) \in Int /\ Total(d, w)' \in Int
    BY <2>4
  <2>6. QED
    BY <2>1, <2>2, <2>3, <2>5, RunsStep
<1>3. QED
  BY <1>1, <1>2, RunsCalls, RunsWork DEF Next, Environment, Finished

-----------------------------------------------------------------------------
(* A result is only reported for a command that named has run.             *)

DoneOK ==
  /\ \A w \in Workers : \A i \in DOMAIN wire[w] : wire[w][i].done => executed[wire[w][i].call] > 0
  /\ \A w \in Workers : outcome[w] \in Calls => executed[outcome[w]] > 0
  /\ \A c \in Calls : reply[c] \in Calls => executed[reply[c]] > 0

LEMMA DoneInit == Init => DoneOK
BY PoolAssumption DEF Init, DoneOK

(* Once run, a command stays run. *)
LEMMA RanStays ==
  ASSUME TypeOK, [Next]_vars, NEW c \in Calls, executed[c] > 0
  PROVE  executed'[c] > 0
<1> USE DEF callVars, tokenVars, connVars, workVars, serverVars
<1>0. executed[c] \in Nat /\ executed[c] > 0
  BY DEF TypeOK
<1>1. CASE UNCHANGED executed
  BY <1>1
<1>2. CASE \E w \in Workers : Serve(w)
  <2>1. PICK d : executed' = [executed EXCEPT ![d] = @ + 1]
    BY <1>2 DEF Serve
  <2>2. executed'[c] = executed[c] \/ executed'[c] = executed[c] + 1
    BY <2>1 DEF TypeOK
  <2>3. QED
    BY <1>0, <2>2
<1>3. CASE \E d \in Calls : ServeOrphan(d)
  <2>1. executed'[c] = executed[c] \/ executed'[c] = executed[c] + 1
    BY <1>3 DEF ServeOrphan, TypeOK
  <2>2. QED
    BY <1>0, <2>1
<1>4. CASE \/ DropPool \/ UNCHANGED vars
           \/ \E d \in Calls : Start(d) \/ CallStep(d) \/ Cancel(d)
  <2>1. UNCHANGED executed
    BY <1>4 DEF DropPool, vars, Start, CallStep, Take, CountDown, Send, SendRefused,
       ReleaseIndex, ReleaseCount, Receive, Cancel
  <2>2. QED
    BY <1>1, <2>1
<1>5. CASE \E w \in Workers : WorkerStep(w) \/ Break(w) \/ Stop(w)
  <2>1. CASE \E w \in Workers : RecvJob(w) \/ IdleClose(w) \/ Shutdown(w) \/ Connect(w)
               \/ ConnectFails(w) \/ Write(w) \/ ReadReply(w)
    BY <1>1, <2>1 DEF RecvJob, IdleClose, Shutdown, Connect, ConnectFails, Write, ReadReply
  <2>2. CASE \E w \in Workers : Interrupt(w) \/ Return(w) \/ ReturnRefused(w) \/ Reply(w)
               \/ Break(w) \/ Stop(w)
    BY <1>1, <2>2 DEF Interrupt, Return, ReturnRefused, Reply, Break, Stop
  <2>3. QED
    BY <1>5, <2>1, <2>2 DEF WorkerStep
<1>6. QED
  BY <1>2, <1>3, <1>4, <1>5 DEF Next, Environment, Finished

(* Every request found done on a stream was done there before, every       *)
(* result was a result before.                                             *)
LEMMA DoneFrame ==
  ASSUME TypeOK, [Next]_vars, DoneOK,
         \A w \in Workers : \A i \in DOMAIN wire'[w] : wire'[w][i].done =>
           \E j \in DOMAIN wire[w] : wire[w][j].done /\ wire[w][j].call = wire'[w][i].call,
         \A w \in Workers : outcome'[w] \in Calls => outcome'[w] = outcome[w],
         \A c \in Calls : reply'[c] \in Calls => reply'[c] = reply[c]
  PROVE  DoneOK'
<1>1. ASSUME NEW w \in Workers, NEW i \in DOMAIN wire'[w], wire'[w][i].done
      PROVE  executed'[wire'[w][i].call] > 0
  <2>1. PICK j \in DOMAIN wire[w] : wire[w][j].done /\ wire[w][j].call = wire'[w][i].call
    BY <1>1
  <2>2. wire[w][j].call \in Calls /\ executed[wire[w][j].call] > 0
    <3>1. wire[w][j] \in Request
      BY DEF TypeOK
    <3>2. QED
      BY <2>1, <3>1 DEF DoneOK, Request
  <2>3. executed'[wire[w][j].call] > 0
    BY <2>2, RanStays
  <2>4. QED
    BY <2>1, <2>3
<1>2. ASSUME NEW w \in Workers, outcome'[w] \in Calls PROVE executed'[outcome'[w]] > 0
  <2>1. outcome'[w] = outcome[w] /\ outcome[w] \in Calls /\ executed[outcome[w]] > 0
    BY <1>2 DEF DoneOK
  <2>2. executed'[outcome[w]] > 0
    BY <2>1, RanStays
  <2>3. QED
    BY <2>1, <2>2
<1>3. ASSUME NEW c \in Calls, reply'[c] \in Calls PROVE executed'[reply'[c]] > 0
  <2>1. reply'[c] = reply[c] /\ reply[c] \in Calls /\ executed[reply[c]] > 0
    BY <1>3 DEF DoneOK
  <2>2. executed'[reply[c]] > 0
    BY <2>1, RanStays
  <2>3. QED
    BY <2>1, <2>2
<1>4. QED
  BY <1>1, <1>2, <1>3 DEF DoneOK

LEMMA DoneNext ==
  TypeOK /\ BusyOK /\ DoneOK /\ [Next]_vars => DoneOK'
<1> SUFFICES ASSUME TypeOK, BusyOK, DoneOK, [Next]_vars PROVE DoneOK'
  OBVIOUS
<1> USE DEF callVars, tokenVars, connVars, workVars, serverVars
<1>1. ASSUME NEW c \in Calls, CallStep(c) \/ Start(c) \/ Cancel(c) \/ ServeOrphan(c)
      PROVE  DoneOK'
  <2>1. UNCHANGED <<wire, outcome>>
    BY <1>1 DEF Start, CallStep, Take, CountDown, Send, SendRefused, ReleaseIndex, ReleaseCount,
       Receive, Cancel, ServeOrphan
  <2>2. \A d \in Calls : reply'[d] \in Calls => reply'[d] = reply[d]
    BY <1>1, PoolAssumption DEF TypeOK, Start, CallStep, Take, CountDown, Send, SendRefused,
       ReleaseIndex, ReleaseCount, Receive, Cancel, ServeOrphan
  <2>3. QED
    BY <2>1, <2>2, DoneFrame
<1>2. CASE DropPool \/ UNCHANGED vars
  <2>1. UNCHANGED <<wire, outcome, reply>>
    BY <1>2 DEF DropPool, vars
  <2>2. QED
    BY <2>1, DoneFrame
(* What one worker does leaves the streams and results of the others. *)
<1>3. ASSUME NEW w \in Workers, WorkerStep(w) \/ Serve(w) \/ Break(w) \/ Stop(w),
             \A i \in DOMAIN wire'[w] : wire'[w][i].done =>
               \E j \in DOMAIN wire[w] : wire[w][j].done /\ wire[w][j].call = wire'[w][i].call,
             outcome'[w] \in Calls => outcome'[w] = outcome[w],
             \A c \in Calls : reply'[c] \in Calls => reply'[c] = reply[c]
      PROVE  DoneOK'
  <2>1. \A v \in Workers \ {w} : wire'[v] = wire[v] /\ outcome'[v] = outcome[v]
    BY <1>3, WorkerFrame
  <2>2. \A v \in Workers : \A i \in DOMAIN wire'[v] : wire'[v][i].done =>
          \E j \in DOMAIN wire[v] : wire[v][j].done /\ wire[v][j].call = wire'[v][i].call
    BY <1>3, <2>1
  <2>3. \A v \in Workers : outcome'[v] \in Calls => outcome'[v] = outcome[v]
    BY <1>3, <2>1
  <2>4. QED
    BY <1>3, <2>2, <2>3, DoneFrame
<1>4. ASSUME NEW w \in Workers, RecvJob(w) \/ Connect(w) \/ ConnectFails(w) \/ Return(w)
      PROVE  DoneOK'
  <2>1. UNCHANGED <<wire, reply>>
    BY <1>4 DEF RecvJob, Connect, ConnectFails, Return
  <2>2. outcome'[w] \in Calls => outcome'[w] = outcome[w]
    BY <1>4, PoolAssumption DEF RecvJob, Connect, ConnectFails, Return, TypeOK
  <2>3. QED
    BY <1>3, <1>4, <2>1, <2>2 DEF WorkerStep
<1>5. ASSUME NEW w \in Workers, IdleClose(w) \/ Shutdown(w) \/ ReturnRefused(w) \/ Stop(w)
      PROVE  DoneOK'
  <2>1. wire'[w] = <<>> /\ UNCHANGED outcome
    BY <1>5 DEF IdleClose, Shutdown, ReturnRefused, Stop, Discard, TypeOK
  <2>2. \A c \in Calls : reply'[c] \in Calls => reply'[c] = reply[c]
    BY <1>5, PoolAssumption DEF IdleClose, Shutdown, ReturnRefused, Stop, TypeOK
  <2>3. \A i \in DOMAIN wire'[w] : FALSE
    BY <2>1
  <2>4. QED
    BY <1>3, <1>5, <2>1, <2>2, <2>3 DEF WorkerStep
<1>6. ASSUME NEW w \in Workers, Write(w) PROVE DoneOK'
  <2> DEFINE request == [call |-> cur[w], serial |-> WrapInc(serial[w], SerialMod), done |-> FALSE]
  <2>1. wire'[w] = Append(wire[w], request) \/ wire'[w] = wire[w]
    BY <1>6 DEF Write, TypeOK
  <2>2. wire[w] \in Seq(Request) /\ ~request.done
    BY DEF TypeOK
  <2> HIDE DEF request
  <2>3. \A i \in DOMAIN wire'[w] : wire'[w][i] = request
                                   \/ (i \in DOMAIN wire[w] /\ wire'[w][i] = wire[w][i])
    BY <2>1, <2>2
  <2>4. \A i \in DOMAIN wire'[w] : wire'[w][i].done =>
          \E j \in DOMAIN wire[w] : wire[w][j].done /\ wire[w][j].call = wire'[w][i].call
    BY <2>2, <2>3
  <2>5. UNCHANGED <<outcome, reply>>
    BY <1>6 DEF Write
  <2>6. QED
    BY <1>3, <1>6, <2>4, <2>5 DEF WorkerStep
(* A failed exchange keeps some of the requests, or none. *)
<1>7. ASSUME NEW w \in Workers, WorkerStep(w), NEW rest, ExchangeFails(w, rest), UNCHANGED reply,
             \A i \in DOMAIN rest : \E j \in DOMAIN wire[w] : rest[i] = wire[w][j]
      PROVE  DoneOK'
  <2>1. wire'[w] = <<>> \/ wire'[w] = rest
    BY <1>7 DEF ExchangeFails, Discard, TypeOK
  <2>2. outcome'[w] \in Calls => outcome'[w] = outcome[w]
    BY <1>7, PoolAssumption DEF ExchangeFails, TypeOK
  <2>3. \A i \in DOMAIN wire'[w] : \E j \in DOMAIN wire[w] : wire'[w][i] = wire[w][j]
    <3>1. CASE wire'[w] = <<>>
      BY <3>1
    <3>2. CASE wire'[w] = rest
      BY <1>7, <3>2
    <3>3. QED
      BY <2>1, <3>1, <3>2
  <2>4. QED
    BY <1>3, <1>7, <2>2, <2>3
<1>8. ASSUME NEW w \in Workers, ReadReply(w) PROVE DoneOK'
  <2>1. /\ wire[w] \in Seq(Request) /\ wire[w] # <<>> /\ Head(wire[w]).done /\ UNCHANGED reply
    BY <1>8 DEF ReadReply, TypeOK
  <2>2. /\ 1 \in DOMAIN wire[w] /\ Head(wire[w]) = wire[w][1] /\ wire[w][1] \in Request
        /\ \A i \in DOMAIN Tail(wire[w]) : i + 1 \in DOMAIN wire[w] /\ Tail(wire[w])[i] = wire[w][i + 1]
    BY <2>1
  <2>3. CASE ExchangeFails(w, Tail(wire[w]))
    BY <1>7, <1>8, <2>1, <2>2, <2>3 DEF WorkerStep
  <2>4. CASE outcome' = [outcome EXCEPT ![w] = Head(wire[w]).call] /\ wire' = [wire EXCEPT ![w] = Tail(@)]
    <3>1. \A v \in Workers : \A i \in DOMAIN wire'[v] : \E j \in DOMAIN wire[v] : wire'[v][i] = wire[v][j]
      BY <2>2, <2>4 DEF TypeOK
    <3>2. \A v \in Workers : \A i \in DOMAIN wire'[v] :
            wire'[v][i].done => executed[wire'[v][i].call] > 0
      BY <3>1 DEF DoneOK
    <3>3. Head(wire[w]).call \in Calls /\ executed[Head(wire[w]).call] > 0
      BY <2>1, <2>2 DEF DoneOK, Request
    <3>4. \A v \in Workers : outcome'[v] \in Calls => executed[outcome'[v]] > 0
      BY <2>4, <3>3 DEF DoneOK, TypeOK
    <3>5. \A c \in Calls : reply'[c] \in Calls => executed[reply'[c]] > 0
      BY <2>1 DEF DoneOK
    <3>6. UNCHANGED executed
      BY <1>8 DEF ReadReply
    <3>7. QED
      BY <3>2, <3>4, <3>5, <3>6 DEF DoneOK
  <2>5. QED
    BY <1>8, <2>3, <2>4 DEF ReadReply
<1>9. ASSUME NEW w \in Workers, Interrupt(w) PROVE DoneOK'
  BY <1>7, <1>9 DEF Interrupt, WorkerStep
<1>10. ASSUME NEW w \in Workers, Reply(w) PROVE DoneOK'
  <2>1. UNCHANGED <<wire, executed>> /\ cur[w] \in Calls
        /\ \A v \in Workers : outcome'[v] \in Calls => outcome'[v] = outcome[v]
    BY <1>10, PoolAssumption DEF Reply, TypeOK, BusyOK
  <2>2. \A c \in Calls : reply'[c] \in Calls => reply'[c] = reply[c] \/ reply'[c] = outcome[w]
    BY <1>10 DEF Reply, TypeOK
  <2>3. \A c \in Calls : reply'[c] \in Calls => executed[reply'[c]] > 0
    BY <2>2 DEF DoneOK
  <2>4. \A v \in Workers : outcome'[v] \in Calls => executed[outcome'[v]] > 0
    BY <2>1 DEF DoneOK
  <2>5. QED
    BY <2>1, <2>3, <2>4 DEF DoneOK
<1>11. ASSUME NEW w \in Workers, Serve(w) PROVE DoneOK'
  <2>1. PICK i \in DOMAIN wire[w] :
          /\ wire' = [wire EXCEPT ![w][i].done = TRUE]
          /\ executed' = [executed EXCEPT ![wire[w][i].call] = @ + 1]
    BY <1>11 DEF Serve
  <2> DEFINE c == wire[w][i].call
  <2>2. wire[w][i] \in Request /\ c \in Calls
    <3>1. wire[w][i] \in Request
      BY DEF TypeOK
    <3>2. QED
      BY <3>1 DEF Request
  <2>3. executed'[c] > 0
    <3>1. executed'[c] = executed[c] + 1 /\ executed[c] \in Nat
      BY <2>1, <2>2 DEF TypeOK
    <3>2. QED
      BY <3>1
  <2>4. ASSUME NEW v \in Workers, NEW k \in DOMAIN wire'[v], wire'[v][k].done
        PROVE  executed'[wire'[v][k].call] > 0
    <3>1. wire'[v] = IF v = w THEN [wire[w] EXCEPT ![i].done = TRUE] ELSE wire[v]
      BY <2>1 DEF TypeOK
    <3>2. wire[v] \in Seq(Request) /\ k \in DOMAIN wire[v] /\ wire[v][k] \in Request
      <4>1. wire[v] \in Seq(Request) /\ k \in DOMAIN wire[v]
        BY <3>1 DEF TypeOK
      <4>2. QED
        BY <4>1
    <3>3. CASE v = w /\ k = i
      <4>1. wire'[v][k] = [wire[w][i] EXCEPT !.done = TRUE]
        BY <3>1, <3>2, <3>3
      <4>2. wire'[v][k].call = c
        BY <2>2, <4>1 DEF Request
      <4>3. QED
        BY <2>3, <4>2
    <3>4. CASE ~(v = w /\ k = i)
      <4>1. wire'[v][k] = wire[v][k]
        BY <3>1, <3>2, <3>4
      <4>2. wire[v][k].call \in Calls /\ executed[wire[v][k].call] > 0
        BY <2>4, <3>2, <4>1 DEF DoneOK, Request
      <4>3. executed'[wire[v][k].call] > 0
        BY <4>2, RanStays
      <4>4. QED
        BY <4>1, <4>3
    <3>5. QED
      BY <3>3, <3>4
  <2>5. UNCHANGED <<outcome, reply>>
    BY <1>11 DEF Serve
  <2>6. ASSUME NEW d \in Calls, executed[d] > 0 PROVE executed'[d] > 0
    BY <2>6, RanStays
  <2>7. QED
    BY <2>4, <2>5, <2>6 DEF DoneOK
<1>12. ASSUME NEW w \in Workers, Break(w) PROVE DoneOK'
  <2>1. PICK k \in 0..Len(wire[w]) : wire' = [wire EXCEPT ![w] = SubSeq(@, 1, k)]
    BY <1>12 DEF Break
  <2>2. wire'[w] = SubSeq(wire[w], 1, k) /\ wire[w] \in Seq(Request)
    BY <2>1 DEF TypeOK
  <2>3. k \in Nat /\ k <= Len(wire[w]) /\ DOMAIN wire[w] = 1..Len(wire[w]) /\ Len(wire[w]) \in Nat
    BY <2>2
  <2>4. \A i \in DOMAIN wire'[w] : i \in DOMAIN wire[w] /\ wire'[w][i] = wire[w][i]
    BY <2>2, <2>3
  <2>5. UNCHANGED <<outcome, reply>>
    BY <1>12 DEF Break
  <2>6. QED
    BY <1>3, <1>12, <2>4, <2>5
<1>13. QED
  BY <1>1, <1>2, <1>4, <1>5, <1>6, <1>8, <1>9, <1>10, <1>11, <1>12
     DEF Next, WorkerStep, Environment, Finished

-----------------------------------------------------------------------------
(* The invariant of the refinement, and what it says of the mapping.       *)

ServiceInv ==
  /\ TypeOK /\ HeldOK /\ BusyOK /\ StreamOK /\ AnswerOK /\ OwnReply
  /\ TokenOK /\ StageOK /\ RunsOK /\ DoneOK

LEMMA ServiceInvInit == Init => ServiceInv
<1>1. Init => OwnReply
  BY DEF Init, OwnReply
<1>2. QED
  BY <1>1, TypeInit, HeldInit, BusyInit, StreamInit, AnswerInit, TokenInit, StageInit, RunsInit,
     DoneInit DEF ServiceInv

LEMMA ServiceInvNext == ServiceInv /\ [Next]_vars => ServiceInv'
<1> SUFFICES ASSUME ServiceInv, [Next]_vars PROVE ServiceInv'
  OBVIOUS
<1>1. TypeOK' /\ HeldOK' /\ BusyOK'
  BY TypeNext, HeldNext, BusyNext DEF ServiceInv
<1>2. StreamOK' /\ AnswerOK' /\ OwnReply' /\ TokenOK'
  BY StreamNext, AnswerNext, OwnReplyNext, TokenNext DEF ServiceInv
<1>3. StageOK' /\ RunsOK' /\ DoneOK'
  BY <1>1, StageNext, RunsNext, DoneNext DEF ServiceInv
<1>4. QED
  BY <1>1, <1>2, <1>3 DEF ServiceInv

(* The command a worker serves, by the place its index is in. *)
Owners ==
  \A w \in Workers :
    /\ w \in lost => OwnerOf(w) = Error
    /\ \A c \in Calls : held[c] = w /\ Holding(c) => OwnerOf(w) = c
    /\ Handed(w) => OwnerOf(w) = inbox[w]
    /\ Busy(w) => OwnerOf(w) = cur[w]
    /\ Among(w, queue) => OwnerOf(w) = None

LEMMA OwnersHold == ServiceInv => Owners
<1> SUFFICES ASSUME ServiceInv, NEW w \in Workers
             PROVE  /\ w \in lost => OwnerOf(w) = Error
                    /\ \A c \in Calls : held[c] = w /\ Holding(c) => OwnerOf(w) = c
                    /\ Handed(w) => OwnerOf(w) = inbox[w]
                    /\ Busy(w) => OwnerOf(w) = cur[w]
                    /\ Among(w, queue) => OwnerOf(w) = None
  BY DEF Owners
<1>1. TokenAt(w)
  BY DEF ServiceInv, TokenOK
<1>2. Holders(w) = {} <=> ~Carried(w)
  BY DEF Holders, Carried, Holding
<1>3. w \in lost => OwnerOf(w) = Error
  BY DEF OwnerOf
<1>4. ASSUME NEW c \in Calls, held[c] = w, Holding(c) PROVE OwnerOf(w) = c
  <2>1. Carried(w)
    BY <1>4 DEF Carried
  <2>2. c \in Holders(w)
    BY <1>4 DEF Holders, Holding
  <2>3. \A d \in Calls : d \in Holders(w) => d = c
    BY <1>4 DEF ServiceInv, TokenOK, Holders, Holding
  <2>4. (CHOOSE d \in Calls : d \in Holders(w)) = c
    BY <2>2, <2>3
  <2>5. w \notin lost /\ Holders(w) # {}
    BY <1>1, <2>1, <2>2 DEF TokenAt
  <2>6. QED
    BY <2>4, <2>5 DEF OwnerOf
<1>5. Handed(w) => OwnerOf(w) = inbox[w]
  BY <1>1, <1>2 DEF TokenAt, OwnerOf, Handed
<1>6. Busy(w) => OwnerOf(w) = cur[w]
  BY <1>1, <1>2 DEF TokenAt, OwnerOf, Handed
<1>7. Among(w, queue) => OwnerOf(w) = None
  BY <1>1, <1>2 DEF TokenAt, OwnerOf, Handed
<1>8. QED
  BY <1>3, <1>4, <1>5, <1>6, <1>7

LEMMA OwnersStay == ServiceInv' => Owners'
BY OwnersHold, PTL

(* A worker whose index does not move keeps its owner. *)
LEMMA OwnerFrame ==
  ASSUME NEW w \in Workers,
         w \in lost' <=> w \in lost,
         inbox'[w] = inbox[w],
         Busy(w)' <=> Busy(w),
         Busy(w) => cur'[w] = cur[w],
         \A c \in Calls : held'[c] = w /\ Holding(c)' <=> held[c] = w /\ Holding(c)
  PROVE  OwnerOf(w)' = OwnerOf(w)
<1>1. Holders(w)' = Holders(w)
  BY DEF Holders, Holding
<1>2. QED
  BY <1>1 DEF OwnerOf

(* A call keeps its phase while it stays where it is and is not done. *)
LEMMA PhaseFrame ==
  ASSUME NEW c \in Calls, cpc'[c] = cpc[c], cpc[c] = "done" => reply'[c] = reply[c]
  PROVE  PhaseOf(c)' = PhaseOf(c)
BY DEF PhaseOf

LEMMA PhaseIs ==
  ASSUME NEW c \in Calls
  PROVE  /\ cpc[c] = "idle" => PhaseOf(c) = "idle"
         /\ cpc[c] \in {"waiting", "taken", "sending", "sent", "release", "released"}
              => PhaseOf(c) = "open"
         /\ cpc'[c] = "cancelled" => PhaseOf(c)' = "abandoned"
         /\ cpc'[c] \in {"waiting", "taken", "sending", "sent", "release", "released"}
              => PhaseOf(c)' = "open"
         /\ cpc'[c] = "done" /\ reply'[c] = Error => PhaseOf(c)' = "failed"
         /\ cpc'[c] = "done" /\ reply'[c] # Error => PhaseOf(c)' = "ok"
BY DEF PhaseOf

-----------------------------------------------------------------------------
(* When a step is a step of the service: its effect on the mapped state,   *)
(* point by point.                                                         *)

SamePhase(c)  == PhaseOf(c)' = PhaseOf(c)
SameOwner(w)  == OwnerOf(w)' = OwnerOf(w)
SameHanded(c) == held'[c] = None <=> held[c] = None

LEMMA MapStutter ==
  ASSUME \A c \in Calls : SamePhase(c) /\ SameHanded(c), \A w \in Workers : SameOwner(w),
         executed' = executed
  PROVE  UNCHANGED Service!vars
BY DEF SamePhase, SameOwner, SameHanded, Service!vars

LEMMA MapOpen ==
  ASSUME NEW c \in Calls, PhaseOf(c) = "idle", PhaseOf(c)' = "open",
         \A d \in Calls \ {c} : SamePhase(d), \A d \in Calls : SameHanded(d),
         \A w \in Workers : SameOwner(w), executed' = executed
  PROVE  Service!Open(c)
BY DEF SamePhase, SameOwner, SameHanded, Service!Open

LEMMA MapLend ==
  ASSUME NEW c \in Calls, NEW w \in Workers, PhaseOf(c) = "open", held[c] = None, held'[c] # None,
         OwnerOf(w) = None, OwnerOf(w)' = c,
         \A d \in Calls : SamePhase(d), \A d \in Calls \ {c} : SameHanded(d),
         \A v \in Workers \ {w} : SameOwner(v), executed' = executed
  PROVE  Service!Lend(c, w)
BY DEF SamePhase, SameOwner, SameHanded, Service!Lend

LEMMA MapRun ==
  ASSUME NEW c \in Calls, held[c] # None, executed[c] < 2,
         executed' = [executed EXCEPT ![c] = @ + 1],
         \A d \in Calls : SamePhase(d) /\ SameHanded(d), \A w \in Workers : SameOwner(w)
  PROVE  Service!Run(c)
BY DEF SamePhase, SameOwner, SameHanded, Service!Run

LEMMA MapGiveBack ==
  ASSUME NEW w \in Workers, OwnerOf(w) \in Calls, OwnerOf(w)' = None,
         \A c \in Calls : SamePhase(c) /\ SameHanded(c),
         \A v \in Workers \ {w} : SameOwner(v), executed' = executed
  PROVE  Service!GiveBack(w)
BY DEF SamePhase, SameOwner, SameHanded, Service!GiveBack

LEMMA MapLose ==
  ASSUME NEW w \in Workers, OwnerOf(w) # Error, OwnerOf(w)' = Error,
         \A c \in Calls : SamePhase(c) /\ SameHanded(c),
         \A v \in Workers \ {w} : SameOwner(v), executed' = executed
  PROVE  Service!Lose(w)
<1>1. [v \in Workers |-> OwnerOf(v)'] = [[v \in Workers |-> OwnerOf(v)] EXCEPT ![w] = Error]
  <2>1. \A v \in Workers : OwnerOf(v)' = IF v = w THEN Error ELSE OwnerOf(v)
    BY DEF SameOwner
  <2>2. QED
    BY <2>1
<1>2. /\ [c \in Calls |-> PhaseOf(c)'] = [c \in Calls |-> PhaseOf(c)]
      /\ {c \in Calls : held'[c] # None} = {c \in Calls : held[c] # None}
  BY DEF SamePhase, SameHanded
<1>3. [v \in Workers |-> OwnerOf(v)][w] # Error
  OBVIOUS
<1>4. QED
  BY <1>1, <1>2, <1>3 DEF Service!Lose

LEMMA MapAnswer ==
  ASSUME NEW c \in Calls, PhaseOf(c) = "open", held[c] # None,
         \A w \in Workers : OwnerOf(w) # c /\ SameOwner(w),
         (executed[c] > 0 /\ PhaseOf(c)' = "ok") \/ PhaseOf(c)' = "failed",
         \A d \in Calls \ {c} : SamePhase(d), \A d \in Calls : SameHanded(d), executed' = executed
  PROVE  Service!Answer(c)
<1>1. CASE executed[c] > 0 /\ PhaseOf(c)' = "ok"
  BY <1>1 DEF SamePhase, SameOwner, SameHanded, Service!Answer
<1>2. CASE PhaseOf(c)' = "failed"
  BY <1>2 DEF SamePhase, SameOwner, SameHanded, Service!Answer
<1>3. QED
  BY <1>1, <1>2

LEMMA MapAbandon ==
  ASSUME NEW c \in Calls, PhaseOf(c) = "open", PhaseOf(c)' = "abandoned",
         \A d \in Calls \ {c} : SamePhase(d), \A d \in Calls : SameHanded(d), executed' = executed,
         \/ \A w \in Workers : OwnerOf(w)' = IF OwnerOf(w) = c THEN Error ELSE OwnerOf(w)
         \/ \A w \in Workers : SameOwner(w)
  PROVE  Service!Abandon(c)
<1>1. CASE \A w \in Workers : OwnerOf(w)' = IF OwnerOf(w) = c THEN Error ELSE OwnerOf(w)
  BY <1>1 DEF SamePhase, SameHanded, Service!Abandon
<1>2. CASE \A w \in Workers : SameOwner(w)
  BY <1>2 DEF SamePhase, SameOwner, SameHanded, Service!Abandon
<1>3. QED
  BY <1>1, <1>2

-----------------------------------------------------------------------------
(* Every step of the pool is a step of the service or invisible to it.     *)

(* Whoever owns a worker is lent that worker and has not been answered. *)
LEMMA OwnedBy ==
  ASSUME ServiceInv, Owners, NEW c \in Calls, NEW w \in Workers, OwnerOf(w) = c
  PROVE  /\ held[c] = w
         /\ Holding(c) \/ (cpc[c] \in {"sent", "cancelled"} /\ reply[c] = None)
<1>1. c # Error /\ c # None
  BY PoolAssumption
<1>2. TokenAt(w)
  BY DEF ServiceInv, TokenOK
<1>3. w \notin lost /\ ~Among(w, queue)
  BY <1>1 DEF Owners
<1>4. CASE Carried(w)
  BY <1>4 DEF Owners, Carried
<1>5. CASE Handed(w) \/ Busy(w)
  <2>1. InHands(c, w)
    BY <1>5 DEF Owners, InHands, Handed, Busy, Working
  <2>2. QED
    BY <2>1 DEF ServiceInv, StageOK
<1>6. QED
  BY <1>2, <1>3, <1>4, <1>5 DEF TokenAt

(* The other calls see nothing of a step of call c. *)
LEMMA CallFrame ==
  ASSUME NEW c \in Calls,
         \A d \in Calls \ {c} : cpc'[d] = cpc[d] /\ held'[d] = held[d] /\ reply'[d] = reply[d],
         UNCHANGED <<inbox, wpc, cur>>
  PROVE  /\ \A d \in Calls \ {c} : SamePhase(d) /\ SameHanded(d)
         /\ \A w \in Workers :
              /\ w \in lost' <=> w \in lost
              /\ held'[c] = w /\ Holding(c)' <=> held[c] = w /\ Holding(c)
              => SameOwner(w)
<1>1. \A d \in Calls \ {c} : SamePhase(d) /\ SameHanded(d)
  BY PhaseFrame DEF SamePhase, SameHanded
<1>2. ASSUME NEW w \in Workers, w \in lost' <=> w \in lost,
             held'[c] = w /\ Holding(c)' <=> held[c] = w /\ Holding(c)
      PROVE  SameOwner(w)
  <2>1. \A d \in Calls : held'[d] = w /\ Holding(d)' <=> held[d] = w /\ Holding(d)
    BY <1>2 DEF Holding
  <2>2. Busy(w)' <=> Busy(w)
    BY DEF Busy
  <2>3. QED
    BY <1>2, <2>1, <2>2, OwnerFrame DEF SameOwner
<1>3. QED
  BY <1>1, <1>2

LEMMA MapCalls ==
  ASSUME ServiceInv, ServiceInv', Owners, Owners',
         NEW c \in Calls, Start(c) \/ CallStep(c) \/ Cancel(c)
  PROVE  Service!Next \/ UNCHANGED Service!vars
<1> USE DEF callVars, tokenVars, connVars, workVars, serverVars
<1>0. /\ TypeOK /\ c # None /\ c # Error /\ None \notin Workers
      /\ held[c] # None => held[c] \in Workers
  BY PoolAssumption DEF ServiceInv, TypeOK
<1>1. /\ \A d \in Calls \ {c} : cpc'[d] = cpc[d] /\ held'[d] = held[d] /\ reply'[d] = reply[d]
      /\ UNCHANGED <<inbox, wpc, cur>> \/ Send(c)
      /\ UNCHANGED executed
  <2>1. CASE Start(c) \/ Take(c) \/ CountDown(c) \/ SendRefused(c) \/ ReleaseIndex(c)
    BY <1>0, <2>1 DEF TypeOK, Start, Take, CountDown, SendRefused, ReleaseIndex
  <2>2. CASE Send(c) \/ ReleaseCount(c) \/ Receive(c) \/ Cancel(c)
    BY <1>0, <2>2 DEF TypeOK, Send, ReleaseCount, Receive, Cancel
  <2>3. QED
    BY <2>1, <2>2 DEF CallStep
<1>2. CASE Start(c)
  <2>1. /\ cpc[c] = "idle" /\ cpc'[c] = "waiting" /\ ~Holding(c) /\ ~Holding(c)'
        /\ UNCHANGED <<held, inbox, wpc, cur, lost>>
    BY <1>0, <1>2 DEF Start, TypeOK, Holding
  <2>2. PhaseOf(c) = "idle" /\ PhaseOf(c)' = "open"
    BY <2>1, PhaseIs
  <2>3. \A w \in Workers : SameOwner(w)
    BY <1>1, <2>1, CallFrame
  <2>4. /\ \A d \in Calls \ {c} : SamePhase(d) /\ SameHanded(d)
        /\ SameHanded(c)
    BY <1>1, <2>1, CallFrame DEF SameHanded
  <2>5. Service!Open(c)
    BY <1>1, <2>2, <2>3, <2>4, MapOpen
  <2>6. QED
    BY <2>5 DEF Service!Next
<1>3. CASE Take(c)
  <2>1. PICK w \in Workers : w = Head(queue)
    BY <1>0, <1>3 DEF Take, TypeOK
  <2>2. /\ cpc[c] = "waiting" /\ cpc'[c] = "taken" /\ ~Holding(c) /\ Holding(c)'
        /\ held'[c] = w /\ held[c] = None
        /\ UNCHANGED <<inbox, wpc, cur, lost>>
    BY <1>0, <1>3, <2>1 DEF Take, TypeOK, Holding, ServiceInv, StageOK
  <2>3. Among(w, queue)
    <3>1. queue \in Seq(Workers) /\ queue # <<>>
      BY <1>0, <1>3 DEF Take, TypeOK
    <3>2. QED
      BY <2>1, <3>1, DistinctTail
  <2>4. OwnerOf(w) = None /\ OwnerOf(w)' = c
    BY <2>2, <2>3 DEF Owners
  <2>5. PhaseOf(c) = "open" /\ PhaseOf(c)' = "open"
    BY <2>2, PhaseIs
  <2>6. \A v \in Workers \ {w} : SameOwner(v)
    BY <1>1, <2>2, CallFrame
  <2>7. \A d \in Calls : SamePhase(d)
    BY <1>1, <2>2, <2>5, CallFrame DEF SamePhase
  <2>8. \A d \in Calls \ {c} : SameHanded(d)
    BY <1>1, <2>2, CallFrame
  <2>9. Service!Lend(c, w)
    BY <1>0, <1>1, <2>2, <2>4, <2>5, <2>6, <2>7, <2>8, MapLend
  <2>10. QED
    BY <2>9 DEF Service!Next
<1>4. CASE CountDown(c) \/ SendRefused(c)
  <2>1. /\ cpc[c] \in {"taken", "sending"} /\ cpc'[c] \in {"sending", "release"}
        /\ UNCHANGED <<held, inbox, wpc, cur, lost>>
    BY <1>0, <1>4 DEF CountDown, SendRefused, TypeOK
  <2>2. PhaseOf(c) = "open" /\ PhaseOf(c)' = "open" /\ Holding(c) /\ Holding(c)'
    BY <2>1, PhaseIs DEF Holding
  <2>3. \A w \in Workers : SameOwner(w)
    BY <1>1, <2>1, <2>2, CallFrame
  <2>4. \A d \in Calls : SamePhase(d) /\ SameHanded(d)
    BY <1>1, <2>1, <2>2, CallFrame DEF SameHanded, SamePhase
  <2>5. QED
    BY <1>1, <2>3, <2>4, MapStutter
<1>5. CASE Send(c)
  <2>0. PICK u \in Workers : u = held[c]
    BY <1>0, <1>5 DEF Send, ServiceInv, HeldOK
  <2>1. /\ cpc[c] = "sending" /\ cpc'[c] = "sent" /\ Holding(c) /\ ~Holding(c)'
        /\ UNCHANGED <<held, reply, wpc, cur, lost>> /\ held[c] = u
        /\ inbox'[u] = c /\ \A v \in Workers \ {u} : inbox'[v] = inbox[v]
    BY <1>0, <1>5, <2>0 DEF Send, TypeOK, Holding
  <2>2. OwnerOf(u) = c /\ OwnerOf(u)' = c
    BY <1>0, <2>1 DEF Owners, Handed
  <2>3. \A v \in Workers \ {u} : SameOwner(v)
    <3> SUFFICES ASSUME NEW v \in Workers, v # u PROVE SameOwner(v)
      OBVIOUS
    <3>1. \A d \in Calls : held'[d] = v /\ Holding(d)' <=> held[d] = v /\ Holding(d)
      BY <1>1, <2>1 DEF Holding
    <3>2. Busy(v)' <=> Busy(v)
      BY <2>1 DEF Busy
    <3>3. QED
      BY <2>1, <3>1, <3>2, OwnerFrame DEF SameOwner
  <2>4. PhaseOf(c) = "open" /\ PhaseOf(c)' = "open"
    BY <2>1, PhaseIs
  <2>5. \A d \in Calls : SamePhase(d) /\ SameHanded(d)
    BY <1>1, <2>1, <2>4, PhaseFrame DEF SamePhase, SameHanded
  <2>6. \A w \in Workers : SameOwner(w)
    BY <2>2, <2>3 DEF SameOwner
  <2>7. QED
    BY <1>1, <2>5, <2>6, MapStutter
<1>6. CASE ReleaseIndex(c)
  <2> DEFINE u == held[c]
  <2>1. /\ cpc[c] = "release" /\ cpc'[c] = "released" /\ Holding(c) /\ ~Holding(c)'
        /\ UNCHANGED <<held, inbox, wpc, cur, lost>> /\ u \in Workers
        /\ queue' = Append(queue, u) /\ queue \in Seq(Workers)
    BY <1>0, <1>6 DEF ReleaseIndex, TypeOK, Holding, ServiceInv, HeldOK
  <2>2. Among(u, queue)'
    BY <2>1, DistinctAppend
  <2>3. OwnerOf(u) = c /\ OwnerOf(u)' = None
    BY <2>1, <2>2 DEF Owners
  <2>4. \A v \in Workers \ {u} : SameOwner(v)
    BY <1>1, <2>1, CallFrame
  <2>5. PhaseOf(c) = "open" /\ PhaseOf(c)' = "open"
    BY <2>1, PhaseIs
  <2>6. \A d \in Calls : SamePhase(d) /\ SameHanded(d)
    BY <1>1, <2>1, <2>5, CallFrame DEF SamePhase, SameHanded
  <2>7. Service!GiveBack(u)
    BY <1>1, <2>1, <2>3, <2>4, <2>6, MapGiveBack
  <2>8. QED
    BY <2>1, <2>7 DEF Service!Next
<1>7. CASE ReleaseCount(c) \/ Receive(c)
  <2>1. /\ cpc[c] \in {"released", "sent"} /\ cpc'[c] = "done" /\ ~Holding(c) /\ ~Holding(c)'
        /\ cpc[c] = "sent" => reply[c] # None /\ reply'[c] = reply[c]
        /\ cpc[c] = "released" => reply'[c] = Error
        /\ UNCHANGED <<held, inbox, wpc, cur, lost>> /\ held[c] # None
    BY <1>0, <1>7 DEF ReleaseCount, Receive, TypeOK, Holding, ServiceInv, HeldOK
  <2>2. \A w \in Workers : OwnerOf(w) # c
    BY <2>1, OwnedBy
  <2>3. \A w \in Workers : SameOwner(w)
    BY <1>1, <2>1, CallFrame
  <2>4. reply'[c] = Error \/ (reply'[c] = c /\ executed[c] > 0)
    BY <2>1 DEF ServiceInv, OwnReply, DoneOK
  <2>5. (executed[c] > 0 /\ PhaseOf(c)' = "ok") \/ PhaseOf(c)' = "failed"
    BY <1>0, <2>1, <2>4, PhaseIs
  <2>6. PhaseOf(c) = "open"
    BY <2>1, PhaseIs
  <2>7. /\ \A d \in Calls \ {c} : SamePhase(d)
        /\ \A d \in Calls : SameHanded(d)
    BY <1>1, <2>1, CallFrame DEF SameHanded
  <2>8. Service!Answer(c)
    BY <1>1, <2>1, <2>2, <2>3, <2>5, <2>6, <2>7, MapAnswer
  <2>9. QED
    BY <2>8 DEF Service!Next
<1>8. CASE Cancel(c)
  <2>1. /\ cpc[c] \in {"waiting", "sending", "release", "sent"} /\ cpc'[c] = "cancelled"
        /\ ~Holding(c)' /\ UNCHANGED <<held, inbox, wpc, cur>>
    BY <1>0, <1>8, PoolAssumption DEF Cancel, TypeOK, Holding
  <2>2. PhaseOf(c) = "open" /\ PhaseOf(c)' = "abandoned"
    BY <2>1, PhaseIs
  <2>3. /\ \A d \in Calls \ {c} : SamePhase(d)
        /\ \A d \in Calls : SameHanded(d)
    BY <1>1, <2>1, CallFrame DEF SameHanded
  <2>4. \/ \A w \in Workers : OwnerOf(w)' = IF OwnerOf(w) = c THEN Error ELSE OwnerOf(w)
        \/ \A w \in Workers : SameOwner(w)
    <3>1. CASE cpc[c] \in {"waiting", "sent"}
      <4>1. ~Holding(c) /\ UNCHANGED lost
        BY <1>8, <3>1 DEF Cancel, Holding
      <4>2. QED
        BY <1>1, <2>1, <4>1, CallFrame
    <3>2. CASE cpc[c] \in {"sending", "release"}
      <4>1. PICK u \in Workers : u = held[c]
        BY <3>2 DEF ServiceInv, HeldOK
      <4>2. Holding(c) /\ lost' = lost \cup {u} /\ held[c] = u
        BY <1>8, <3>2, <4>1 DEF Cancel, Holding
      <4>3. OwnerOf(u) = c /\ OwnerOf(u)' = Error
        BY <4>2 DEF Owners
      <4>4. \A v \in Workers \ {u} : SameOwner(v)
        BY <1>1, <2>1, <4>2, CallFrame
      <4>5. \A v \in Workers \ {u} : OwnerOf(v) # c
        BY <4>2, OwnedBy
      <4>6. QED
        BY <4>3, <4>4, <4>5 DEF SameOwner
    <3>3. QED
      BY <2>1, <3>1, <3>2
  <2>5. Service!Abandon(c)
    BY <1>1, <2>2, <2>3, <2>4, MapAbandon
  <2>6. QED
    BY <2>5 DEF Service!Next
<1>9. QED
  BY <1>2, <1>3, <1>4, <1>5, <1>6, <1>7, <1>8 DEF CallStep

LEMMA MapWorkers ==
  ASSUME ServiceInv, ServiceInv', Owners, Owners',
         NEW w \in Workers, WorkerStep(w) \/ Serve(w) \/ Break(w) \/ Stop(w)
  PROVE  Service!Next \/ UNCHANGED Service!vars
<1> USE DEF callVars, tokenVars, connVars, workVars, serverVars
<1>0. TypeOK /\ UNCHANGED <<cpc, held>> /\ Error \notin Calls /\ None \notin Calls
  <2>1. CASE RecvJob(w) \/ IdleClose(w) \/ Shutdown(w) \/ Connect(w) \/ ConnectFails(w)
             \/ Write(w) \/ ReadReply(w) \/ Interrupt(w)
    BY <2>1, PoolAssumption DEF ServiceInv, RecvJob, IdleClose, Shutdown, Connect, ConnectFails,
       Write, ReadReply, Interrupt
  <2>2. CASE Return(w) \/ ReturnRefused(w) \/ Reply(w) \/ Serve(w) \/ Break(w) \/ Stop(w)
    BY <2>2, PoolAssumption DEF ServiceInv, Return, ReturnRefused, Reply, Serve, Break, Stop
  <2>3. QED
    BY <2>1, <2>2 DEF WorkerStep
(* A worker answers only the command in its hands, whose call waits or left. *)
<1>1. \A c \in Calls : SamePhase(c) /\ SameHanded(c)
  <2> SUFFICES ASSUME NEW c \in Calls PROVE SamePhase(c) /\ SameHanded(c)
    OBVIOUS
  <2>1. reply'[c] = reply[c] \/ InHands(c, w)
    <3>1. CASE Return(w) \/ Serve(w) \/ Break(w) \/ RecvJob(w) \/ IdleClose(w) \/ Shutdown(w)
      BY <3>1 DEF Return, Serve, Break, RecvJob, IdleClose, Shutdown
    <3>2. CASE Connect(w) \/ ConnectFails(w) \/ Write(w) \/ ReadReply(w) \/ Interrupt(w)
      BY <3>2 DEF Connect, ConnectFails, Write, ReadReply, Interrupt
    <3>3. CASE ReturnRefused(w) \/ Reply(w)
      BY <1>0, <3>3 DEF ReturnRefused, Reply, TypeOK, InHands, Working
    <3>4. CASE Stop(w)
      BY <1>0, <3>4 DEF Stop, TypeOK, InHands, Working, Busy
    <3>5. QED
      BY <3>1, <3>2, <3>3, <3>4 DEF WorkerStep
  <2>2. cpc[c] = "done" => reply'[c] = reply[c]
    BY <2>1 DEF ServiceInv, StageOK
  <2>3. QED
    BY <1>0, <2>2, PhaseFrame DEF SamePhase, SameHanded
<1>2. \A v \in Workers \ {w} : SameOwner(v)
  <2>1. \A v \in Workers \ {w} : v \in lost' <=> v \in lost
    <3>1. CASE Return(w) \/ Serve(w) \/ Break(w) \/ RecvJob(w) \/ IdleClose(w) \/ Shutdown(w)
      BY <3>1 DEF Return, Serve, Break, RecvJob, IdleClose, Shutdown
    <3>2. CASE Connect(w) \/ ConnectFails(w) \/ Write(w) \/ ReadReply(w) \/ Interrupt(w)
      BY <3>2 DEF Connect, ConnectFails, Write, ReadReply, Interrupt
    <3>3. CASE ReturnRefused(w) \/ Reply(w) \/ Stop(w)
      BY <3>3 DEF ReturnRefused, Reply, Stop
    <3>4. QED
      BY <3>1, <3>2, <3>3 DEF WorkerStep
  <2>2. ASSUME NEW v \in Workers, v # w PROVE SameOwner(v)
    <3>1. inbox'[v] = inbox[v] /\ cur'[v] = cur[v] /\ wpc'[v] = wpc[v]
      BY <1>0, <2>2, WorkerFrame
    <3>2. /\ Busy(v)' <=> Busy(v)
          /\ \A c \in Calls : held'[c] = v /\ Holding(c)' <=> held[c] = v /\ Holding(c)
      BY <1>0, <3>1 DEF Busy, Holding
    <3>3. QED
      BY <2>1, <2>2, <3>1, <3>2, OwnerFrame DEF SameOwner
  <2>3. QED
    BY <2>2
<1>3. SameOwner(w) /\ executed' = executed => UNCHANGED Service!vars
  <2>1. SameOwner(w) => \A v \in Workers : SameOwner(v)
    BY <1>2
  <2>2. QED
    BY <1>1, <2>1, MapStutter
<1>4. \A c \in Calls : held'[c] = w /\ Holding(c)' <=> held[c] = w /\ Holding(c)
  BY <1>0 DEF Holding
<1>5. CASE RecvJob(w)
  <2>1. inbox[w] # None /\ cur'[w] = inbox[w] /\ Handed(w) /\ Busy(w)' /\ executed' = executed
    BY <1>0, <1>5 DEF RecvJob, TypeOK, Handed, Busy
  <2>2. OwnerOf(w) = inbox[w] /\ OwnerOf(w)' = cur'[w]
    BY <2>1 DEF Owners
  <2>3. QED
    BY <1>3, <2>1, <2>2 DEF SameOwner
(* The command stays in the hands of the worker, or it has none. *)
<1>6. CASE IdleClose(w) \/ Shutdown(w) \/ Connect(w) \/ ConnectFails(w) \/ Write(w)
           \/ ReadReply(w) \/ Interrupt(w) \/ Reply(w) \/ Break(w)
  <2>1. UNCHANGED <<lost, inbox, executed>>
    BY <1>6 DEF IdleClose, Shutdown, Connect, ConnectFails, Write, ReadReply, Interrupt, Reply, Break
  <2>2. (Busy(w)' <=> Busy(w)) /\ (Busy(w) => cur'[w] = cur[w])
    <3>1. CASE IdleClose(w) \/ Shutdown(w) \/ Connect(w) \/ ConnectFails(w) \/ Write(w)
      BY <1>0, <3>1 DEF IdleClose, Shutdown, Connect, ConnectFails, Write, Busy, TypeOK
    <3>2. CASE ReadReply(w) \/ Interrupt(w)
      BY <1>0, <3>2 DEF ReadReply, Interrupt, ExchangeFails, Busy, TypeOK
    <3>3. CASE Reply(w) \/ Break(w)
      BY <1>0, <3>3 DEF Reply, Break, Busy, TypeOK
    <3>4. QED
      BY <1>6, <3>1, <3>2, <3>3
  <2>3. SameOwner(w)
    BY <1>4, <2>1, <2>2, OwnerFrame DEF SameOwner
  <2>4. QED
    BY <1>3, <2>1, <2>3
<1>7. CASE Return(w)
  <2>1. /\ Busy(w) /\ cur[w] \in Calls /\ executed' = executed
        /\ queue' = Append(queue, w) /\ queue \in Seq(Workers)
    BY <1>0, <1>7 DEF Return, Busy, TypeOK, ServiceInv, BusyOK
  <2>2. Among(w, queue)'
    BY <2>1, DistinctAppend
  <2>3. OwnerOf(w) \in Calls /\ OwnerOf(w)' = None
    BY <2>1, <2>2 DEF Owners
  <2>4. Service!GiveBack(w)
    BY <1>1, <1>2, <2>1, <2>3, MapGiveBack
  <2>5. QED
    BY <2>4 DEF Service!Next
(* The task ends with a command in its hands. *)
<1>8. ASSUME OwnerOf(w) \in Calls, w \in lost', executed' = executed
      PROVE  Service!Next
  <2>1. OwnerOf(w) # Error /\ OwnerOf(w)' = Error
    BY <1>0, <1>8 DEF Owners
  <2>2. Service!Lose(w)
    BY <1>1, <1>2, <1>8, <2>1, MapLose
  <2>3. QED
    BY <2>2 DEF Service!Next
<1>9. CASE ReturnRefused(w)
  <2>1. Busy(w) /\ cur[w] \in Calls /\ executed' = executed /\ w \in lost'
    BY <1>9 DEF ReturnRefused, Busy, ServiceInv, BusyOK
  <2>2. QED
    BY <1>8, <2>1 DEF Owners
<1>10. CASE Stop(w)
  <2>1. /\ wpc'[w] = "stopped" /\ inbox'[w] = None /\ UNCHANGED <<cur, executed>>
        /\ wpc[w] \notin {"count", "stopped"}
    BY <1>0, <1>10 DEF Stop, TypeOK
  <2>2. CASE Handed(w) \/ Busy(w)
    <3>1. CASE Handed(w)
      <4>1. inbox[w] \in Calls /\ w \in lost'
        BY <1>0, <1>10, <3>1 DEF Stop, Handed, TypeOK
      <4>2. QED
        BY <1>8, <2>1, <3>1, <4>1 DEF Owners
    <3>2. CASE Busy(w)
      <4>1. cur[w] \in Calls
        BY <3>2 DEF Busy, ServiceInv, BusyOK
      <4>2. w \in lost'
        BY <1>10, <3>2, <4>1 DEF Stop
      <4>3. QED
        BY <1>8, <2>1, <3>2, <4>1, <4>2 DEF Owners
    <3>3. QED
      BY <2>2, <3>1, <3>2
  <2>3. CASE ~Handed(w) /\ ~Busy(w)
    <3>1. lost' = lost
      BY <1>0, <1>10, <2>3 DEF Stop, Handed
    <3>2. inbox'[w] = inbox[w] /\ ~Busy(w)'
      BY <2>1, <2>3 DEF Handed, Busy
    <3>3. SameOwner(w)
      BY <1>4, <2>3, <3>1, <3>2, OwnerFrame DEF SameOwner
    <3>4. QED
      BY <1>3, <2>1, <3>3
  <2>4. QED
    BY <2>2, <2>3
(* named runs a request of the stream: its call was lent this worker. *)
<1>11. CASE Serve(w)
  <2>1. PICK i \in DOMAIN wire[w] :
          /\ ~wire[w][i].done /\ executed' = [executed EXCEPT ![wire[w][i].call] = @ + 1]
    BY <1>11 DEF Serve
  <2>2. wire[w] \in Seq(Request) /\ wire[w][i].call \in Calls
    <3>1. wire[w] \in Seq(Request) /\ wire[w][i] \in Request
      BY <1>0 DEF TypeOK
    <3>2. QED
      BY <3>1 DEF Request
  <2>3. PICK c \in Calls : c = wire[w][i].call
    BY <2>2
  <2>4. held[c] = w /\ Total(c, w) <= 2
    BY <2>3 DEF ServiceInv, RunsOK, OnWire
  <2>5. executed[c] < 2
    <3>1. Unserved(wire[w], c) >= 1
      BY <2>1, <2>2, <2>3, UnservedPositive
    <3>2. /\ executed[c] \in Nat /\ orphan[c] \in Nat /\ Unserved(wire[w], c) \in Nat
          /\ Left(c, w) \in Nat
      BY <1>0, TotalNat
    <3>3. QED
      BY <2>4, <3>1, <3>2 DEF Total
  <2>6. held[c] # None
    BY <2>4, PoolAssumption
  <2>7. UNCHANGED <<lost, inbox, wpc, cur>>
    BY <1>11 DEF Serve
  <2>8. SameOwner(w)
    BY <1>4, <2>7, OwnerFrame DEF SameOwner, Busy
  <2>9. Service!Run(c)
    <3>1. \A v \in Workers : SameOwner(v)
      BY <1>2, <2>8
    <3>2. executed' = [executed EXCEPT ![c] = @ + 1]
      BY <2>1, <2>3
    <3>3. QED
      BY <1>1, <2>5, <2>6, <3>1, <3>2, MapRun
  <2>10. QED
    BY <2>9 DEF Service!Next
<1>12. QED
  BY <1>5, <1>6, <1>7, <1>9, <1>10, <1>11 DEF WorkerStep

(* What changes nothing but the environment's own account of a command. *)
LEMMA MapQuiet ==
  ASSUME UNCHANGED <<cpc, held, reply, lost, inbox, wpc, cur>>
  PROVE  /\ \A c \in Calls : SamePhase(c) /\ SameHanded(c)
         /\ \A w \in Workers : SameOwner(w)
<1>1. \A c \in Calls : SamePhase(c) /\ SameHanded(c)
  BY PhaseFrame DEF SamePhase, SameHanded
<1>2. ASSUME NEW w \in Workers PROVE SameOwner(w)
  <2>1. (Busy(w)' <=> Busy(w)) /\ \A c \in Calls : Holding(c)' <=> Holding(c)
    BY DEF Busy, Holding
  <2>2. QED
    BY <2>1, OwnerFrame DEF SameOwner
<1>3. QED
  BY <1>1, <1>2

(* named runs a request of an abandoned connection. *)
LEMMA MapOrphan ==
  ASSUME ServiceInv, NEW c \in Calls, ServeOrphan(c)
  PROVE  Service!Next
<1>1. /\ TypeOK /\ orphan[c] > 0 /\ executed' = [executed EXCEPT ![c] = @ + 1]
      /\ UNCHANGED <<cpc, held, reply, lost, inbox, wpc, cur>>
  BY DEF ServiceInv, ServeOrphan, callVars, tokenVars, workVars, connVars
<1>2. orphan[c] \in Nat /\ executed[c] \in Nat
  BY <1>1 DEF TypeOK
<1>3. held[c] # None
  BY <1>1, <1>2 DEF ServiceInv, RunsOK
<1>4. PICK w \in Workers : held[c] = w
  BY <1>1, <1>3 DEF TypeOK
<1>5. executed[c] < 2
  <2>1. Total(c, w) <= 2
    BY <1>4 DEF ServiceInv, RunsOK
  <2>2. Unserved(wire[w], c) \in Nat /\ Left(c, w) \in Nat
    BY <1>1, TotalNat
  <2>3. QED
    BY <1>1, <1>2, <2>1, <2>2 DEF Total
<1>6. Service!Run(c)
  BY <1>1, <1>3, <1>5, MapQuiet, MapRun
<1>7. QED
  BY <1>6 DEF Service!Next

LEMMA MapInit == Init => Service!Init
<1> SUFFICES ASSUME Init PROVE Service!Init
  OBVIOUS
<1>1. \A c \in Calls : PhaseOf(c) = "idle" /\ held[c] = None /\ executed[c] = 0
  BY DEF Init, PhaseOf
<1>2. ASSUME NEW w \in Workers PROVE OwnerOf(w) = None
  <2>1. w \notin lost /\ Holders(w) = {} /\ inbox[w] = None /\ ~Busy(w)
    BY PoolAssumption DEF Init, Holders, Busy
  <2>2. QED
    BY <2>1 DEF OwnerOf
<1>3. executed = [c \in Calls |-> 0]
  BY DEF Init
<1>4. QED
  BY <1>1, <1>2, <1>3 DEF Service!Init

LEMMA MapNext ==
  ServiceInv /\ ServiceInv' /\ Owners /\ Owners' /\ [Next]_vars => [Service!Next]_(Service!vars)
<1> SUFFICES ASSUME ServiceInv, ServiceInv', Owners, Owners', [Next]_vars
             PROVE  Service!Next \/ UNCHANGED Service!vars
  OBVIOUS
<1>1. CASE \E c \in Calls : Start(c) \/ CallStep(c) \/ Cancel(c)
  BY <1>1, MapCalls
<1>2. CASE \E w \in Workers : WorkerStep(w) \/ Serve(w) \/ Break(w) \/ Stop(w)
  BY <1>2, MapWorkers
<1>3. CASE \E c \in Calls : ServeOrphan(c)
  BY <1>3, MapOrphan
<1>4. CASE DropPool \/ UNCHANGED vars
  <2>1. UNCHANGED <<cpc, held, reply, lost, inbox, wpc, cur, executed>>
    BY <1>4 DEF DropPool, vars, callVars, tokenVars, workVars, connVars, serverVars
  <2>2. QED
    BY <2>1, MapQuiet, MapStutter
<1>5. QED
  BY <1>1, <1>2, <1>3, <1>4 DEF Next, Environment, Finished

(* RndcPool::execute, its workers and named together keep the promise of   *)
(* CommandService: whatever calls, retries, timeouts, dropped futures,     *)
(* broken connections and ended tasks interleave, a worker serves one      *)
(* command at a time, a command is run at most twice and only once it was  *)
(* handed to a worker, and a call is answered after its worker was given   *)
(* back or lost, with a result only if its command was run.                *)
THEOREM ServiceCorrect == Spec => RefinesService
<1>1. Spec => []ServiceInv
  BY ServiceInvInit, ServiceInvNext, PTL DEF Spec
<1>2. []ServiceInv /\ [][Next]_vars => [][Service!Next]_(Service!vars)
  BY OwnersHold, OwnersStay, MapNext, PTL
<1>3. QED
  BY <1>1, <1>2, MapInit, PTL DEF Spec, RefinesService, Service!Spec
=============================================================================
