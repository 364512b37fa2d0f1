------------------------ MODULE VerifiedUpdateProofs ------------------------
(***************************************************************************)
(* Proofs about VerifiedUpdate, for any number of calls, any width of the  *)
(* serial and any number of changes by others.                             *)
(*                                                                         *)
(* The serials a call compares say what it wants to know because the       *)
(* serial of the zone is, up to one turn around its space, the first       *)
(* serial plus everything that happened since; and a refusal over UDP is   *)
(* the answer to the only copy there is.                                   *)
(***************************************************************************)
EXTENDS VerifiedUpdate, TLAPS

-----------------------------------------------------------------------------
(* Serial arithmetic.                                                      *)

LEMMA HalfNat == Half \in Nat /\ Half > 1 /\ SerialSpace \in Nat /\ SerialSpace = Half + Half
BY HalfAssumption DEF SerialSpace

LEMMA AddType ==
  ASSUME NEW a \in Serials, NEW j \in 0..(Half - 1)
  PROVE  WrappingAdd(a, j) \in Serials
BY HalfNat DEF Serials, WrappingAdd

(* Two changes are one change by the sum, within one turn. *)
LEMMA AddAdd ==
  ASSUME NEW a \in Serials, NEW m \in Nat, NEW j \in Nat, m + j < SerialSpace
  PROVE  WrappingAdd(WrappingAdd(a, m), j) = WrappingAdd(a, m + j)
BY HalfNat DEF Serials, WrappingAdd

LEMMA AddZero == ASSUME NEW a \in Serials PROVE WrappingAdd(a, 0) = a
BY HalfNat DEF Serials, WrappingAdd

(* A serial that moved on by half the space or less is not behind. *)
LEMMA NotBehind ==
  ASSUME NEW a \in Serials, NEW m \in 1..Half
  PROVE  WrappingAdd(a, m) # a /\ ~Newer(a, WrappingAdd(a, m))
<1>1. CASE a + m < SerialSpace
  BY <1>1, HalfNat DEF Serials, WrappingAdd, Newer, WrappingSub
<1>2. CASE a + m >= SerialSpace
  BY <1>2, HalfNat DEF Serials, WrappingAdd, Newer, WrappingSub
<1> QED BY <1>1, <1>2, HalfNat DEF Serials

-----------------------------------------------------------------------------
(* The invariant.                                                          *)

(* A call that has not begun has left no trace. *)
FreshOK ==
  \A u \in Updaters : pc[u] = "idle" =>
    /\ copies[u] = {} /\ reply[u] = "none" /\ ~truncated[u]
    /\ applied[u] = 0 /\ moved[u] = 0 /\ ~foreign[u]

(* One copy, or after a truncated response a second one; each takes effect *)
(* at most once.                                                           *)
CopiesOK ==
  \A u \in Updaters :
    /\ pc[u] = "tcp" => truncated[u]
    /\ pc[u] = "udp" => ~truncated[u]
    /\ pc[u] = "udp" /\ reply[u] # "none" => copies[u] = {}
    /\ ~truncated[u] => /\ copies[u] \subseteq {"udp"}
                        /\ applied[u] \in 0..1
                        /\ copies[u] # {} => applied[u] = 0
    /\ truncated[u] => /\ copies[u] \subseteq {"tcp"}
                       /\ copies[u] # {} => applied[u] \in 0..1

(* A refusal answers the copy that was refused. *)
RefusalOK ==
  \A u \in Updaters :
    ~truncated[u] /\ (reply[u] = "rcode" \/ pc[u] = "rejected") => applied[u] = 0 /\ copies[u] = {}

(* What the history says of the serial. *)
SerialOK ==
  \A u \in Updaters : Reading(u) /\ moved[u] < SerialSpace =>
    serial = WrappingAdd(before[u], moved[u])

(* The serial moved only if somebody moved it. *)
MovedOK ==
  \A u \in Updaters : Reading(u) =>
    /\ moved[u] > 0 => applied[u] > 0 \/ foreign[u]
    /\ applied[u] > 0 => moved[u] > 0

(* How the calls that compared the serials ended: after the second read no *)
(* copy is left that could still be applied.                               *)
EndOK ==
  \A u \in Updaters :
    /\ pc[u] \in {"after", "notapplied"} => copies[u] = {}
    /\ pc[u] = "ok" => applied[u] > 0 \/ foreign[u]
    /\ pc[u] = "notapplied" => applied[u] = 0 \/ moved[u] > Half
    /\ reply[u] = "noerror" => copies[u] = {}

Inv == TypeOK /\ FreshOK /\ CopiesOK /\ RefusalOK /\ SerialOK /\ MovedOK /\ EndOK
-----------------------------------------------------------------------------
LEMMA InitInv == Init => Inv
<1> SUFFICES ASSUME Init PROVE Inv
    OBVIOUS
<1>1. 0 \in Serials
  BY HalfNat DEF Serials
<1>2. TypeOK
  <2>1. serial \in Serials /\ others \in 0..MaxOthers
    BY UpdateAssumption DEF Init, InitClient
  <2>5. frozen \in BOOLEAN
    BY Zenon DEF Init
  <2>2. /\ pc \in [Updaters -> {"idle", "after"} \cup Transports \cup Results]
        /\ before \in [Updaters -> Serials] /\ copies \in [Updaters -> SUBSET Transports]
        /\ reply \in [Updaters -> Replies]
    BY <1>1 DEF Init, InitClient, Replies
  <2>3. truncated \in [Updaters -> BOOLEAN] /\ foreign \in [Updaters -> BOOLEAN]
    BY DEF Init, InitClient
  <2>4. applied \in [Updaters -> 0..2] /\ moved \in [Updaters -> Nat]
    BY DEF Init, InitClient
  <2> QED BY <2>1, <2>2, <2>3, <2>4, <2>5, Zenon DEF TypeOK
<1> QED
  BY <1>2 DEF Init, InitClient, Inv, FreshOK, CopiesOK, RefusalOK, SerialOK, MovedOK, EndOK,
              Reading, Transports

(* A change keeps what the history says of the serial and of who moved it. *)
LEMMA ChangeInv ==
  ASSUME Inv, NEW j \in Jumps, NEW by \in SUBSET Updaters, Change(j, by),
         \A u \in by : applied[u] < 2 /\ copies[u] # {} /\ pc[u] # "idle",
         UNCHANGED <<pc, before>>
  PROVE  /\ serial' \in Serials
         /\ applied' \in [Updaters -> 0..2]
         /\ moved' \in [Updaters -> Nat] /\ foreign' \in [Updaters -> BOOLEAN]
         /\ SerialOK' /\ MovedOK'
         /\ \A u \in Updaters : pc[u] = "idle" => UNCHANGED <<applied[u], moved[u], foreign[u]>>
         /\ \A u \in Updaters : u \notin by => applied'[u] = applied[u]
         /\ \A u \in Updaters : u \in by => applied'[u] = applied[u] + 1
         /\ \A u \in Updaters : ~Reading(u) => moved'[u] = moved[u] /\ foreign'[u] = foreign[u]
         /\ \A u \in Updaters : foreign[u] => foreign'[u]
<1>1. j \in 1..(Half - 1) /\ j \in Nat /\ j > 0
  BY UpdateAssumption, HalfNat
<1>2. serial \in Serials /\ applied \in [Updaters -> 0..2] /\ moved \in [Updaters -> Nat]
      /\ foreign \in [Updaters -> BOOLEAN] /\ before \in [Updaters -> Serials]
  BY DEF Inv, TypeOK
<1>3. serial' \in Serials
  BY <1>1, <1>2, AddType, HalfNat DEF Change
<1>4. applied' \in [Updaters -> 0..2]
  BY <1>2 DEF Change
<1>5. moved' \in [Updaters -> Nat]
  BY <1>1, <1>2 DEF Change
<1>6. foreign' \in [Updaters -> BOOLEAN]
  BY <1>2 DEF Change
<1>7. SerialOK'
  <2> SUFFICES ASSUME NEW u \in Updaters, Reading(u), moved'[u] < SerialSpace
               PROVE  serial' = WrappingAdd(before[u], moved'[u])
    BY DEF SerialOK, Reading
  <2>1. moved'[u] = moved[u] + j
    BY DEF Change
  <2>2. moved[u] < SerialSpace
    BY <1>1, <1>2, <2>1, HalfNat
  <2>3. serial = WrappingAdd(before[u], moved[u])
    BY <2>2 DEF Inv, SerialOK
  <2>4. before[u] \in Serials /\ moved[u] \in Nat /\ moved[u] + j < SerialSpace
    BY <1>2, <2>1
  <2>5. WrappingAdd(WrappingAdd(before[u], moved[u]), j) = WrappingAdd(before[u], moved[u] + j)
    BY <1>1, <2>4, AddAdd
  <2>6. before' = before /\ serial' = WrappingAdd(serial, j)
    BY DEF Change
  <2> QED BY <2>1, <2>3, <2>5, <2>6
<1>8. MovedOK'
  <2> SUFFICES ASSUME NEW u \in Updaters, Reading(u)
               PROVE  /\ applied'[u] > 0 \/ foreign'[u]
                      /\ moved'[u] > 0
    BY DEF MovedOK, Reading
  <2>1. moved'[u] = moved[u] + j
    BY DEF Change
  <2>2. CASE u \in by
    BY <1>1, <1>2, <2>1, <2>2 DEF Change
  <2>3. CASE u \notin by
    <3>1. foreign'[u]
      BY <2>3, Zenon DEF Change
    <3>2. moved'[u] > 0
      BY <1>1, <1>2, <2>1
    <3> QED BY <3>1, <3>2
  <2> QED BY <2>2, <2>3
<1>9. \A u \in Updaters : pc[u] = "idle" => UNCHANGED <<applied[u], moved[u], foreign[u]>>
  BY <1>2 DEF Change, Reading, Transports
<1>10. /\ \A u \in Updaters : u \notin by => applied'[u] = applied[u]
       /\ \A u \in Updaters : u \in by => applied'[u] = applied[u] + 1
       /\ \A u \in Updaters : ~Reading(u) => moved'[u] = moved[u] /\ foreign'[u] = foreign[u]
       /\ \A u \in Updaters : foreign[u] => foreign'[u]
  BY <1>2 DEF Change
<1> QED BY <1>3, <1>4, <1>5, <1>6, <1>7, <1>8, <1>9, <1>10

(* What a response may be, and that it only reaches the call it answers. *)
LEMMA RespondType ==
  ASSUME TypeOK, NEW u \in Updaters, NEW t \in Transports, NEW r \in Replies, Respond(u, t, r)
  PROVE  /\ reply' \in [Updaters -> Replies]
         /\ \A v \in Updaters : reply'[v] = reply[v] \/ (v = u /\ pc[u] = t /\ reply'[v] = r)
BY DEF TypeOK, Respond

LEMMA OtherInv == Inv /\ Other => Inv'
<1> SUFFICES ASSUME Inv, Other PROVE Inv'
    OBVIOUS
<1>1. PICK j \in Jumps : Change(j, {})
  BY DEF Other
<1>2. UNCHANGED <<frozen, pc, before, truncated, copies, reply>> /\ others' \in 0..MaxOthers
  BY UpdateAssumption DEF Other, clientVars, Inv, TypeOK
<1>3. /\ serial' \in Serials
      /\ applied' \in [Updaters -> 0..2]
      /\ moved' \in [Updaters -> Nat] /\ foreign' \in [Updaters -> BOOLEAN]
      /\ SerialOK' /\ MovedOK'
      /\ \A u \in Updaters : pc[u] = "idle" => UNCHANGED <<applied[u], moved[u], foreign[u]>>
      /\ \A u \in Updaters : applied'[u] = applied[u]
      /\ \A u \in Updaters : ~Reading(u) => moved'[u] = moved[u] /\ foreign'[u] = foreign[u]
      /\ \A u \in Updaters : foreign[u] => foreign'[u]
  BY <1>1, <1>2, ChangeInv
<1>4. TypeOK'
  BY <1>2, <1>3 DEF Inv, TypeOK
<1>5. FreshOK' /\ CopiesOK' /\ RefusalOK'
  BY <1>2, <1>3 DEF Inv, FreshOK, CopiesOK, RefusalOK
<1>6. EndOK'
  BY <1>2, <1>3 DEF Inv, EndOK, Reading, Transports
<1> QED BY <1>3, <1>4, <1>5, <1>6 DEF Inv

LEMMA ProcessInv ==
  ASSUME Inv, NEW u \in Updaters, NEW t \in Transports, Process(u, t)
  PROVE  Inv'
<1>1. PICK r \in Replies :
        /\ Respond(u, t, r) /\ (r = "truncated" => t = "udp")
        /\ \/ r # "rcode" /\ \E j \in Jumps : Change(j, {u})
           \/ UNCHANGED <<serial, historyVars>>
  <2>1. CASE \E j \in Jumps : Change(j, {u})
    BY <2>1 DEF Process, Replies
  <2>2. CASE UNCHANGED <<serial, historyVars>>
    BY <2>2 DEF Process, Replies
  <2> QED BY <2>1, <2>2 DEF Process
<1>2. /\ t \in copies[u] /\ copies' = [copies EXCEPT ![u] = @ \ {t}]
      /\ UNCHANGED <<frozen, others, pc, before, truncated>>
  BY DEF Process, clientVars
<1>3. /\ copies \in [Updaters -> SUBSET Transports] /\ applied \in [Updaters -> 0..2]
      /\ pc[u] # "idle" /\ applied[u] < 2
  BY <1>2 DEF Inv, TypeOK, FreshOK, CopiesOK
<1>4. copies'[u] = {} /\ copies' \in [Updaters -> SUBSET Transports]
      /\ \A v \in Updaters : v # u => copies'[v] = copies[v]
  BY <1>2, <1>3 DEF Inv, CopiesOK
<1>5. /\ reply' \in [Updaters -> Replies]
      /\ \A v \in Updaters : reply'[v] = reply[v] \/ (v = u /\ pc[u] = t /\ reply'[v] = r)
  BY <1>1, RespondType DEF Inv
<1>6. /\ serial' \in Serials
      /\ applied' \in [Updaters -> 0..2]
      /\ moved' \in [Updaters -> Nat] /\ foreign' \in [Updaters -> BOOLEAN]
      /\ SerialOK' /\ MovedOK'
      /\ \A v \in Updaters : pc[v] = "idle" => UNCHANGED <<applied[v], moved[v], foreign[v]>>
      /\ \A v \in Updaters : v # u => applied'[v] = applied[v]
      /\ applied'[u] = applied[u] \/ (applied'[u] = applied[u] + 1 /\ r # "rcode")
      /\ \A v \in Updaters : ~Reading(v) => moved'[v] = moved[v] /\ foreign'[v] = foreign[v]
      /\ \A v \in Updaters : foreign[v] => foreign'[v]
  <2>1. CASE UNCHANGED <<serial, historyVars>>
    BY <1>2, <2>1 DEF historyVars, Inv, TypeOK, SerialOK, MovedOK, Reading
  <2>2. ASSUME NEW j \in Jumps, Change(j, {u}), r # "rcode" PROVE <1>6!:
    <3>1. \A v \in {u} : applied[v] < 2 /\ copies[v] # {} /\ pc[v] # "idle"
      BY <1>2, <1>3
    <3>2. {u} \in SUBSET Updaters /\ UNCHANGED <<pc, before>>
      BY <1>2
    <3> QED BY <2>2, <3>1, <3>2, ChangeInv
  <2> QED BY <1>1, <2>1, <2>2
<1>7. TypeOK'
  BY <1>2, <1>4, <1>5, <1>6 DEF Inv, TypeOK
<1>8. FreshOK'
  BY <1>2, <1>3, <1>4, <1>5, <1>6 DEF Inv, FreshOK
<1>9. CopiesOK'
  <2> SUFFICES ASSUME NEW v \in Updaters
               PROVE  /\ pc[v] = "tcp" => truncated[v]
                      /\ pc[v] = "udp" => ~truncated[v]
                      /\ pc[v] = "udp" /\ reply'[v] # "none" => copies'[v] = {}
                      /\ ~truncated[v] => /\ copies'[v] \subseteq {"udp"}
                                          /\ applied'[v] \in 0..1
                                          /\ copies'[v] # {} => applied'[v] = 0
                      /\ truncated[v] => /\ copies'[v] \subseteq {"tcp"}
                                         /\ copies'[v] # {} => applied'[v] \in 0..1
    BY <1>2 DEF CopiesOK
  <2>1. CASE v = u
    BY <1>2, <1>3, <1>4, <1>6, <2>1 DEF Inv, CopiesOK
  <2>2. CASE v # u
    BY <1>2, <1>4, <1>5, <1>6, <2>2 DEF Inv, CopiesOK
  <2> QED BY <2>1, <2>2
<1>10. RefusalOK'
  <2> SUFFICES ASSUME NEW v \in Updaters, ~truncated[v], reply'[v] = "rcode" \/ pc[v] = "rejected"
               PROVE  applied'[v] = 0 /\ copies'[v] = {}
    BY <1>2 DEF RefusalOK
  <2>1. CASE v # u
    BY <1>4, <1>5, <1>6, <2>1 DEF Inv, RefusalOK
  <2>2. CASE v = u
    <3>1. ~(reply[u] = "rcode" \/ pc[u] = "rejected")
      BY <1>2, <2>2 DEF Inv, RefusalOK
    <3>2. r = "rcode"
      BY <1>5, <2>2, <3>1
    <3>3. applied[u] = 0
      BY <1>2, <2>2 DEF Inv, CopiesOK
    <3> QED BY <1>4, <1>6, <2>2, <3>2, <3>3
  <2> QED BY <2>1, <2>2
<1>11. EndOK'
  <2> SUFFICES ASSUME NEW v \in Updaters
               PROVE  /\ pc[v] \in {"after", "notapplied"} => copies'[v] = {}
                      /\ pc[v] = "ok" => applied'[v] > 0 \/ foreign'[v]
                      /\ pc[v] = "notapplied" => applied'[v] = 0 \/ moved'[v] > Half
                      /\ reply'[v] = "noerror" => copies'[v] = {}
    BY <1>2 DEF EndOK
  <2>1. CASE v # u
    BY <1>4, <1>5, <1>6, <2>1 DEF Inv, EndOK, Reading, Transports
  <2>2. CASE v = u
    BY <1>2, <1>3, <1>4, <1>6, <2>2 DEF Inv, EndOK
  <2> QED BY <2>1, <2>2
<1> QED BY <1>6, <1>7, <1>8, <1>9, <1>10, <1>11 DEF Inv

(* The client's steps change no serial and no history. *)
LEMMA ClientInv ==
  ASSUME Inv, NEW u \in Updaters, Updater(u)
  PROVE  Inv'
<1>0. USE DEF Transports, Results, Replies
<1>1. CASE Send(u)
  <2>1. UNCHANGED <<frozen, serial, others, truncated, reply, historyVars>>
    BY <1>1 DEF Send
  <2>2. /\ pc[u] = "idle" /\ pc' = [pc EXCEPT ![u] = "udp"]
        /\ before' = [before EXCEPT ![u] = serial]
        /\ copies' = [copies EXCEPT ![u] = {"udp"}]
    BY <1>1 DEF Send
  <2>3. /\ moved[u] = 0 /\ applied[u] = 0 /\ reply[u] = "none" /\ ~truncated[u]
    BY <2>2 DEF Inv, FreshOK
  <2>4. TypeOK'
    BY <2>1, <2>2 DEF historyVars, Inv, TypeOK
  <2>5. FreshOK' /\ CopiesOK' /\ RefusalOK' /\ EndOK'
    BY <2>1, <2>2, <2>3 DEF historyVars, Inv, TypeOK, FreshOK, CopiesOK, RefusalOK, EndOK
  <2>6. SerialOK'
    BY <2>1, <2>2, <2>3, AddZero DEF historyVars, Inv, TypeOK, SerialOK, Reading
  <2>7. MovedOK'
    BY <2>1, <2>2, <2>3 DEF historyVars, Inv, TypeOK, MovedOK, Reading
  <2> QED BY <2>4, <2>5, <2>6, <2>7 DEF Inv
<1>2. CASE Resend(u)
  <2>1. TypeOK'
    BY <1>2 DEF Resend, historyVars, Inv, TypeOK
  <2>2. copies[u] = {} /\ ~truncated[u] /\ applied[u] \in 0..1
    BY <1>2 DEF Resend, Inv, CopiesOK
  <2>3. FreshOK' /\ CopiesOK' /\ RefusalOK' /\ EndOK'
    BY <1>2, <2>2 DEF Resend, historyVars, Inv, TypeOK, FreshOK, CopiesOK, RefusalOK, EndOK
  <2>4. SerialOK' /\ MovedOK'
    BY <1>2 DEF Resend, historyVars, Inv, TypeOK, SerialOK, MovedOK, Reading
  <2> QED BY <2>1, <2>3, <2>4 DEF Inv
<1>3. CASE Classify(u)
  <2>1. TypeOK'
    BY <1>3 DEF Classify, historyVars, Inv, TypeOK
  <2>2. FreshOK' /\ CopiesOK' /\ RefusalOK' /\ EndOK'
    BY <1>3 DEF Classify, historyVars, Inv, TypeOK, FreshOK, CopiesOK, RefusalOK, EndOK
  <2>3. SerialOK' /\ MovedOK'
    BY <1>3 DEF Classify, historyVars, Inv, TypeOK, SerialOK, MovedOK, Reading
  <2> QED BY <2>1, <2>2, <2>3 DEF Inv
<1>4. CASE Compare(u)
  <2>1. TypeOK'
    BY <1>4 DEF Compare, historyVars, Inv, TypeOK
  <2>2. SerialOK' /\ MovedOK'
    BY <1>4 DEF Compare, historyVars, Inv, TypeOK, SerialOK, MovedOK, Reading
  <2>3. FreshOK' /\ CopiesOK' /\ RefusalOK'
    BY <1>4 DEF Compare, historyVars, Inv, TypeOK, FreshOK, CopiesOK, RefusalOK
  <2>4. /\ before[u] \in Serials /\ moved[u] \in Nat /\ applied[u] \in 0..2
        /\ Reading(u) /\ pc[u] = "after"
    BY <1>4 DEF Compare, Inv, TypeOK, Reading
  <2>5. CASE serial = before[u] \/ Newer(before[u], serial)
    <3>1. applied[u] = 0 \/ moved[u] > Half
      <4> SUFFICES ASSUME applied[u] > 0, moved[u] <= Half PROVE FALSE
        BY <2>4, HalfNat
      <4>1. moved[u] \in 1..Half /\ moved[u] < SerialSpace
        BY <2>4, HalfNat DEF Inv, MovedOK
      <4>2. serial = WrappingAdd(before[u], moved[u])
        BY <2>4, <4>1 DEF Inv, SerialOK
      <4> QED BY <2>4, <2>5, <4>1, <4>2, NotBehind
    <3>2. pc' = [pc EXCEPT ![u] = "notapplied"]
      BY <1>4, <2>5 DEF Compare
    <3>3. EndOK'
      BY <1>4, <3>1, <3>2 DEF Compare, historyVars, Inv, TypeOK, EndOK
    <3> QED BY <2>1, <2>2, <2>3, <3>3 DEF Inv
  <2>6. CASE ~(serial = before[u] \/ Newer(before[u], serial))
    <3>1. applied[u] > 0 \/ foreign[u]
      <4>1. CASE moved[u] = 0
        <5>1. serial = WrappingAdd(before[u], moved[u])
          BY <2>4, <4>1, HalfNat DEF Inv, SerialOK
        <5> QED BY <2>4, <2>6, <4>1, <5>1, AddZero
      <4>2. CASE moved[u] > 0
        BY <2>4, <4>2 DEF Inv, MovedOK
      <4> QED BY <2>4, <4>1, <4>2
    <3>2. pc' = [pc EXCEPT ![u] = "ok"]
      BY <1>4, <2>6 DEF Compare
    <3>3. EndOK'
      BY <1>4, <3>1, <3>2 DEF Compare, historyVars, Inv, TypeOK, EndOK
    <3> QED BY <2>1, <2>2, <2>3, <3>3 DEF Inv
  <2> QED BY <2>5, <2>6
<1>5. CASE GiveUp(u)
  <2>1. TypeOK'
    BY <1>5 DEF GiveUp, historyVars, Inv, TypeOK
  <2>2. FreshOK' /\ CopiesOK' /\ RefusalOK' /\ EndOK'
    BY <1>5 DEF GiveUp, historyVars, Inv, TypeOK, FreshOK, CopiesOK, RefusalOK, EndOK
  <2>3. SerialOK' /\ MovedOK'
    BY <1>5 DEF GiveUp, historyVars, Inv, TypeOK, SerialOK, MovedOK, Reading
  <2> QED BY <2>1, <2>2, <2>3 DEF Inv
<1> QED BY <1>1, <1>2, <1>3, <1>4, <1>5 DEF Updater, Returns

LEMMA StillInv ==
  ASSUME Inv, UNCHANGED <<serial, others, clientVars, copies, reply, historyVars>>, frozen' \in BOOLEAN
  PROVE  Inv'
BY DEF clientVars, historyVars, Inv, TypeOK, FreshOK, CopiesOK, RefusalOK, SerialOK, MovedOK, EndOK, Reading

THEOREM Invariance == Spec => []Inv
<1>1. Inv /\ [Next]_vars => Inv'
  <2> SUFFICES ASSUME Inv, [Next]_vars PROVE Inv'
      OBVIOUS
  <2>1. CASE UNCHANGED vars
    <3>1. frozen' \in BOOLEAN
      BY <2>1 DEF vars, Inv, TypeOK
    <3> QED BY <2>1, <3>1, StillInv DEF vars
  <2>2. CASE Freeze
    <3>1. frozen' \in BOOLEAN
      BY <2>2 DEF Freeze
    <3> QED BY <2>2, <3>1, StillInv DEF Freeze
  <2>3. CASE Server
    BY <2>3, OtherInv, ProcessInv DEF Server
  <2>4. CASE \E u \in Updaters : Updater(u)
    BY <2>4, ClientInv
  <2> QED BY <2>1, <2>2, <2>3, <2>4 DEF Next
<1> QED BY <1>1, InitInv, PTL DEF Spec

(* Types, for any number of calls and any width of the serial. *)
THEOREM TypeCorrect == Spec => []TypeOK
<1>1. Inv => TypeOK
  BY DEF Inv
<1> QED BY <1>1, Invariance, PTL

(* A verified success is no empty promise. *)
THEOREM VerifiedCorrect == Spec => []VerifiedIsApplied
<1>1. Inv => VerifiedIsApplied
  BY DEF Inv, EndOK, VerifiedIsApplied
<1> QED BY <1>1, Invariance, PTL

(* A verified failure is one, within half a turn of the serial. *)
THEOREM NotAppliedCorrect == Spec => []NotAppliedIsTrue
<1>1. Inv => NotAppliedIsTrue
  BY DEF Inv, EndOK, NotAppliedIsTrue
<1> QED BY <1>1, Invariance, PTL

(* A refusal is one, unless a truncated response made the client repeat    *)
(* the message.                                                            *)
THEOREM RejectedCorrect == Spec => []RejectedIsTrue
<1>1. Inv => RejectedIsTrue
  BY DEF Inv, RefusalOK, RejectedIsTrue
<1> QED BY <1>1, Invariance, PTL
=============================================================================
