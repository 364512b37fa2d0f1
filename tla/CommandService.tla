--------------------------- MODULE CommandService ---------------------------
(***************************************************************************)
(* What RndcPool promises its callers, without channels, connections or    *)
(* counters: a command is lent one worker, a worker serves one command at  *)
(* a time, named runs a command at most twice and only after it was handed *)
(* to a worker, and a call that succeeds was run.  A call the caller drops *)
(* may take its worker with it, or leave it busy.                          *)
(***************************************************************************)
EXTENDS Naturals

CONSTANTS Calls, Workers, Free, Gone

VARIABLES
  phase,  \* what the caller of each command sees
  owner,  \* the command each worker serves, Free, or Gone
  handed, \* commands that were lent a worker
  runs    \* how often named ran each command

vars == <<phase, owner, handed, runs>>

Init ==
  /\ phase = [c \in Calls |-> "idle"]
  /\ owner = [w \in Workers |-> Free]
  /\ handed = {}
  /\ runs = [c \in Calls |-> 0]

Open(c) ==
  /\ phase[c] = "idle"
  /\ phase' = [phase EXCEPT ![c] = "open"]
  /\ UNCHANGED <<owner, handed, runs>>

Lend(c, w) ==
  /\ phase[c] = "open" /\ c \notin handed /\ owner[w] = Free
  /\ owner' = [owner EXCEPT ![w] = c]
  /\ handed' = handed \cup {c}
  /\ UNCHANGED <<phase, runs>>

Run(c) ==
  /\ c \in handed /\ runs[c] < 2
  /\ runs' = [runs EXCEPT ![c] = @ + 1]
  /\ UNCHANGED <<phase, owner, handed>>

GiveBack(w) ==
  /\ owner[w] \in Calls
  /\ owner' = [owner EXCEPT ![w] = Free]
  /\ UNCHANGED <<phase, handed, runs>>

(* The worker is lost: its task ended. *)
Lose(w) ==
  /\ owner[w] # Gone
  /\ owner' = [owner EXCEPT ![w] = Gone]
  /\ UNCHANGED <<phase, handed, runs>>

(* The caller is answered only after its worker was given back or lost. *)
Answer(c) ==
  /\ phase[c] = "open" /\ c \in handed /\ \A w \in Workers : owner[w] # c
  /\ \/ runs[c] > 0 /\ phase' = [phase EXCEPT ![c] = "ok"]
     \/ phase' = [phase EXCEPT ![c] = "failed"]
  /\ UNCHANGED <<owner, handed, runs>>

Abandon(c) ==
  /\ phase[c] = "open"
  /\ phase' = [phase EXCEPT ![c] = "abandoned"]
  /\ \/ owner' = [w \in Workers |-> IF owner[w] = c THEN Gone ELSE owner[w]]
     \/ UNCHANGED owner
  /\ UNCHANGED <<handed, runs>>

Next ==
  \/ \E c \in Calls : Open(c) \/ Run(c) \/ Answer(c) \/ Abandon(c)
  \/ \E c \in Calls, w \in Workers : Lend(c, w)
  \/ \E w \in Workers : GiveBack(w) \/ Lose(w)

Spec == Init /\ [][Next]_vars
=============================================================================
