-------------------------- MODULE IsolationPromise --------------------------
(***************************************************************************)
(* What the CPU domain promises while nobody undoes an isolation by hand,  *)
(* with no timer, queue or handler in sight: a CPU is claimed, withdrawn   *)
(* from service, and given a verdict.  A claim is one-way for every CPU    *)
(* that is not protected, only a claimed CPU is withdrawn, an "isolated"   *)
(* CPU is really withdrawn, and every claim is answered.                   *)
(***************************************************************************)
EXTENDS FiniteSets

CONSTANTS CPU, Protected

VARIABLES
    state,     \* the state the module reports for each CPU
    withdrawn  \* the CPUs out of service

pvars == <<state, withdrawn>>

InService == {"online", "degraded"}
Claimed   == {"isolating", "isolated", "failed"}

Init ==
    /\ withdrawn \in SUBSET (CPU \ Protected)
    /\ state = [c \in CPU |-> IF c \in withdrawn THEN "isolated" ELSE "online"]

Degrade(c) ==
    /\ state[c] = "online"
    /\ state' = [state EXCEPT ![c] = "degraded"]
    /\ UNCHANGED withdrawn

Claim(c) ==
    /\ state[c] \in InService
    /\ state' = [state EXCEPT ![c] = "isolating"]
    /\ UNCHANGED withdrawn

Withdraw(c) ==
    /\ c \notin Protected
    /\ state[c] \in Claimed
    /\ withdrawn' = withdrawn \cup {c}
    /\ UNCHANGED state

(* The verdict may be revised, by an offline work that was queued twice. *)
Verdict(c) ==
    /\ c \notin Protected
    /\ state[c] \in Claimed
    /\ \/ c \in withdrawn /\ state' = [state EXCEPT ![c] = "isolated"]
       \/ state' = [state EXCEPT ![c] = "failed"]
    /\ UNCHANGED withdrawn

Refuse(c) ==
    /\ c \in Protected
    /\ state' = [state EXCEPT ![c] = "online"]
    /\ UNCHANGED withdrawn

Next == \E c \in CPU : Degrade(c) \/ Claim(c) \/ Withdraw(c) \/ Verdict(c) \/ Refuse(c)

(* Every claim is answered. *)
Answer(c) == state[c] = "isolating" /\ (Verdict(c) \/ Refuse(c))

Spec == Init /\ [][Next]_pvars /\ \A c \in CPU : WF_pvars(Answer(c))
=============================================================================
