--------------------------- MODULE MCCpuIsolation ---------------------------
(* Instances of CpuIsolation for TLC.  Error counters only matter against  *)
(* the thresholds, so thresholds of one or two and CountCap at the larger  *)
(* of them lose nothing.                                                   *)
EXTENDS CpuIsolation

CONSTANTS c0, c1, c2

Tunables(ces, uces, autos, l3s, defers) ==
    [ce : ces, uce : uces, auto : autos, l3 : l3s, defer : defers]

Deferred     == Tunables({1}, {1}, {TRUE}, {FALSE}, {TRUE})
DeferOrNot   == Tunables({1}, {1}, {TRUE}, {FALSE}, BOOLEAN)
ActOnAnyUce  == Tunables({1}, {1}, {TRUE}, {TRUE}, {TRUE})
Defaults     == Tunables({2}, {1}, {TRUE}, {FALSE}, {TRUE})

(* Errors and commands concern c1 alone; c0 is there to be, or not to be,  *)
(* the other online CPU.                                                   *)
FocusNext ==
    \/ Errors(c1) \/ Isolate(c1) \/ AckIsolate(c1) \/ Pin(c1) \/ Unisolate(c1)
    \/ \E c \in CPU : OperatorOffline(c) \/ OperatorOnline(c) \/ Machinery(c)
    \/ \E p \in Policies : SetPolicy(p)

(* An operator plugs c1 only: c0 stays in service. *)
AttendedNext ==
    \/ UnattendedNext
    \/ \E c \in CPU : Unisolate(c)
    \/ OperatorOffline(c1) \/ OperatorOnline(c1)

AttendedSpec == Init /\ [][AttendedNext]_vars /\ Fairness
FocusSpec == Init /\ [][FocusNext]_vars /\ Fairness
=============================================================================
