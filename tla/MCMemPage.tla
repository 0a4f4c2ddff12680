----------------------------- MODULE MCMemPage -----------------------------
(* Instances of MemPage for TLC.  Two pages interact through eviction      *)
(* only, so that p2, whose corrected errors always start a new window,     *)
(* meets p1 in every way with no other state of its own.                   *)
EXTENDS MemPage

CONSTANTS p1, p2, r1, r2

Switched == [ce : {1}, pre : BOOLEAN]
AtTwo    == [ce : {2}, pre : BOOLEAN]

FocusNext ==
    \/ \E r \in Reporter : Report(r, p1) \/ Continue(r, p1) \/ ReportCe(r, p2, TRUE)
    \/ ManualOffline(p1) \/ SoftRun(p1) \/ Conclude(p1)
    \/ MfTake(p1) \/ MfForeign(p1) \/ Observe(p1)
    \/ \E t \in Policies : MemSetPolicy(t)

FocusInit == Init /\ p2 \notin poison

FocusSpec == FocusInit /\ [][FocusNext]_vars /\ FairnessOf(p1)

(* What MemPage promises, of the page that has uncorrected errors and      *)
(* offline attempts.                                                       *)

(* Every pre-isolation of p1 comes to an end (mfi_page.c:69-84). *)
PreIsoSettles == PreIsoSettlesFor(p1)

(* Once it is recorded as poisoned, p1 is taken out of use, unless the     *)
(* kernel dropped the request (mfi_core.c:258-296).                        *)
PoisonedIsTakenOut == PoisonedIsTakenOutFor(p1)

(* An uncorrected error of p1 is never just forgotten (mfi_core.c:258-296).*)
UceIsAnswered == UceIsAnsweredFor(p1)
=============================================================================
