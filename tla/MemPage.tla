------------------------------ MODULE MemPage ------------------------------
(***************************************************************************)
(* The memory fault domain's page accounting: the bounded page table and   *)
(* state machine of kernel/core/mfi_core.c, the offline mechanics of       *)
(* kernel/core/mfi_page.c, the queueing half of kernel/core/mfi_triage.c   *)
(* and the memory commands of kernel/core/cfi_netlink.c.                   *)
(*                                                                         *)
(* mfi_page_lock covers the table only, so every handler runs in several   *)
(* steps between which any other may get in:                               *)
(*   rep[r]  a context in mfi_report_mem_error (a decode chain worker, the *)
(*           mc_event probe, a debugfs writer)                             *)
(*   soft    soft-offline works pending on mfi_offline_wq; an unbound      *)
(*           queue, so the works of one page too may run side by side      *)
(*   ran     works whose soft_offline_page() has returned and whose        *)
(*           completion has not been recorded yet                          *)
(*   mfq,mf  the kernel's memory_failure(): its bounded queue, and the     *)
(*           page it works on (it holds a mutex), whose outcome the        *)
(*           tracepoint probe will see                                     *)
(* A report that finds no room in the table and asks for nothing is a      *)
(* stuttering step.  Left out: the events sent to the daemon, the          *)
(* statistics, and a kernel without the memory_failure_event tracepoint.   *)
(* A triage verdict of panic ends the behaviour.                           *)
(***************************************************************************)
EXTENDS Naturals, FiniteSets, SequencesExt

CONSTANTS
    Pfn,           \* the page frames errors are reported for
    Reporter,      \* the contexts that report errors
    Capacity,      \* MFI_PAGE_MAX_ENTRIES
    CountCap,      \* corrected-error counts saturate here, at or above every threshold
    Policies,      \* the tunables: page_ce_threshold and pre_isolate
    SoftResolved,  \* soft_offline_page() was found at load
    MfDepth,       \* how many requests memory_failure_queue() can hold
    WorkCap        \* bound on the soft-offline works pending for one page

ASSUME PfnAssumption == Pfn # {}
ASSUME BoundAssumption ==
    /\ Capacity \in Nat \ {0} /\ CountCap \in Nat
    /\ MfDepth \in Nat        /\ WorkCap \in Nat \ {0}
ASSUME TunableAssumption ==
    /\ SoftResolved \in BOOLEAN
    /\ \A t \in Policies : t.ce \in 0..CountCap /\ t.pre \in BOOLEAN

VARIABLES
    policy,  \* mfi_page_ce_threshold and mfi_pre_isolate
    st,      \* the state of the page's entry, "none" when it has none
    count,   \* the entry's ce_count, saturating at CountCap
    lru,     \* mfi_page_lru, least recent first
    rep,     \* where each reporting context is
    soft,    \* how many soft-offline works are pending, per page
    ran,     \* the works that ran and have not recorded their result
    mfq,     \* the queue behind memory_failure_queue()
    mf,      \* the page memory_failure() is working on
    poison,  \* the pages with the kernel's HWPoison flag
    lost     \* history: pages whose request found the queue full

vars == <<policy, st, count, lru, rep, soft, ran, mfq, mf, poison, lost>>
table == <<st, count, lru>>

PageStates == {"none", "watched", "preIso", "preIsoFailed", "poisoned", "failed"}
RepPos     == {"idle", "triaged", "table", "soft", "hard"}

(* at: the step to come; hw: already_poisoned; tri: flagged MFI_EVF_TRIAGED. *)
Context == [at : RepPos, pfn : Pfn, hw : BOOLEAN, tri : BOOLEAN]
Idle    == [at |-> "idle", pfn |-> CHOOSE p \in Pfn : TRUE, hw |-> FALSE, tri |-> FALSE]
At(pos, p) == [Idle EXCEPT !.at = pos, !.pfn = p]

(* The shape of every variable; an offlined page's entry is not kept. *)
TypeOK ==
    /\ policy \in Policies
    /\ st \in [Pfn -> PageStates]
    /\ count \in [Pfn -> 0..CountCap]
    /\ lru \in Seq(Pfn)
    /\ rep \in [Reporter -> Context]
    /\ soft \in [Pfn -> 0..WorkCap]
    /\ ran \subseteq Pfn \X BOOLEAN
    /\ mfq \in Seq(Pfn)
    /\ mf \subseteq Pfn
    /\ poison \subseteq Pfn
    /\ lost \subseteq Pfn

(* mfi_core_init() and the state of a machine that may have poisoned pages *)
(* already.                                                                *)
Init ==
    /\ policy \in Policies
    /\ st = [p \in Pfn |-> "none"]
    /\ count = [p \in Pfn |-> 0]
    /\ lru = << >>
    /\ rep = [r \in Reporter |-> Idle]
    /\ soft = [p \in Pfn |-> 0]
    /\ ran = {}
    /\ mfq = << >>
    /\ mf = {}
    /\ poison \in SUBSET Pfn
    /\ lost = {}

-----------------------------------------------------------------------------
(* A definition whose comment starts with "Slip:" is no part of the model: *)
(* it is the definition after it as a plausible bug would have it, kept to *)
(* show which property would notice.                                       *)

(* The table: mfi_page_lookup(), mfi_page_get(), mfi_page_remove(). *)
Tracked(p) == st[p] # "none"
HasSpace   == Len(lru) < Capacity

(* Slip: only pre-isolation counts as in flight. *)
EvictablePoisoned(p) == st[p] # "preIso"

(* An entry in flight is never evicted. *)
Evictable(p) == st[p] \notin {"preIso", "poisoned"}

Oldest(p) == \E i \in 1..Len(lru) : /\ lru[i] = p /\ Evictable(p)
                                    /\ \A j \in 1..i - 1 : ~Evictable(lru[j])

(* The page whose place on the list an entry for p takes: p itself when    *)
(* that is only moved or there is space, else the least recent evictable.  *)
Room(p) == IF Tracked(p) \/ HasSpace THEN {p} ELSE {q \in Pfn : Oldest(q)}

(* Without an entry: all entries are in flight, or GFP_ATOMIC fails. *)
MayMissOut(p) == ~Tracked(p) /\ (HasSpace \/ Room(p) = {})

(* Slip: the victim stays on the hash list. *)
EnterLeaving(p, out, s, n) ==
    /\ st' = [st EXCEPT ![p] = s]
    /\ count' = [count EXCEPT ![p] = n]
    /\ lru' = Append(RemoveFirst(lru, out), p)

(* The entry for p, fresh or found, becomes the most recent one and leaves *)
(* the critical section in state s with count n.                           *)
Enter(p, out, s, n) ==
    /\ st' = [st EXCEPT ![out] = "none", ![p] = s]
    /\ count' = [count EXCEPT ![out] = 0, ![p] = n]
    /\ lru' = Append(RemoveFirst(lru, out), p)

(* Slip: a concluded entry is always kept. *)
OfflineDoneKeeping(p, pre, ok) ==
    IF Tracked(p)
    THEN /\ st' = [st EXCEPT ![p] = IF ok THEN "offlined"
                                    ELSE IF pre THEN "preIsoFailed" ELSE "failed"]
         /\ UNCHANGED <<count, lru>>
    ELSE UNCHANGED table

(* mfi_page_offline_done(): an offline attempt concluded, or memory_failure *)
(* did for whoever asked for it.  Whatever the entry's state, success      *)
(* drops it and failure overwrites it.                                     *)
OfflineDone(p, pre, ok) ==
    IF Tracked(p) /\ ok
    THEN /\ st' = [st EXCEPT ![p] = "none"]
         /\ count' = [count EXCEPT ![p] = 0]
         /\ lru' = RemoveFirst(lru, p)
    ELSE /\ st' = [st EXCEPT ![p] = IF ~Tracked(p) THEN "none"
                                    ELSE IF pre THEN "preIsoFailed" ELSE "failed"]
         /\ UNCHANGED <<count, lru>>

(* mfi_page_hard_offline(): memory_failure_queue() drops what does not fit. *)
HardOffline(p) ==
    IF Len(mfq) < MfDepth THEN mfq' = Append(mfq, p) /\ UNCHANGED lost
                          ELSE lost' = lost \cup {p} /\ UNCHANGED mfq

-----------------------------------------------------------------------------
(* mfi_handle_ce(): count, and decide on pre-isolation, under the lock. *)
CeAfter(p, expired) ==
    LET n == IF expired THEN 0 ELSE count[p] IN IF n < CountCap THEN n + 1 ELSE n

PreIsolate(p, n) == /\ st[p] \in {"none", "watched"}
                    /\ policy.pre /\ SoftResolved
                    /\ n >= policy.ce

ReportCe(r, p, expired) ==
    LET n  == CeAfter(p, expired)
        go == PreIsolate(p, n)
    IN  /\ rep[r] = Idle
        /\ \E out \in Room(p) :
               Enter(p, out, IF go THEN "preIso"
                             ELSE IF Tracked(p) THEN st[p] ELSE "watched", n)
        /\ rep' = IF go THEN [rep EXCEPT ![r] = At("soft", p)] ELSE rep
        /\ UNCHANGED <<policy, soft, ran, mfq, mf, poison, lost>>

(* Slip: an offline that could not be queued is forgotten. *)
SoftQueueForgetting(r, p) ==
    /\ rep[r].at = "soft" /\ rep[r].pfn = p
    /\ rep' = [rep EXCEPT ![r] = Idle]
    /\ \/ soft[p] < WorkCap /\ soft' = [soft EXCEPT ![p] = @ + 1]
       \/ UNCHANGED soft
    /\ UNCHANGED <<policy, st, count, lru, ran, mfq, mf, poison, lost>>

(* With the lock dropped, queue the work; when there is no memory for it,  *)
(* conclude at once.                                                       *)
SoftQueue(r, p) ==
    /\ rep[r].at = "soft" /\ rep[r].pfn = p
    /\ rep' = [rep EXCEPT ![r] = Idle]
    /\ \/ /\ soft[p] < WorkCap
          /\ soft' = [soft EXCEPT ![p] = @ + 1]
          /\ UNCHANGED table
       \/ OfflineDone(p, TRUE, FALSE) /\ UNCHANGED soft
    /\ UNCHANGED <<policy, ran, mfq, mf, poison, lost>>

-----------------------------------------------------------------------------
(* mfi_handle_uce(): look at HWPoison first, then take the lock. *)
Look(r, p, tri) ==
    rep' = [rep EXCEPT ![r] = [at |-> "table", pfn |-> p, hw |-> p \in poison,
                               tri |-> tri]]

ReportUce(r, p) ==
    /\ rep[r] = Idle
    /\ Look(r, p, FALSE)
    /\ UNCHANGED <<policy, st, count, lru, soft, ran, mfq, mf, poison, lost>>

(* Slip: triage reports the recovery it did not queue. *)
TriageUceIdly(r, p) ==
    /\ rep[r] = Idle
    /\ rep' = [rep EXCEPT ![r] = [At("triaged", p) EXCEPT !.tri = TRUE]]
    /\ UNCHANGED <<policy, st, count, lru, soft, ran, mfq, mf, poison, lost>>

(* mfi_triage_kernel_uce() with the verdict to recover: the hard offline   *)
(* is queued before the error is accounted.                                *)
TriageUce(r, p) ==
    /\ rep[r] = Idle
    /\ HardOffline(p)
    /\ rep' = [rep EXCEPT ![r] = [At("triaged", p) EXCEPT !.tri = TRUE]]
    /\ UNCHANGED <<policy, st, count, lru, soft, ran, mf, poison>>

ReportTriaged(r, p) ==
    /\ rep[r].at = "triaged" /\ rep[r].pfn = p
    /\ Look(r, p, TRUE)
    /\ UNCHANGED <<policy, st, count, lru, soft, ran, mfq, mf, poison, lost>>

(* A page in flight or failed keeps its state, and nothing is queued. *)
TurnsPoisoned(p) == st[p] \in {"none", "watched", "preIsoFailed"}

(* Slip: a page that failed to migrate is taken for one in good hands. *)
UnhandledTrusting(r) == ~rep[r].hw /\ ~rep[r].tri /\ st[rep[r].pfn] # "preIsoFailed"

(* Neither the kernel nor triage has sent the page to memory_failure(). *)
Unhandled(r) == ~rep[r].hw /\ ~rep[r].tri

(* Slip: without an entry there is nobody to hard-offline for. *)
UceTableTracked(r, p) ==
    LET then(wanted) == IF wanted /\ Unhandled(r) THEN At("hard", p) ELSE Idle
    IN  /\ rep[r].at = "table" /\ rep[r].pfn = p
        /\ \/ \E out \in Room(p) :
                  /\ Enter(p, out, IF TurnsPoisoned(p) THEN "poisoned" ELSE st[p],
                           count[p])
                  /\ rep' = [rep EXCEPT ![r] = then(TurnsPoisoned(p))]
           \/ /\ MayMissOut(p)
              /\ rep' = [rep EXCEPT ![r] = then(Tracked(p))]
              /\ UNCHANGED table
        /\ UNCHANGED <<policy, soft, ran, mfq, mf, poison, lost>>

(* Under the lock: mark the page and decide whether to hard-offline it.    *)
(* Without an entry it is hard-offlined all the same.                      *)
UceTable(r, p) ==
    LET then(wanted) == IF wanted /\ Unhandled(r) THEN At("hard", p) ELSE Idle
    IN  /\ rep[r].at = "table" /\ rep[r].pfn = p
        /\ \/ \E out \in Room(p) :
                  /\ Enter(p, out, IF TurnsPoisoned(p) THEN "poisoned" ELSE st[p],
                           count[p])
                  /\ rep' = [rep EXCEPT ![r] = then(TurnsPoisoned(p))]
           \/ /\ MayMissOut(p)
              /\ rep' = [rep EXCEPT ![r] = then(TRUE)]
              /\ UNCHANGED table
        /\ UNCHANGED <<policy, soft, ran, mfq, mf, poison, lost>>

HardQueue(r, p) ==
    /\ rep[r].at = "hard" /\ rep[r].pfn = p
    /\ HardOffline(p)
    /\ rep' = [rep EXCEPT ![r] = Idle]
    /\ UNCHANGED <<policy, st, count, lru, soft, ran, mf, poison>>

-----------------------------------------------------------------------------
(* CFI_CMD_MEM_OFFLINE_PAGE: a work for any page, tracked or not. *)
ManualOffline(p) ==
    /\ SoftResolved
    /\ soft[p] < WorkCap
    /\ soft' = [soft EXCEPT ![p] = @ + 1]
    /\ UNCHANGED <<policy, st, count, lru, rep, ran, mfq, mf, poison, lost>>

(* mfi_soft_offline_work_fn(): soft_offline_page() migrates the page and   *)
(* poisons the frame, or fails; the result is recorded afterwards.  Works  *)
(* of one page with the same result are kept apart by letting the second   *)
(* return only when the first has been recorded.                           *)
SoftRun(p) ==
    /\ soft[p] > 0
    /\ soft' = [soft EXCEPT ![p] = @ - 1]
    /\ \E ok \in BOOLEAN : /\ <<p, ok>> \notin ran
                           /\ ran' = ran \cup {<<p, ok>>}
                           /\ poison' = IF ok THEN poison \cup {p} ELSE poison
    /\ UNCHANGED <<policy, st, count, lru, rep, mfq, mf, lost>>

(* Slip: only a success is reported. *)
SoftRecordSuccess(p, ok) ==
    /\ <<p, ok>> \in ran
    /\ ran' = ran \ {<<p, ok>>}
    /\ IF ok THEN OfflineDone(p, TRUE, TRUE) ELSE UNCHANGED table
    /\ UNCHANGED <<policy, rep, soft, mfq, mf, poison, lost>>

SoftRecord(p, ok) ==
    /\ <<p, ok>> \in ran
    /\ ran' = ran \ {<<p, ok>>}
    /\ OfflineDone(p, TRUE, ok)
    /\ UNCHANGED <<policy, rep, soft, mfq, mf, poison, lost>>

-----------------------------------------------------------------------------
(* The kernel's memory_failure() on a queued request: it poisons the page  *)
(* first and reports an outcome when it is done with it.  For a page that  *)
(* was poisoned before it may report again or return silently.             *)
MfTake(p) ==
    /\ mf = {}
    /\ mfq # << >> /\ p = Head(mfq)
    /\ mfq' = Tail(mfq)
    /\ poison' = poison \cup {p}
    /\ mf' = {p} \/ (p \in poison /\ mf' = {})
    /\ UNCHANGED <<policy, st, count, lru, rep, soft, ran, lost>>

(* memory_failure() asked for by GHES, the SRAO path or madvise(). *)
MfForeign(p) ==
    /\ mf = {}
    /\ p \notin poison
    /\ poison' = poison \cup {p}
    /\ mf' = {p}
    /\ UNCHANGED <<policy, st, count, lru, rep, soft, ran, mfq, lost>>

(* The tracepoint fires and mfi_mf_event_probe() runs. *)
MfEvent(p, ok) ==
    /\ p \in mf
    /\ mf' = {}
    /\ OfflineDone(p, FALSE, ok)
    /\ UNCHANGED <<policy, rep, soft, ran, mfq, poison, lost>>

(* CFI_CMD_MEM_SET_POLICY and the sysfs attributes. *)
MemSetPolicy(t) ==
    /\ policy' = t
    /\ UNCHANGED <<st, count, lru, rep, soft, ran, mfq, mf, poison, lost>>

-----------------------------------------------------------------------------
Report(r, p) ==
    \/ \E expired \in BOOLEAN : ReportCe(r, p, expired)
    \/ ReportUce(r, p)
    \/ TriageUce(r, p)

Continue(r, p) ==
    \/ SoftQueue(r, p)
    \/ ReportTriaged(r, p)
    \/ UceTable(r, p)
    \/ HardQueue(r, p)

Conclude(p) == \E ok \in BOOLEAN : SoftRecord(p, ok)
Observe(p)  == \E ok \in BOOLEAN : MfEvent(p, ok)

Next ==
    \/ \E r \in Reporter, p \in Pfn : Report(r, p) \/ Continue(r, p)
    \/ \E p \in Pfn : \/ ManualOffline(p) \/ SoftRun(p) \/ Conclude(p)
                      \/ MfTake(p) \/ MfForeign(p) \/ Observe(p)
    \/ \E t \in Policies : MemSetPolicy(t)

(* A handler that has started goes on, and the kernel's workqueues run     *)
(* what is queued on them.                                                 *)
FairnessOf(p) ==
    /\ \A r \in Reporter : WF_vars(Continue(r, p))
    /\ WF_vars(SoftRun(p))
    /\ \A ok \in BOOLEAN : WF_vars(SoftRecord(p, ok))
    /\ WF_vars(MfTake(p))
    /\ WF_vars(Observe(p))

Fairness == \A p \in Pfn : FairnessOf(p)

Spec == Init /\ [][Next]_vars /\ Fairness

-----------------------------------------------------------------------------
(* Properties.                                                             *)

(* The list, the hash table and the counter agree, no page is listed       *)
(* twice, and the table is bounded, through moves, evictions and           *)
(* completions of pages that have left and come back (mfi_core.c:91-139).  *)
TableSound ==
    /\ Range(lru) = {p \in Pfn : Tracked(p)}
    /\ \A i, j \in 1..Len(lru) : lru[i] = lru[j] => i = j
    /\ Len(lru) <= Capacity

(* A pre-isolating page has an offline attempt under way.  Otherwise it    *)
(* would stay in flight for good: never evicted, never pre-isolated again  *)
(* and, worse, with its uncorrected errors ignored (mfi_core.c:258).       *)
PreIsoHasDriver ==
    \A p \in Pfn : st[p] = "preIso" =>
        \/ \E r \in Reporter : rep[r].at = "soft" /\ rep[r].pfn = p
        \/ soft[p] > 0
        \/ \E ok \in BOOLEAN : <<p, ok>> \in ran

(* A page recorded as poisoned really has been given to memory_failure():  *)
(* the frame is poisoned, or a request is queued or about to be, unless    *)
(* the kernel had to drop it.  Two deduplications lean on this: the look   *)
(* at HWPoison before the lock, and MFI_EVF_TRIAGED.                       *)
PoisonedIsAnswered ==
    \A p \in Pfn : st[p] = "poisoned" =>
        \/ p \in poison \cup lost \cup Range(mfq)
        \/ \E r \in Reporter : rep[r].at = "hard" /\ rep[r].pfn = p

(* mfi_core.c:89, "Entries in flight (PRE_ISO/POISONED) are never          *)
(* evicted": such an entry only leaves the table with its frame poisoned.  *)
InFlightNeverEvicted ==
    [][\A p \in Pfn : st[p] \in {"preIso", "poisoned"} /\ st'[p] = "none"
                          => p \in poison']_vars

(* Every pre-isolation comes to an end. *)
PreIsoSettlesFor(p) == st[p] = "preIso" ~> st[p] # "preIso"

(* A page recorded as poisoned is taken out of use, unless the kernel      *)
(* dropped the request.                                                    *)
PoisonedIsTakenOutFor(p) == st[p] = "poisoned" ~> p \in poison \cup lost

(* The handler of an uncorrected error of the page has taken its look at   *)
(* HWPoison and is on its way to the table.                                *)
BeingReported(p) == \E r \in Reporter : rep[r].at = "table" /\ rep[r].pfn = p

(* Somebody is still to act on the page: a request to memory_failure() is  *)
(* queued or about to be, or a pre-isolation is under way.                 *)
InHand(p) ==
    \/ p \in Range(mfq)
    \/ st[p] = "preIso"
    \/ \E r \in Reporter : rep[r].at = "hard" /\ rep[r].pfn = p

(* The attempt is over: the frame is poisoned, the kernel dropped the      *)
(* request, or the record says that the attempt failed.                    *)
Settled(p) == p \in poison \cup lost \/ st[p] \in {"preIsoFailed", "failed"}

(* An uncorrected error is never just forgotten.  Many of them queue       *)
(* nothing: the kernel, triage or an offline attempt is taken to be at the *)
(* page already, or it has no entry (mfi_core.c:258-284).  All the same    *)
(* the page leaves use afterwards, unless the kernel dropped the request,  *)
(* or an attempt at it has failed and the record says so.                  *)
UceIsAnsweredFor(p) == BeingReported(p) ~> Settled(p)

(* The safety half of UceIsAnsweredFor: when the handler of an             *)
(* uncorrected error leaves the critical section, having decided against a *)
(* request of its own or not, the page is in somebody's hands or settled,  *)
(* and a page in hand only ceases to be so by being settled                *)
(* (mfi_core.c:258-296).                                                   *)
UceInHand ==
    [][\A p \in Pfn :
           \/ InHand(p)
           \/ \E r \in Reporter : /\ rep[r].at = "table" /\ rep[r].pfn = p
                                  /\ rep'[r] # rep[r]
           => (InHand(p) \/ Settled(p))']_vars

-----------------------------------------------------------------------------
(* Properties the code's own words state and the code does not keep.       *)

(* mfi_page.c:20, "only PFNs tracked in POISONED state are attributed to   *)
(* MFI": the outcome of a memory_failure() leaves any other entry alone.   *)
OnlyPoisonedAttributed ==
    [][\A p \in Pfn : p \in mf /\ p \notin mf' /\ st[p] # "poisoned"
                          => st'[p] = st[p]]_vars
=============================================================================
