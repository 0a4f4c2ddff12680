--------------------------- MODULE DimmAccounting ---------------------------
(***************************************************************************)
(* The media half of the memory domain: the ras:mc_event probe and the     *)
(* per-DIMM error counters of kernel/core/mfi_dimm.c, reached directly or  *)
(* through mfi_report_mem_error() of kernel/core/mfi_core.c.  EDAC drivers *)
(* report from several CPUs at once.  A probe works through the errors of  *)
(* its event one by one; the counters are under mfi_dimm_lock, the advice  *)
(* to evacuate the host is sent when the lock has been dropped, and may be *)
(* lost.  The page each error hits is MemPage's.                           *)
(*                                                                         *)
(* A DIMM is known by its label.  An entry stores MFI_DIMM_LABEL_LEN - 1   *)
(* characters of it, while the lookup compares one more: the entry made    *)
(* for a longer label is not found under that label again, though it is    *)
(* under its first 31 characters.                                          *)
(***************************************************************************)
EXTENDS Naturals, Sequences

CONSTANTS
    Dimm,      \* the labels EDAC reports errors for
    Cut,       \* what an entry stores of each label
    Probe,     \* the contexts the tracepoint fires in
    Slots,     \* MFI_DIMM_MAX_ENTRIES
    CountCap,  \* error counters saturate here, at or above every threshold
    Limits,    \* the thresholds: dimm_ce_threshold and dimm_uce_threshold
    Burst      \* bound on the errors of one event

ASSUME DimmAssumption == Dimm # {}
ASSUME CutAssumption ==
    DOMAIN Cut = Dimm /\ \A d \in Dimm : Cut[d] \in Dimm => Cut[Cut[d]] = Cut[d]
ASSUME CapacityAssumption == Slots \in Nat /\ CountCap \in Nat /\ Burst \in Nat \ {0}
ASSUME LimitAssumption == \A l \in Limits : l.ce \in 0..CountCap /\ l.uce \in 0..CountCap

VARIABLES
    enable,   \* mfi_enable
    limits,   \* the thresholds in force
    list,     \* mfi_dimm_list
    probe,    \* what each context has left to do
    seen,     \* history: errors of each DIMM accounted in its window
    due,      \* history: advices decided in that window, at most 2
    over      \* history: DIMMs whose last error left them at a limit

history == <<seen, due, over>>
vars == <<enable, limits, list, probe, history>>

Kinds  == {"ce", "uce"}
Counts == [Kinds -> 0..CountCap]
None   == [kind \in Kinds |-> 0]
Entry  == [label : {Cut[d] : d \in Dimm}, count : Counts, advised : BOOLEAN]
Addrs  == {"none", "valid", "invalid"}   \* the address of the event and its pfn
Idle   == [at |-> "idle", dimm |-> CHOOSE d \in Dimm : TRUE, kind |-> "ce", left |-> 0,
           addr |-> "none"]
Context == [at : {"idle", "count", "send"}, dimm : Dimm, kind : Kinds, left : 0..Burst,
            addr : Addrs]

(* The shape of every variable, and the bound on the table. *)
TypeOK ==
    /\ enable \in BOOLEAN /\ limits \in Limits
    /\ list \in Seq(Entry) /\ Len(list) <= Slots
    /\ probe \in [Probe -> Context]
    /\ seen \in [Dimm -> Counts] /\ due \in [Dimm -> 0..2] /\ over \subseteq Dimm

Init ==
    /\ enable \in BOOLEAN /\ limits \in Limits
    /\ list = << >>
    /\ probe = [k \in Probe |-> Idle]
    /\ seen = [d \in Dimm |-> None] /\ due = [d \in Dimm |-> 0] /\ over = {}

-----------------------------------------------------------------------------
(* A definition whose comment starts with "Slip:" is no part of the model: *)
(* it is the definition after it as a plausible bug would have it, kept to *)
(* show which property would notice.                                       *)

Names(i, d) == i \in DOMAIN list /\ list[i].label = d

(* mfi_dimm_get(): the first entry with the label, or else the place after *)
(* the last entry.                                                         *)
IsPlace(i, d) == /\ Names(i, d) \/ i = Len(list) + 1
                 /\ \A j \in 1..(i - 1) : ~Names(j, d)

(* Slip: off by one. *)
HasSlotTooMany(i) == i <= Slots + 1

(* The table only grows.  Memory may run out as well. *)
HasSlot(i) == i <= Slots

Fresh(d) == [label |-> Cut[d], count |-> None, advised |-> FALSE]

Bump(n) == IF n < CountCap THEN n + 1 ELSE n

Counted(count, kind) == [count EXCEPT ![kind] = Bump(@)]

(* Slip: a new window keeps the flag of the last one. *)
RenewedFlagged(e, expired) == IF expired THEN [e EXCEPT !.count = None] ELSE e

Renewed(e, expired) ==
    IF expired THEN [e EXCEPT !.count = None, !.advised = FALSE] ELSE e

AtLimit(count) == count["uce"] >= limits.uce \/ count["ce"] >= limits.ce

(* Slip: an error is advised on whatever has been advised before. *)
AdvisesAgain(e) == AtLimit(e.count)

(* Decided under the lock, at most once per window. *)
Advises(e) == AtLimit(e.count) /\ ~e.advised

Put(i, e) == IF i \in DOMAIN list THEN [list EXCEPT ![i] = e] ELSE Append(list, e)

(* What a context does when it is done with one error of its event. *)
After(k) == IF probe[k].left > 1 THEN [probe[k] EXCEPT !.at = "count", !.left = @ - 1]
                                 ELSE Idle

(* What a correct account of d would hold: no part of the code. *)
Witness(d, kind, expired, advise) ==
    LET s == Counted(IF expired THEN None ELSE seen[d], kind)
        n == IF expired THEN 0 ELSE due[d]
    IN  /\ seen' = [seen EXCEPT ![d] = s]
        /\ due' = [due EXCEPT ![d] = IF advise /\ n < 2 THEN n + 1 ELSE n]
        /\ over' = IF AtLimit(s) THEN over \cup {d} ELSE over \ {d}

(* mfi_dimm_account() up to the unlock, with the entry at place i.         *)
(* Expired: the window of the DIMM has run out; a new entry has a new one. *)
Account(k, i, d, kind, expired) ==
    LET old == IF i \in DOMAIN list THEN Renewed(list[i], expired) ELSE Fresh(d)
        new == [old EXCEPT !.count = Counted(@, kind)]
        advise == Advises(new)
    IN  /\ IsPlace(i, d) /\ HasSlot(i)
        /\ list' = Put(i, [new EXCEPT !.advised = @ \/ advise])
        /\ probe' = [probe EXCEPT ![k] = IF advise THEN [@ EXCEPT !.at = "send"]
                                                   ELSE After(k)]
        /\ Witness(d, kind, expired, advise)

-----------------------------------------------------------------------------
(* mfi_mc_event_probe(): an event of n errors of one kind; informational   *)
(* ones are left alone.  Without an address the errors of the event count  *)
(* as one.                                                                 *)
McEvent(k, d, kind, addr, n) ==
    /\ probe[k].at = "idle"
    /\ n > 0 \/ addr = "none"
    /\ probe' = [probe EXCEPT ![k] = [at |-> "count", dimm |-> d, kind |-> kind,
                                      left |-> IF addr = "none" THEN 1 ELSE n,
                                      addr |-> addr]]
    /\ UNCHANGED <<enable, limits, list, history>>

(* An error with an address goes through mfi_report_mem_error(), which     *)
(* asks for mem_enable and for memory at that address; one without an      *)
(* address does not.                                                       *)
Wanted(k) == probe[k].addr = "none" \/ (enable /\ probe[k].addr = "valid")

Count(k, i, expired) ==
    /\ probe[k].at = "count"
    /\ Wanted(k)
    /\ Account(k, i, probe[k].dimm, probe[k].kind, expired)
    /\ UNCHANGED <<enable, limits>>

(* The error is not wanted, the table is full, or there is no memory. *)
Skip(k) ==
    /\ probe[k].at = "count"
    /\ ~Wanted(k) \/ \A i \in DOMAIN list : ~Names(i, probe[k].dimm)
    /\ probe' = [probe EXCEPT ![k] = After(k)]
    /\ UNCHANGED <<enable, limits, list, history>>

(* cfi_nl_send_mem_migrate_advised(), arriving or not. *)
Send(k) ==
    /\ probe[k].at = "send"
    /\ probe' = [probe EXCEPT ![k] = After(k)]
    /\ UNCHANGED <<enable, limits, list, history>>

(* The sysfs attributes dimm_ce_threshold, dimm_uce_threshold and enable. *)
SetLimits(l) ==
    /\ limits' = l
    /\ UNCHANGED <<enable, list, probe, history>>

Toggle ==
    /\ enable' = ~enable
    /\ UNCHANGED <<limits, list, probe, history>>

Step(k) ==
    \/ \E i \in 1..(Len(list) + 1), expired \in BOOLEAN : Count(k, i, expired)
    \/ Skip(k)
    \/ Send(k)

Next ==
    \/ \E k \in Probe : \/ Step(k)
                        \/ \E d \in Dimm, kind \in Kinds, addr \in Addrs, n \in 0..Burst :
                               McEvent(k, d, kind, addr, n)
    \/ \E l \in Limits : SetLimits(l)
    \/ Toggle

Spec == Init /\ [][Next]_vars
-----------------------------------------------------------------------------
(* Properties.                                                             *)

(* DIMMs whose label is stored whole, and under which no other is stored.  *)
Whole == {d \in Dimm : \A x \in Dimm : Cut[x] = d <=> x = d}

(* However many contexts count errors of one DIMM, and whatever is done to *)
(* the thresholds meanwhile, one window yields one advice at most          *)
(* (mfi_dimm.c:91): a migration of the host is not ordered twice.          *)
OneAdvicePerWindow == \A d \in Whole : due[d] <= 1

(* The errors of a DIMM accounted in one window add up in one entry,       *)
(* however the entries of others come and go between them: the error that  *)
(* brings their number to a threshold, or finds it there, has the advice   *)
(* of this window decided (mfi_dimm.c:72-96).                              *)
ThresholdIsAdvised == \A d \in Whole : d \in over => due[d] = 1

-----------------------------------------------------------------------------
(* A property the code's own words state and the code does not keep.       *)

(* mfi_dimm.c:7-9, "emits a single MEM_MIGRATE_ADVISED netlink event when  *)
(* a DIMM crosses its CE or UCE threshold": whatever its label.            *)
CrossingIsAdvisedOnce == \A d \in Dimm : d \in over => due[d] = 1
=============================================================================
