---------------------------- MODULE ErrorRouting ----------------------------
(***************************************************************************)
(* From a hardware error record to the fault domain that is charged with   *)
(* it: the x86 notifiers and the MCA decoding of kernel/arch/x86/, the     *)
(* triage verdict of kernel/core/mfi_triage.c and mfi_policy.h, and the    *)
(* two arm64 probes of kernel/arch/arm64/.  One record is handed to every  *)
(* handler registered for it, in any order: the decode chain runs the two  *)
(* x86 notifiers at the same priority, and on HCE3 kernels the FMA chain   *)
(* shows the CPU domain the record once more.  A line written to the       *)
(* debugfs file cfi/inject takes the place of a record of either domain.   *)
(* What the domains make of the error is in CpuIsolation and MemPage.      *)
(* Topology, addresses and the raw data kept for the log are left out.     *)
(***************************************************************************)
EXTENDS Naturals, FiniteSets

CONSTANTS
    McaRecords,   \* x86: the MCE records considered
    ArmRecords,   \* arm64: entries of a CPER ARM processor error section
    HisiRecords,  \* arm64: HiSilicon sections
    Lines,        \* lines written to cfi/inject
    Configs       \* the settings considered: [fma, mem, triage]

VARIABLES
    cfg,      \* HCE3's FMA chain exists; mfi_enable; mfi_triage
    rec,      \* the record
    pending,  \* the handlers that have not seen it
    charges,  \* how often the CPU domain was given it
    event,    \* what the CPU domain was given, [type, sev]
    memType,  \* what the memory domain was given it as, or "none"
    verdict   \* of triage: "none", "recover" or "panic"

vars == <<cfg, rec, pending, charges, event, memType, verdict>>

(* "absent": there is no such page frame; "invalid": it is not online. *)
PageClasses == {"absent", "invalid", "user", "kernel", "free"}
CpuTypes    == {"l1d", "l1i", "l2", "l3", "tlb", "bus", "internal", "generic"}
Nothing     == [type |-> "none", sev |-> "none"]

ASSUME McaAssumption ==
    \A r \in McaRecords : r.kind = "mce" /\ r.code \in Nat /\ r.class \in PageClasses
ASSUME LineAssumption == \A l \in Lines : l.kind = "line" /\ l.domain \in {"cpu", "mem"}
ASSUME ArmAssumption == \A r \in ArmRecords : r.kind = "arm" /\ r.level \in 0..7
ASSUME HisiAssumption == \A r \in HisiRecords : r.kind = "hisi"

-----------------------------------------------------------------------------
(* A definition whose comment starts with "Slip:" is no part of the model: *)
(* it is the definition after it as a plausible bug would have it, kept to *)
(* show which property would notice.                                       *)

(* A field of the MCA error code, bits 15:0 of MCi_STATUS, by the weight   *)
(* of its lowest bit and the number of its values.                         *)
Field(code, weight, size) == (code \div weight) % size

(* MCACOD leaves out bit 12, the correction report filtering bit. *)
Unfiltered(code) == code - 4096 * Field(code, 4096, 2)

(* Slip: the filter bit is not stripped. *)
IsMemoryCodeFiltered(code) == code \div 128 = 1 \/ code \in {308, 336, 378}

(* cfi_x86_is_memory_errcode(): memory controller errors, and consumed     *)
(* poison reported by a cache: MCACOD_DATA, MCACOD_INSTR, MCACOD_L3WB.     *)
IsMemoryCode(code) == \/ Unfiltered(code) \div 128 = 1
                      \/ Unfiltered(code) \in {308, 336, 378}

(* Slip: level 0 is not known. *)
LevelTypeFromL1(ll, tt) == CASE ll = 3 -> "l3"
                             [] ll = 2 -> "l2"
                             [] ll = 1 /\ tt = 0 -> "l1i"
                             [] ll = 1 /\ tt # 0 -> "l1d"
                             [] ll = 0 -> "none"

(* cfi_x86_ll_to_type() *)
LevelType(ll, tt) == CASE ll = 3 -> "l3"
                       [] ll = 2 -> "l2"
                       [] ll < 2 /\ tt = 0 -> "l1i"
                       [] ll < 2 /\ tt # 0 -> "l1d"

IsSimpleCache(code) == code \div 4 = 3
IsCompound(code)    == code \div 2048 = 1

(* Slip: bus errors are told by the compound flag. *)
CompoundTypeByFlag(code) ==
    CASE Field(code, 16, 2) = 1 -> "tlb"
      [] Field(code, 16, 2) = 0 /\ Field(code, 2048, 2) = 1 -> "bus"
      [] OTHER -> LevelType(Field(code, 1, 4), Field(code, 4, 4))

CompoundType(code) ==
    CASE Field(code, 16, 2) = 1 -> "tlb"
      [] Field(code, 16, 2) = 0 /\ Field(code, 256, 16) \in {14, 15} -> "bus"
      [] OTHER -> LevelType(Field(code, 1, 4), Field(code, 4, 4))

(* cfi_x86_classify_errcode(); generic transactions of a simple code count *)
(* as data.                                                                *)
ErrcodeType(code) ==
    IF IsMemoryCode(code) THEN "none"
    ELSE IF IsSimpleCache(code) THEN LevelType(Field(code, 1, 4), 2)
    ELSE IF IsCompound(code) THEN CompoundType(code)
    ELSE IF code \in 1024..4095 THEN "internal" ELSE "generic"

(* cfi_x86_classify_mce(): fatal when the processor context is corrupt. *)
Severity(r) == IF ~r.uc THEN "CE" ELSE IF r.pcc THEN "UCF" ELSE "UCR"

-----------------------------------------------------------------------------
(* cfi_arm64_cache_level_to_type(); the level is 0 when it is not valid. *)
ArmCacheType(r) == CASE ~r.levelValid \/ r.level = 0 -> "l1d"
                     [] r.levelValid /\ r.level = 1 -> "l2"
                     [] r.levelValid /\ r.level > 1 -> "l3"

(* cfi_arm64_classify_error() *)
ArmType(r) == CASE r.type = 0 -> ArmCacheType(r)
                [] r.type = 1 -> "tlb"
                [] r.type = 2 -> "bus"
                [] r.type = 3 -> "internal"
                [] OTHER -> "generic"

ArmSeverity(r) == IF r.uncorrected THEN "UCR" ELSE "CE"

(* cfi_arm64_non_standard_probe() and cfi_arm64_classify_hisi(). *)
HisiSeverity(r) == CASE r.sev \in {0, 2} -> "CE" [] r.sev = 1 -> "UCF" [] OTHER -> "UCR"
HisiType(r) == CASE r.len < 10 -> "none"
                 [] r.len >= 10 /\ r.guid = "l3tag"  -> "l3"
                 [] r.len >= 10 /\ r.guid = "hha"    -> "bus"
                 [] r.len >= 10 /\ r.guid = "common" -> "generic"
                 [] OTHER -> "none"

-----------------------------------------------------------------------------
Handlers(r, c) == CASE r.kind = "mce" -> {"cfi", "mfi"} \cup IF c.fma THEN {"fma"} ELSE {}
                    [] r.kind = "arm" -> {"arm"}
                    [] r.kind = "hisi" -> {"hisi"}
                    [] r.kind = "line" -> {r.domain}

Records == McaRecords \cup ArmRecords \cup HisiRecords \cup Lines

Init ==
    /\ cfg \in Configs
    /\ rec \in Records
    /\ pending = Handlers(rec, cfg)
    /\ charges = 0 /\ event = Nothing
    /\ memType = "none" /\ verdict = "none"

Seen(h) == /\ verdict # "panic"
           /\ h \in pending /\ pending' = pending \ {h}
           /\ UNCHANGED <<cfg, rec>>

(* cfi_report_error() *)
Charge(type, sev) == charges' = charges + 1 /\ event' = [type |-> type, sev |-> sev]

(* cfi_x86_mce_notifier(), and cfi_x86_fma_notifier(), its copy on the FMA *)
(* chain.                                                                  *)
CfiNotify(h) ==
    /\ h \in {"cfi", "fma"} /\ Seen(h)
    /\ IF rec.val /\ ErrcodeType(rec.code) # "none"
       THEN Charge(ErrcodeType(rec.code), Severity(rec))
       ELSE UNCHANGED <<charges, event>>
    /\ UNCHANGED <<memType, verdict>>

ArmProbe ==
    /\ Seen("arm")
    /\ Charge(ArmType(rec), ArmSeverity(rec))
    /\ UNCHANGED <<memType, verdict>>

HisiProbe ==
    /\ Seen("hisi")
    /\ IF HisiType(rec) # "none" THEN Charge(HisiType(rec), HisiSeverity(rec))
                                 ELSE UNCHANGED <<charges, event>>
    /\ UNCHANGED <<memType, verdict>>

(* What mfi_x86_mce_notifier() reports: AMD marks deferred errors, Intel   *)
(* those that require action.                                              *)
MemType(r) == CASE ~r.uc -> "ce"
                [] r.uc /\ (r.deferred \/ ~r.ar) -> "deferred"
                [] r.uc /\ ~r.deferred /\ r.ar -> "consumed"

(* Slip: without a restart address recovery is tried all the same. *)
TriageDecideHopeful(r) ==
    IF ~r.pcc /\ r.class \in {"user", "free"} THEN "recover" ELSE "panic"

(* mfi_triage_decide() *)
TriageDecide(r) ==
    IF r.ripv /\ ~r.pcc /\ r.class \in {"user", "free"} THEN "recover" ELSE "panic"

Triaged(r) == MemType(r) = "consumed" /\ r.kernel /\ cfg.triage

MfiAccepts(r) == cfg.mem /\ r.val /\ IsMemoryCode(Unfiltered(r.code)) /\ r.addrv

(* What mfi_report_mem_error() passes on: nothing of a domain that is      *)
(* disabled, or of a page frame there is not.                              *)
Taken(type, class) == IF cfg.mem /\ class # "absent" THEN type ELSE "none"

(* mfi_x86_mce_notifier(); a verdict of panic never returns. *)
MfiNotify ==
    /\ Seen("mfi")
    /\ IF ~MfiAccepts(rec)
       THEN UNCHANGED <<memType, verdict>>
       ELSE /\ verdict' = IF Triaged(rec) THEN TriageDecide(rec) ELSE "none"
            /\ memType' = IF verdict' = "panic" THEN "none"
                          ELSE Taken(MemType(rec), rec.class)
    /\ UNCHANGED <<charges, event>>

-----------------------------------------------------------------------------
(* cfi_inject_write().  A key that is missing, cannot be parsed or is out  *)
(* of range is "bad" and the whole line is refused; an option that cannot  *)
(* be parsed is as good as unset.                                          *)
InjectCpu ==
    /\ Seen("cpu")
    /\ IF rec.place = "ok" /\ rec.type \in CpuTypes /\ rec.sev # "bad"
       THEN Charge(rec.type, rec.sev)
       ELSE UNCHANGED <<charges, event>>
    /\ UNCHANGED <<memType, verdict>>

Given(option, default) == IF option = "unset" THEN default ELSE option = "yes"

LineTypes == [ce |-> "ce", uce_srao |-> "deferred", uce_srar |-> "consumed"]
WellFormed(l) == l.place = "ok" /\ l.class # "absent" /\ l.type \in DOMAIN LineTypes

LineVerdict(l) == TriageDecide([class |-> l.class, ripv |-> Given(l.ripv, TRUE),
                                pcc |-> Given(l.pcc, FALSE)])

(* Slip: the context the error was consumed in is not asked for. *)
LineTriagedAnyhow(l) == LineTypes[l.type] = "consumed" /\ cfg.triage

LineTriaged(l) ==
    LineTypes[l.type] = "consumed" /\ Given(l.kernel, FALSE) /\ cfg.triage

(* cfi_inject_mem(); the triage before mfi_report_mem_error() does not ask *)
(* whether the domain is enabled.                                          *)
InjectMem ==
    /\ Seen("mem")
    /\ IF WellFormed(rec)
       THEN /\ verdict' = IF LineTriaged(rec) THEN LineVerdict(rec) ELSE "none"
            /\ memType' = IF verdict' = "panic" THEN "none"
                          ELSE Taken(LineTypes[rec.type], rec.class)
       ELSE UNCHANGED <<memType, verdict>>
    /\ UNCHANGED <<charges, event>>

Next == \/ \E h \in {"cfi", "fma"} : CfiNotify(h)
        \/ MfiNotify
        \/ ArmProbe \/ HisiProbe
        \/ InjectCpu \/ InjectMem

Spec == Init /\ [][Next]_vars

-----------------------------------------------------------------------------
(* Properties.                                                             *)

Done    == pending = {} \/ verdict = "panic"
Mca     == rec.kind = "mce" /\ rec.val
Reached == memType # "none" \/ verdict # "none"

(* docs/memory-fault-isolation-design.md:250, a failing DIMM must not drag *)
(* a healthy CPU down: however often and in whichever order the handlers   *)
(* see a record, at most one domain is charged with it.                    *)
OneDomain == ~(charges > 0 /\ Reached)

(* And no valid record falls between the domains' filters, if the memory   *)
(* domain is enabled and the record has the address of a page frame.       *)
NoneFallsBetween ==
    Done /\ Mca /\ rec.addrv /\ rec.class # "absent" /\ cfg.mem => charges > 0 \/ Reached

(* The codes by which x86 names a cache of each kind (cfi_x86.h:21-32):    *)
(* the level LL and the transaction TT of a compound code, whatever its    *)
(* request R and its other bits P, if it is neither a TLB's nor a bus's,   *)
(* and the simple codes 0x000C to 0x000F.                                  *)
CacheCode(p, r, tt, ll) == 2048 + 256 * p + 32 * r + 4 * tt + ll
CodesOf(tts, lls) == {CacheCode(p, r, tt, ll) : p \in 0..5, r \in 0..7, tt \in tts, ll \in lls}
CacheCodes == [l1i |-> CodesOf({0}, {0, 1}),
               l1d |-> CodesOf(1..3, {0, 1}) \cup {12, 13},
               l2  |-> CodesOf(0..3, {2}) \cup {14},
               l3  |-> CodesOf(0..3, {3}) \cup {15}]

(* And the levels of an arm64 cache entry, which does not tell data from   *)
(* instructions (cfi_arm64_cache.c:30, 37-47).                             *)
CacheLevels == [l1d |-> {0}, l2 |-> {1}, l3 |-> 2..7]

(* An error is charged as the cache its code names, and as a cache only if *)
(* its code names one: no cache passes for another or for a bus, and       *)
(* isolate_on_l3_uce holds back errors of the last level and no others.    *)
(* On arm64 likewise, where the level is valid; an entry without a valid   *)
(* level does not pass for the last one.                                   *)
CacheIsNamed ==
    /\ Mca /\ charges > 0 =>
           \A t \in DOMAIN CacheCodes : event.type = t <=> rec.code \in CacheCodes[t]
    /\ rec.kind = "arm" /\ charges > 0 =>
           /\ event.type \in DOMAIN CacheLevels <=> rec.type = 0
           /\ rec.type = 0 /\ rec.levelValid =>
                  \A t \in DOMAIN CacheLevels : event.type = t <=> rec.level \in CacheLevels[t]
           /\ ~rec.levelValid => event.type # "l3"

(* mfi_x86.c:20-23, triage "restores a safe verdict (recover or panic)":   *)
(* with triage on, a located memory error consumed by the kernel is never  *)
(* just counted, and recovery is only tried where the kernel can resume    *)
(* and the page is not its own.                                            *)
Unsafe == rec.pcc \/ ~rec.ripv \/ rec.class \in {"kernel", "invalid", "absent"}
NeverPastPoison ==
    Done /\ Mca /\ cfg.mem /\ cfg.triage /\ rec.addrv /\ rec.kernel
         /\ IsMemoryCode(rec.code) /\ rec.uc /\ rec.ar /\ ~rec.deferred
        => verdict = IF Unsafe THEN "panic" ELSE "recover"

(* cfi_debugfs.c:205, "Mirror the x86 backend's flow, including the triage *)
(* gate": with the memory domain enabled a line has the outcome of the     *)
(* record it stands for, a memory read error of its type, and a refused    *)
(* line has none.  What the scripts under test/ see is what hardware does. *)
AsRecord(l) ==
    [kind |-> "mce", code |-> 159, val |-> TRUE, addrv |-> TRUE, class |-> l.class,
     uc |-> l.type # "ce", ar |-> l.type = "uce_srar", deferred |-> FALSE,
     kernel |-> Given(l.kernel, FALSE), ripv |-> Given(l.ripv, TRUE),
     pcc |-> Given(l.pcc, FALSE)]

BackendVerdict(r) == IF Triaged(r) THEN TriageDecide(r) ELSE "none"

InjectionMirrors ==
    Done /\ rec.kind = "line" /\ rec.domain = "mem" /\ cfg.mem =>
        IF ~WellFormed(rec) THEN ~Reached
        ELSE LET r == AsRecord(rec)
             IN  /\ MfiAccepts(r) /\ verdict = BackendVerdict(r)
                 /\ memType = IF verdict = "panic" THEN "none" ELSE MemType(r)
=============================================================================
