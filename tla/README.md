# A TLA+ model of cpu_fault_isolate

`cpu_fault_isolate` is a Linux kernel module that takes CPUs and memory pages
out of service when hardware reports errors about them. This directory models
its core logic in TLA+, checks it with TLC and proves parts of it with TLAPS.
All paths are under `src/kernel/` unless they start with `docs/` or `test/`.

## The system

The module has two fault domains. The **CPU domain** counts errors per CPU and
isolates a CPU that has too many; the **memory domain** counts errors per page
and per DIMM, takes pages out of use, and advises evacuating the host. They
share the hardware's error records, the netlink family, sysfs and the
load/unload ladder, and no other state: which of them is charged with a record
is decided where it is decoded.

    x86 decode chain, HCE3 FMA chain       ras:arm_event, non_standard_event   ras:mc_event
            |                  |                        |                            |
     cfi_x86*.c           mfi_x86.c               cfi_arm64*.c                  mfi_dimm.c
            \                  |  \  triage            /                      /         \
             \                 |   mfi_triage.c       /                      /     DIMM counters
              cfi_core.c <-----+--------------------/        mfi_core.c <---       -> advice
                  |  timer                                       |
     netlink -> cfi_hotplug.c -> ordered workqueue               mfi_page.c -> unbound workqueue
     operator/hotplug callback ->   cpu_down / active mask       -> memory_failure_queue()
                                                                 <- memory_failure_event probe

### Components, their state, and what makes them correct

| component | state it keeps | operations | what is hard | what makes it correct |
|---|---|---|---|---|
| accounting and state machine, `core/cfi_core.c` | per CPU: state, counts, window, `user_pinned` | `cfi_report_error` | acts after dropping the lock | an error is charged to the right window; one claim per isolation |
| isolation, `core/cfi_hotplug.c` | deferral timer, `offline_work`, `cfi_hotplug_wq`, the kernel's CPU masks | begin, ACK, timer, work, UNISOLATE, hotplug callback | five contexts per CPU, most without the lock; failing and repeated offlines | protected CPUs untouched; nothing stranded; the recorded state fits the CPU |
| withdrawal, `core/cfi_hotplug.c` | `dev->offline`, the online and active masks, interrupt affinities | `cfi_cpu_do_offline`, `cfi_cpu_do_online`, `cfi_migrate_irqs_off_cpu` | three levels, the lower ones around the device model; several contexts on one CPU | success is real; the flag never shuts the way back; interrupts stay off isolated CPUs |
| netlink, `core/cfi_netlink.c` | policies | ISOLATE, UNISOLATE, ACK, SET_POLICY, MEM_* | races with everything else | commands are refused in the wrong state |
| pages, `core/mfi_core.c`, `core/mfi_page.c` | bounded LRU/hash table of pages | report, soft offline, hard offline, completion | the table lock covers no call; completions carry no generation; the kernel poisons pages on its own | table consistent and bounded; in-flight pages concluded; poisoned pages really queued |
| triage, `core/mfi_triage.c`, `core/mfi_policy.h` | none | verdict, queue recovery | last chance before silent corruption | recover only where every condition holds |
| DIMMs, `core/mfi_dimm.c` | table of counters that only grows | account | several contexts, lock dropped before sending | the errors of a DIMM add up; one advice per window, none missed |
| x86 and arm64 decoding, `arch/` | none | notifiers, probes, classifiers | bit fields; several handlers see one record | one domain is charged; caches named rightly |
| load and unload, `core/cfi_main.c` | what is registered | `cfi_init`, `cfi_exit` | failing rungs; callers inside | nothing left behind; nothing freed in use |
| panic suppression, `core/cfi_panic_suppress.c` | original `tolerant` | raise, restore | two methods, each may fail | raised while handlers listen; restored |
| sysfs, debugfs | tunables | stores, injection | run beside everything; injection copies the backends' gates | as the netlink commands; an injected error fares as a real one |

## The modules

| module | models | its actions and the code |
|---|---|---|
| `CpuIsolation` | `core/cfi_core.c`, `core/cfi_hotplug.c`, the CPU commands of `core/cfi_netlink.c`, `user_pinned_store` | `ReportError` is `cfi_report_error` up to the unlock, `ReporterBegin` the `cfi_begin_isolation` call that follows; `Isolate`/`IsolateBegin`, `AckIsolate`/`AckProceed` and `Unisolate`/`UnisolateRestore`/`UnisolateFinish` are commands cut at the same points; `DeferTimer` is the timer; `WorkRun`/`WorkMark` are `cfi_offline_work_fn`; `BringUp` is the hotplug callback; `OperatorOffline`/`OperatorOnline` are the kernel's `cpu_down`/`cpu_up` |
| `IsolationPromise` | what the CPU domain promises, without timers, queues or handlers | `Claim`, `Withdraw`, `Verdict`, `Refuse` |
| `CpuWithdrawal` | the ladder, the active mask and the interrupt steering of `core/cfi_hotplug.c`, which `CpuIsolation` knows by their outcome | for `"off"` (the worker) and `"on"` (UNISOLATE) alike: `ModelCall` is `remove_cpu`/`add_cpu`, `Look` what follows its failure, `Bypass` the levels below, `Sync` is `cfi_sync_dev_offline`, `Record` the verdict; `Undo` is UNISOLATE outside full mode, which needs no ladder; `Steer` is one turn of the loop of `cfi_migrate_irqs_off_cpu`; `Operator` writes `cpuX/online`, `Rebalance` an interrupt's affinity |
| `MemPage` | `core/mfi_core.c`, `core/mfi_page.c`, the queueing half of `core/mfi_triage.c`, the memory commands | `ReportCe`/`SoftQueue` are `mfi_handle_ce`; `ReportUce`/`UceTable`/`HardQueue` are `mfi_handle_uce`; `TriageUce`/`ReportTriaged` the triage path; `SoftRun`/`SoftRecord` the work; `MfTake`/`MfForeign`/`MfEvent` the kernel's `memory_failure()` and the probe on it |
| `DimmAccounting` | `core/mfi_dimm.c` | `McEvent` is the probe, `Count` one error under the lock, `Skip` one that is not counted, `Send` the advice; `list` is the list in its order, found by the label as stored (`Cut`), and `seen`, `due` and `over` note what a right account of each DIMM would hold |
| `ErrorRouting` | `arch/x86/`, `arch/arm64/`, the verdict of `core/mfi_policy.h`, injection in `core/cfi_debugfs.c` | `CfiNotify` (decode and FMA chains), `MfiNotify`, `ArmProbe`, `HisiProbe`; `Taken` is what `mfi_report_mem_error` lets in; `InjectCpu` and `InjectMem` are a line written to `cfi/inject` |
| `Lifecycle` | `core/cfi_main.c`, `core/cfi_panic_suppress.c`, the init and exit functions | `Acquire`/`Fail` are the rungs of `cfi_init`, `Unregister`/`Released` those of `cfi_exit` and of the labels; `Enter`/`Leave` the callers a registered part lets in |

Two of the steps of `Lifecycle` are coarser than the code. Cancelling the work and
deleting the timer of every record (`cfi_main.c:197`, `:198`) is one step with the
release of the records: the queue is gone by then, so no work can start between
the two, and a timer that fires there ends in `oops` as it would before. And sysfs
stores are no callers: they only write a flag of a record, and the attributes go
before the records do (`cfi_main.c:326`). Works and handlers end by themselves, so
`DownEnds` says that the ladder waits for the right ones in an order that ends, not
that a handler cannot block on a lock.

An action is what a context does between two points where another can get in:
taking or dropping a lock, queueing a work, arming or cancelling a timer,
calling into the kernel. Kernel services are modelled by how the code uses
them: a `cpu_down` that may fail, a `memory_failure()` with a bounded queue
that poisons first and reports afterwards, a workqueue that keeps one pending
instance of a work item.

Definitions marked *Slip* in their comment are no part of the model. They are
the definition below them as a plausible bug would write it, and each one makes
the property it is paired with in `PROJECT.json` fail under its run.

`MC*` modules give the constants values for TLC and nothing else, with three
exceptions that narrow the next-state relation where the whole one is too large:
`AttendedSpec` (operators plug `c1` only), `FocusSpec` of `MCCpuIsolation` (errors
and commands concern `c1` only; used by `cpu_l3_residue`) and `FocusSpec` of
`MCMemPage` (full traffic on `p1`, only corrected errors of `p2`; the liveness of
pages, `PreIsoSettlesFor` and its like in `MemPage`, is checked of `p1`).

## What the runs check

| run | bounds | properties |
|---|---|---|
| `cpu_unattended` | 2 ordinary CPUs, full and inactive mode, thresholds 1, deferral on or off, one CPU pinnable | `TypeOK` (works and commands run one at a time), `IsolatedIsGone`, `GoneIsRecoverable`, and `PromiseKept`: the domain implements `IsolationPromise`, liveness included |
| `cpu_attended` | a protected and an ordinary CPU, three modes, UNISOLATE of any CPU, an operator plugging the ordinary one, thresholds 1, L3 errors included, deferral on | `ProtectedSafe`, `InFlightHasDriver`, `BelowThresholds`, `IsolationSettles` |
| `withdrawal` | 2 CPUs, 1 interrupt, three modes, hosts with the bypass allowed or not that found the same entry points both ways or a single one, stubbed or not | `SuccessIsReal`, `NeverShortCircuited`, and `OutcomeKept`: the ladder implements what `CpuIsolation` takes for the outcome of an isolation or a restore |
| `mem` | 2 pages, table of 1, threshold 2, 2 reporters, pre-isolation switched on and off, kernel queue of 1, one pending work per page; `p2` has corrected errors only | `TableSound`, `InFlightNeverEvicted`, `PreIsoHasDriver`, `PoisonedIsAnswered`, `PreIsoSettles`, `PoisonedIsTakenOut`, `UceInHand`, `UceIsAnswered` |
| `dimm` | an ordinary DIMM and one whose label is too long, table of 2, 2 contexts, bursts of 2, thresholds moved between 1 and 2 | `TypeOK` (the bound of the table), `OneAdvicePerWindow`, `ThresholdIsAdvised` |
| `lifecycle` | every failing rung, machines with and without each way to raise `tolerant` and with or without the memory domain | `AbsentIsClean`, `RecordsOutlive`, `SuppressedWhileListening`, `TolerantRestored`, `HandlersFindTheirQueue`, `DownEnds` |
| `routing` | all error codes with bits 15:13 clear, all flag combinations with one code of each kind, all ARM entries, all orders of handlers, every line of the injection file up to the wording of its values | `OneDomain`, `NoneFallsBetween`, `CacheIsNamed`, `NeverPastPoison`, `InjectionMirrors` |

Why the bounds are enough. Counters are only compared with thresholds, so they
saturate at the largest (`CountCap`). Pages and DIMMs are checked with thresholds
that separate "the first error", "below" and "at"; the CPU runs, whose difficulty
is in what follows a threshold, let every error meet one, and `BelowThresholds` is
proved for all of them. CPUs interact through the ordered workqueue and the
last-online check only, so two of them show each interaction, and in
`CpuWithdrawal` through the last-CPU rule and the masks of interrupts, so that
`irq_returns` takes three: two isolated and one in service. Pages interact through
eviction only, so two pages and a table of one do, and the second one needs no
state but its place in the table. Time
is abstracted: whether a window has expired and whether a timer fires is a free
choice at every step. `Burst`, `WorkCap` and `MfDepth` bound events per report,
pending works per page and the kernel's queue. What is proved below holds
without any of these bounds.

### Fairness

Only weak fairness, and only of what the kernel does by itself: a handler that
has been entered goes on, a pending timer fires, a workqueue runs what is
queued, `memory_failure()` works through its queue, and `insmod`/`rmmod` are not
interrupted (`cfi_hotplug.c:312`, `mfi_page.c:178` create ordinary
workqueues). No report, command, ACK or operator action is ever fair: nothing
that comes from outside is assumed to come.

### What does not hold

Five runs check a sentence of the repository that the code does not keep.

- `cpu_l3_residue`. An L3 error is to be accounted with the "CPU stays online"
  (`cfi_main.c:83`). Its count stays in the window, and the hold at
  `cfi_core.c:171` looks only at the type of the current error: the next error
  of any other kind, a corrected one too, isolates the CPU. It takes an error that
  was held back, or a threshold lowered below the count: without either no
  corrected error isolates a CPU (`CorrectedErrorIsolatesNobody`, proved).
- `cpu_last_active`. The last CPU cannot be isolated (`docs/design-document.md:258`;
  "Never isolate the last online CPU", `cfi_hotplug.c:577`). The check counts online
  CPUs, and inactive mode withdraws a CPU without taking it offline: with the other
  one withdrawn, the last CPU of the scheduler passes. In the two other modes, or
  while a protected CPU is online, the scheduler keeps one
  (`SchedulerKeepsCpuByMode`, `SchedulerKeepsProtected`, proved).
- `mem_attribution`. "Only PFNs tracked in POISONED state are attributed to MFI"
  (`mfi_page.c:20`): the probe concludes any entry.
- `irq_returns`. To an isolated CPU interrupts are no longer delivered, in all
  three modes (`docs/slides-technical.md:321`). `cfi_migrate_irqs_off_cpu` picks
  targets from the online mask (`cfi_hotplug.c:378`, `:382`), in which the CPUs
  isolated before it still are in inactive and soft mode: isolating the next CPU
  can spread its interrupts back onto them.
- `dimm_long_label`. A "single MEM_MIGRATE_ADVISED netlink event when a DIMM crosses
  its CE or UCE threshold" (`mfi_dimm.c:7`). An entry stores 31 characters of a label
  (`mfi_dimm.c:54`) and is looked up by 32 (`mfi_dimm.c:43`), so a longer label is
  never found again: each error makes an entry with a count of one, no threshold
  above one is crossed, one of one is crossed by every error, and the 64 entries are
  used up. EDAC makes such labels when it names all the DIMMs an error may come from.
  A DIMM whose label is stored whole, and is not the stump of another, is accounted
  rightly whatever the others leave in the table (`AdvisedOnce`, `AdviceNotMissed`,
  proved).

Met while reading and modelling, without a run of their own:

- Deferral timers may be armed, and the netlink family is registered, when the
  workqueue is destroyed (`cfi_hotplug.c:341`, which drains what is queued only);
  timers are deleted later (`cfi_main.c:198`). On load netlink is up
  (`cfi_main.c:225`) before the workqueue is (`:237`). Both can queue on a workqueue
  that is not there, which is `oops` in `Lifecycle`; all the others who queue find
  theirs (`HandlersFindTheirQueue`, proved).
- On arm64 a cache error without a valid level counts as an L1D one, the level
  staying 0 (`cfi_arm64.c:83`, `:90`); `cfi_arm64_cache.c:31` says that it is treated
  as a generic core error.
- An ACK served between the claim and `cfi_begin_isolation` can withdraw a CPU
  that begin then records as FAILED.
- A work queued twice isolates again a CPU that UNISOLATE has just returned; and
  UNISOLATE writes ONLINE without looking whether the CPU is (`cfi_hotplug.c:693`).
- `dev->offline` is set in a step of its own after a bypass, so a second run of the
  work, an UNISOLATE and an operator can leave it saying the opposite of the CPU's
  state, and `cpuX/online` with it (`cfi_hotplug.c:143` wants it truthful). The next
  move then goes through a bypass level (`NeverShortCircuited`).
- UNISOLATE in inactive mode sets the CPU's bit in the active mask whether the CPU
  is online or not (`cfi_hotplug.c:458`).
- `docs/hce2-510-port-notes.md:285` has `rmmod` roll every isolation back;
  `cfi_exit()` calls no `cfi_unisolate_cpu()` (`cfi_main.c:309`), so CPUs stay as
  they are and their records are freed.
- With the memory domain disabled an injected line is still triaged and may panic,
  which the backend it mirrors never does (`cfi_debugfs.c:206`, `mfi_x86.c:46`). A
  `kernel=`, `ripv=` or `pcc=` that does not parse is silently the default.
- An uncorrected error on a page that is PRE_ISO or FAILED queues nothing
  (`mfi_core.c:258`). What holds is `UceIsAnswered`: the page leaves use, or its
  record says that an attempt at it failed, which nothing repeats.
- An uncorrected error consumed in kernel context without a valid address is
  never triaged (`mfi_x86.c:57`).
- An event without an address is accounted to its DIMM with the memory domain
  disabled (`mfi_dimm.c:170`).
- `docs/memory-fault-isolation-design.md:309` has several banks reporting at once
  lead to a panic; the code has no such check.
- `cfi_panic_suppress.c:58` promises fallbacks on exit that are not there.
- A page that was poisoned before its entry was made never concludes: its entry
  stays POISONED, out of reach of eviction.

## What is proved

TLAPS checks these for every value of the constants that meets the named
assumptions of the modules.

`CpuIsolationProofs`: `TypeCorrect`, with one work and one command at a time; `ProtectedIsSafe`; `IsolationNeverStranded`;
`IsolatedCpuIsGone` and `GoneCpuIsRecoverable` for the unattended
specification; `PromiseKeptStepwise`, the safety half of the refinement;
`NoOldWindowSurvives`, `CorrectedErrorIsolatesNobody`; `SchedulerKeepsCpuByMode`.
- `ProtectedSafe` is not inductive: that a protected CPU is never *marked*
  isolated needs that the worker never holds one (`work[c]` stays idle), because
  the guard at `cfi_hotplug.c:477` is the only thing that stops a queued work.
- `InFlightHasDriver` holds because each context hands over before it lets go:
  the proof goes action by action and, for each, names the driver that remains.
- The unattended invariants need what an unsettled record says about the CPU: a
  worker that has returned with success has withdrawn it, and only a claimed CPU
  is queued, on a timer or in the worker's hands.
- `BelowThresholds` is not true of every policy: with automatic isolation or L3
  errors held back, counts pass the threshold by design. It is proved under
  `EveryErrorCounts`: neither is held back, no CPU is pinned, and thresholds are
  above zero and stay put. Then it is inductive with the type invariant: each of the
  three ways back to service resets the window. `CorrectedErrorIsolatesNobody` rests on
  the same invariant: a corrected error leaves the count of uncorrected ones, which
  was below its threshold, where it was.
- `SchedulerKeepsCpuByMode` needs `OneMask`: outside inactive mode the scheduler's mask
  is the online one, and whoever takes a CPU down leaves another.

`CpuWithdrawalProofs`: `WithdrawalTypeCorrect`, `LadderSucceedsTruly`,
`LadderNeverShortCircuited`. The flag may disagree with the CPU at any time, so the
last is proved by `Openable`: a CPU whose flag stands against it has a context about
to set the flag, or an entry point that does not ask (`SyncWasFound`: who sets it by
hand has found one).
`LadderImplementsOutcome` is the refinement of `CpuIsolation`, which takes an isolation or
a restore for one step that succeeds or fails. That step is the one from which only one
outcome is left: the CPU has been moved, or found there, or nothing remains to be tried;
every other step stutters. It needs `Placed`: in full mode the two masks are one, only
full mode climbs the ladder, and steering follows an isolation that has succeeded. The
ladder knows no errors, timers or queue, so they stand still on the other side.

`MemPageProofs`: `PageTypeCorrect`, `TableIsSound`, `PreIsoNeverStranded`,
`PoisonedPageIsAnswered`, `InFlightIsKept`. Their common invariant `IInv` joins the
three properties with `HandlersKnow` (what a context remembers of its look at
HWPoison or of triage is still true, poison being permanent) and `OutcomesKnow` (a
soft offline that returned success, or a `memory_failure()` under way, has
poisoned its frame). `UceStaysInHand` is what remains of `UceIsAnswered` without
fairness: no step forgets a page with an uncorrected error. By the invariant an entry
beyond WATCHED speaks for an attempt (`RecordSpeaks`), and each step carries on what
makes a page somebody's business (`Carried`): requests, such entries, and the handler
about to queue.

`ErrorRoutingProofs`: `RecordsAreChargedOnce`, by the invariant that a charge of
either domain pins down which side of the one memory-code test the record is on;
`NoRecordFallsBetween` and `PoisonIsNeverPassed`, by the invariant that what a handler
has seen and its filter lets through has been passed on with the verdict it is due
(`Passed`), and by the two filters being complements: a code that is not the memory
domain's has a CPU error type. `CachesAreToldApart`, for every code and not only those
the run enumerates, is arithmetic on the fields of a code: the fields a compound cache
code is made of can be read back from it (`CompoundCacheBits`), and every compound code
that is neither a TLB's nor a bus's is made of such fields (`CompoundIsCacheCode`). It
needs the invariant that what is charged is what the record's own decoder makes of it
(`Typed`).
`InjectionIsHardware`, that a line of the injection file fares as the record it
mimics, needs that a line is served once and then shows its verdict and its charge
(`Injected`); the rest compares the two definitions.

`LifecycleProofs`: `LifecycleTypeCorrect`, `NothingLeftBehind`, `RecordsAreThere`,
`NoErrorUnsuppressed`, `TolerantIsPutBack`. One invariant carries all of them: how much
of the ladder is left bounds what has been built, on the way up, and what can still
stand, on the way down (`Ladder`), given that the order of `cfi_exit` is that of
`cfi_init` backwards (`Mirror`); and the original value of `tolerant` is remembered
as long as it differs (`Settings`). `HandlersFindQueue` needs more (`Served`): between
which rungs each workqueue stands, that nothing fails once the memory probes listen,
and who asks for which queue.

`DimmAccountingProofs`: `AdvisedOnce` and `AdviceNotMissed`, of every DIMM whose label is
stored whole, in company of any others. By the invariant `Kept` it has one entry at most,
with the errors of its window in it and its flag set exactly when the advice has been
decided; an error of another label never lands in it (`OthersAreKept`), and its own
always do (`OwnIsKept`). `DimmTypeCorrect`, with the bound of the table.

The named assumptions ask little: the CPUs are a finite set and the protected ones among
them, there is a page and a DIMM, thresholds and bounds are natural numbers, modes and
policies are those the code has, and each set of records holds records of its kind.

Every safety property of a passing run is proved. Only model-checked is liveness, which
is out of the prover's reach. Its safety halves are proved: for `IsolationSettles` that
an isolating record has a driver (`InFlightHasDriver`), for `PreIsoSettles` that a
pre-isolating page has one (`PreIsoHasDriver`), for `PoisonedIsTakenOut` and
`UceIsAnswered` that the page is queued for or has been taken (`PoisonedIsAnswered`,
`UceInHand`), for `PromiseKept` every step (`PromiseKeptStepwise`). What TLC adds is that
the driver drives. Of `DownEnds` nothing is proved: it is a count of rungs. The run
`mem` gives `p2` corrected errors only; the proofs of `MemPage` cover any traffic.

## What is not modelled

- The netlink multicasts and the encoding of messages: nothing in the module reads
  what it sent, and no document says what a daemon may conclude from their order.
- Every `show` function, `describe_error`, and how `find_key` picks a value out of a
  line's characters: formatting nothing else depends on.
- What a CPU's isolation and an unload do to each other: `CpuIsolation` never unloads
  and `Lifecycle` knows one CPU's timer and work but not its state.
- Statistics and the error log, which no decision reads.
- A kernel without the `memory_failure_event` tracepoint.
- The monitor, the injection scripts and the unit test under `test/`; the daemon is
  present as the commands it may send at any time.

## Plan

Done, in this order: CPU domain and its promise; memory pages; load and unload;
routing; DIMMs; the ladder and the steering of interrupts; injection; the proofs above,
down to the refinement of `CpuIsolation` by `CpuWithdrawal`.

Next:
1. `CpuIsolation` with `Lifecycle`: what unloading leaves of isolated CPUs.
2. The memory domain switched on at run time when it was never initialised
   (`mfi_core.c:415`): `MemPage` with `Lifecycle`.
3. `StateAnnounce`: the STATE_CHANGE multicasts against what a daemon sees.
4. Proofs: that under `IsolationPromise` the promise itself implies the invariants a user
   relies on, so that they follow from `PromiseKeptStepwise` rather than beside it; and
   the positive counterparts of `mem_attribution` and `irq_returns` (which conclusions are
   rightly attributed; that interrupts stay away while no further CPU is isolated).
