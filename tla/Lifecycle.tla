----------------------------- MODULE Lifecycle -----------------------------
(***************************************************************************)
(* Loading and unloading: the ladder of cfi_init() with its unwinding      *)
(* labels and cfi_exit() in kernel/core/cfi_main.c, the init and exit      *)
(* functions they call, and kernel/core/cfi_panic_suppress.c.              *)
(*                                                                         *)
(* The parts come up one by one, and from the moment one is up others may  *)
(* call it: a netlink command can arrive long before the workqueue it will *)
(* need exists.  Going down, a part is unregistered, which stops new       *)
(* calls, and then waited for.  Resources, by what registers them:         *)
(*   records    cfi_alloc_cpus()    panicLog    cfi_suppress_init()        *)
(*   family     cfi_netlink_init()  arch        cfi_arch->init()           *)
(*   attrs      cfi_sysfs_init()    pageQueue   mfi_page_init()            *)
(*   callback   cfi_hotplug_init()  memSources  mfi_page_init(),           *)
(*   queue      the same                mfi_dimm_init(), mfi_sysfs_init(), *)
(*   inject     cfi_debugfs_init()      mfi_x86_init()                     *)
(* The HCE3 chains are part of panicLog and arch; a kernel is taken to     *)
(* offer both of their symbols or neither.  Nobody but the module writes   *)
(* tolerant while it is loaded.                                            *)
(***************************************************************************)
EXTENDS Integers, Sequences, SequencesExt

CONSTANTS
    Wanted,   \* the module parameter mce_tolerant
    Levels,   \* the values tolerant may have before a load
    Boxes     \* the machines: [attr, symbol, mem]

ASSUME WantedAssumption == Wanted \in 0..3 /\ Levels \subseteq 0..3
ASSUME BoxAssumption ==
    \A b \in Boxes : /\ b.attr \in BOOLEAN    \* tolerant has a sysfs attribute
                     /\ b.symbol \in BOOLEAN  \* its variable can be looked up
                     /\ b.mem \in BOOLEAN     \* mem_enable

VARIABLES
    box,       \* the machine
    phase,     \* what the module loader is doing
    todo,      \* the parts still to bring up, or to take down
    held,      \* what is registered or allocated
    call,      \* what a caller of each part is doing
    timer,     \* a deferral timer is armed
    work,      \* an offline_work is pending or running
    softWork,  \* a soft-offline work is pending or running
    oops,      \* something was queued on a workqueue that is not there
    tolerant,  \* the kernel's mca_cfg.tolerant
    orig,      \* orig_mce_tolerant
    direct,    \* mce_tolerant_ptr is set
    found,     \* history: tolerant when the load began
    unwritten  \* history: the write in cfi_suppress_exit() failed

lvars == <<phase, todo, held>>
qvars == <<timer, work, softWork, oops>>
tvars == <<tolerant, orig, direct, found, unwritten>>
vars  == <<box, lvars, call, qvars, tvars>>

Unset   == -1
Sources == {"family", "callback", "inject", "arch", "memSources"}
InitOrder == <<"records", "family", "attrs", "callback", "queue", "inject", "panicLog",
               "arch", "pageQueue", "memSources">>

(* The shape of every variable. *)
TypeOK ==
    /\ box \in Boxes
    /\ phase \in {"out", "load", "loaded", "unwind", "exit"}
    /\ todo \in Seq(Range(InitOrder))
    /\ held \subseteq Range(InitOrder)
    /\ call \in [Sources -> {"idle", "cpu", "page", "record"}]
    /\ {timer, work, softWork, oops, direct, unwritten} \subseteq BOOLEAN
    /\ tolerant \in Levels \cup {Wanted}
    /\ orig \in Levels \cup {Wanted, Unset}
    /\ found \in Levels \cup {Wanted}

Init ==
    /\ box \in Boxes
    /\ phase = "out" /\ todo = << >> /\ held = {}
    /\ call = [s \in Sources |-> "idle"]
    /\ timer = FALSE /\ work = FALSE /\ softWork = FALSE /\ oops = FALSE
    /\ tolerant \in Levels /\ found = tolerant
    /\ orig = Unset /\ direct = FALSE /\ unwritten = FALSE

-----------------------------------------------------------------------------
(* A definition whose comment starts with "Slip:" is no part of the model: *)
(* it is the definition after it as a plausible bug would have it, kept to *)
(* show which property would notice.                                       *)

(* Slip: panic behaviour is restored before the arch handler goes. *)
ExitOrderEager == <<"memSources", "pageQueue", "panicLog", "arch", "inject", "queue",
                    "callback", "attrs", "family", "records">>

(* cfi_exit(), and what the labels of cfi_init() fall through. *)
ExitOrder == <<"memSources", "pageQueue", "arch", "panicLog", "inject", "queue",
               "callback", "attrs", "family", "records">>

(* Slip: a hotplug_init() that failed jumps one label too far. *)
FailLabelSkipping(x) ==
    CASE x = "family"    -> "records"
      [] x = "attrs"     -> "family"
      [] x = "callback"  -> "family"
      [] x = "queue"     -> "callback"
      [] x = "arch"      -> "panicLog"
      [] x = "pageQueue" -> "arch"

(* Where the unwinding starts when bringing up x fails.  Without its       *)
(* workqueue, cfi_hotplug_init() takes its callback back itself.           *)
FailLabel(x) ==
    CASE x = "family"    -> "records"
      [] x = "attrs"     -> "family"
      [] x = "callback"  -> "attrs"
      [] x = "queue"     -> "callback"
      [] x = "arch"      -> "panicLog"
      [] x = "pageQueue" -> "arch"

From(label) == SubSeq(ExitOrder, CHOOSE i \in DOMAIN ExitOrder : ExitOrder[i] = label,
                      Len(ExitOrder))

(* A failed debugfs directory, and probes and attributes of the memory     *)
(* domain that do not register, are lived with; panic suppression cannot   *)
(* fail.                                                                   *)
MayFail  == {"records", "family", "attrs", "callback", "queue", "arch", "pageQueue"}
Optional == {"inject", "memSources"}
Wants(x) == box.mem \/ x \notin {"pageQueue", "memSources"}

-----------------------------------------------------------------------------
(* mca_cfg.tolerant: raise it through sysfs; when that is missing or fails, *)
(* directly; when that fails too, go on without.                           *)
Raised == IF tolerant < Wanted THEN Wanted ELSE tolerant

(* Slip: the original is noted once tolerant has been raised. *)
SetTolerantLate ==
    /\ orig' = Raised /\ tolerant' = Raised
    /\ direct' = FALSE
    /\ UNCHANGED <<found, unwritten>>

SetTolerant ==
    /\ \/ /\ box.attr
          /\ orig' = tolerant /\ tolerant' = Raised /\ direct' = FALSE
       \/ /\ ~box.attr \/ tolerant < Wanted
          /\ box.symbol
          /\ orig' = tolerant /\ tolerant' = Raised /\ direct' = TRUE
       \/ /\ ~box.attr \/ tolerant < Wanted
          /\ ~box.symbol
          /\ orig' = IF box.attr THEN tolerant ELSE Unset
          /\ direct' = FALSE
          /\ UNCHANGED tolerant
    /\ UNCHANGED <<found, unwritten>>

(* Slip: an original that was never read is written back. *)
RestoreTolerantBlindly ==
    /\ tolerant' = orig
    /\ UNCHANGED <<orig, direct, found, unwritten>>

(* Back the way it was set. *)
RestoreTolerant ==
    /\ \/ /\ orig # Unset
          /\ tolerant' = orig
          /\ UNCHANGED unwritten
       \/ /\ orig # Unset /\ ~direct
          /\ unwritten' = TRUE
          /\ UNCHANGED tolerant
       \/ /\ orig = Unset
          /\ UNCHANGED <<tolerant, unwritten>>
    /\ UNCHANGED <<orig, direct, found>>

-----------------------------------------------------------------------------
(* insmod. *)
Load ==
    /\ phase = "out"
    /\ phase' = "load" /\ todo' = InitOrder
    /\ found' = tolerant
    /\ orig' = Unset /\ direct' = FALSE /\ unwritten' = FALSE
    /\ UNCHANGED <<box, held, call, qvars, tolerant>>

Acquire ==
    /\ phase = "load" /\ todo # << >>
    /\ LET x == Head(todo)
       IN  /\ \/ Wants(x) /\ held' = held \cup {x}
              \/ (~Wants(x) \/ x \in Optional) /\ UNCHANGED held
           /\ IF x = "panicLog" THEN SetTolerant ELSE UNCHANGED tvars
    /\ todo' = Tail(todo)
    /\ UNCHANGED <<box, phase, call, qvars>>

Fail ==
    /\ phase = "load" /\ todo # << >>
    /\ LET x == Head(todo)
       IN  /\ Wants(x) /\ x \in MayFail
           /\ todo' = IF x = "records" THEN << >> ELSE From(FailLabel(x))
    /\ phase' = "unwind"
    /\ UNCHANGED <<box, held, call, qvars, tvars>>

(* rmmod; an open debugfs file pins the module. *)
Unload ==
    /\ phase = "loaded" /\ call["inject"] = "idle"
    /\ phase' = "exit" /\ todo' = ExitOrder
    /\ UNCHANGED <<box, held, call, qvars, tvars>>

GoingDown == phase \in {"unwind", "exit"} /\ todo # << >>

(* Slip: those inside are not waited for. *)
QuietDrained(x) == (x = "queue" => ~work) /\ (x = "pageQueue" => ~softWork)

(* Those inside have left, and a destroyed workqueue has been drained. *)
Quiet(x) == /\ x \in Sources => call[x] = "idle"
            /\ x = "queue" => ~work
            /\ x = "pageQueue" => ~softWork

(* Slip: callers are waited for before the part is unregistered. *)
UnregisterLast ==
    /\ GoingDown /\ Head(todo) \in held /\ Quiet(Head(todo))
    /\ LET x == Head(todo)
       IN  /\ held' = held \ {x}
           /\ IF x = "panicLog" THEN RestoreTolerant ELSE UNCHANGED tvars
           /\ IF x = "records" THEN timer' = FALSE /\ work' = FALSE
                               ELSE UNCHANGED <<timer, work>>
    /\ UNCHANGED <<box, phase, todo, call, softWork, oops>>

(* Slip: cfi_free_cpus() leaves the timers alone. *)
UnregisterTicking ==
    /\ GoingDown /\ Head(todo) \in held
    /\ LET x == Head(todo)
       IN  /\ held' = held \ {x}
           /\ IF x = "panicLog" THEN RestoreTolerant ELSE UNCHANGED tvars
    /\ UNCHANGED <<box, phase, todo, call, qvars>>

(* Nobody can get in any more.  cfi_free_cpus() cancels works and timers   *)
(* before it frees the records.                                            *)
Unregister ==
    /\ GoingDown /\ Head(todo) \in held
    /\ LET x == Head(todo)
       IN  /\ held' = held \ {x}
           /\ IF x = "panicLog" THEN RestoreTolerant ELSE UNCHANGED tvars
           /\ IF x = "records" THEN timer' = FALSE /\ work' = FALSE
                               ELSE UNCHANGED <<timer, work>>
    /\ UNCHANGED <<box, phase, todo, call, softWork, oops>>

Released ==
    /\ GoingDown
    /\ LET x == Head(todo) IN x \notin held /\ Quiet(x)
    /\ todo' = Tail(todo)
    /\ UNCHANGED <<box, phase, held, call, qvars, tvars>>

Finish ==
    /\ phase \in {"load", "unwind", "exit"} /\ todo = << >>
    /\ phase' = IF phase = "load" THEN "loaded" ELSE "out"
    /\ UNCHANGED <<box, todo, held, call, qvars, tvars>>

-----------------------------------------------------------------------------
(* The callers: a netlink command, a debugfs write, an error the arch or   *)
(* the memory handlers are given, a CPU coming online.  mfi_offline_wq is  *)
(* only cleared when the workqueue has been drained.                       *)
SeesPageQueue == \/ "pageQueue" \in held
                 \/ box.mem /\ GoingDown /\ Head(todo) = "pageQueue"

Errands(s) ==
    CASE s \in {"family", "inject"} -> {"cpu"} \cup IF SeesPageQueue THEN {"page"} ELSE {}
      [] s = "arch"       -> {"cpu"}
      [] s = "callback"   -> {"record"}
      [] s = "memSources" -> {"page"}

Enter(s) ==
    /\ s \in held /\ call[s] = "idle"
    /\ s = "inject" => phase # "exit"
    /\ \E e \in Errands(s) : call' = [call EXCEPT ![s] = e]
    /\ UNCHANGED <<box, lvars, qvars, tvars>>

(* cfi_queue_offline(), and mfi_page_soft_offline() once it has looked at  *)
(* mfi_offline_wq.                                                         *)
QueueOffline == IF "queue" \in held THEN work' = TRUE /\ UNCHANGED <<timer, softWork, oops>>
                                    ELSE oops' = TRUE /\ UNCHANGED <<timer, work, softWork>>
QueueSoft == IF "pageQueue" \in held THEN softWork' = TRUE /\ UNCHANGED <<timer, work, oops>>
                                     ELSE oops' = TRUE /\ UNCHANGED <<timer, work, softWork>>

Leave(s) ==
    /\ call[s] # "idle"
    /\ call' = [call EXCEPT ![s] = "idle"]
    /\ \/ UNCHANGED qvars
       \/ call[s] = "cpu" /\ timer' = TRUE /\ UNCHANGED <<work, softWork, oops>>
       \/ call[s] = "cpu" /\ QueueOffline
       \/ call[s] = "page" /\ QueueSoft
    /\ UNCHANGED <<box, lvars, tvars>>

DeferTimer ==
    /\ timer
    /\ \/ "queue" \in held /\ timer' = FALSE /\ work' = TRUE /\ UNCHANGED <<softWork, oops>>
       \/ "queue" \notin held /\ oops' = TRUE /\ UNCHANGED <<timer, work, softWork>>
    /\ UNCHANGED <<box, lvars, call, tvars>>

WorkDone ==
    /\ work
    /\ work' = FALSE
    /\ UNCHANGED <<box, lvars, call, timer, softWork, oops, tvars>>

SoftWorkDone ==
    /\ softWork
    /\ softWork' = FALSE
    /\ UNCHANGED <<box, lvars, call, timer, work, oops, tvars>>

-----------------------------------------------------------------------------
Loader == Acquire \/ Fail \/ Unregister \/ Released \/ Finish

(* After an oops nothing is known. *)
Next ==
    /\ ~oops
    /\ \/ Load \/ Unload \/ Loader
       \/ \E s \in Sources : Enter(s) \/ Leave(s)
       \/ DeferTimer \/ WorkDone \/ SoftWorkDone

(* insmod and rmmod are not interrupted, handlers return, works run. *)
Fairness == /\ WF_vars(~oops /\ Loader)
            /\ \A s \in Sources : WF_vars(~oops /\ Leave(s))
            /\ WF_vars(~oops /\ DeferTimer)
            /\ WF_vars(~oops /\ WorkDone)
            /\ WF_vars(~oops /\ SoftWorkDone)

Spec == Init /\ [][Next]_vars /\ Fairness

-----------------------------------------------------------------------------
(* Properties.                                                             *)

(* Whatever step of a load failed, and after an unload, nothing the module *)
(* registered is left behind (cfi_main.c:291-306, 309-331).                *)
AbsentIsClean == phase = "out" => held = {}

(* The per-CPU records outlive everybody who uses them: handlers, timers   *)
(* and works (cfi_main.c:186-208).                                         *)
RecordsOutlive ==
    (timer \/ work \/ \E s \in Sources : call[s] # "idle") => "records" \in held

(* cfi_main.c:246, "Suppress default panic behavior BEFORE registering the *)
(* arch backend", and :316, "Unregister arch handler before restoring":    *)
(* while errors are listened to, tolerant is raised, if it can be at all.  *)
SuppressedWhileListening ==
    ("arch" \in held \/ call["arch"] # "idle") /\ box.symbol => tolerant >= Wanted

(* docs/slides-technical.md:239: unless the write fails, an unload or a    *)
(* failed load leaves tolerant as it was, whichever way it was raised.     *)
TolerantRestored == phase = "out" /\ ~unwritten => tolerant = found

(* Decoders, probes and the injection file are let in when both queues     *)
(* stand and have left when the first is destroyed, on every path out of a *)
(* load or an unload: what they queue finds its workqueue.  The deferral   *)
(* timers and the netlink commands are not so lucky and may run into an    *)
(* oops (cfi_main.c:225-331, cfi_hotplug.c:338).                           *)
HandlersFindTheirQueue ==
    [][\A s \in Sources \ {"family"} :
           call[s] # "idle" /\ call'[s] = "idle" => oops' = oops]_vars

(* An unload, or the unwinding of a failed load, comes to an end. *)
DownEnds == phase \in {"unwind", "exit"} ~> phase = "out" \/ oops
=============================================================================
