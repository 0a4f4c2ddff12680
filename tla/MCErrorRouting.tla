--------------------------- MODULE MCErrorRouting ---------------------------
(* Instances of ErrorRouting for TLC: every error code with the flags that *)
(* choose the domain and the severity, every combination of flags with one *)
(* code of each kind, and every line there is to inject.  Bits 15:13 of an *)
(* error code are reserved.                                                *)
EXTENDS ErrorRouting

Flagged(codes, vals, pccs, addrvs, ars, deferreds, kernels, ripvs, classes) ==
    [kind : {"mce"}, code : codes, uc : BOOLEAN, val : vals, pcc : pccs, addrv : addrvs,
     ar : ars, deferred : deferreds, kernel : kernels, ripv : ripvs, class : classes]

T == {TRUE}
F == {FALSE}

(* 0x0134 (data load), 0x1134 (the same, filtered), 0x009F (memory read),  *)
(* 0x080F (last-level cache), 0x0402 (internal).                           *)
Telling == {308, 4404, 159, 2063, 1026}

McaAll == Flagged(0..8191, T, F, BOOLEAN, F, F, F, T, {"user"})
       \cup Flagged(Telling, BOOLEAN, BOOLEAN, BOOLEAN, BOOLEAN, BOOLEAN, BOOLEAN, BOOLEAN,
                    PageClasses)
Arm == [kind : {"arm"}, type : 0..4, level : 0..7, levelValid : BOOLEAN,
        uncorrected : BOOLEAN]
Hisi == [kind : {"hisi"}, sev : 0..3, len : {9, 10}, guid : {"l3tag", "hha", "common", "other"}]

Options == {"unset", "no", "yes"}
Written == [kind : {"line"}, domain : {"mem"}, place : {"ok", "bad"},
            type : {"ce", "uce_srao", "uce_srar", "bad"}, kernel : Options, ripv : Options,
            pcc : Options, class : PageClasses]
      \cup [kind : {"line"}, domain : {"cpu"}, place : {"ok", "bad"},
            type : CpuTypes \cup {"bad"}, sev : {"CE", "UCR", "UCF", "bad"}]

AnyConfig == [fma : BOOLEAN, mem : BOOLEAN, triage : BOOLEAN]
=============================================================================
