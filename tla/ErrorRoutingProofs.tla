------------------------- MODULE ErrorRoutingProofs -------------------------
(***************************************************************************)
(* For every set of records and settings: no error record is charged to    *)
(* both fault domains and none to neither, poison the kernel consumed gets *)
(* its verdict, caches are told apart, and an injected line has the        *)
(* outcome of the record it stands for.                                    *)
(***************************************************************************)
EXTENDS ErrorRouting, TLAPS

(* The records are records of their kind, and what each domain has been    *)
(* given matches what its filter lets through.                             *)
Routed ==
    /\ rec \in Records
    /\ charges \in Nat
    /\ "mfi" \in pending => rec.kind = "mce"
    /\ pending \cap {"cpu", "mem"} # {} => rec.kind = "line"
    /\ pending \cap {"cfi", "fma"} # {} => rec.kind = "mce"
    /\ pending \cap {"arm", "hisi"} # {} => rec.kind \in {"arm", "hisi"}
    /\ rec.kind = "line" => pending \subseteq {rec.domain}
    /\ rec.kind = "mce" /\ charges # 0 => ErrcodeType(rec.code) # "none"
    /\ rec.kind = "line" /\ charges # 0 => rec.domain = "cpu"
    /\ Reached => \/ rec.kind = "mce" /\ IsMemoryCode(Unfiltered(rec.code))
                  \/ rec.kind = "line" /\ rec.domain = "mem"

(* Stripping the filter bit twice is stripping it once. *)
LEMMA Quotient ==
    ASSUME NEW h \in Nat, NEW l \in Nat, l < 4096
    PROVE  (4096 * h + l) \div 4096 = h
OBVIOUS

LEMMA UnfilteredTwice ==
    ASSUME NEW code \in Nat
    PROVE  /\ Unfiltered(code) \in Nat
           /\ Unfiltered(Unfiltered(code)) = Unfiltered(code)
<1> DEFINE high == code \div 4096
           low  == code % 4096
           odd  == high % 2
           even == high - odd
<1>1. high \in Nat /\ low \in Nat /\ low < 4096
  OBVIOUS
<1>2. even \in Nat /\ even % 2 = 0
  <2> HIDE DEF high
  <2> QED
    BY <1>1
<1>3. Unfiltered(code) = 4096 * even + low
  <2>1. code = 4096 * high + low
    OBVIOUS
  <2>2. Unfiltered(code) = code - 4096 * odd
    BY DEF Unfiltered, Field
  <2>3. odd \in 0..1
    BY <1>1
  <2> HIDE DEF high, low, odd
  <2> QED
    BY <1>1, <2>1, <2>2, <2>3
<1>4. (4096 * even + low) \div 4096 = even
  BY <1>1, <1>2, Quotient
<1>5. Field(4096 * even + low, 4096, 2) = 0
  <2> HIDE DEF even, low
  <2> QED
    BY <1>2, <1>4 DEF Field
<1>6. Unfiltered(4096 * even + low) = 4096 * even + low
  <2> HIDE DEF even, low
  <2> QED
    BY <1>1, <1>2, <1>5 DEF Unfiltered
<1> QED
  <2> HIDE DEF even, low
  <2> QED
    BY <1>1, <1>2, <1>3, <1>6

LEMMA MemoryCodeIsNobodysType ==
    ASSUME NEW code \in Nat, IsMemoryCode(Unfiltered(code))
    PROVE  ErrcodeType(code) = "none"
<1>1. IsMemoryCode(code)
  <2> DEFINE u == Unfiltered(code)
  <2>1. u \in Nat /\ Unfiltered(u) = u
    BY UnfilteredTwice
  <2> QED
    BY <2>1 DEF IsMemoryCode
<1> QED
  BY <1>1 DEF ErrcodeType

LEMMA RecordKinds ==
    ASSUME NEW r \in Records
    PROVE  /\ r.kind \in {"mce", "arm", "hisi", "line"}
           /\ r.kind = "mce" => r.code \in Nat
           /\ r.kind = "arm" => r.level \in 0..7
           /\ r.kind = "line" => r.domain \in {"cpu", "mem"}
<1>1. CASE r \in McaRecords
  BY <1>1, McaAssumption
<1>2. CASE r \in ArmRecords \cup HisiRecords
  BY <1>2, ArmAssumption, HisiAssumption
<1>3. CASE r \in Lines
  BY <1>3, LineAssumption
<1> QED
  BY <1>1, <1>2, <1>3 DEF Records

LEMMA RoutedInit == Init => Routed
<1> SUFFICES ASSUME Init PROVE Routed
  OBVIOUS
<1>0. /\ rec \in Records /\ rec.kind \in {"mce", "arm", "hisi", "line"}
      /\ rec.kind = "line" => rec.domain \in {"cpu", "mem"}
  BY RecordKinds DEF Init
<1>1. CASE rec.kind = "mce"
  BY <1>0, <1>1 DEF Init, Routed, Handlers, Reached
<1>2. CASE rec.kind = "arm"
  BY <1>0, <1>2 DEF Init, Routed, Handlers, Reached
<1>3. CASE rec.kind = "hisi"
  BY <1>0, <1>3 DEF Init, Routed, Handlers, Reached
<1>4. CASE rec.kind = "line"
  BY <1>0, <1>4 DEF Init, Routed, Handlers, Reached
<1> QED
  BY <1>0, <1>1, <1>2, <1>3, <1>4

LEMMA RoutedNext == Routed /\ [Next]_vars => Routed'
<1> SUFFICES ASSUME Routed, [Next]_vars PROVE Routed'
  OBVIOUS
<1>1. ASSUME NEW h \in {"cfi", "fma"}, CfiNotify(h) PROVE Routed'
  BY <1>1 DEF CfiNotify, Seen, Charge, Routed, Reached
<1>2. CASE MfiNotify
  BY <1>2 DEF MfiNotify, Seen, MfiAccepts, Routed, Reached
<1>3. CASE ArmProbe
  BY <1>3 DEF ArmProbe, Seen, Charge, Routed, Reached
<1>4. CASE HisiProbe
  BY <1>4 DEF HisiProbe, Seen, Charge, Routed, Reached
<1>5. CASE InjectCpu
  BY <1>5 DEF InjectCpu, Seen, Charge, Routed, Reached
<1>6. CASE InjectMem
  BY <1>6 DEF InjectMem, Seen, Routed, Reached
<1>7. CASE UNCHANGED vars
  BY <1>7 DEF vars, Routed, Reached
<1> QED
  BY <1>1, <1>2, <1>3, <1>4, <1>5, <1>6, <1>7 DEF Next

LEMMA RoutedSeparates == Routed => OneDomain
<1> SUFFICES ASSUME Routed, charges # 0, Reached PROVE FALSE
  BY DEF OneDomain
<1>1. rec.kind = "mce" /\ rec.code \in Nat /\ IsMemoryCode(Unfiltered(rec.code))
  BY RecordKinds DEF Routed, OneDomain
<1> QED
  BY <1>1, MemoryCodeIsNobodysType DEF Routed

(* However often and in whichever order the notifiers see a record, one    *)
(* fault domain at most is charged with it, so that memory errors, poison  *)
(* consumed through a cache included, never count against a CPU.           *)
THEOREM RecordsAreChargedOnce == Spec => []OneDomain
<1> QED
  BY RoutedInit, RoutedNext, RoutedSeparates, PTL DEF Spec

-----------------------------------------------------------------------------
(* What triage has said of a record, and that what the CPU domain's filter *)
(* lets through, or the memory domain's, has been passed on.               *)
Outcome(r) == IF MfiAccepts(r) /\ Triaged(r) THEN TriageDecide(r) ELSE "none"

Passed ==
    /\ rec \in Records
    /\ charges \in Nat
    /\ rec.kind = "mce" =>
           /\ pending \cap {"cpu", "mem", "arm", "hisi"} = {}
           /\ verdict = IF "mfi" \in pending THEN "none" ELSE Outcome(rec)
           /\ "mfi" \notin pending /\ MfiAccepts(rec) /\ rec.class # "absent" => Reached
           /\ "cfi" \notin pending /\ rec.val /\ ErrcodeType(rec.code) # "none"
                  => charges > 0

LEMMA PassedInit == Init => Passed
<1> SUFFICES ASSUME Init PROVE Passed
  OBVIOUS
<1>1. rec \in Records /\ charges \in Nat
  BY DEF Init
<1>2. CASE rec.kind = "mce"
  BY <1>1, <1>2 DEF Init, Passed, Handlers
<1>3. CASE rec.kind # "mce"
  BY <1>1, <1>3 DEF Passed
<1> QED
  BY <1>2, <1>3

LEMMA MemTypeIsOne ==
    ASSUME NEW r PROVE MemType(r) \in {"ce", "deferred", "consumed"}
<1>1. CASE r.uc /\ (r.deferred \/ ~r.ar)
  BY <1>1 DEF MemType
<1>2. CASE r.uc /\ ~r.deferred /\ r.ar
  BY <1>2 DEF MemType
<1>3. CASE ~r.uc
  BY <1>3 DEF MemType
<1> QED
  BY <1>1, <1>2, <1>3

LEMMA PassedNext == Passed /\ [Next]_vars => Passed'
<1> SUFFICES ASSUME Passed, [Next]_vars PROVE Passed'
  OBVIOUS
<1> DEFINE Same == cfg' = cfg /\ rec' = rec
<1>1. Same
  BY DEF Next, CfiNotify, MfiNotify, ArmProbe, HisiProbe, InjectCpu, InjectMem, Seen, vars
<1>2. ASSUME NEW h \in {"cfi", "fma"}, CfiNotify(h) PROVE Passed'
  <2>1. /\ verdict' = verdict /\ memType' = memType
        /\ pending' = pending \ {h}
        /\ charges' \in Nat /\ charges' >= charges
        /\ rec.val /\ ErrcodeType(rec.code) # "none" => charges' > 0
    BY <1>2 DEF CfiNotify, Seen, Charge, Passed
  <2> QED
    BY <1>1, <2>1 DEF Passed, Reached, Outcome, MfiAccepts, Triaged
<1>3. CASE MfiNotify
  <2>1. /\ pending' = pending \ {"mfi"} /\ "mfi" \in pending
        /\ charges' = charges
    BY <1>3 DEF MfiNotify, Seen
  <2>2. CASE rec.kind = "mce"
    <3>1. verdict = "none"
      BY <2>1, <2>2 DEF Passed
    <3>2. verdict' = Outcome(rec)
      BY <1>3, <3>1 DEF MfiNotify, Outcome
    <3>3. MfiAccepts(rec) /\ rec.class # "absent" => memType' # "none" \/ verdict' # "none"
      BY <1>3, MemTypeIsOne DEF MfiNotify, MfiAccepts, Taken
    <3> QED
      BY <1>1, <2>1, <2>2, <3>2, <3>3 DEF Passed, Reached, Outcome, MfiAccepts, Triaged
  <2>3. CASE rec.kind # "mce"
    BY <1>1, <2>1, <2>3 DEF Passed
  <2> QED
    BY <2>2, <2>3
<1>4. CASE ArmProbe \/ HisiProbe \/ InjectCpu \/ InjectMem
  <2>1. rec.kind # "mce"
    BY <1>4 DEF ArmProbe, HisiProbe, InjectCpu, InjectMem, Seen, Passed
  <2>2. charges' \in Nat
    BY <1>4 DEF ArmProbe, HisiProbe, InjectCpu, InjectMem, Charge, Passed
  <2> QED
    BY <1>1, <2>1, <2>2 DEF Passed
<1>5. CASE UNCHANGED vars
  BY <1>5 DEF vars, Passed, Reached, Outcome, MfiAccepts, Triaged
<1> QED
  BY <1>2, <1>3, <1>4, <1>5 DEF Next

LEMMA AlwaysPassed == Spec => []Passed
<1> QED
  BY PassedInit, PassedNext, PTL DEF Spec

(* The memory domain accepts the codes its filter is asked about, filtered *)
(* or not.                                                                 *)
LEMMA AcceptsMemoryCodes ==
    ASSUME NEW code \in Nat
    PROVE  IsMemoryCode(Unfiltered(code)) <=> IsMemoryCode(code)
<1> DEFINE u == Unfiltered(code)
<1>1. u \in Nat /\ Unfiltered(u) = u
  BY UnfilteredTwice
<1> QED
  BY <1>1 DEF IsMemoryCode

(* With triage on, no located memory error consumed by the kernel goes     *)
(* without a verdict, and recovery is not tried where it is unsafe.        *)
THEOREM PoisonIsNeverPassed == Spec => []NeverPastPoison
<1>1. Passed => NeverPastPoison
  <2> SUFFICES ASSUME Passed, Done, Mca, cfg.mem, cfg.triage, rec.addrv, rec.kernel,
                      IsMemoryCode(rec.code), rec.uc, rec.ar, ~rec.deferred
               PROVE  verdict = IF Unsafe THEN "panic" ELSE "recover"
    BY DEF NeverPastPoison
  <2>1. rec.kind = "mce" /\ rec.code \in Nat /\ rec.val
    BY RecordKinds DEF Passed, Mca
  <2>2. rec.class \in PageClasses
    <3>1. rec \in McaRecords
      BY <2>1, LineAssumption, ArmAssumption, HisiAssumption DEF Passed, Records
    <3> QED
      BY <3>1, McaAssumption
  <2>3. MfiAccepts(rec) /\ Triaged(rec)
    <3>1. IsMemoryCode(Unfiltered(rec.code))
      BY <2>1, AcceptsMemoryCodes
    <3> QED
      BY <2>1, <3>1 DEF MfiAccepts, Triaged, MemType
  <2>4. verdict = TriageDecide(rec)
    BY <2>1, <2>3 DEF Passed, Done, Outcome
  <2> QED
    BY <2>2, <2>4 DEF TriageDecide, Unsafe, PageClasses
<1> QED
  BY <1>1, AlwaysPassed, PTL

(* A code that is not a memory error has a type the CPU domain accepts. *)
LEMMA LevelIsNamed ==
    ASSUME NEW ll \in 0..3, NEW tt \in Nat
    PROVE  LevelType(ll, tt) # "none"
<1>1. ll = 3 \/ ll = 2 \/ (ll < 2 /\ tt = 0) \/ (ll < 2 /\ tt # 0)
  OBVIOUS
<1>2. CASE ll < 2 /\ tt = 0
  BY <1>2 DEF LevelType
<1>3. CASE ll < 2 /\ tt # 0
  BY <1>3 DEF LevelType
<1>4. CASE ll = 2 \/ ll = 3
  BY <1>4 DEF LevelType
<1> QED
  BY <1>1, <1>2, <1>3, <1>4

LEMMA OtherCodesAreNamed ==
    ASSUME NEW code \in Nat, ~IsMemoryCode(code)
    PROVE  ErrcodeType(code) # "none"
<1>1. Field(code, 1, 4) \in 0..3 /\ Field(code, 4, 4) \in Nat
  BY DEF Field
<1>2. LevelType(Field(code, 1, 4), Field(code, 4, 4)) # "none"
  BY <1>1, LevelIsNamed
<1>3. LevelType(Field(code, 1, 4), 2) # "none"
  BY <1>1, LevelIsNamed
<1>4. CompoundType(code) # "none"
  <2>1. CASE Field(code, 16, 2) = 1
    BY <2>1 DEF CompoundType
  <2>2. CASE Field(code, 16, 2) = 0 /\ Field(code, 256, 16) \in {14, 15}
    BY <2>2 DEF CompoundType
  <2>3. CASE /\ Field(code, 16, 2) # 1
             /\ ~(Field(code, 16, 2) = 0 /\ Field(code, 256, 16) \in {14, 15})
    BY <1>2, <2>3 DEF CompoundType
  <2> QED
    BY <2>1, <2>2, <2>3
<1> QED
  BY <1>3, <1>4 DEF ErrcodeType

(* The two filters leave no gap: what one of them does not take the other  *)
(* does, whatever bits the code has.                                       *)
THEOREM NoRecordFallsBetween == Spec => []NoneFallsBetween
<1>1. Passed => NoneFallsBetween
  <2> SUFFICES ASSUME Passed, Done, Mca, rec.addrv, rec.class # "absent", cfg.mem
               PROVE  charges > 0 \/ Reached
    BY DEF NoneFallsBetween
  <2>1. rec.kind = "mce" /\ rec.code \in Nat /\ rec.val
    BY RecordKinds DEF Passed, Mca
  <2>2. CASE verdict = "panic"
    BY <2>2 DEF Reached
  <2>3. CASE pending = {} /\ IsMemoryCode(rec.code)
    <3>1. MfiAccepts(rec)
      BY <2>1, <2>3, AcceptsMemoryCodes DEF MfiAccepts
    <3> QED
      BY <2>1, <2>3, <3>1 DEF Passed
  <2>4. CASE pending = {} /\ ~IsMemoryCode(rec.code)
    BY <2>1, <2>4, OtherCodesAreNamed DEF Passed
  <2> QED
    BY <2>2, <2>3, <2>4 DEF Done
<1> QED
  BY <1>1, AlwaysPassed, PTL

-----------------------------------------------------------------------------
(* Who is given what: the CPU domain what the record's own decoder says,   *)
(* and each decoder sees records of its kind only.                         *)
Typed ==
    /\ rec \in Records
    /\ charges \in Nat
    /\ pending \cap {"cfi", "fma"} # {} => rec.kind = "mce"
    /\ "arm" \in pending => rec.kind = "arm"
    /\ "hisi" \in pending => rec.kind = "hisi"
    /\ "cpu" \in pending => rec.kind = "line"
    /\ charges > 0 => /\ rec.kind = "mce" => event.type = ErrcodeType(rec.code)
                      /\ rec.kind = "arm" => event.type = ArmType(rec)

LEMMA TypedInit == Init => Typed
<1> SUFFICES ASSUME Init PROVE Typed
  OBVIOUS
<1>0. /\ rec \in Records /\ rec.kind \in {"mce", "arm", "hisi", "line"}
      /\ rec.kind = "line" => rec.domain \in {"cpu", "mem"}
      /\ charges = 0
  BY RecordKinds DEF Init
<1>1. CASE rec.kind = "mce"
  BY <1>0, <1>1 DEF Init, Typed, Handlers
<1>2. CASE rec.kind = "arm"
  BY <1>0, <1>2 DEF Init, Typed, Handlers
<1>3. CASE rec.kind = "hisi"
  BY <1>0, <1>3 DEF Init, Typed, Handlers
<1>4. CASE rec.kind = "line"
  BY <1>0, <1>4 DEF Init, Typed, Handlers
<1> QED
  BY <1>0, <1>1, <1>2, <1>3, <1>4

LEMMA TypedNext == Typed /\ [Next]_vars => Typed'
<1> SUFFICES ASSUME Typed, [Next]_vars PROVE Typed'
  OBVIOUS
<1>1. ASSUME NEW h \in {"cfi", "fma"}, CfiNotify(h) PROVE Typed'
  BY <1>1 DEF CfiNotify, Seen, Charge, Typed
<1>2. CASE ArmProbe
  BY <1>2 DEF ArmProbe, Seen, Charge, Typed
<1>3. CASE HisiProbe
  BY <1>3 DEF HisiProbe, Seen, Charge, Typed
<1>4. CASE InjectCpu
  BY <1>4 DEF InjectCpu, Seen, Charge, Typed
<1>5. CASE MfiNotify \/ InjectMem
  BY <1>5 DEF MfiNotify, InjectMem, Seen, Typed
<1>6. CASE UNCHANGED vars
  BY <1>6 DEF vars, Typed
<1> QED
  BY <1>1, <1>2, <1>3, <1>4, <1>5, <1>6 DEF Next

(* The type a level and a transaction stand for. *)
LEMMA LevelNamesCache ==
    ASSUME NEW ll \in 0..3, NEW tt \in 0..3
    PROVE  /\ LevelType(ll, tt) = "l1i" <=> ll \in {0, 1} /\ tt \in {0}
           /\ LevelType(ll, tt) = "l1d" <=> ll \in {0, 1} /\ tt \in 1..3
           /\ LevelType(ll, tt) = "l2" <=> ll \in {2}
           /\ LevelType(ll, tt) = "l3" <=> ll \in {3}
<1>1. CASE ll = 3
  BY <1>1 DEF LevelType
<1>2. CASE ll = 2
  BY <1>2 DEF LevelType
<1>3. CASE ll < 2 /\ tt = 0
  BY <1>3 DEF LevelType
<1>4. CASE ll < 2 /\ tt # 0
  BY <1>4 DEF LevelType
<1> QED
  BY <1>1, <1>2, <1>3, <1>4

(* The fields of a compound cache code. *)
LEMMA CompoundCacheBits ==
    ASSUME NEW p \in 0..5, NEW r \in 0..7, NEW tt \in 0..3, NEW ll \in 0..3,
           NEW code, code = CacheCode(p, r, tt, ll)
    PROVE  /\ code \in Nat /\ code >= 2048
           /\ IsCompound(code) /\ ~IsSimpleCache(code)
           /\ Field(code, 16, 2) = 0
           /\ Field(code, 256, 16) \notin {14, 15}
           /\ Field(code, 1, 4) = ll /\ Field(code, 4, 4) = tt
<1>0. code = 2048 + 256 * p + 32 * r + 4 * tt + ll
  BY DEF CacheCode
<1>1. code \in Nat /\ code >= 2048 /\ code \div 2048 = 1 /\ code \div 4 # 3
  BY <1>0
<1>2. code \div 16 = 128 + 16 * p + 2 * r
  BY <1>0
<1>3. (128 + 16 * p + 2 * r) % 2 = 0
  OBVIOUS
<1>4. code \div 256 = 8 + p
  BY <1>0
<1>5. (8 + p) % 16 = 8 + p
  OBVIOUS
<1>6. (code \div 1) % 4 = ll
  BY <1>0
<1>7. code \div 4 = 512 + 64 * p + 8 * r + tt
  BY <1>0
<1>8. (512 + 64 * p + 8 * r + tt) % 4 = tt
  OBVIOUS
<1> QED
  BY <1>1, <1>2, <1>3, <1>4, <1>5, <1>6, <1>7, <1>8 DEF IsCompound, IsSimpleCache, Field

(* And every compound code that is neither a TLB's nor a bus's is one. *)
LEMMA CompoundIsCacheCode ==
    ASSUME NEW code \in Nat, IsCompound(code), Field(code, 16, 2) = 0,
           Field(code, 256, 16) \notin {14, 15}
    PROVE  \E p \in 0..5, r \in 0..7, tt \in 0..3, ll \in 0..3 :
               code = CacheCode(p, r, tt, ll)
<1> DEFINE ll == code % 4
           c4 == code \div 4
           tt == c4 % 4
           c16 == c4 \div 4
           h == c16 \div 2
           r == h % 8
           c256 == h \div 8
<1>1. code = 4 * c4 + ll /\ c4 \in Nat /\ ll \in 0..3
  OBVIOUS
<1>2. c4 = 4 * c16 + tt /\ c16 \in Nat /\ tt \in 0..3
  BY <1>1
<1>3. c16 = code \div 16
  BY <1>1, <1>2
<1>4. c16 % 2 = 0
  BY <1>3 DEF Field
<1>5. c16 = 2 * h /\ h \in Nat
  BY <1>2, <1>4
<1>6. h = 8 * c256 + r /\ c256 \in Nat /\ r \in 0..7
  BY <1>5
<1>7. code = 256 * c256 + 32 * r + 4 * tt + ll
  BY <1>1, <1>2, <1>5, <1>6
<1> HIDE DEF ll, c4, tt, c16, h, r, c256
<1>8. c256 = code \div 256
  BY <1>1, <1>2, <1>6, <1>7
<1>9. c256 \in 8..15
  <2>1. code \div 2048 = 1
    BY DEF IsCompound
  <2>2. code >= 2048 /\ code < 4096
    BY <2>1
  <2> QED
    BY <1>8, <2>2
<1>10. c256 % 16 = c256
  BY <1>9
<1>11. c256 \notin {14, 15}
  BY <1>8, <1>10 DEF Field
<1>12. c256 - 8 \in 0..5
  BY <1>9, <1>11
<1>13. code = CacheCode(c256 - 8, r, tt, ll)
  BY <1>1, <1>2, <1>6, <1>7, <1>9 DEF CacheCode
<1> QED
  BY <1>1, <1>2, <1>6, <1>12, <1>13

(* The code alone gives the level and the transaction. *)
LEMMA CodesAreTold ==
    ASSUME NEW p \in 0..5, NEW r \in 0..7, NEW tt \in 0..3, NEW ll \in 0..3,
           NEW tts \in SUBSET (0..3), NEW lls \in SUBSET (0..3)
    PROVE  CacheCode(p, r, tt, ll) \in CodesOf(tts, lls) <=> tt \in tts /\ ll \in lls
<1> DEFINE code == CacheCode(p, r, tt, ll)
<1>1. ASSUME code \in CodesOf(tts, lls)
      PROVE  tt \in tts /\ ll \in lls
  <2>1. PICK p1 \in 0..5, r1 \in 0..7, t1 \in tts, l1 \in lls : code = CacheCode(p1, r1, t1, l1)
    BY <1>1 DEF CodesOf
  <2>2. Field(code, 1, 4) = l1 /\ Field(code, 4, 4) = t1
    BY <2>1, CompoundCacheBits
  <2>3. Field(code, 1, 4) = ll /\ Field(code, 4, 4) = tt
    BY CompoundCacheBits
  <2> QED
    BY <2>2, <2>3
<1>2. ASSUME tt \in tts, ll \in lls
      PROVE  code \in CodesOf(tts, lls)
  BY <1>2 DEF CodesOf
<1> QED
  BY <1>1, <1>2

LEMMA CompoundCodesAreCompound ==
    ASSUME NEW tts \in SUBSET (0..3), NEW lls \in SUBSET (0..3), NEW code \in CodesOf(tts, lls)
    PROVE  \E p \in 0..5, r \in 0..7, tt \in 0..3, ll \in 0..3 : code = CacheCode(p, r, tt, ll)
BY DEF CodesOf

(* The decoder gives a code the type of the set it is in, and gives no     *)
(* other code a cache's type.                                              *)
LEMMA CacheCodesNameCaches ==
    ASSUME NEW code \in Nat, ErrcodeType(code) # "none", NEW t \in DOMAIN CacheCodes
    PROVE  ErrcodeType(code) = t <=> code \in CacheCodes[t]
<1>1. ~IsMemoryCode(code)
  BY DEF ErrcodeType
<1>t. t \in {"l1i", "l1d", "l2", "l3"}
  BY DEF CacheCodes
<1>2. CASE code \in 12..15
  <2>1. IsSimpleCache(code) /\ Field(code, 1, 4) = code - 12
    BY <1>2 DEF IsSimpleCache, Field
  <2>2. ErrcodeType(code) = LevelType(code - 12, 2)
    BY <1>1, <2>1 DEF ErrcodeType
  <2>3. ASSUME NEW tts \in SUBSET (0..3), NEW lls \in SUBSET (0..3)
        PROVE  code \notin CodesOf(tts, lls)
    <3>1. SUFFICES ASSUME code \in CodesOf(tts, lls) PROVE FALSE
      OBVIOUS
    <3>2. PICK p \in 0..5, r \in 0..7, tt \in 0..3, ll \in 0..3 : code = CacheCode(p, r, tt, ll)
      BY <3>1, CompoundCodesAreCompound
    <3>3. code >= 2048
      BY <3>2, CompoundCacheBits
    <3> QED
      BY <1>2, <3>3
  <2>4. CASE code \in {12, 13}
    <3>1. ErrcodeType(code) = "l1d"
      BY <2>2, <2>4 DEF LevelType
    <3> QED
      BY <1>t, <2>3, <2>4, <3>1 DEF CacheCodes
  <2>5. CASE code \in {14}
    <3>1. ErrcodeType(code) = "l2"
      BY <2>2, <2>5 DEF LevelType
    <3> QED
      BY <1>t, <2>3, <2>5, <3>1 DEF CacheCodes
  <2>6. CASE code \in {15}
    <3>1. ErrcodeType(code) = "l3"
      BY <2>2, <2>6 DEF LevelType
    <3> QED
      BY <1>t, <2>3, <2>6, <3>1 DEF CacheCodes
  <2> QED
    BY <1>2, <2>4, <2>5, <2>6
<1>3. CASE \E p \in 0..5, r \in 0..7, tt \in 0..3, ll \in 0..3 : code = CacheCode(p, r, tt, ll)
  <2>1. PICK p \in 0..5, r \in 0..7, tt \in 0..3, ll \in 0..3 : code = CacheCode(p, r, tt, ll)
    BY <1>3
  <2>2. /\ code >= 2048 /\ IsCompound(code) /\ ~IsSimpleCache(code)
        /\ Field(code, 16, 2) = 0
        /\ Field(code, 256, 16) \notin {14, 15}
        /\ Field(code, 1, 4) = ll /\ Field(code, 4, 4) = tt
    BY <2>1, CompoundCacheBits, SMTT(30)
  <2>3. ErrcodeType(code) = LevelType(ll, tt)
    <3>1. CompoundType(code) = LevelType(ll, tt)
      BY <2>2 DEF CompoundType
    <3> QED
      BY <1>1, <2>2, <3>1 DEF ErrcodeType
  <2>4. /\ code \in CodesOf({0}, {0, 1}) <=> tt \in {0} /\ ll \in {0, 1}
        /\ code \in CodesOf(1..3, {0, 1}) <=> tt \in 1..3 /\ ll \in {0, 1}
        /\ code \in CodesOf(0..3, {2}) <=> ll \in {2}
        /\ code \in CodesOf(0..3, {3}) <=> ll \in {3}
    <3>1. \A tts, lls \in SUBSET (0..3) : code \in CodesOf(tts, lls) <=> tt \in tts /\ ll \in lls
      BY <2>1, CodesAreTold
    <3>2. /\ {0} \in SUBSET (0..3) /\ {0, 1} \in SUBSET (0..3) /\ {2} \in SUBSET (0..3)
          /\ {3} \in SUBSET (0..3) /\ 1..3 \in SUBSET (0..3) /\ 0..3 \in SUBSET (0..3)
      OBVIOUS
    <3> QED
      BY <3>1, <3>2
  <2>5. code \notin {12, 13} /\ code \notin {14} /\ code \notin {15}
    BY <2>2
  <2> QED
    BY <1>t, <2>3, <2>4, <2>5, LevelNamesCache DEF CacheCodes
<1>4. CASE /\ code \notin 12..15
           /\ ~\E p \in 0..5, r \in 0..7, tt \in 0..3, ll \in 0..3 :
                   code = CacheCode(p, r, tt, ll)
  <2>1. ~IsSimpleCache(code)
    BY <1>4 DEF IsSimpleCache
  <2> SUFFICES ASSUME ErrcodeType(code) \notin {"tlb", "bus", "internal", "generic"}
               PROVE  FALSE
    <3>1. \A tts, lls \in SUBSET (0..3) : code \notin CodesOf(tts, lls)
      BY <1>4, CompoundCodesAreCompound
    <3>2. code \notin CacheCodes[t]
      BY <1>4, <1>t, <3>1 DEF CacheCodes
    <3> QED
      BY <1>t, <3>2
  <2>2. CASE IsCompound(code)
    <3>1. \/ Field(code, 16, 2) = 1
          \/ Field(code, 16, 2) = 0 /\ Field(code, 256, 16) \in {14, 15}
      <4>1. Field(code, 16, 2) \in {0, 1}
        BY DEF Field
      <4> QED
        BY <1>4, <2>2, <4>1, CompoundIsCacheCode
    <3>2. CompoundType(code) \in {"tlb", "bus"}
      <4>1. CASE Field(code, 16, 2) = 1
        BY <4>1 DEF CompoundType
      <4>2. CASE Field(code, 16, 2) = 0 /\ Field(code, 256, 16) \in {14, 15}
        BY <4>2 DEF CompoundType
      <4> QED
        BY <3>1, <4>1, <4>2
    <3> QED
      BY <1>1, <2>1, <2>2, <3>2 DEF ErrcodeType
  <2>3. CASE ~IsCompound(code)
    BY <1>1, <2>1, <2>3 DEF ErrcodeType
  <2> QED
    BY <2>2, <2>3
<1> QED
  BY <1>2, <1>3, <1>4

LEMMA ArmNamesLevel ==
    ASSUME NEW r, r.level \in 0..7
    PROVE  /\ ArmType(r) \in DOMAIN CacheLevels <=> r.type = 0
           /\ r.type = 0 /\ r.levelValid =>
                  \A t \in DOMAIN CacheLevels : ArmType(r) = t <=> r.level \in CacheLevels[t]
           /\ ~r.levelValid => ArmType(r) # "l3"
<1>1. CASE r.type = 0
  <2>1. ArmType(r) = ArmCacheType(r)
    BY <1>1 DEF ArmType
  <2>2. CASE ~r.levelValid \/ r.level = 0
    BY <1>1, <2>1, <2>2 DEF ArmCacheType, CacheLevels
  <2>3. CASE r.levelValid /\ r.level = 1
    BY <1>1, <2>1, <2>3 DEF ArmCacheType, CacheLevels
  <2>4. CASE r.levelValid /\ r.level > 1
    BY <1>1, <2>1, <2>4 DEF ArmCacheType, CacheLevels
  <2> QED
    BY <2>2, <2>3, <2>4
<1>2. CASE r.type # 0
  <2>1. ArmType(r) \in {"tlb", "bus", "internal", "generic"}
    BY <1>2 DEF ArmType
  <2> QED
    BY <1>2, <2>1 DEF CacheLevels
<1> QED
  BY <1>1, <1>2

(* An error is charged as the cache its record names, and as a cache only  *)
(* if it names one, on either architecture and for every record: what      *)
(* isolate_on_l3_uce holds back is the errors of the last level.           *)
THEOREM CachesAreToldApart == Spec => []CacheIsNamed
<1>1. Typed /\ Routed => CacheIsNamed
  <2> SUFFICES ASSUME Typed, Routed, charges > 0 PROVE CacheIsNamed
    BY DEF CacheIsNamed
  <2>1. CASE Mca
    <3>1. rec.kind = "mce" /\ event.type = ErrcodeType(rec.code) /\ rec.code \in Nat
      BY <2>1, RecordKinds DEF Mca, Typed
    <3>2. ErrcodeType(rec.code) # "none"
      BY <3>1 DEF Routed
    <3> QED
      BY <3>1, <3>2, CacheCodesNameCaches DEF CacheIsNamed
  <2>2. CASE rec.kind = "arm"
    <3>1. event.type = ArmType(rec) /\ rec.level \in 0..7
      BY <2>2, RecordKinds DEF Typed
    <3> QED
      BY <2>2, <3>1, ArmNamesLevel DEF CacheIsNamed, Mca
  <2>3. CASE rec.kind # "arm" /\ ~Mca
    BY <2>3 DEF CacheIsNamed
  <2> QED
    BY <2>1, <2>2, <2>3
<1> QED
  BY <1>1, RoutedInit, RoutedNext, TypedInit, TypedNext, PTL DEF Spec

-----------------------------------------------------------------------------
(* What has become of a line of the memory domain, once it has been served.*)
Served(l) ==
    IF ~WellFormed(l) THEN ~Reached
    ELSE /\ verdict = IF LineTriaged(l) THEN LineVerdict(l) ELSE "none"
         /\ memType = IF verdict = "panic" THEN "none" ELSE Taken(LineTypes[l.type], l.class)

Injected ==
    /\ rec \in Records
    /\ rec.kind = "line" /\ rec.domain = "mem" =>
           /\ pending \subseteq {"mem"}
           /\ "mem" \in pending => ~Reached
           /\ "mem" \notin pending => Served(rec)

LEMMA InjectedInit == Init => Injected
<1> SUFFICES ASSUME Init PROVE Injected
  OBVIOUS
<1>1. rec \in Records /\ ~Reached
  BY DEF Init, Reached
<1>2. CASE rec.kind = "line" /\ rec.domain = "mem"
  BY <1>1, <1>2 DEF Init, Injected, Handlers
<1> QED
  BY <1>1, <1>2 DEF Injected

LEMMA InjectedNext == Injected /\ [Next]_vars => Injected'
<1> SUFFICES ASSUME Injected, [Next]_vars PROVE Injected'
  OBVIOUS
<1>1. cfg' = cfg /\ rec' = rec
  BY DEF Next, CfiNotify, MfiNotify, ArmProbe, HisiProbe, InjectCpu, InjectMem, Seen, vars
<1>2. CASE ~(rec.kind = "line" /\ rec.domain = "mem")
  BY <1>1, <1>2 DEF Injected
<1>3. CASE rec.kind = "line" /\ rec.domain = "mem" /\ InjectMem
  <2>1. ~Reached /\ pending' = {}
    BY <1>3 DEF InjectMem, Seen, Injected
  <2>2. Served(rec)'
    <3>1. CASE ~WellFormed(rec)
      BY <1>1, <1>3, <2>1, <3>1 DEF InjectMem, Served, Reached, WellFormed
    <3>2. CASE WellFormed(rec)
      BY <1>1, <1>3, <3>2
         DEF InjectMem, Served, WellFormed, LineTriaged, LineVerdict, Taken
    <3> QED
      BY <3>1, <3>2
  <2> QED
    BY <1>1, <2>1, <2>2 DEF Injected
<1>4. CASE rec.kind = "line" /\ rec.domain = "mem" /\ UNCHANGED vars
  BY <1>4 DEF vars, Injected, Served, Reached, WellFormed, LineTriaged, LineVerdict, Taken
<1>5. CASE rec.kind = "line" /\ rec.domain = "mem" /\ ~InjectMem /\ ~UNCHANGED vars
  <2>1. pending \subseteq {"mem"}
    BY <1>5 DEF Injected
  <2> QED
    BY <1>5, <2>1 DEF Next, CfiNotify, MfiNotify, ArmProbe, HisiProbe, InjectCpu, Seen
<1> QED
  BY <1>2, <1>3, <1>4, <1>5

(* A written line is decoded as the record it stands for. *)
LEMMA LineIsItsRecord ==
    ASSUME NEW l, WellFormed(l)
    PROVE  LET r == AsRecord(l)
           IN  /\ MemType(r) = LineTypes[l.type]
               /\ Triaged(r) <=> LineTriaged(l)
               /\ TriageDecide(r) = LineVerdict(l)
<1> DEFINE r == AsRecord(l)
<1>1. l.type \in {"ce", "uce_srao", "uce_srar"}
  BY DEF WellFormed, LineTypes
<1>2. /\ r.uc <=> l.type # "ce"
      /\ r.ar <=> l.type = "uce_srar"
      /\ ~r.deferred
      /\ r.kernel = Given(l.kernel, FALSE)
      /\ r.class = l.class /\ r.ripv = Given(l.ripv, TRUE) /\ r.pcc = Given(l.pcc, FALSE)
  BY DEF AsRecord
<1> HIDE DEF r
<1>3. MemType(r) = LineTypes[l.type]
  <2>1. CASE l.type = "ce"
    BY <1>2, <2>1 DEF MemType, LineTypes
  <2>2. CASE l.type = "uce_srao"
    BY <1>2, <2>2 DEF MemType, LineTypes
  <2>3. CASE l.type = "uce_srar"
    BY <1>2, <2>3 DEF MemType, LineTypes
  <2> QED
    BY <1>1, <2>1, <2>2, <2>3
<1>4. Triaged(r) <=> LineTriaged(l)
  BY <1>2, <1>3 DEF Triaged, LineTriaged
<1>5. TriageDecide(r) = LineVerdict(l)
  BY <1>2 DEF TriageDecide, LineVerdict
<1> QED
  BY <1>3, <1>4, <1>5 DEF r

(* A memory line written to cfi/inject has the outcome of the hardware     *)
(* record it stands for, triage verdict included, for every line and every *)
(* setting with the memory domain enabled.                                 *)
THEOREM InjectionIsHardware == Spec => []InjectionMirrors
<1>1. Injected => InjectionMirrors
  <2> SUFFICES ASSUME Injected, Done, rec.kind = "line", rec.domain = "mem", cfg.mem
               PROVE  IF ~WellFormed(rec) THEN ~Reached
                      ELSE LET r == AsRecord(rec)
                           IN  /\ MfiAccepts(r) /\ verdict = BackendVerdict(r)
                               /\ memType = IF verdict = "panic" THEN "none" ELSE MemType(r)
    BY DEF InjectionMirrors
  <2>1. Served(rec)
    <3>1. "mem" \notin pending
      BY DEF Injected, Done, Reached
    <3> QED
      BY <3>1 DEF Injected
  <2>2. CASE ~WellFormed(rec)
    BY <2>1, <2>2 DEF Served
  <2>3. CASE WellFormed(rec)
    <3>1. MfiAccepts(AsRecord(rec))
      <4>1. Unfiltered(159) = 159
        BY DEF Unfiltered, Field
      <4>2. IsMemoryCode(159)
        BY <4>1 DEF IsMemoryCode
      <4> QED
        BY <4>1, <4>2 DEF MfiAccepts, AsRecord
    <3>2. /\ MemType(AsRecord(rec)) = LineTypes[rec.type]
          /\ Triaged(AsRecord(rec)) <=> LineTriaged(rec)
          /\ TriageDecide(AsRecord(rec)) = LineVerdict(rec)
      BY <2>3, LineIsItsRecord
    <3>3. Taken(LineTypes[rec.type], rec.class) = LineTypes[rec.type]
      BY <2>3 DEF Taken, WellFormed
    <3> QED
      BY <2>1, <2>3, <3>1, <3>2, <3>3 DEF Served, BackendVerdict
  <2> QED
    BY <2>2, <2>3
<1> QED
  BY <1>1, InjectedInit, InjectedNext, PTL DEF Spec
=============================================================================
