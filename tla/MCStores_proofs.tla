---------------------------- MODULE MCStores_proofs ----------------------------
(* Proofs about what outlives a run: MCStores puts components side by side    *)
(* that share no state, so each has an inductive invariant of its own, and    *)
(* the sum of them is that of the whole.                                      *)
EXTENDS MCStores, FiniteSetTheorems, SequenceTheorems, WellFoundedInduction, TLAPS

------------------------------------------------------------------------------
(* The execution cache.  What get() answers is decided by the map and the     *)
(* clock, what it promised by the history: every entry of the map is the last *)
(* one accepted for its key, and a key without an entry was promised nothing  *)
(* beyond now.                                                                *)

MemoTyped ==
  /\ Memo!TypeOK
  /\ promised \in [Key -> [result : Result \cup {None}, until : Nat]]

MemoInv ==
  /\ MemoTyped
  /\ \A k \in DOMAIN entries :
       /\ promised[k].result = entries[k].result
       /\ promised[k].until = entries[k].created_at + entries[k].ttl
  /\ \A k \in Key \ DOMAIN entries : promised[k].until <= clock

(* Every set of naturals that has a member has a least one: the intervals     *)
(* that end in its members are finite sets, and strict inclusion of finite    *)
(* sets is well-founded.                                                      *)
LEMMA LeastExists ==
  ASSUME NEW S \in SUBSET Nat, S # {}
  PROVE  \E n \in S : \A m \in S : n <= m
<1> DEFINE T == {0 .. n : n \in S}
<1>1. T \subseteq FiniteSubsetsOf(Nat) /\ T # {}
  <2>1. ASSUME NEW n \in S
        PROVE  0 .. n \in FiniteSubsetsOf(Nat)
    <3>1. n \in Int /\ 0 \in Int /\ 0 .. n \in SUBSET Nat
      OBVIOUS
    <3>2. IsFiniteSet(0 .. n)
      BY <3>1, FS_Interval
    <3> QED
      BY <3>1, <3>2 DEF FiniteSubsetsOf
  <2> QED
    BY <2>1
<1>2. PICK I \in T : \A J \in T : ~(<<J, I>> \in StrictSubsetOrdering(Nat))
  BY <1>1, FS_StrictSubsetOrderingWellFounded, WFMin, Zenon
<1>3. PICK n \in S : I = 0 .. n
  OBVIOUS
<1>4. ASSUME NEW m \in S, ~(n <= m)
      PROVE  FALSE
  <2>1. 0 .. m \in T /\ 0 .. m \subseteq 0 .. n /\ 0 .. m # 0 .. n
    BY <1>4
  <2>2. <<0 .. m, 0 .. n>> \in StrictSubsetOrdering(Nat)
    <3>1. 0 .. m \in SUBSET Nat /\ 0 .. n \in SUBSET Nat
      OBVIOUS
    <3> QED
      BY <2>1, <3>1, Zenon DEF StrictSubsetOrdering
  <2> QED
    BY <2>1, <2>2, <1>2, <1>3
<1> QED
  BY <1>4

LEMMA MemoLeast ==
  ASSUME NEW S \in SUBSET Nat, S # {}
  PROVE  Memo!Least(S) \in S
BY LeastExists DEF Memo!Least

LEMMA MemoInit == Memo!Init => MemoInv
  BY Assumptions, MemoLeast DEF Memo!CacheAssumption, Memo!Init, MemoInv, MemoTyped,
     Memo!TypeOK, Memo!Nothing

(* What is expired by now was promised until now at the latest.              *)
LEMMA MemoNumbers ==
  ASSUME MemoInv
  PROVE  /\ clock \in Nat /\ default_ttl \in Nat
         /\ \A k \in DOMAIN entries :
              entries[k].created_at \in Nat /\ entries[k].ttl \in Nat
<1>1. 0 .. MaxClock \subseteq Nat /\ Ttl \subseteq Nat
  BY Assumptions DEF Memo!CacheAssumption
<1>2. clock \in 0 .. MaxClock /\ default_ttl \in Ttl
  BY DEF MemoInv, MemoTyped, Memo!TypeOK
<1>3. \A k \in DOMAIN entries :
        entries[k].created_at \in 0 .. MaxClock /\ entries[k].ttl \in Ttl
  BY DEF MemoInv, MemoTyped, Memo!TypeOK, Memo!Entry
<1> QED
  BY <1>1, <1>2, <1>3

LEMMA MemoKept ==
  ASSUME MemoInv
  PROVE  /\ Memo!Kept = [k \in DOMAIN Memo!Kept |-> entries[k]]
         /\ DOMAIN Memo!Kept \subseteq DOMAIN entries
         /\ \A k \in Key \ DOMAIN Memo!Kept : promised[k].until <= clock
<1>1. \A k \in DOMAIN entries :
        Memo!Expired(k) => entries[k].created_at + entries[k].ttl <= clock
  BY MemoNumbers DEF Memo!Expired
<1>2. Memo!Kept = [k \in {x \in DOMAIN entries : ~Memo!Expired(x)} |-> entries[k]]
  BY DEF Memo!Kept, Memo!Restrict
<1>3. \A k \in Key \ DOMAIN entries : promised[k].until <= clock
  BY DEF MemoInv
<1>4. \A k \in DOMAIN entries : Memo!Expired(k) => promised[k].until <= clock
  BY <1>1 DEF MemoInv
<1> QED
  BY <1>2, <1>3, <1>4

LEMMA MemoSet ==
  ASSUME MemoInv, NEW k \in Key, NEW r \in Result, Memo!Set(k, r)
  PROVE  MemoInv'
<1>1. Memo!New(r) \in Memo!Entry /\ Memo!New(r).created_at <= clock
  BY Assumptions DEF MemoInv, MemoTyped, Memo!TypeOK, Memo!Entry, Memo!New, Memo!CacheAssumption
<1>2. CASE entries' = Memo!Kept /\ UNCHANGED promised
  BY <1>2, MemoKept DEF MemoInv, MemoTyped, Memo!TypeOK, Memo!Set
<1>3. CASE /\ entries' = Memo!Insert(k, r)
           /\ promised' = [promised EXCEPT ![k] = [result |-> r, until |-> clock + default_ttl]]
  <2>1. UNCHANGED <<max_entries, default_ttl, clock>>
    BY DEF Memo!Set
  <2>2. /\ DOMAIN entries' = DOMAIN Memo!Kept \cup {k}
        /\ entries'[k] = Memo!New(r)
        /\ \A x \in DOMAIN entries' : x # k => entries'[x] = entries[x]
    BY <1>3, MemoKept DEF Memo!Insert
  <2>3. Memo!TypeOK'
    BY <1>1, <2>1, <2>2, MemoKept DEF MemoInv, MemoTyped, Memo!TypeOK
  <2>4. default_ttl \in Nat /\ clock \in Nat
    BY MemoNumbers
  <2>5. promised' \in [Key -> [result : Result \cup {None}, until : Nat]]
    BY <1>3, <2>4 DEF MemoInv, MemoTyped
  <2>6. /\ promised'[k].result = Memo!New(r).result
        /\ promised'[k].until = Memo!New(r).created_at + Memo!New(r).ttl
    BY <1>3 DEF MemoInv, MemoTyped, Memo!New
  <2>7. \A x \in Key : x # k => promised'[x] = promised[x]
    BY <1>3 DEF MemoInv, MemoTyped
  <2> QED
    BY <2>1, <2>2, <2>3, <2>5, <2>6, <2>7, MemoKept DEF MemoInv, MemoTyped, Memo!TypeOK
<1> QED
  BY <1>2, <1>3 DEF Memo!Set

LEMMA MemoStep == MemoInv /\ [Memo!Next]_(Memo!vars) => MemoInv'
<1> SUFFICES ASSUME MemoInv, [Memo!Next]_(Memo!vars)
             PROVE  MemoInv'
  OBVIOUS
<1>1. CASE \E k \in Key, r \in Result : Memo!Set(k, r)
  BY <1>1, MemoSet
<1>2. CASE Memo!Clear
  BY <1>2, Assumptions DEF Memo!Clear, MemoInv, MemoTyped, Memo!TypeOK, Memo!Nothing,
     Memo!CacheAssumption
<1>3. CASE Memo!EvictExpired
  BY <1>3, MemoKept DEF Memo!EvictExpired, MemoInv, MemoTyped, Memo!TypeOK
<1>4. CASE Memo!Tick
  BY <1>4, Assumptions DEF Memo!Tick, MemoInv, MemoTyped, Memo!TypeOK, Memo!Entry,
     Memo!CacheAssumption
<1>5. CASE \E n \in MaxEntries : Memo!SetMaxEntries(n)
  BY <1>5 DEF Memo!SetMaxEntries, MemoInv, MemoTyped, Memo!TypeOK
<1>6. CASE \E t \in Ttl : Memo!SetDefaultTtl(t)
  BY <1>6 DEF Memo!SetDefaultTtl, MemoInv, MemoTyped, Memo!TypeOK
<1>7. CASE UNCHANGED Memo!vars
  BY <1>7 DEF Memo!vars, MemoInv, MemoTyped, Memo!TypeOK
<1> QED
  BY <1>1, <1>2, <1>3, <1>4, <1>5, <1>6, <1>7 DEF Memo!Next

LEMMA MemoRemembers == MemoInv => Memo!RemembersExactly
<1> SUFFICES ASSUME MemoInv, NEW k \in Key
             PROVE  Memo!Get(k) = IF clock < promised[k].until
                                    THEN promised[k].result ELSE None
  BY DEF Memo!RemembersExactly
<1>1. CASE k \in DOMAIN entries
  <2>1. /\ entries[k].created_at \in Nat /\ entries[k].ttl \in Nat /\ clock \in Nat
        /\ promised[k].until = entries[k].created_at + entries[k].ttl
        /\ promised[k].result = entries[k].result
    BY <1>1, MemoNumbers DEF MemoInv
  <2> QED
    BY <1>1, <2>1 DEF Memo!Get, Memo!Expired
<1>2. CASE k \notin DOMAIN entries
  <2>1. promised[k].until <= clock /\ promised[k].until \in Nat /\ clock \in Nat
    BY <1>2, MemoNumbers DEF MemoInv, MemoTyped
  <2> QED
    BY <1>2, <2>1 DEF Memo!Get
<1> QED
  BY <1>1, <1>2

------------------------------------------------------------------------------
(* The wasm sandbox.  Its instances take a slot each, so no more are used     *)
(* than programs ran since its store is new; a program in the cache compiles; *)
(* and the fuel is set anew each time.                                        *)

BoxInv ==
  /\ Box!TypeOK /\ DOMAIN last = {"runs", "at", "answer"}
  /\ Box!AnswersAlone

(* A new store takes nothing back of what was answered.                      *)
LEMMA BoxNewStore ==
  ASSUME BoxInv, last' = [last EXCEPT !.runs = 0]
  PROVE  /\ last'.runs = 0 /\ DOMAIN last' = {"runs", "at", "answer"}
         /\ Box!AnswersAlone'
<1>3. DOMAIN last = {"runs", "at", "answer"}
  BY DEF BoxInv
<1>1. last'.at = last.at /\ last'.answer = last.answer
  OBVIOUS
<1>2. last'.runs = 0 /\ DOMAIN last' = DOMAIN last
  BY <1>3
<1> QED
  BY <1>1, <1>2, <1>3 DEF BoxInv, Box!AnswersAlone, Box!Alone

LEMMA BoxExec ==
  ASSUME BoxInv, NEW p \in {"good", "wasi", "bare", "bad"}, NEW e \in Box!Entry, Box!Exec(p, e)
  PROVE  BoxInv'
<1> DEFINE box == Box!Fuelled(inner)
           a == Box!Answer(p, e, box)
           burnt == CASE a = "out of fuel" -> box.fuel
                      [] a = "done" /\ Box!Is(p, Box!Function(e)) -> MCBurns[p]
                      [] OTHER -> 0
<1>1. /\ inner # None
      /\ inner' = IF a = "compile error" THEN inner
                  ELSE [box EXCEPT !.cache = @ \cup {p}, !.fuel = @ - burnt,
                            !.used = IF a \in {"unknown import", "no slot"}
                                     THEN @ ELSE @ + 1]
      /\ last' = [runs |-> IF last.runs < 3 THEN last.runs + 1 ELSE 3,
                  at |-> [program |-> p, entry |-> e, limit |-> inner.fuel_limit,
                          before |-> last.runs],
                  answer |-> a]
  BY DEF Box!Exec
<1>2. /\ inner \in Box!Sandbox /\ last.runs \in 0 .. 3 /\ inner.used <= last.runs
      /\ \A q \in inner.cache : Box!Is(q, "compiles")
  BY <1>1 DEF BoxInv, Box!TypeOK
<1>3. /\ box \in Box!Sandbox /\ box.cache = inner.cache /\ box.used = inner.used
      /\ box.fuel = inner.fuel_limit /\ box.fuel_limit = inner.fuel_limit
  BY <1>2 DEF Box!Fuelled, Box!Sandbox
<1>4. burnt \in Nat /\ burnt <= box.fuel
  <2>1. MCBurns[p] \in Nat
    BY DEF MCBurns
  <2>2. a = "done" /\ Box!Is(p, Box!Function(e)) => MCBurns[p] <= box.fuel
    BY <2>1, <1>3 DEF Box!Answer, Box!Sandbox
  <2> HIDE DEF a, box
  <2>3. box.fuel \in Nat
    BY <1>3 DEF Box!Sandbox
  <2>4. \/ burnt = box.fuel
        \/ a = "done" /\ Box!Is(p, Box!Function(e)) /\ burnt = MCBurns[p]
        \/ burnt = 0
    OBVIOUS
  <2> HIDE DEF burnt
  <2> QED
    BY <2>1, <2>2, <2>3, <2>4
<1>5. a # "compile error" => Box!Is(p, "compiles")
  BY <1>2, <1>3 DEF Box!Answer
<1>6. a \notin {"compile error", "unknown import", "no slot"} => inner.used # 3
  BY <1>3 DEF Box!Answer
<1>7. Box!TypeOK'
  <2> HIDE DEF a, box, burnt
  <2>1. CASE a = "compile error"
    <3>1. inner' = inner /\ last'.runs = IF last.runs < 3 THEN last.runs + 1 ELSE 3
      BY <2>1, <1>1
    <3>2. inner.used \in Nat
      BY <1>2 DEF Box!Sandbox
    <3>3. last'.runs \in 0 .. 3 /\ inner'.used <= last'.runs
      BY <1>2, <3>1, <3>2
    <3> QED
      BY <1>2, <3>1, <3>3 DEF Box!TypeOK
  <2>2. CASE a # "compile error"
    <3> DEFINE used == IF a \in {"unknown import", "no slot"} THEN box.used ELSE box.used + 1
    <3>1. inner' = [cache |-> box.cache \cup {p}, fuel_limit |-> box.fuel_limit,
                    used |-> used, fuel |-> box.fuel - burnt]
      BY <2>2, <1>1, <1>3 DEF Box!Sandbox
    <3>2. used \in 0 .. 3 /\ used <= last.runs + 1
      <4>1. box.used \in 0 .. 3 /\ box.used <= last.runs /\ last.runs \in 0 .. 3
        BY <1>2, <1>3 DEF Box!Sandbox
      <4>2. used = box.used \/ (used = box.used + 1 /\ box.used # 3)
        BY <2>2, <1>3, <1>6
      <4> HIDE DEF used
      <4> QED
        BY <4>1, <4>2
    <3>3. box.fuel - burnt \in Nat
      BY <1>3, <1>4 DEF Box!Sandbox
    <3>4. inner' \in Box!Sandbox
      BY <3>1, <3>2, <3>3, <1>3 DEF Box!Sandbox
    <3>5. \A q \in inner'.cache : Box!Is(q, "compiles")
      BY <3>1, <1>2, <1>3, <1>5, <2>2
    <3>6. last'.runs \in 0 .. 3 /\ inner'.used <= last'.runs
      <4>1. last'.runs = (IF last.runs < 3 THEN last.runs + 1 ELSE 3)
        BY <1>1
      <4> HIDE DEF used
      <4>3. inner'.used = used
        BY <3>1
      <4>2. last.runs \in 0 .. 3
        BY <1>2
      <4> QED
        BY <4>1, <4>2, <4>3, <3>2
    <3> QED
      BY <3>4, <3>5, <3>6 DEF Box!TypeOK
  <2> QED
    BY <2>1, <2>2
<1>8. Box!AnswersAlone'
  <2> DEFINE b == [cache |-> {}, fuel_limit |-> inner.fuel_limit, used |-> 0,
                   fuel |-> inner.fuel_limit]
  <2>1. a = Box!Answer(p, e, b) \/ (a = "no slot" /\ last.runs = 3)
    <3>1. box.used = 3 => last.runs = 3
      BY <1>2, <1>3 DEF Box!Sandbox
    <3>2. p \in inner.cache => Box!Is(p, "compiles")
      BY <1>2
    <3>3. b.cache = {} /\ b.used = 0 /\ b.fuel = box.fuel
      BY <1>3
    <3>8. box.fuel \in Nat /\ MCBurns[p] \in Nat
      BY <1>3 DEF Box!Sandbox, MCBurns
    <3>4. p \notin box.cache /\ ~Box!Is(p, "compiles") <=> ~Box!Is(p, "compiles")
      BY <3>2, <1>3
    <3> HIDE DEF box, b
    <3>5. p \notin b.cache /\ ~Box!Is(p, "compiles") <=> ~Box!Is(p, "compiles")
      BY <3>3
    <3>6. CASE box.used = 3
      BY <3>1, <3>3, <3>4, <3>5, <3>6 DEF Box!Answer
    <3>7. CASE box.used # 3
      <4>1. b.used # 3
        BY <3>3
      <4>2. MCBurns[p] > box.fuel <=> MCBurns[p] > b.fuel
        BY <3>3
      <4> QED
        BY <3>4, <3>5, <3>7, <4>1, <4>2, Zenon DEF Box!Answer
    <3> QED
      BY <3>6, <3>7
  <2>2. /\ last'.answer = a /\ last'.at.program = p /\ last'.at.entry = e
        /\ last'.at.limit = inner.fuel_limit /\ last'.at.before = last.runs
    BY <1>1
  <2> QED
    BY <2>1, <2>2 DEF Box!AnswersAlone, Box!Alone
<1>9. DOMAIN last' = {"runs", "at", "answer"}
  BY <1>1
<1> QED
  BY <1>7, <1>8, <1>9 DEF BoxInv

LEMMA BoxStep == BoxInv /\ [Box!Next]_(Box!vars) => BoxInv'
<1> SUFFICES ASSUME BoxInv, [Box!Next]_(Box!vars)
             PROVE  BoxInv'
  OBVIOUS
<1>1. CASE \E p \in {"good", "wasi", "bare", "bad"}, e \in Box!Entry : Box!Exec(p, e)
  BY <1>1, BoxExec
<1>2. CASE Box!InitBackend
  <2>1. Box!Default \in {0, 1, 3}
    BY DEF Box!Default
  <2>2. inner' \in Box!Sandbox /\ inner'.used = 0 /\ inner'.cache = {}
    BY <1>2, <2>1 DEF Box!InitBackend, Box!Sandbox
  <2>3. last' = [last EXCEPT !.runs = 0]
    BY <1>2 DEF Box!InitBackend
  <2> QED
    BY <2>2, <2>3, BoxNewStore DEF BoxInv, Box!TypeOK
<1>3. CASE Box!DestroyBackend
  BY <1>3, BoxNewStore DEF Box!DestroyBackend, BoxInv, Box!TypeOK
<1>6. CASE Box!Reset
  <2>1. inner' \in Box!Sandbox /\ inner'.used = 0 /\ inner'.cache = inner.cache
    <3>1. inner \in Box!Sandbox /\ inner.fuel_limit \in Nat
      BY <1>6 DEF Box!Reset, Box!Sandbox, BoxInv, Box!TypeOK
    <3>2. inner' = [inner EXCEPT !.used = 0, !.fuel = inner.fuel_limit]
      BY <1>6 DEF Box!Reset
    <3>3. inner' = [cache |-> inner.cache, fuel_limit |-> inner.fuel_limit, used |-> 0,
                    fuel |-> inner.fuel_limit]
      BY <3>1, <3>2, Zenon DEF Box!Sandbox
    <3> QED
      BY <3>1, <3>3 DEF Box!Sandbox
  <2> QED
    BY <1>6, <2>1, BoxNewStore DEF Box!Reset, BoxInv, Box!TypeOK
<1>7. CASE Box!ClearModuleCache
  BY <1>7 DEF Box!ClearModuleCache, BoxInv, Box!TypeOK, Box!Sandbox,
     Box!AnswersAlone, Box!Alone
<1>4. CASE \E n \in {0, 1, 3} : Box!SetFuelLimit(n)
  BY <1>4 DEF Box!SetFuelLimit, BoxInv, Box!TypeOK, Box!Sandbox,
     Box!AnswersAlone, Box!Alone
<1>5. CASE UNCHANGED Box!vars
  BY <1>5 DEF Box!vars, BoxInv, Box!TypeOK, Box!AnswersAlone, Box!Alone
<1> QED
  BY <1>1, <1>2, <1>3, <1>4, <1>5, <1>6, <1>7 DEF Box!Next

LEMMA BoxInit == Box!Init => BoxInv
  BY DEF Box!Init, BoxInv, Box!TypeOK, Box!AnswersAlone

------------------------------------------------------------------------------
(* The kernel registry.  Kernels are numbered as they are compiled and a      *)
(* version's file is only ever replaced by a later one, so what a listing     *)
(* says of a base kernel, and what a build read under it, is no later than    *)
(* what the file holds now.  A template that load accepts is between the two. *)

Releases == {"6.6.1", "7.1.4"}

KernelLists(reg) ==
  /\ reg \in Kernel!Registry
  /\ reg.parses => reg.default \in Releases
  /\ \A r \in Releases : "base" \in reg.versions[r].profiles =>
       reg.versions[r].hash <= file[r]["base"]

(* A build, which becomes the template.                                       *)
KernelBuild ==
  [at : {"idle", "resolved", "read", "booted"}, place : Releases \cup {"flat"},
   profile : {"base", "gpu"}, version : Releases \cup {None},
   hash : Nat, kernel : Nat, raced : BOOLEAN]

(* The kernel of b is no earlier than its hash, no later than its file.       *)
Between(b) ==
  b.version \in Releases /\ b.hash <= b.kernel /\ b.kernel <= file[b.version]["base"]

KernelFound(b) ==
  /\ b.at \in {"resolved", "read"} => file[b.place][b.profile] # 0
  /\ b.at = "resolved" /\ b.profile = "base" /\ b.hash # 0 =>
       b.version \in Releases /\ b.place = b.version /\ b.hash <= file[b.version]["base"]
  /\ b.at = "read" => b.kernel # 0
  /\ b.at = "read" /\ b.profile = "base" /\ b.hash # 0 => Between(b)

KernelBooted(b) ==
  /\ b.version \in Releases /\ b.hash # 0 /\ b.kernel # 0
  /\ b.profile = "base" /\ ~b.raced => b.kernel = b.hash \/ Between(b)

KernelTyped ==
  /\ compiled \in 0 .. 2
  /\ file \in [Releases \cup {"flat"} -> [{"base", "gpu"} -> 0 .. compiled]]
  /\ script # None => script \in [version : Releases, profile : {"base", "gpu"}]
  /\ DOMAIN keeper = {"saves", "reg"}
  /\ keeper.saves => keeper.reg # None
  /\ build \in KernelBuild

KernelRegistries ==
  /\ registry # None => KernelLists(registry)
  /\ keeper.reg # None => KernelLists(keeper.reg) /\ keeper.reg.parses

KernelBuilds ==
  /\ KernelFound(build)
  /\ build.at = "booted" => KernelBooted(build)
  /\ build.at # "idle" => template = None
  /\ template # None => template \in KernelBuild /\ template.at = "booted" /\ KernelBooted(template)

KernelVerdict == (verdict # None => template # None) /\ Kernel!LoadsItsKernel

KernelInv == KernelTyped /\ KernelRegistries /\ KernelBuilds /\ KernelVerdict

LEMMA KernelTypes == KernelInv => Kernel!TypeOK
<1> SUFFICES ASSUME KernelInv PROVE Kernel!TypeOK
  OBVIOUS
<1> USE DEF KernelInv
<1>1. registry # None => registry \in Kernel!Registry
  BY DEF KernelRegistries, KernelLists
<1>2. keeper.reg # None => keeper.reg \in Kernel!Registry /\ keeper.reg.parses
  BY DEF KernelRegistries, KernelLists
<1>3. /\ build.at \in {"idle", "resolved", "read", "booted"}
      /\ build.at = "booted" => build.version \in Releases /\ build.hash # 0 /\ build.kernel # 0
      /\ build.at = "read" => build.kernel # 0
  BY DEF KernelTyped, KernelBuild, KernelBuilds, KernelBooted, KernelFound
<1>4. template # None => template.at = "booted"
  BY DEF KernelBuilds
<1>5. verdict # None => template # None
  BY DEF KernelVerdict
<1>6. /\ file \in [Releases \cup {"flat"} -> [{"base", "gpu"} -> 0 .. compiled]] /\ compiled <= 2
      /\ script # None => script \in [version : Releases, profile : {"base", "gpu"}]
      /\ keeper.saves => keeper.reg # None
  BY DEF KernelTyped
<1> QED
  BY <1>1, <1>2, <1>3, <1>4, <1>5, <1>6 DEF Kernel!TypeOK, Kernel!Profile, Kernel!Flat, Releases

LEMMA KernelInit == Kernel!Init => KernelInv
  BY DEF Kernel!Init, Kernel!Idle, KernelInv, KernelTyped, KernelRegistries, KernelBuilds,
     KernelVerdict, KernelFound, KernelBuild, Releases, Kernel!Profile, Kernel!LoadsItsKernel,
     Kernel!Flat

(* A kernel file is replaced by a later one, or is the flat one, which no     *)
(* listing and no hash are about.                                             *)
KernelGrows ==
  /\ compiled' \in 0 .. 2
  /\ file' \in [Releases \cup {"flat"} -> [{"base", "gpu"} -> 0 .. compiled']]
  /\ \A p \in {"base", "gpu"} :
       /\ \A r \in Releases : file[r][p] <= file'[r][p]
       /\ file["flat"][p] # 0 => file'["flat"][p] # 0

LEMMA KernelGrowth ==
  ASSUME KernelInv, KernelGrows,
         script' # None => script' \in [version : Releases, profile : {"base", "gpu"}],
         UNCHANGED <<registry, keeper, build, template, verdict>>
  PROVE  KernelInv'
<1>1. \A r \in Releases, p \in {"base", "gpu"} :
        file[r][p] \in Nat /\ file'[r][p] \in Nat /\ file[r][p] <= file'[r][p]
  BY DEF KernelInv, KernelTyped, KernelGrows
<1>2. \A q \in Releases \cup {"flat"}, p \in {"base", "gpu"} :
        file[q][p] # 0 => file'[q][p] # 0
  BY <1>1 DEF KernelGrows
<1>3. \A reg : KernelLists(reg) => KernelLists(reg)'
  <2>1. SUFFICES ASSUME NEW reg, KernelLists(reg), NEW r \in Releases,
                        "base" \in reg.versions[r].profiles
                 PROVE  reg.versions[r].hash <= file'[r]["base"]
    BY DEF KernelLists
  <2>2. reg.versions[r].hash \in Nat
    <3>1. reg.versions \in [Releases -> Kernel!Listing]
      BY <2>1 DEF KernelLists, Kernel!Registry, Releases
    <3>2. reg.versions[r].hash \in 0 .. 2
      BY <3>1 DEF Kernel!Listing
    <3> QED
      BY <3>2
  <2> QED
    BY <2>1, <2>2, <1>1 DEF KernelLists
<1>4. \A b \in KernelBuild : Between(b) => Between(b)'
  BY <1>1 DEF Between, KernelBuild
<1>5. \A b \in KernelBuild : KernelFound(b) => KernelFound(b)'
  BY <1>1, <1>2, <1>4 DEF KernelFound, KernelBuild
<1>6. \A b \in KernelBuild : KernelBooted(b) => KernelBooted(b)'
  BY <1>4 DEF KernelBooted
<1>7. KernelTyped'
  BY DEF KernelInv, KernelTyped, KernelGrows
<1>8. KernelRegistries'
  BY <1>3 DEF KernelInv, KernelRegistries
<1>9. KernelBuilds'
  BY <1>5, <1>6 DEF KernelInv, KernelBuilds, KernelTyped
<1> QED
  BY <1>7, <1>8, <1>9 DEF KernelInv, KernelVerdict, Kernel!LoadsItsKernel

LEMMA KernelInstall ==
  ASSUME KernelInv, NEW r \in Releases, NEW p \in {"base", "gpu"},
         Kernel!Install(r, p) \/ Kernel!Copy(r, p)
  PROVE  KernelInv'
<1>1. KernelTyped
  BY DEF KernelInv
<1>2. CASE Kernel!Install(r, p)
  <2>1. /\ compiled < 2 /\ compiled' = compiled + 1
        /\ file' = [file EXCEPT ![r][p] = compiled + 1]
        /\ script' = [version |-> r, profile |-> p]
        /\ UNCHANGED <<registry, keeper, build, template, verdict>>
    BY <1>2 DEF Kernel!Install
  <2>2. KernelGrows
    BY <1>1, <2>1 DEF KernelTyped, KernelGrows, Releases
  <2> QED
    BY <2>1, <2>2, KernelGrowth
<1>3. CASE Kernel!Copy(r, p)
  <2>1. /\ file[r][p] # 0 /\ file' = [file EXCEPT !["flat"][p] = file[r][p]]
        /\ UNCHANGED <<compiled, script, registry, keeper, build, template, verdict>>
    BY <1>3 DEF Kernel!Copy, Kernel!Flat
  <2>2. KernelGrows
    BY <1>1, <2>1 DEF KernelTyped, KernelGrows, Releases
  <2> QED
    BY <1>1, <2>1, <2>2, KernelGrowth DEF KernelTyped
<1> QED
  BY <1>2, <1>3

(* The steps on registry.toml and on the copy a program keeps of it.         *)
KernelRelists ==
  /\ registry' # None => KernelLists(registry')
  /\ keeper'.reg # None => KernelLists(keeper'.reg) /\ keeper'.reg.parses
  /\ DOMAIN keeper' = {"saves", "reg"}
  /\ keeper'.saves => keeper'.reg # None
  /\ script' # None => script' = script
  /\ UNCHANGED <<file, compiled, build, template, verdict>>

LEMMA KernelRelisting ==
  ASSUME KernelInv, KernelRelists
  PROVE  KernelInv'
<1>1. \A reg : KernelLists(reg)' <=> KernelLists(reg)
  BY DEF KernelRelists, KernelLists
<1>2. KernelRegistries'
  BY <1>1 DEF KernelRelists, KernelRegistries
<1>3. KernelTyped' /\ KernelVerdict'
  BY DEF KernelInv, KernelTyped, KernelRelists, KernelVerdict, Kernel!LoadsItsKernel
<1>4. KernelBuilds'
  BY DEF KernelInv, KernelRelists, KernelBuilds, KernelFound, KernelBooted, Between
<1> QED
  BY <1>2, <1>3, <1>4 DEF KernelInv

LEMMA KernelEmptyLists == KernelLists(Kernel!Truncated) /\ ~Kernel!Truncated.parses
  BY DEF KernelLists, Kernel!Truncated, Kernel!Registry, Kernel!Listing, Kernel!NoVersions,
     Kernel!Unlisted, Releases

LEMMA KernelLoadedLists ==
  ASSUME KernelInv
  PROVE  KernelLists(Kernel!Loaded)
  BY DEF KernelInv, KernelRegistries, Kernel!Loaded, KernelLists, Kernel!Registry,
     Kernel!Listing, Kernel!NoVersions, Kernel!Unlisted, Releases

(* A version is listed with the profiles installed and with the hash of its  *)
(* base kernel, if it has one.                                               *)
LEMMA KernelListing ==
  ASSUME KernelInv, NEW reg, KernelLists(reg), NEW r \in Releases, NEW p \in {"base", "gpu"},
         "base" \in Kernel!Installed(r) => p = "base",
         NEW l, l = [profiles |-> Kernel!Installed(r), hash |-> file[r][p]],
         NEW new, new = [default |-> reg.default, parses |-> reg.parses,
                         versions |-> [reg.versions EXCEPT ![r] = l]]
  PROVE  KernelLists(new)
<1>1. l \in Kernel!Listing
  BY DEF KernelInv, KernelTyped, Kernel!Listing, Kernel!Installed, Kernel!Profile
<1>2. reg \in Kernel!Registry
  BY DEF KernelLists
<1>3. new \in Kernel!Registry
  BY <1>1, <1>2 DEF Kernel!Registry, Releases
<1>4. reg.versions \in [Releases -> Kernel!Listing]
  BY <1>2 DEF Kernel!Registry, Releases
<1>5. ASSUME NEW q \in Releases, "base" \in new.versions[q].profiles
      PROVE  new.versions[q].hash <= file[q]["base"]
  <2>1. CASE q = r
    BY <2>1, <1>4, <1>5 DEF KernelInv, KernelTyped
  <2>2. CASE q # r
    BY <2>2, <1>4, <1>5 DEF KernelLists
  <2> QED
    BY <2>1, <2>2
<1> QED
  BY <1>3, <1>5 DEF KernelLists

LEMMA KernelUpdate ==
  ASSUME KernelInv, Kernel!Update
  PROVE  KernelInv'
<1> DEFINE r == script.version
           p == IF "base" \in Kernel!Installed(r) THEN "base" ELSE script.profile
           l == [profiles |-> Kernel!Installed(r), hash |-> file[r][p]]
           d == IF registry = None \/ registry.default = None THEN r ELSE registry.default
           reg0 == [default |-> d, parses |-> TRUE, versions |-> Kernel!NoVersions]
<1>1. r \in Releases /\ p \in {"base", "gpu"}
  BY DEF Kernel!Update, KernelInv, KernelTyped
<1>2. d \in Releases
  <2>1. CASE registry = None \/ registry.default = None
    BY <1>1, <2>1
  <2>2. CASE registry # None /\ registry.default # None
    <3>1. registry \in Kernel!Registry
      BY <2>2 DEF KernelInv, KernelRegistries, KernelLists
    <3>2. registry.default \in Releases \cup {None}
      BY <3>1 DEF Kernel!Registry, Releases
    <3> QED
      BY <2>2, <3>2
  <2> QED
    BY <2>1, <2>2
<1>3. KernelLists(reg0)
  <2> HIDE DEF d
  <2> QED
    BY <1>2 DEF KernelLists, Kernel!Registry, Kernel!Listing, Kernel!NoVersions,
       Kernel!Unlisted, Releases
<1>4. /\ registry' = [default |-> d, parses |-> TRUE,
                      versions |-> [Kernel!NoVersions EXCEPT ![r] = l]]
      /\ script' = None /\ UNCHANGED <<file, compiled, keeper, build, template, verdict>>
  BY DEF Kernel!Update
<1> HIDE DEF d, r, p
<1>6. KernelLists(registry')
  <2>1. "base" \in Kernel!Installed(r) => p = "base"
    BY DEF p
  <2>2. reg0.default = d /\ reg0.parses = TRUE /\ reg0.versions = Kernel!NoVersions
    OBVIOUS
  <2> HIDE DEF reg0, l
  <2>3. l = [profiles |-> Kernel!Installed(r), hash |-> file[r][p]]
    BY DEF l
  <2>4. registry' = [default |-> reg0.default, parses |-> reg0.parses,
                     versions |-> [reg0.versions EXCEPT ![r] = l]]
    BY <1>4, <2>2, <2>3
  <2> QED
    BY <1>1, <1>3, <2>1, <2>3, <2>4, KernelListing
<1>7. KernelRelists
  BY <1>4, <1>6 DEF KernelRelists, KernelInv, KernelTyped, KernelRegistries
<1> QED
  BY <1>7, KernelRelisting

LEMMA KernelRegister ==
  ASSUME KernelInv, NEW r \in Releases, Kernel!Register(r)
  PROVE  KernelInv'
<1>1. PICK p \in Kernel!Installed(r) :
        /\ "base" \in Kernel!Installed(r) => p = "base"
        /\ Kernel!Save([keeper.reg EXCEPT !.versions[r] =
              [profiles |-> Kernel!Installed(r), hash |-> file[r][p]]])
  BY DEF Kernel!Register
<1> DEFINE l == [profiles |-> Kernel!Installed(r), hash |-> file[r][p]]
           new == [keeper.reg EXCEPT !.versions[r] = l]
<1>2. p \in {"base", "gpu"}
  BY DEF Kernel!Installed, Kernel!Profile
<1>3. KernelLists(keeper.reg) /\ keeper.reg.parses
  BY DEF Kernel!Register, KernelInv, KernelRegistries
<1>4. KernelLists(new)
  <2> HIDE DEF l
  <2>1. l = [profiles |-> Kernel!Installed(r), hash |-> file[r][p]]
    BY DEF l
  <2>2. keeper.reg \in Kernel!Registry
    BY <1>3 DEF KernelLists
  <2>3. new = [default |-> keeper.reg.default, parses |-> keeper.reg.parses,
               versions |-> [keeper.reg.versions EXCEPT ![r] = l]]
    BY <2>2, <2>1 DEF Kernel!Registry
  <2> HIDE DEF new
  <2> QED
    BY <1>1, <1>2, <1>3, <2>1, <2>3, KernelListing
<1>5. new.parses
  BY <1>3 DEF KernelLists, Kernel!Registry
<1>6. /\ keeper' = [saves |-> TRUE, reg |-> new] /\ registry' = Kernel!Truncated
      /\ UNCHANGED <<file, compiled, script, build, template, verdict>>
  BY <1>1 DEF Kernel!Save
<1> HIDE DEF new
<1>7. KernelRelists
  <2>1. new # None
    BY <1>4, Assumptions DEF KernelLists, Kernel!RegistryAssumption
  <2> QED
    BY <1>4, <1>5, <1>6, <2>1, KernelEmptyLists DEF KernelRelists
<1> QED
  BY <1>7, KernelRelisting

LEMMA KernelDefault ==
  ASSUME KernelInv, NEW reg, KernelLists(reg), NEW r \in Releases,
         NEW new, new = [reg EXCEPT !.default = r]
  PROVE  KernelLists(new) /\ new.parses = reg.parses
<1>1. new = [default |-> r, parses |-> reg.parses, versions |-> reg.versions]
  BY DEF KernelLists, Kernel!Registry
<1>2. new \in Kernel!Registry
  BY <1>1 DEF KernelLists, Kernel!Registry, Releases
<1>3. new.default = r /\ new.parses = reg.parses /\ new.versions = reg.versions
  BY <1>1
<1> QED
  BY <1>2, <1>3 DEF KernelLists

LEMMA KernelOther ==
  ASSUME KernelInv,
         \/ Kernel!Interrupted \/ Kernel!Keep \/ Kernel!Saved \/ Kernel!Forget
         \/ \E r \in Releases : Kernel!SetDefault(r) \/ Kernel!ChooseDefault(r)
  PROVE  KernelInv'
<1>1. /\ registry # None => KernelLists(registry)
      /\ keeper.reg # None => KernelLists(keeper.reg) /\ keeper.reg.parses
      /\ DOMAIN keeper = {"saves", "reg"}
      /\ keeper.saves => keeper.reg # None
  BY DEF KernelInv, KernelTyped, KernelRegistries
<1>2. \A reg : KernelLists(reg) => reg # None
  BY Assumptions DEF KernelLists, Kernel!RegistryAssumption
<1>3. CASE Kernel!Interrupted
  BY <1>1, <1>3, KernelRelisting DEF KernelRelists, Kernel!Interrupted
<1>4. CASE Kernel!Keep
  <2>1. /\ Kernel!Loaded.parses /\ keeper' = [keeper EXCEPT !.reg = Kernel!Loaded]
        /\ ~keeper.saves
        /\ UNCHANGED <<file, compiled, registry, script, build, template, verdict>>
    BY <1>1, <1>4 DEF Kernel!Keep, Kernel!Loads
  <2>2. /\ keeper'.reg = Kernel!Loaded /\ keeper'.saves = keeper.saves
        /\ DOMAIN keeper' = {"saves", "reg"}
    BY <1>1, <2>1
  <2> QED
    BY <1>1, <1>2, <2>1, <2>2, KernelLoadedLists, KernelRelisting DEF KernelRelists
<1>5. CASE Kernel!Saved
  <2>1. /\ keeper.saves /\ registry' = keeper.reg
        /\ keeper' = [keeper EXCEPT !.saves = FALSE]
        /\ UNCHANGED <<file, compiled, script, build, template, verdict>>
    BY <1>5 DEF Kernel!Saved
  <2>2. /\ keeper'.reg = keeper.reg /\ keeper'.saves = FALSE
        /\ DOMAIN keeper' = {"saves", "reg"}
    BY <1>1, <2>1
  <2> QED
    BY <1>1, <2>1, <2>2, KernelRelisting DEF KernelRelists
<1>6. CASE Kernel!Forget
  <2>1. /\ keeper' = [saves |-> FALSE, reg |-> None]
        /\ UNCHANGED <<file, compiled, registry, script, build, template, verdict>>
    BY <1>6 DEF Kernel!Forget
  <2>2. /\ keeper'.reg = None /\ keeper'.saves = FALSE
        /\ DOMAIN keeper' = {"saves", "reg"}
    BY <2>1
  <2> QED
    BY <1>1, <2>1, <2>2, KernelRelisting DEF KernelRelists
<1>7. ASSUME NEW r \in Releases, Kernel!SetDefault(r)
      PROVE  KernelInv'
  <2> DEFINE old == IF registry = None THEN Kernel!Truncated ELSE registry
  <2>1. KernelLists(old)
    BY <1>1, KernelEmptyLists
  <2>2. /\ registry' = [old EXCEPT !.default = r]
        /\ UNCHANGED <<file, compiled, script, keeper, build, template, verdict>>
    BY <1>7 DEF Kernel!SetDefault
  <2> HIDE DEF old
  <2>3. KernelLists(registry')
    BY <2>1, <2>2, KernelDefault
  <2> QED
    BY <1>1, <2>2, <2>3, KernelRelisting DEF KernelRelists
<1>8. ASSUME NEW r \in Releases, Kernel!ChooseDefault(r)
      PROVE  KernelInv'
  <2> DEFINE new == [keeper.reg EXCEPT !.default = r]
  <2>1. /\ keeper.reg # None /\ keeper' = [saves |-> TRUE, reg |-> new]
        /\ registry' = Kernel!Truncated
        /\ UNCHANGED <<file, compiled, script, build, template, verdict>>
    BY <1>8 DEF Kernel!ChooseDefault, Kernel!Save
  <2>2. new = [keeper.reg EXCEPT !.default = r]
    OBVIOUS
  <2> HIDE DEF new
  <2>3. KernelLists(new) /\ new.parses
    BY <1>1, <2>1, <2>2, KernelDefault
  <2> QED
    BY <1>2, <2>1, <2>3, KernelEmptyLists, KernelRelisting DEF KernelRelists
<1> QED
  BY <1>3, <1>4, <1>5, <1>6, <1>7, <1>8

(* The steps of a build change nothing else.                                 *)
LEMMA KernelBuilding ==
  ASSUME KernelInv, UNCHANGED <<file, compiled, registry, script, keeper>>,
         build' \in KernelBuild
  PROVE  KernelTyped' /\ KernelRegistries'
  BY DEF KernelInv, KernelTyped, KernelRegistries, KernelLists

LEMMA KernelFinds ==
  ASSUME KernelInv, UNCHANGED <<file, compiled, registry, script, keeper, template, verdict>>,
         build' \in KernelBuild, template = None,
         KernelFound(build'), build'.at = "booted" => KernelBooted(build')
  PROVE  KernelInv'
<1>1. KernelTyped' /\ KernelRegistries'
  BY KernelBuilding
<1>2. \A b : KernelFound(b)' <=> KernelFound(b)
  BY DEF KernelFound, Between
<1>3. \A b : KernelBooted(b)' <=> KernelBooted(b)
  BY DEF KernelBooted, Between
<1>4. KernelBuilds'
  BY <1>2, <1>3 DEF KernelBuilds
<1>5. KernelVerdict'
  BY DEF KernelInv, KernelVerdict, Kernel!LoadsItsKernel
<1> QED
  BY <1>1, <1>4, <1>5 DEF KernelInv

LEMMA KernelIdle ==
  /\ Kernel!Idle \in KernelBuild /\ Kernel!Idle.at = "idle"
  /\ KernelFound(Kernel!Idle)
  BY DEF Kernel!Idle, KernelBuild, KernelFound, Kernel!Flat, Releases

LEMMA KernelResolve ==
  ASSUME KernelInv, NEW asked \in Releases \cup {None}, NEW p \in {"base", "gpu"},
         Kernel!Resolve(asked, p)
  PROVE  KernelInv'
<1> DEFINE reg == Kernel!Loaded
           r == IF asked = None THEN reg.default ELSE asked
           from == Kernel!Source(reg, r)
           h == reg.versions[r].hash
<1>1. /\ template = None /\ reg.parses /\ Kernel!Has(reg, from, p)
      /\ build' = [Kernel!Idle EXCEPT !.at = "resolved", !.place = from, !.profile = p,
                                      !.version = r, !.hash = h]
      /\ UNCHANGED <<file, compiled, registry, script, keeper, template, verdict>>
  BY DEF Kernel!Resolve, Kernel!Loads
<1>2. KernelLists(reg)
  BY KernelLoadedLists
<1>3. r \in Releases /\ from \in Releases
  BY <1>1, <1>2 DEF KernelLists, Kernel!Source
<1>4. reg.versions[r] \in Kernel!Listing /\ h \in 0 .. 2
  <2>1. reg.versions[r] \in Kernel!Listing
    BY <1>2, <1>3 DEF KernelLists, Kernel!Registry, Releases
  <2> QED
    BY <2>1 DEF Kernel!Listing
<1>5. file[from][p] # 0 /\ p \in reg.versions[from].profiles
  BY <1>1 DEF Kernel!Has
<1>6. h # 0 => from = r
  BY DEF Kernel!Source, Kernel!Listed, Kernel!Unlisted
<1>7. p = "base" /\ h # 0 => h <= file[r]["base"]
  BY <1>2, <1>3, <1>5, <1>6 DEF KernelLists
<1> HIDE DEF r, from, h, reg
<1>8. build' = [at |-> "resolved", place |-> from, profile |-> p, version |-> r,
                hash |-> h, kernel |-> 0, raced |-> FALSE]
  BY <1>1 DEF Kernel!Idle
<1>9. build' \in KernelBuild
  BY <1>3, <1>4, <1>8 DEF KernelBuild
<1>10. KernelFound(build')
  BY <1>3, <1>5, <1>6, <1>7, <1>8 DEF KernelFound
<1> QED
  BY <1>1, <1>8, <1>9, <1>10, KernelFinds

LEMMA KernelBuilder ==
  ASSUME KernelInv,
         \/ Kernel!ReadKernel \/ Kernel!Identify \/ Kernel!Abandon
         \/ \E place \in Releases \cup {"flat"}, p \in {"base", "gpu"} : Kernel!Point(place, p)
  PROVE  KernelInv'
<1>1. /\ build \in KernelBuild /\ KernelFound(build)
      /\ build.at # "idle" => template = None
  BY DEF KernelInv, KernelTyped, KernelBuilds
<1>2. \A q \in Releases \cup {"flat"}, p \in {"base", "gpu"} : file[q][p] \in Nat
  BY DEF KernelInv, KernelTyped
<1>3. CASE Kernel!ReadKernel
  <2> DEFINE k == file[build.place][build.profile]
  <2>1. /\ build.at = "resolved" /\ template = None
        /\ build' = [build EXCEPT !.at = "read", !.kernel = k]
        /\ UNCHANGED <<file, compiled, registry, script, keeper, template, verdict>>
    BY <1>1, <1>3 DEF Kernel!ReadKernel
  <2>2. k \in Nat /\ k # 0
    BY <1>1, <1>2, <2>1 DEF KernelBuild, KernelFound
  <2>3. build.profile = "base" => k = file[build.place]["base"]
    OBVIOUS
  <2> HIDE DEF k
  <2>4. build' = [at |-> "read", place |-> build.place, profile |-> build.profile,
                  version |-> build.version, hash |-> build.hash, kernel |-> k,
                  raced |-> build.raced]
    BY <1>1, <2>1 DEF KernelBuild
  <2>5. build' \in KernelBuild
    BY <1>1, <2>2, <2>4 DEF KernelBuild
  <2>6. file[build.place][build.profile] # 0
    BY <1>1, <2>1 DEF KernelFound
  <2>7. KernelFound(build')
    BY <1>1, <2>1, <2>2, <2>3, <2>4, <2>6 DEF KernelFound, Between, KernelBuild
  <2> QED
    BY <2>1, <2>4, <2>5, <2>7, KernelFinds
<1>4. CASE Kernel!Identify
  <2> DEFINE k == file[build.place][build.profile]
             h == IF build.hash = 0 THEN k ELSE build.hash
             v == IF build.version = None THEN "7.1.4" ELSE build.version
             raced == build.hash = 0 /\ build.kernel # k
  <2>1. /\ build.at = "read" /\ template = None
        /\ build' = [build EXCEPT !.at = "booted", !.hash = h, !.version = v, !.raced = raced]
        /\ UNCHANGED <<file, compiled, registry, script, keeper, template, verdict>>
    BY <1>1, <1>4 DEF Kernel!Identify
  <2>2. k \in Nat /\ k # 0
    BY <1>1, <1>2, <2>1 DEF KernelBuild, KernelFound
  <2>3. h \in Nat /\ h # 0 /\ v \in Releases /\ raced \in BOOLEAN
    BY <1>1, <2>2 DEF KernelBuild, Releases
  <2>4. ~raced => build.kernel = h \/ (build.hash = h /\ build.hash # 0)
    <3>1. CASE build.hash = 0
      BY <3>1
    <3>2. CASE build.hash # 0
      BY <3>2
    <3> QED
      BY <3>1, <3>2
  <2>5. build.version \in Releases => v = build.version
    BY Assumptions DEF Kernel!KernelsAssumption, Releases
  <2> HIDE DEF k, h, v, raced
  <2>6. build' = [at |-> "booted", place |-> build.place, profile |-> build.profile,
                  version |-> v, hash |-> h, kernel |-> build.kernel, raced |-> raced]
    BY <1>1, <2>1 DEF KernelBuild
  <2>7. build' \in KernelBuild
    BY <1>1, <2>3, <2>6 DEF KernelBuild
  <2>8. KernelFound(build')
    BY <2>6 DEF KernelFound
  <2>9. KernelBooted(build')
    BY <1>1, <2>1, <2>3, <2>4, <2>5, <2>6 DEF KernelBooted, KernelFound, Between
  <2> QED
    BY <2>1, <2>7, <2>8, <2>9, KernelFinds
<1>5. CASE Kernel!Abandon
  <2>1. /\ build' = Kernel!Idle /\ template = None
        /\ UNCHANGED <<file, compiled, registry, script, keeper, template, verdict>>
    BY <1>1, <1>5 DEF Kernel!Abandon
  <2> QED
    BY <2>1, KernelIdle, KernelFinds
<1>6. ASSUME NEW place \in Releases \cup {"flat"}, NEW p \in {"base", "gpu"}, Kernel!Point(place, p)
      PROVE  KernelInv'
  <2>1. /\ template = None /\ file[place][p] # 0
        /\ build' = [at |-> "resolved", place |-> place, profile |-> p, version |-> None,
                     hash |-> 0, kernel |-> 0, raced |-> FALSE]
        /\ UNCHANGED <<file, compiled, registry, script, keeper, template, verdict>>
    BY <1>6 DEF Kernel!Point, Kernel!Idle
  <2>2. build' \in KernelBuild
    BY <2>1 DEF KernelBuild
  <2>3. KernelFound(build')
    BY <2>1 DEF KernelFound
  <2> QED
    BY <2>1, <2>2, <2>3, KernelFinds
<1> QED
  BY <1>3, <1>4, <1>5, <1>6

(* The template is stored once, and then only looked at.                     *)
LEMMA KernelTemplate ==
  ASSUME KernelInv, Kernel!Store \/ Kernel!Load
  PROVE  KernelInv'
<1>1. CASE Kernel!Store
  <2>1. /\ build.at = "booted" /\ template = None /\ template' = build /\ build' = Kernel!Idle
        /\ verdict = None
        /\ UNCHANGED <<file, compiled, registry, script, keeper, verdict>>
    BY <1>1 DEF Kernel!Store, KernelInv, KernelBuilds, KernelVerdict
  <2>2. KernelTyped' /\ KernelRegistries'
    BY <2>1, KernelIdle, KernelBuilding
  <2>3. build \in KernelBuild /\ KernelBooted(build)
    BY <2>1 DEF KernelInv, KernelTyped, KernelBuilds
  <2>4. KernelBuilds'
    BY <2>1, <2>3, KernelIdle DEF KernelBuilds, KernelFound, KernelBooted, Between
  <2>5. KernelVerdict'
    BY <2>1 DEF KernelVerdict, Kernel!LoadsItsKernel
  <2> QED
    BY <2>2, <2>4, <2>5 DEF KernelInv
<1>2. CASE Kernel!Load
  <2> DEFINE found == file[template.version]["base"]
  <2>1. /\ template # None /\ verdict' = [ok |-> found # 0 /\ found = template.hash, base |-> found]
        /\ UNCHANGED <<file, compiled, registry, script, keeper, build, template>>
    BY <1>2 DEF Kernel!Load
  <2>2. KernelTyped' /\ KernelRegistries'
    BY <2>1, KernelBuilding DEF KernelInv, KernelTyped
  <2>3. KernelBuilds'
    BY <2>1 DEF KernelInv, KernelBuilds, KernelFound, KernelBooted, Between
  <2>4. ASSUME verdict'.ok, template.profile = "base", ~template.raced
        PROVE  template.kernel = verdict'.base
    <3>1. found = template.hash /\ verdict'.base = found
      BY <2>1, <2>4
    <3>2. template \in KernelBuild /\ (template.kernel = template.hash \/ Between(template))
      BY <2>1, <2>4 DEF KernelInv, KernelBuilds, KernelBooted
    <3>3. Between(template) => template.kernel = template.hash
      <4>1. \A q \in Releases : file[q]["base"] \in Nat
        BY DEF KernelInv, KernelTyped
      <4> QED
        BY <3>1, <3>2, <4>1 DEF Between, KernelBuild
    <3> QED
      BY <3>1, <3>2, <3>3
  <2>5. KernelVerdict'
    BY <2>1, <2>4 DEF KernelVerdict, Kernel!LoadsItsKernel
  <2> QED
    BY <2>2, <2>3, <2>5 DEF KernelInv
<1> QED
  BY <1>1, <1>2

LEMMA KernelStep == KernelInv /\ [Kernel!Next]_(Kernel!vars) => KernelInv'
<1> SUFFICES ASSUME KernelInv, [Kernel!Next]_(Kernel!vars)
             PROVE  KernelInv'
  OBVIOUS
<1>1. CASE Kernel!Next
  BY <1>1, KernelUpdate, KernelRegister, KernelInstall, KernelOther, KernelBuilder,
     KernelTemplate, KernelResolve
     DEF Kernel!Next, Kernel!Profile, Kernel!Flat, Releases
<1>2. CASE UNCHANGED Kernel!vars
  BY <1>2 DEF Kernel!vars, KernelInv, KernelTyped, KernelRegistries, KernelBuilds,
     KernelVerdict, KernelLists, KernelFound, KernelBooted, Between, Kernel!LoadsItsKernel
<1> QED
  BY <1>1, <1>2

LEMMA KernelTypeOK == KernelInv => Kernel!TypeOK
  BY DEF KernelInv, KernelTyped, KernelRegistries, KernelBuilds, KernelVerdict, KernelLists,
     KernelFound, KernelBooted, KernelBuild, Kernel!TypeOK, Kernel!Profile, Kernel!Flat, Releases

------------------------------------------------------------------------------
(* The template store.  As long as no two stores overlap there is one writer, *)
(* what it knows is what is listed, and it writes where nothing is listed; so *)
(* a listed directory never changes, and what a reader has read of it is what *)
(* it still holds.                                                            *)

StoreFile == {"mem", "state", "meta", "xsave", "net", "irqchips"}

StoreSession ==
  [at : Store!Steps, known : SUBSET Store!Template, goal : Store!Template,
   source : Capture \cup {Absent}, part : 0 .. 6,
   got : [StoreFile -> Store!Content \ {Torn}]]

Writing == {"write", "fill", "list", "listing"}

StoreTyped ==
  /\ disk \in [Store!Template -> [StoreFile -> Store!Content]]
  /\ listed \subseteq Store!Template /\ broken \in BOOLEAN
  /\ captured \subseteq Capture /\ overlapped \in BOOLEAN
  /\ session \in [Session -> StoreSession]

(* How far w is.                                                              *)
StorePlaced(w) ==
  /\ w.at \in {"idle", "open"} => w.part = 0
  /\ w.at \in Writing => w.source \in Capture
  /\ w.at \in {"write", "fill"} => w.part < Len(Store!Saved(w.source))
  /\ w.at \in {"list", "listing"} => w.part = Len(Store!Saved(w.source))
  /\ w.at = "load" => w.part < 6
  /\ w.at = "loaded" => w.part = 6
  /\ w.at \in {"load", "loaded"} /\ w.part >= 3 => w.got["mem"] = w.got["meta"]

(* What a reader makes of what it finds.                                      *)
Taken(found) == IF found = Torn THEN Absent ELSE found

(* What w knows, has written and has read, as long as no stores overlap.      *)
StoreFits(w) ==
  /\ w.at \in {"idle", "open", "load", "loaded"} => w.known \subseteq listed
  /\ w.at \in {"write", "fill", "list"} => w.known = listed
  /\ w.at = "listing" => w.known = listed \cup {w.goal}
  /\ w.at \in Writing =>
       /\ w.goal \notin listed
       /\ \A i \in 1 .. w.part : disk[w.goal][Store!Saved(w.source)[i]] = w.source
  /\ w.at \in {"load", "loaded"} =>
       /\ w.goal \in listed
       /\ \A i \in 1 .. w.part : w.got[Store!Read[i]] = Taken(disk[w.goal][Store!Read[i]])

StoreWhole(t) == \E c \in Capture : \A f \in Store!PartsOf(c) : disk[t][f] = c

StoreAlone ==
  /\ \A s, o \in Session : session[s].at \in Writing /\ session[o].at \in Writing => s = o
  /\ \A s \in Session : StoreFits(session[s])
  /\ \A t \in listed : StoreWhole(t)

StoreInv ==
  /\ StoreTyped
  /\ \A s \in Session : StorePlaced(session[s])
  /\ ~overlapped => StoreAlone

(* q is a list of the files of D, each of them on it once.                    *)
Lists(q, D) ==
  /\ q \in Seq(StoreFile)
  /\ \A i \in 1 .. Len(q) : q[i] \in D
  /\ \A i, j \in 1 .. Len(q) : q[i] = q[j] => i = j
  /\ \A g \in D : \E i \in 1 .. Len(q) : q[i] = g

(* Snapshot::save writes the three files every capture has and those of the   *)
(* others this one has: at most six, each of them a file of the capture.      *)
LEMMA StoreWith ==
  ASSUME NEW c \in Capture, NEW f \in StoreFile, NEW q, NEW D, Lists(q, D), f \notin D,
         NEW r, r = Store!With(q, f, c),
         NEW E, E = IF f \in MCOptional[c] THEN D \cup {f} ELSE D
  PROVE  Lists(r, E) /\ Len(r) \in {Len(q), Len(q) + 1}
<1> USE DEF Lists
<1>1. CASE f \in MCOptional[c]
  <2>1. r = Append(q, f)
    BY <1>1 DEF Store!With
  <2>2. /\ Append(q, f) \in Seq(StoreFile) /\ Len(Append(q, f)) = Len(q) + 1
        /\ \A i \in 1 .. Len(q) : Append(q, f)[i] = q[i]
        /\ Append(q, f)[Len(q) + 1] = f
    BY AppendProperties
  <2>3. Len(q) \in Nat
    OBVIOUS
  <2>4. \A i \in 1 .. Len(q) + 1 : Append(q, f)[i] \in D \cup {f}
    BY <2>2, <2>3
  <2>5. \A g \in D \cup {f} : \E i \in 1 .. Len(q) + 1 : Append(q, f)[i] = g
    <3>1. Len(q) + 1 \in 1 .. Len(q) + 1 /\ 1 .. Len(q) \subseteq 1 .. Len(q) + 1
      BY <2>3
    <3> QED
      BY <2>2, <3>1, Zenon
  <2>6. \A i, j \in 1 .. Len(q) + 1 : Append(q, f)[i] = Append(q, f)[j] => i = j
    BY <2>2, <2>3
  <2> QED
    BY <1>1, <2>1, <2>2, <2>4, <2>5, <2>6
<1>2. CASE f \notin MCOptional[c]
  BY <1>2 DEF Store!With
<1> QED
  BY <1>1, <1>2

LEMMA StoreSaved ==
  ASSUME NEW c \in Capture
  PROVE  Lists(Store!Saved(c), Store!PartsOf(c)) /\ Len(Store!Saved(c)) \in 3 .. 6
<1> DEFINE q0 == <<"mem", "state", "meta">>
           D0 == {"mem", "state", "meta"}
           q1 == Store!With(q0, "xsave", c)
           D1 == IF "xsave" \in MCOptional[c] THEN D0 \cup {"xsave"} ELSE D0
           q2 == Store!With(q1, "net", c)
           D2 == IF "net" \in MCOptional[c] THEN D1 \cup {"net"} ELSE D1
           q3 == Store!With(q2, "irqchips", c)
           D3 == IF "irqchips" \in MCOptional[c] THEN D2 \cup {"irqchips"} ELSE D2
<1>1. Lists(q0, D0) /\ Len(q0) = 3
  <2>1. q0 \in Seq(StoreFile) /\ Len(q0) = 3 /\ q0[1] = "mem" /\ q0[2] = "state" /\ q0[3] = "meta"
    BY DEF StoreFile
  <2> QED
    BY <2>1 DEF Lists
<1>2. /\ "xsave" \in StoreFile /\ "net" \in StoreFile /\ "irqchips" \in StoreFile
      /\ "xsave" \notin D0 /\ "net" \notin D1 /\ "irqchips" \notin D2
  BY DEF StoreFile
<1>3. Lists(q1, D1) /\ Len(q1) \in {Len(q0), Len(q0) + 1}
  <2>1. q1 = Store!With(q0, "xsave", c)
    OBVIOUS
  <2>2. D1 = IF "xsave" \in MCOptional[c] THEN D0 \cup {"xsave"} ELSE D0
    OBVIOUS
  <2> HIDE DEF q0, D0, q1, D1
  <2> QED
    BY <1>1, <1>2, <2>1, <2>2, StoreWith
<1>4. Lists(q2, D2) /\ Len(q2) \in {Len(q1), Len(q1) + 1}
  <2>1. q2 = Store!With(q1, "net", c)
    OBVIOUS
  <2>2. D2 = IF "net" \in MCOptional[c] THEN D1 \cup {"net"} ELSE D1
    OBVIOUS
  <2> HIDE DEF q1, D1, q2, D2
  <2> QED
    BY <1>2, <1>3, <2>1, <2>2, StoreWith
<1>5. Lists(q3, D3) /\ Len(q3) \in {Len(q2), Len(q2) + 1}
  BY <1>2, <1>4, StoreWith
<1>6. D3 = Store!PartsOf(c)
  <2>1. MCOptional[c] \subseteq {"xsave", "net", "irqchips"}
    BY Assumptions DEF Store!StoreAssumption, Store!OptionalParts
  <2> QED
    BY <2>1 DEF Store!PartsOf, Store!Mandatory
<1>7. q3 = Store!Saved(c)
  BY DEF Store!Saved
<1>8. Len(q0) = 3
  BY <1>1
<1> HIDE DEF q0, q1, q2, q3, D3
<1>9. Len(q3) \in 3 .. 6
  <2>1. \A k, l, m : /\ k \in {3, 3 + 1} /\ l \in {k, k + 1} /\ m \in {l, l + 1}
                     => m \in 3 .. 6
    OBVIOUS
  <2> QED
    BY <1>3, <1>4, <1>5, <1>8, <2>1, Zenon
<1> QED
  BY <1>5, <1>6, <1>7, <1>9

(* load reads every file, mem after meta.                                     *)
LEMMA StoreRead ==
  /\ Store!Read[1] = "state" /\ Store!Read[2] = "meta" /\ Store!Read[3] = "mem"
  /\ Store!Read[4] = "xsave" /\ Store!Read[5] = "irqchips" /\ Store!Read[6] = "net"
  /\ Store!Last(Store!Read) = "net"
  BY DEF Store!Read, Store!Last

(* latest_version: none, or the greatest that is listed.                      *)
LEMMA StoreLatest ==
  ASSUME NEW T, T \subseteq Store!Template, NEW v \in Variant
  PROVE  LET n == Store!Latest(T, v)
         IN  /\ n \in 0 .. MaxVersion
             /\ n # 0 => <<v, n>> \in T
             /\ \A m \in 1 .. MaxVersion : <<v, m>> \in T => m <= n
<1> DEFINE N == {n \in Store!Version : <<v, n>> \in T}
<1>1. MaxVersion \in Nat /\ Store!Version = 1 .. MaxVersion
  BY Assumptions DEF Store!StoreAssumption, Store!Version
<1>2. CASE N = {}
  <2>1. Store!Latest(T, v) = 0
    BY <1>2 DEF Store!Latest
  <2> QED
    BY <1>1, <1>2, <2>1
<1>3. CASE N # {}
  <2>1. \E n \in N : \A m \in N : m <= n
    <3> DEFINE S == {MaxVersion - n : n \in N}
    <3>1. S \in SUBSET Nat /\ S # {}
      <4>1. \A n \in N : MaxVersion - n \in Nat
        BY <1>1
      <4> QED
        BY <4>1, <1>3
    <3>2. PICK k \in S : \A j \in S : k <= j
      BY <3>1, LeastExists
    <3>3. PICK n \in N : k = MaxVersion - n
      OBVIOUS
    <3>4. \A m \in N : MaxVersion - n <= MaxVersion - m
      BY <3>2, <3>3
    <3> QED
      BY <1>1, <3>3, <3>4
  <2> DEFINE n == CHOOSE n \in N : \A o \in N : o <= n
  <2>2. n \in N /\ \A m \in N : m <= n
    BY <2>1
  <2>3. Store!Latest(T, v) = n
    BY <1>3 DEF Store!Latest
  <2> QED
    BY <1>1, <2>2, <2>3
<1> QED
  BY <1>2, <1>3

LEMMA StoreSets ==
  /\ Store!SnapFile = StoreFile /\ Store!Content = Capture \cup {Absent, Torn}
  /\ Absent \notin Capture /\ Torn \notin Capture /\ Absent # Torn
  /\ MaxVersion \in Nat \ {0} /\ Store!Version = 1 .. MaxVersion
  /\ Store!Template = Variant \X (1 .. MaxVersion) /\ Store!Template # {}
<1>1. Store!StoreAssumption
  BY Assumptions
<1>2. \E v \in Variant : <<v, 1>> \in Variant \X (1 .. MaxVersion)
  BY <1>1 DEF Store!StoreAssumption
<1> QED
  BY <1>1, <1>2 DEF Store!StoreAssumption, Store!SnapFile, Store!Mandatory, Store!OptionalParts,
     StoreFile, Store!Content, Store!Version, Store!Template

LEMMA StoreFresh ==
  /\ Store!Fresh \in StoreSession /\ Store!Fresh.at = "idle" /\ Store!Fresh.known = {}
  /\ StorePlaced(Store!Fresh) /\ StoreFits(Store!Fresh)
<1>1. Store!Nothing \in [StoreFile -> Store!Content \ {Torn}]
  BY StoreSets DEF Store!Nothing
<1>2. (CHOOSE t \in Store!Template : TRUE) \in Store!Template
  BY StoreSets
<1> DEFINE g == CHOOSE t \in Store!Template : TRUE
           n == Store!Nothing
<1>3. Store!Fresh = [at |-> "idle", known |-> {}, goal |-> g, source |-> Absent, part |-> 0, got |-> n]
  BY DEF Store!Fresh
<1> HIDE DEF g, n
<1> QED
  BY <1>1, <1>2, <1>3 DEF StoreSession, StorePlaced, StoreFits, Writing, Store!Steps, g, n

(* A step that leaves the files and the list alone is right when the one      *)
(* session that takes it ends where it may be.                                *)
LEMMA StoreTurns ==
  ASSUME StoreInv, NEW s \in Session, NEW w \in StoreSession,
         session' = [session EXCEPT ![s] = w], StorePlaced(w),
         UNCHANGED <<disk, listed>>, broken' \in BOOLEAN, captured' \subseteq Capture,
         overlapped' \in BOOLEAN, ~overlapped' => ~overlapped /\ StoreFits(w),
         ~overlapped' /\ w.at \in Writing /\ session[s].at \notin Writing
           => \A o \in Session : session[o].at \notin Writing
  PROVE  StoreInv'
<1>1. StoreTyped'
  BY DEF StoreInv, StoreTyped
<1>2. \A o \in Session : session'[o] = IF o = s THEN w ELSE session[o]
  BY DEF StoreInv, StoreTyped
<1>3. \A o \in Session : StorePlaced(session'[o])
  BY <1>2 DEF StoreInv
<1>4. ASSUME ~overlapped'
      PROVE  StoreAlone'
  <2>1. StoreAlone
    BY <1>4 DEF StoreInv
  <2>2. ASSUME NEW a \in Session, NEW o \in Session,
               session'[a].at \in Writing, session'[o].at \in Writing
        PROVE  a = o
    <3>1. CASE session[s].at \in Writing
      BY <1>2, <2>1, <2>2, <3>1 DEF StoreAlone
    <3>2. CASE session[s].at \notin Writing
      BY <1>2, <1>4, <2>1, <2>2, <3>2 DEF StoreAlone
    <3> QED
      BY <3>1, <3>2
  <2>3. ASSUME NEW o \in Session
        PROVE  StoreFits(session[o])'
    <3>1. StoreFits(session'[o])
      BY <1>2, <1>4, <2>1 DEF StoreAlone
    <3> QED
      BY <3>1 DEF StoreFits
  <2>4. \A t \in listed' : StoreWhole(t)'
    BY <2>1 DEF StoreAlone, StoreWhole
  <2> QED
    BY <2>2, <2>3, <2>4 DEF StoreAlone
<1> QED
  BY <1>1, <1>3, <1>4 DEF StoreInv, StorePlaced

LEMMA StoreMoves ==
  ASSUME StoreInv, NEW s \in Session, NEW w \in StoreSession,
         session' = [session EXCEPT ![s] = w], StorePlaced(w), ~overlapped => StoreFits(w),
         w.at \in Writing => session[s].at \in Writing,
         UNCHANGED <<disk, listed, overlapped>>, broken' \in BOOLEAN, captured' \subseteq Capture
  PROVE  StoreInv'
<1>1. overlapped' = overlapped /\ overlapped \in BOOLEAN
  BY DEF StoreInv, StoreTyped
<1>2. ~overlapped' => ~overlapped /\ StoreFits(w)
  BY <1>1
<1>3. ~overlapped' /\ w.at \in Writing /\ session[s].at \notin Writing
        => \A o \in Session : session[o].at \notin Writing
  OBVIOUS
<1>4. UNCHANGED <<disk, listed>> /\ overlapped' \in BOOLEAN
  BY <1>1
<1> QED
  BY <1>2, <1>3, <1>4, StoreTurns

LEMMA StoreKnows ==
  ASSUME NEW x \in StoreSession, NEW a, NEW k
  PROVE  [x EXCEPT !.at = a, !.known = k] =
           [at |-> a, known |-> k, goal |-> x.goal, source |-> x.source,
            part |-> x.part, got |-> x.got]
<1> DEFINE y == [x EXCEPT !.at = a]
<1>1. y \in [at : {a}, known : SUBSET Store!Template, goal : Store!Template,
             source : Capture \cup {Absent}, part : 0 .. 6,
             got : [StoreFile -> Store!Content \ {Torn}]]
  BY DEF StoreSession
<1>2. y = [at |-> a, known |-> x.known, goal |-> x.goal, source |-> x.source,
           part |-> x.part, got |-> x.got]
  BY DEF StoreSession
<1> HIDE DEF y
<1>3. [y EXCEPT !.known = k] = [at |-> y.at, known |-> k, goal |-> y.goal, source |-> y.source,
                                part |-> y.part, got |-> y.got]
  BY <1>1
<1> QED
  BY <1>2, <1>3 DEF y

LEMMA StoreAims ==
  ASSUME NEW x \in StoreSession, NEW a, NEW k
  PROVE  [x EXCEPT !.at = a, !.goal = k] =
           [at |-> a, known |-> x.known, goal |-> k, source |-> x.source,
            part |-> x.part, got |-> x.got]
<1> DEFINE y == [x EXCEPT !.at = a]
<1>1. y \in [at : {a}, known : SUBSET Store!Template, goal : Store!Template,
             source : Capture \cup {Absent}, part : 0 .. 6,
             got : [StoreFile -> Store!Content \ {Torn}]]
  BY DEF StoreSession
<1>2. y = [at |-> a, known |-> x.known, goal |-> x.goal, source |-> x.source,
           part |-> x.part, got |-> x.got]
  BY DEF StoreSession
<1> HIDE DEF y
<1>3. [y EXCEPT !.goal = k] = [at |-> y.at, known |-> y.known, goal |-> k, source |-> y.source,
                               part |-> y.part, got |-> y.got]
  BY <1>1
<1> QED
  BY <1>2, <1>3 DEF y

LEMMA StoreOpen ==
  ASSUME StoreInv, NEW s \in Session, Store!Open(s)
  PROVE  StoreInv'
<1> DEFINE x == session[s]
           k == listed
           w == [at |-> "open", known |-> k, goal |-> x.goal, source |-> x.source,
                 part |-> x.part, got |-> x.got]
<1>1. /\ x.at = "idle" /\ ~broken /\ UNCHANGED <<disk, listed, broken, captured, overlapped>>
      /\ session' = [session EXCEPT ![s].at = "open", ![s].known = listed]
  BY DEF Store!Open
<1>2. x \in StoreSession /\ StorePlaced(x) /\ session \in [Session -> StoreSession]
      /\ listed \in SUBSET Store!Template /\ captured \subseteq Capture /\ broken \in BOOLEAN
  BY DEF StoreInv, StoreTyped
<1>3. session' = [session EXCEPT ![s] = w]
  <2> HIDE DEF k
  <2>1. session' = [session EXCEPT ![s] = [x EXCEPT !.at = "open", !.known = k]]
    BY <1>1, <1>2 DEF k
  <2>2. [x EXCEPT !.at = "open", !.known = k] = w
    <3> HIDE DEF x
    <3> QED
      BY <1>2, StoreKnows
  <2> QED
    BY <2>1, <2>2
<1>4. w \in StoreSession
  BY <1>2 DEF StoreSession, Store!Steps
<1>5. StorePlaced(w)
  BY <1>1, <1>2 DEF StorePlaced, Writing
<1>6. StoreFits(w)
  BY DEF StoreFits, Writing
<1>7. w.at \notin Writing
  BY DEF Writing
<1> HIDE DEF w, x
<1> QED
  BY <1>1, <1>2, <1>3, <1>4, <1>5, <1>6, <1>7, StoreMoves

LEMMA StoreGivesUp ==
  ASSUME StoreInv, NEW s \in Session, session' = [session EXCEPT ![s] = Store!Fresh],
         UNCHANGED <<disk, listed, broken, captured, overlapped>>
  PROVE  StoreInv'
<1>1. broken \in BOOLEAN /\ captured \subseteq Capture
  BY DEF StoreInv, StoreTyped
<1>2. Store!Fresh.at \notin Writing
  BY StoreFresh DEF Writing
<1> QED
  BY <1>1, <1>2, StoreFresh, StoreMoves

LEMMA StoreLists ==
  ASSUME StoreInv, NEW s \in Session, Store!List(s)
  PROVE  StoreInv'
<1> DEFINE x == session[s]
           k == x.known \cup {x.goal}
           w == [at |-> "listing", known |-> k, goal |-> x.goal,
                 source |-> x.source, part |-> x.part, got |-> x.got]
<1>1. /\ x.at = "list" /\ broken' = TRUE /\ UNCHANGED <<disk, listed, captured, overlapped>>
      /\ session' = [session EXCEPT ![s].at = "listing", ![s].known = @ \cup {session[s].goal}]
  BY DEF Store!List
<1>2. x \in StoreSession /\ StorePlaced(x) /\ session \in [Session -> StoreSession]
      /\ captured \subseteq Capture
  BY DEF StoreInv, StoreTyped
<1>3. session' = [session EXCEPT ![s] = w]
  <2> HIDE DEF k
  <2>1. session' = [session EXCEPT ![s] = [x EXCEPT !.at = "listing", !.known = k]]
    BY <1>1, <1>2 DEF k
  <2>2. [x EXCEPT !.at = "listing", !.known = k] = w
    <3> HIDE DEF x
    <3> QED
      BY <1>2, StoreKnows
  <2> QED
    BY <2>1, <2>2
<1>4. w \in StoreSession
  BY <1>2 DEF StoreSession, Store!Steps
<1>5. StorePlaced(w)
  BY <1>1, <1>2 DEF StorePlaced, Writing
<1>6. ~overlapped => StoreFits(w)
  <2>1. ~overlapped => StoreFits(x)
    BY DEF StoreInv, StoreAlone
  <2> QED
    BY <1>1, <2>1 DEF StoreFits, Writing
<1>7. x.at \in Writing
  BY <1>1 DEF Writing
<1> HIDE DEF w
<1> QED
  BY <1>1, <1>2, <1>3, <1>4, <1>5, <1>6, <1>7, StoreMoves

LEMMA StoreBeginLoad ==
  ASSUME StoreInv, NEW s \in Session, NEW v \in Variant, Store!BeginLoad(s, v)
  PROVE  StoreInv'
<1> DEFINE x == session[s]
           n == Store!Latest(x.known, v)
           k == <<v, n>>
           w == [at |-> "load", known |-> x.known, goal |-> k, source |-> x.source,
                 part |-> x.part, got |-> x.got]
<1>1. /\ x.at = "open" /\ n > 0 /\ UNCHANGED <<disk, listed, broken, captured, overlapped>>
      /\ session' = [session EXCEPT ![s].at = "load", ![s].goal = <<v, n>>]
  BY DEF Store!BeginLoad
<1>2. x \in StoreSession /\ StorePlaced(x) /\ session \in [Session -> StoreSession]
      /\ broken \in BOOLEAN /\ captured \subseteq Capture
  BY DEF StoreInv, StoreTyped
<1>3. x.known \subseteq Store!Template
  BY <1>2 DEF StoreSession
<1>4. n \in 0 .. MaxVersion /\ (n # 0 => <<v, n>> \in x.known)
  BY <1>3, StoreLatest
<1>5. <<v, n>> \in x.known
  BY <1>1, <1>4
<1> HIDE DEF n
<1>6. session' = [session EXCEPT ![s] = w]
  <2> HIDE DEF k
  <2>1. session' = [session EXCEPT ![s] = [x EXCEPT !.at = "load", !.goal = k]]
    BY <1>1, <1>2 DEF k
  <2>2. [x EXCEPT !.at = "load", !.goal = k] = w
    <3> HIDE DEF x
    <3> QED
      BY <1>2, StoreAims
  <2> QED
    BY <2>1, <2>2
<1>7. w \in StoreSession
  BY <1>2, <1>3, <1>5 DEF StoreSession, Store!Steps
<1>8. StorePlaced(w)
  BY <1>1, <1>2 DEF StorePlaced, Writing
<1>9. ~overlapped => StoreFits(w)
  <2>1. ~overlapped => StoreFits(x)
    BY DEF StoreInv, StoreAlone
  <2>2. x.part = 0
    BY <1>1, <1>2 DEF StorePlaced
  <2> QED
    BY <1>1, <1>5, <2>1, <2>2 DEF StoreFits, Writing
<1>10. w.at \notin Writing
  BY DEF Writing
<1> HIDE DEF w, x
<1> QED
  BY <1>1, <1>2, <1>6, <1>7, <1>8, <1>9, <1>10, StoreMoves

LEMMA StoreReadNext ==
  ASSUME StoreInv, NEW s \in Session, Store!ReadNext(s)
  PROVE  StoreInv'
<1> DEFINE x == session[s]
           f == Store!Read[x.part + 1]
           found == disk[x.goal][f]
           w == [at |-> IF f = Store!Last(Store!Read) THEN "loaded" ELSE "load",
                 known |-> x.known, goal |-> x.goal, source |-> x.source,
                 part |-> x.part + 1, got |-> [x.got EXCEPT ![f] = Taken(found)]]
<1>1. /\ x.at = "load" /\ UNCHANGED <<disk, listed, broken, captured, overlapped>>
      /\ session' = IF Store!Accepted(f, found, x.got)
                    THEN [session EXCEPT ![s].got[f] = Taken(found), ![s].part = @ + 1,
                              ![s].at = IF f = Store!Last(Store!Read) THEN "loaded" ELSE @]
                    ELSE [session EXCEPT ![s] = Store!Fresh]
  BY DEF Store!ReadNext, Taken
<1>2. x \in StoreSession /\ StorePlaced(x) /\ session \in [Session -> StoreSession]
      /\ broken \in BOOLEAN /\ captured \subseteq Capture
      /\ disk \in [Store!Template -> [StoreFile -> Store!Content]]
  BY DEF StoreInv, StoreTyped
<1>3. x.part \in 0 .. 5
  BY <1>1, <1>2 DEF StorePlaced, StoreSession
<1>4. f \in StoreFile /\ (f = Store!Last(Store!Read) <=> x.part = 5)
      /\ (f = "mem" <=> x.part = 2) /\ (f = "meta" <=> x.part = 1)
  BY <1>3, StoreRead DEF StoreFile
<1>5. CASE ~Store!Accepted(f, found, x.got)
  BY <1>1, <1>5, StoreGivesUp
<1>6. CASE Store!Accepted(f, found, x.got)
  <2>1. Taken(found) \in Store!Content \ {Torn}
    BY <1>2, <1>4, StoreSets DEF StoreSession, Taken
  <2>2. f = "mem" => found = x.got["meta"]
    BY <1>6 DEF Store!Accepted
  <2>3. f = "mem" => Taken(found) = x.got["meta"]
    BY <1>2, <2>2, StoreSets DEF StoreSession, Taken, StoreFile
  <2>4. \A i \in 1 .. x.part : Store!Read[i] # f
    BY <1>3, StoreRead
  <2> DEFINE k == Taken(found)
  <2> HIDE DEF f, found, k
  <2>5. session' = [session EXCEPT ![s] = w]
    BY <1>1, <1>2, <1>6 DEF StoreSession
  <2>6. w \in StoreSession
    BY <1>2, <1>3, <1>4, <2>1 DEF StoreSession, Store!Steps
  <2>7. StorePlaced(w)
    BY <1>1, <1>2, <1>3, <1>4, <2>3 DEF StorePlaced, Writing, StoreSession
  <2>8. ~overlapped => StoreFits(w)
    BY <1>1, <1>2, <1>3, <1>4, <2>4 DEF StoreInv, StoreAlone, StoreFits, StoreSession, Writing, found, f
  <2>9. w.at \notin Writing
    BY DEF Writing
  <2> HIDE DEF w, x
  <2> QED
    BY <1>1, <1>2, <2>5, <2>6, <2>7, <2>8, <2>9, StoreMoves
<1> QED
  BY <1>5, <1>6

(* next_version of the list as it is: nothing is listed there.                *)
LEMMA StoreBegins ==
  ASSUME StoreInv, NEW s \in Session, NEW v \in Variant, NEW c \in Capture, Store!BeginStore(s, v, c)
  PROVE  StoreInv'
<1> DEFINE x == session[s]
           n == Store!Latest(x.known, v)
           k == <<v, n + 1>>
           w == [at |-> "write", known |-> x.known, goal |-> k, source |-> c,
                 part |-> x.part, got |-> x.got]
<1>1. /\ x.at = "open" /\ n < MaxVersion /\ UNCHANGED <<disk, listed, broken>>
      /\ captured' = captured \cup {c}
      /\ overlapped' = (overlapped \/ x.known # listed \/ \E o \in Session : Store!Storing(o))
      /\ session' = [session EXCEPT ![s].at = "write", ![s].source = c, ![s].goal = k]
  BY DEF Store!BeginStore
<1>2. x \in StoreSession /\ StorePlaced(x) /\ session \in [Session -> StoreSession]
      /\ broken \in BOOLEAN /\ captured \subseteq Capture
  BY DEF StoreInv, StoreTyped
<1>3. x.known \subseteq Store!Template
  BY <1>2 DEF StoreSession
<1>4. n \in 0 .. MaxVersion /\ \A m \in 1 .. MaxVersion : <<v, m>> \in x.known => m <= n
  BY <1>3, StoreLatest
<1> HIDE DEF n
<1>5. k \in Store!Template /\ k \notin x.known
  BY <1>1, <1>4, StoreSets
<1> HIDE DEF k
<1>6. session' = [session EXCEPT ![s] = w]
  <2> DEFINE y == [x EXCEPT !.at = "write"]
             z == [y EXCEPT !.source = c]
  <2>1. session' = [session EXCEPT ![s] = [z EXCEPT !.goal = k]]
    BY <1>1, <1>2
  <2> HIDE DEF x
  <2>2. y \in StoreSession
    BY <1>2 DEF StoreSession, Store!Steps
  <2>3. y = [at |-> "write", known |-> x.known, goal |-> x.goal, source |-> x.source,
             part |-> x.part, got |-> x.got]
    BY <1>2 DEF StoreSession
  <2> HIDE DEF y
  <2>4. z \in StoreSession
    BY <2>2 DEF StoreSession
  <2>5. z = [at |-> y.at, known |-> y.known, goal |-> y.goal, source |-> c, part |-> y.part,
             got |-> y.got]
    BY <2>2 DEF StoreSession
  <2> HIDE DEF z
  <2>6. [z EXCEPT !.goal = k] = [at |-> z.at, known |-> z.known, goal |-> k, source |-> z.source,
                                 part |-> z.part, got |-> z.got]
    BY <2>4 DEF StoreSession
  <2> QED
    BY <2>1, <2>3, <2>5, <2>6
<1>7. w \in StoreSession
  BY <1>2, <1>5 DEF StoreSession, Store!Steps
<1>8. x.part = 0
  BY <1>1, <1>2 DEF StorePlaced
<1>9. StorePlaced(w)
  <2>1. w.at = "write" /\ w.part = 0 /\ w.source = c
    BY <1>8
  <2>2. 0 < Len(Store!Saved(c))
    BY StoreSaved
  <2> HIDE DEF w
  <2> QED
    BY <2>1, <2>2 DEF StorePlaced, Writing
<1>10. ~overlapped' => ~overlapped /\ StoreFits(w)
  <2>1. ~overlapped' => ~overlapped /\ x.known = listed
    BY <1>1
  <2>2. w.at = "write" /\ w.known = x.known /\ w.goal = k /\ w.part = 0
    BY <1>8
  <2> HIDE DEF w, x
  <2>3. 1 .. w.part = {}
    BY <2>2
  <2> QED
    BY <1>5, <2>1, <2>2, <2>3 DEF StoreFits, Writing
<1>11. ~overlapped' => \A o \in Session : session[o].at \notin Writing
  BY <1>1 DEF Store!Storing, Writing
<1>12. overlapped' \in BOOLEAN /\ captured' \subseteq Capture /\ broken' \in BOOLEAN
  BY <1>1, <1>2 DEF StoreInv, StoreTyped
<1>13. UNCHANGED <<disk, listed>>
  BY <1>1
<1> HIDE DEF w
<1> QED
  BY <1>6, <1>7, <1>9, <1>10, <1>11, <1>12, <1>13, StoreTurns

(* A file of the one store there is: it is not listed, and no reader reads it.*)
LEMMA StoreWrites ==
  ASSUME StoreInv, NEW s \in Session, NEW x, x = session[s], NEW w \in StoreSession,
         NEW f, f = Store!Saved(x.source)[x.part + 1], NEW z \in {Torn, x.source},
         x.at \in {"write", "fill"}, w.at \in {"write", "fill", "list"},
         w.known = x.known, w.goal = x.goal, w.source = x.source,
         w.part = x.part \/ (w.part = x.part + 1 /\ z = x.source), StorePlaced(w),
         session' = [session EXCEPT ![s] = w], disk' = [disk EXCEPT ![x.goal][f] = z],
         UNCHANGED <<listed, broken, captured, overlapped>>
  PROVE  StoreInv'
<1>1. x \in StoreSession /\ StorePlaced(x)
  BY DEF StoreInv, StoreTyped
<1>2. x.source \in Capture /\ x.part \in 0 .. 6 /\ x.goal \in Store!Template
      /\ x.part < Len(Store!Saved(x.source))
  BY <1>1 DEF StorePlaced, StoreSession, Writing
<1>3. Lists(Store!Saved(x.source), Store!PartsOf(x.source)) /\ Len(Store!Saved(x.source)) \in 3 .. 6
  BY <1>2, StoreSaved
<1>4. f \in StoreFile
  BY <1>2, <1>3 DEF Lists
<1>5. \A i \in 1 .. x.part : Store!Saved(x.source)[i] \in StoreFile /\ Store!Saved(x.source)[i] # f
  <2>1. \A i \in 1 .. x.part : i \in 1 .. Len(Store!Saved(x.source)) /\ i # x.part + 1
    BY <1>2, <1>3
  <2>2. x.part + 1 \in 1 .. Len(Store!Saved(x.source))
    BY <1>2, <1>3
  <2> QED
    BY <1>3, <2>1, <2>2 DEF Lists
<1>6. disk \in [Store!Template -> [StoreFile -> Store!Content]]
  BY DEF StoreInv, StoreTyped
<1>7. z \in Store!Content
  BY <1>2, StoreSets
<1>8. disk' \in [Store!Template -> [StoreFile -> Store!Content]]
  BY <1>2, <1>4, <1>6, <1>7
<1>9. \A t \in Store!Template, g \in StoreFile :
        disk'[t][g] = IF t = x.goal /\ g = f THEN z ELSE disk[t][g]
  BY <1>2, <1>4, <1>6
<1>10. StoreTyped'
  BY <1>8 DEF StoreInv, StoreTyped
<1>11. \A o \in Session : session'[o] = IF o = s THEN w ELSE session[o]
  BY DEF StoreInv, StoreTyped
<1>12. \A o \in Session : StorePlaced(session'[o])
  BY <1>11 DEF StoreInv
<1>13. ASSUME ~overlapped
       PROVE  StoreAlone'
  <2>1. StoreAlone
    BY <1>13 DEF StoreInv
  <2>2. x.goal \notin listed /\ x.known = listed
        /\ \A i \in 1 .. x.part : disk[x.goal][Store!Saved(x.source)[i]] = x.source
    BY <2>1 DEF StoreAlone, StoreFits, Writing
  <2>3. \A a, o \in Session : session'[a].at \in Writing /\ session'[o].at \in Writing => a = o
    BY <1>11, <2>1 DEF StoreAlone, Writing
  <2>4. StoreFits(w)'
    <3>1. ASSUME NEW i \in 1 .. w.part
          PROVE  disk'[x.goal][Store!Saved(x.source)[i]] = x.source
      <4>1. CASE i \in 1 .. x.part
        BY <1>2, <1>5, <1>9, <2>2, <4>1
      <4>2. CASE i = x.part + 1
        BY <1>2, <1>4, <1>9, <3>1, <4>2
      <4> QED
        BY <1>2, <4>1, <4>2
    <3> QED
      BY <2>2, <3>1 DEF StoreFits, Writing
  <2>5. ASSUME NEW o \in Session, o # s
        PROVE  StoreFits(session[o])'
    <3> DEFINE y == session[o]
    <3>1. y.at \notin Writing /\ StoreFits(y) /\ y \in StoreSession
      BY <2>1, <2>5 DEF StoreInv, StoreTyped, StoreAlone, Writing
    <3>2. session'[o] = y
      BY <1>11, <2>5
    <3>3. y.at \in {"load", "loaded"} =>
            \A i \in 1 .. y.part : disk'[y.goal][Store!Read[i]] = disk[y.goal][Store!Read[i]]
      <4>1. y.at \in {"load", "loaded"} => y.goal \in listed /\ y.goal # x.goal
        BY <2>2, <3>1 DEF StoreFits
      <4>2. y.part \in 0 .. 6 /\ y.goal \in Store!Template
        BY <3>1 DEF StoreSession
      <4>3. \A i \in 1 .. 6 : Store!Read[i] \in StoreFile
        BY StoreRead DEF StoreFile
      <4> QED
        BY <1>9, <4>1, <4>2, <4>3
    <3> HIDE DEF y
    <3>4. y.at \in {"idle", "open", "load", "loaded"} \/ y.at \in {"write", "fill", "list"}
          \/ y.at = "listing"
      BY <3>1 DEF StoreSession, Store!Steps
    <3> QED
      BY <3>1, <3>2, <3>3 DEF StoreFits, Writing
  <2>6. \A t \in listed' : StoreWhole(t)'
    <3>1. ASSUME NEW t \in listed
          PROVE  \E c \in Capture : \A g \in Store!PartsOf(c) : disk'[t][g] = c
      <4>1. PICK c \in Capture : \A g \in Store!PartsOf(c) : disk[t][g] = c
        BY <2>1 DEF StoreAlone, StoreWhole
      <4>2. t \in Store!Template /\ t # x.goal
        BY <2>2 DEF StoreInv, StoreTyped
      <4>3. Store!PartsOf(c) \subseteq StoreFile
        BY StoreSaved DEF Lists
      <4> QED
        BY <1>9, <4>1, <4>2, <4>3
    <3> QED
      BY <3>1 DEF StoreWhole
  <2> QED
    BY <1>11, <2>3, <2>4, <2>5, <2>6 DEF StoreAlone
<1> QED
  BY <1>10, <1>12, <1>13 DEF StoreInv, StorePlaced

LEMMA StoreTruncates ==
  ASSUME StoreInv, NEW s \in Session, Store!Truncate(s)
  PROVE  StoreInv'
<1> DEFINE x == session[s]
           f == Store!Saved(x.source)[x.part + 1]
           w == [x EXCEPT !.at = "fill"]
<1>1. /\ x.at = "write" /\ disk' = [disk EXCEPT ![x.goal][f] = Torn]
      /\ session' = [session EXCEPT ![s] = w]
      /\ UNCHANGED <<listed, broken, captured, overlapped>>
  BY DEF Store!Truncate, Store!NextFile
<1>2. x \in StoreSession /\ StorePlaced(x)
  BY DEF StoreInv, StoreTyped
<1>3. w \in StoreSession /\ w.at = "fill" /\ w.known = x.known /\ w.goal = x.goal
      /\ w.source = x.source /\ w.part = x.part
  <2> HIDE DEF x
  <2> QED
    BY <1>2 DEF StoreSession, Store!Steps
<1> HIDE DEF w, x
<1>4. StorePlaced(w)
  BY <1>1, <1>2, <1>3 DEF StorePlaced, Writing
<1> HIDE DEF f
<1>5. x = session[s] /\ f = Store!Saved(x.source)[x.part + 1]
  BY DEF x, f
<1>6. x.at \in {"write", "fill"} /\ w.at \in {"write", "fill", "list"}
  BY <1>1, <1>3
<1> QED
  BY <1>1, <1>3, <1>4, <1>5, <1>6, StoreWrites

LEMMA StoreFills ==
  ASSUME StoreInv, NEW s \in Session, Store!Fill(s)
  PROVE  StoreInv'
<1> DEFINE x == session[s]
           f == Store!Saved(x.source)[x.part + 1]
           l == Len(Store!Saved(x.source))
           to == IF x.part + 1 = l THEN "list" ELSE "write"
           y == [x EXCEPT !.part = x.part + 1]
           w == [y EXCEPT !.at = to]
<1>1. /\ x.at = "fill" /\ disk' = [disk EXCEPT ![x.goal][f] = x.source]
      /\ session' = [session EXCEPT ![s].part = @ + 1, ![s].at = to]
      /\ UNCHANGED <<listed, broken, captured, overlapped>>
  BY DEF Store!Fill, Store!NextFile
<1>2. x \in StoreSession /\ StorePlaced(x) /\ session \in [Session -> StoreSession]
  BY DEF StoreInv, StoreTyped
<1>3. session' = [session EXCEPT ![s] = w]
  BY <1>1, <1>2
<1>4. x.source \in Capture /\ x.part \in 0 .. 6 /\ x.part < l
  BY <1>1, <1>2 DEF StorePlaced, StoreSession, Writing
<1>5. l \in 3 .. 6
  BY <1>4, StoreSaved
<1> HIDE DEF l
<1>6. to \in {"list", "write"} /\ (to = "list" <=> x.part + 1 = l)
  OBVIOUS
<1> HIDE DEF to
<1>7. y \in StoreSession /\ y.known = x.known /\ y.goal = x.goal
      /\ y.source = x.source /\ y.part = x.part + 1 /\ y.got = x.got
  <2> HIDE DEF x
  <2> QED
    BY <1>2, <1>4, <1>5 DEF StoreSession
<1> HIDE DEF y
<1>8. w \in StoreSession /\ w.at = to /\ w.known = x.known /\ w.goal = x.goal
      /\ w.source = x.source /\ w.part = x.part + 1
  <2>1. w \in StoreSession /\ w.at = to /\ w.known = y.known /\ w.goal = y.goal
        /\ w.source = y.source /\ w.part = y.part
    BY <1>6, <1>7 DEF StoreSession, Store!Steps
  <2> QED
    BY <1>7, <2>1
<1> HIDE DEF w
<1>9. StorePlaced(w)
  <2>1. w.part \in Nat /\ l \in Nat /\ w.part <= l
    BY <1>4, <1>5, <1>8
  <2>2. Len(Store!Saved(w.source)) = l
    BY <1>8 DEF l
  <2>3. w.at = "list" => w.part = l
    BY <1>6, <1>8
  <2>4. w.at = "write" => w.part < l
    BY <1>6, <1>8, <2>1
  <2> QED
    BY <1>4, <1>6, <1>8, <2>2, <2>3, <2>4 DEF StorePlaced, Writing
<1> HIDE DEF f, x
<1>10. x = session[s] /\ f = Store!Saved(x.source)[x.part + 1]
  BY DEF x, f
<1>11. x.at \in {"write", "fill"} /\ w.at \in {"write", "fill", "list"}
  BY <1>1, <1>6, <1>8
<1>12. x.source \in {Torn, x.source} /\ (w.part = x.part \/ (w.part = x.part + 1 /\ x.source = x.source))
  BY <1>8
<1> QED
  BY <1>1, <1>3, <1>8, <1>9, <1>10, <1>11, <1>12, StoreWrites

(* save_registry has written: the directory is complete before it is listed.  *)
LEMMA StoreListed ==
  ASSUME StoreInv, NEW s \in Session, Store!Listed(s)
  PROVE  StoreInv'
<1> DEFINE x == session[s]
<1>1. /\ x.at = "listing" /\ listed' = x.known /\ broken' = FALSE
      /\ session' = [session EXCEPT ![s] = Store!Fresh]
      /\ UNCHANGED <<disk, captured, overlapped>>
  BY DEF Store!Listed
<1>2. x \in StoreSession /\ StorePlaced(x) /\ session \in [Session -> StoreSession]
  BY DEF StoreInv, StoreTyped
<1>3. \A o \in Session : session'[o] = IF o = s THEN Store!Fresh ELSE session[o]
  BY <1>1, <1>2
<1>4. StoreTyped'
  <2>1. session' \in [Session -> StoreSession]
    BY <1>1, <1>2, StoreFresh
  <2>2. listed' \subseteq Store!Template
    BY <1>1, <1>2 DEF StoreSession
  <2> QED
    BY <1>1, <2>1, <2>2 DEF StoreInv, StoreTyped
<1>5. \A o \in Session : StorePlaced(session'[o])
  BY <1>3, StoreFresh DEF StoreInv
<1>6. ASSUME ~overlapped
      PROVE  StoreAlone'
  <2>1. StoreAlone
    BY <1>6 DEF StoreInv
  <2>2. x.at \in Writing /\ x.source \in Capture /\ x.part = Len(Store!Saved(x.source))
    BY <1>1, <1>2 DEF StorePlaced, Writing
  <2>3. listed' = listed \cup {x.goal}
        /\ \A i \in 1 .. x.part : disk[x.goal][Store!Saved(x.source)[i]] = x.source
    BY <1>1, <2>1, <2>2 DEF StoreAlone, StoreFits
  <2>4. StoreWhole(x.goal)
    <3>1. Lists(Store!Saved(x.source), Store!PartsOf(x.source))
      BY <2>2, StoreSaved
    <3>2. \A g \in Store!PartsOf(x.source) : disk[x.goal][g] = x.source
      BY <2>2, <2>3, <3>1 DEF Lists
    <3> QED
      BY <2>2, <3>2 DEF StoreWhole
  <2>5. \A o \in Session : session'[o].at \notin Writing
    BY <1>3, <2>1, <2>2, StoreFresh DEF StoreAlone, Writing
  <2>6. ASSUME NEW o \in Session
        PROVE  StoreFits(session[o])'
    <3>1. StoreFits(session'[o]) /\ session'[o].at \notin Writing
      BY <1>3, <2>1, <2>5, StoreFresh DEF StoreAlone
    <3> QED
      BY <1>1, <2>3, <3>1 DEF StoreFits, Writing
  <2>7. \A t \in listed' : StoreWhole(t)'
    BY <1>1, <2>1, <2>3, <2>4 DEF StoreAlone, StoreWhole
  <2> QED
    BY <2>5, <2>6, <2>7 DEF StoreAlone
<1> QED
  BY <1>1, <1>4, <1>5, <1>6 DEF StoreInv, StorePlaced

LEMMA StoreInit == Store!Init => StoreInv
<1> SUFFICES ASSUME Store!Init PROVE StoreInv
  OBVIOUS
<1>1. /\ disk = [t \in Store!Template |-> Store!Nothing] /\ listed = {} /\ broken = FALSE
      /\ captured = {} /\ session = [s \in Session |-> Store!Fresh] /\ overlapped = FALSE
  BY DEF Store!Init
<1>2. Store!Nothing \in [StoreFile -> Store!Content]
  BY StoreSets DEF Store!Nothing
<1>3. StoreTyped
  BY <1>1, <1>2, StoreFresh DEF StoreTyped
<1>4. \A s \in Session : session[s] = Store!Fresh
  BY <1>1
<1>5. StoreAlone
  BY <1>1, <1>4, StoreFresh DEF StoreAlone, Writing
<1> QED
  BY <1>3, <1>4, <1>5, StoreFresh DEF StoreInv

LEMMA StoreStep == StoreInv /\ [Store!Next]_(Store!vars) => StoreInv'
<1> SUFFICES ASSUME StoreInv, [Store!Next]_(Store!vars)
             PROVE  StoreInv'
  OBVIOUS
<1>1. CASE Store!Next
  <2>1. ASSUME NEW s \in Session, Store!GiveUp(s) PROVE StoreInv'
    BY <2>1, StoreGivesUp DEF Store!GiveUp
  <2> QED
    BY <1>1, <2>1, StoreOpen, StoreTruncates, StoreFills, StoreLists, StoreListed, StoreReadNext,
       StoreBeginLoad, StoreBegins DEF Store!Next
<1>2. CASE UNCHANGED Store!vars
  BY <1>2 DEF Store!vars, StoreInv, StoreTyped, StorePlaced, StoreAlone, StoreFits, StoreWhole
<1> QED
  BY <1>1, <1>2

(* What a reader holds of a listed directory is what it finds there, and that *)
(* is of one capture.                                                         *)
LEMMA StoreSound ==
  StoreInv => Store!TypeOK /\ Store!ListedComplete /\ Store!LoadedWhole /\ Store!MappedMemoryKept
<1> SUFFICES ASSUME StoreInv
             PROVE  Store!TypeOK /\ Store!ListedComplete /\ Store!LoadedWhole
                    /\ Store!MappedMemoryKept
  OBVIOUS
<1>1. Store!TypeOK
  BY StoreSets DEF StoreInv, StoreTyped, StoreSession, StorePlaced, Store!TypeOK
<1>2. Store!ListedComplete
  BY DEF StoreInv, StoreAlone, StoreWhole, Store!ListedComplete
<1>3. ASSUME NEW s \in Session, session[s].at = "loaded"
      PROVE  /\ session[s].got["mem"] = session[s].got["meta"]
             /\ ~overlapped => /\ disk[session[s].goal]["mem"] = session[s].got["meta"]
                               /\ \A f \in Store!PartsOf(session[s].got["meta"]) :
                                    session[s].got[f] = session[s].got["meta"]
  <2> DEFINE x == session[s]
  <2>1. x \in StoreSession /\ x.part = 6 /\ x.got["mem"] = x.got["meta"]
    BY <1>3 DEF StoreInv, StoreTyped, StorePlaced
  <2>2. ASSUME ~overlapped
        PROVE  /\ disk[x.goal]["mem"] = x.got["meta"]
               /\ \A f \in Store!PartsOf(x.got["meta"]) : x.got[f] = x.got["meta"]
    <3>1. x.goal \in listed
          /\ \A i \in 1 .. 6 : x.got[Store!Read[i]] = Taken(disk[x.goal][Store!Read[i]])
      BY <1>3, <2>1, <2>2 DEF StoreInv, StoreAlone, StoreFits
    <3>2. PICK c \in Capture : \A f \in Store!PartsOf(c) : disk[x.goal][f] = c
      BY <2>2, <3>1 DEF StoreInv, StoreAlone, StoreWhole
    <3>3. \A f \in StoreFile : x.got[f] = Taken(disk[x.goal][f])
      <4>1. \A f \in StoreFile : \E i \in 1 .. 6 : Store!Read[i] = f
        BY StoreRead DEF StoreFile
      <4> QED
        BY <3>1, <4>1
    <3>4. Store!PartsOf(c) \subseteq StoreFile /\ "meta" \in Store!PartsOf(c)
          /\ "mem" \in Store!PartsOf(c)
      <4>1. Store!PartsOf(c) \subseteq StoreFile
        BY StoreSaved DEF Lists
      <4>2. "meta" \in Store!PartsOf(c) /\ "mem" \in Store!PartsOf(c)
        BY DEF Store!PartsOf, Store!Mandatory
      <4> QED
        BY <4>1, <4>2
    <3>5. \A f \in Store!PartsOf(c) : x.got[f] = c
      BY <3>2, <3>3, <3>4, StoreSets DEF Taken
    <3> QED
      BY <3>2, <3>4, <3>5
  <2> QED
    BY <2>1, <2>2
<1> QED
  BY <1>1, <1>2, <1>3 DEF Store!LoadedWhole, Store!MappedMemoryKept

------------------------------------------------------------------------------
(* One command's way through guest memory.  A reader stops at the first NUL,  *)
(* and no text has one: what it sees is the text, as long as what is written  *)
(* into the page afterwards lies behind that NUL.                             *)

BufShown == IF printed = <<>> THEN Buf!Diagnostic ELSE printed

(* buf holds text from its first byte on, and a NUL after it if it has room.  *)
BufHolds(buf, text) ==
  /\ \A i \in 1 .. Len(text) : buf[i - 1] = text[i]
  /\ Len(text) < BUF_MAX => buf[Len(text)] = Buf!Zero

BufTyped ==
  /\ at \in {"prepare", "fetch", "exec", "ready", "read", "done"}
  /\ divert \in BOOLEAN
  /\ \E n \in CodeLengths : code = Buf!Text("code", n)
  /\ \E n \in OutputLengths : printed = Buf!Text("out", n)
  /\ DOMAIN cmdbuf = 0 .. BUF_MAX - 1 /\ DOMAIN outbuf = 0 .. BUF_MAX - 1

BufKept ==
  /\ at = "fetch" => BufHolds(cmdbuf, Buf!Truncate(code, BUF_MAX - 1))
  /\ at \in {"ready", "read"} /\ Len(printed) < READY_OFFSET => BufHolds(outbuf, BufShown)

BufInv == BufTyped /\ BufKept /\ Buf!ShortOutputIntact /\ Buf!CommandIsPrefix

LEMMA BufSizes ==
  /\ BUF_MAX \in Nat /\ BUF_MAX >= 14 /\ READY_OFFSET = BUF_MAX - 6
  /\ CodeLengths \subseteq Nat /\ OutputLengths \subseteq Nat
  BY Assumptions DEF Buf!BuffersAssumption

LEMMA BufText ==
  ASSUME NEW tag, NEW n \in Nat
  PROVE  /\ Buf!Text(tag, n) \in Seq({<<tag, i>> : i \in Nat}) /\ Len(Buf!Text(tag, n)) = n
         /\ \A i \in 1 .. n : Buf!Text(tag, n)[i] = <<tag, i>> /\ <<tag, i>> # Buf!Zero
<1>1. \A i \in 1 .. n : i \in Nat /\ i # 0
  OBVIOUS
<1>2. \A i \in 1 .. n : <<tag, i>> # Buf!Zero
  BY <1>1 DEF Buf!Zero
<1>3. Buf!Text(tag, n) \in Seq({<<tag, i>> : i \in Nat})
  BY <1>1 DEF Buf!Text
<1>4. Len(Buf!Text(tag, n)) = n
  BY DEF Buf!Text
<1> QED
  BY <1>2, <1>3, <1>4 DEF Buf!Text

(* Cut to m bytes a text is the text of its first m bytes.                    *)
LEMMA BufCut ==
  ASSUME NEW tag, NEW n \in Nat, NEW m \in Nat
  PROVE  \E k \in Nat : /\ Buf!Truncate(Buf!Text(tag, n), m) = Buf!Text(tag, k)
                        /\ k <= m /\ (n <= m => k = n)
<1> DEFINE text == Buf!Text(tag, n)
<1>3. /\ text \in Seq({<<tag, i>> : i \in Nat}) /\ Len(text) = n
      /\ \A i \in 1 .. n : text[i] = <<tag, i>>
  BY BufText
<1>4. Buf!Truncate(text, m) = IF Len(text) <= m THEN text ELSE SubSeq(text, 1, m)
  BY DEF Buf!Truncate
<1> HIDE DEF text
<1>1. CASE n <= m
  BY <1>1, <1>3, <1>4 DEF text
<1>2. CASE n > m
  <2>1. Buf!Truncate(text, m) = SubSeq(text, 1, m)
    BY <1>2, <1>3, <1>4
  <2>2. SubSeq(text, 1, m) = [i \in 1 .. m |-> text[i]]
    BY <1>3
  <2>3. [i \in 1 .. m |-> text[i]] = Buf!Text(tag, m)
    BY <1>2, <1>3 DEF Buf!Text
  <2> QED
    BY <1>2, <2>1, <2>2, <2>3 DEF text
<1> QED
  BY <1>1, <1>2

(* A copy of a text and its NUL to the front of a buffer is there afterwards. *)
LEMMA BufWritten ==
  ASSUME NEW buf, DOMAIN buf = 0 .. BUF_MAX - 1, NEW tag, NEW n \in Nat, n < BUF_MAX,
         NEW text, text = Buf!Text(tag, n), NEW new, new = Buf!Write(buf, 0, Append(text, Buf!Zero))
  PROVE  DOMAIN new = 0 .. BUF_MAX - 1 /\ BufHolds(new, text)
<1> DEFINE whole == Append(text, Buf!Zero)
<1>1. /\ text \in Seq({<<tag, i>> : i \in Nat}) /\ Len(text) = n
  BY BufText
<1>2. /\ DOMAIN whole = 1 .. n + 1 /\ whole[n + 1] = Buf!Zero
      /\ \A i \in 1 .. n : whole[i] = text[i]
  BY <1>1, AppendProperties
<1>3. new = [i \in 0 .. BUF_MAX - 1 |-> IF i - 0 + 1 \in DOMAIN whole THEN whole[i - 0 + 1] ELSE buf[i]]
  BY DEF Buf!Write
<1> HIDE DEF whole
<1>4. ASSUME NEW i \in 1 .. n + 1
      PROVE  new[i - 1] = whole[i]
  <2>1. i - 1 \in 0 .. BUF_MAX - 1 /\ (i - 1) - 0 + 1 = i
    BY BufSizes
  <2> QED
    BY <1>2, <1>3, <2>1
<1>5. n + 1 \in 1 .. n + 1 /\ (n + 1) - 1 = n
  OBVIOUS
<1>6. new[n] = Buf!Zero
  BY <1>2, <1>4, <1>5
<1>7. \A i \in 1 .. n : new[i - 1] = text[i]
  BY <1>2, <1>4
<1> QED
  BY <1>1, <1>3, <1>6, <1>7 DEF BufHolds

(* What is written behind a text and its NUL leaves it.                       *)
LEMMA BufBehind ==
  ASSUME NEW buf, DOMAIN buf = 0 .. BUF_MAX - 1, NEW offset \in Nat,
         NEW text, Len(text) \in Nat, Len(text) < offset, offset < BUF_MAX, BufHolds(buf, text),
         NEW more, NEW m \in Nat, DOMAIN more = 1 .. m, NEW new, new = Buf!Write(buf, offset, more)
  PROVE  DOMAIN new = 0 .. BUF_MAX - 1 /\ BufHolds(new, text)
<1>1. new = [i \in 0 .. BUF_MAX - 1 |-> IF i - offset + 1 \in DOMAIN more
                                       THEN more[i - offset + 1] ELSE buf[i]]
  BY DEF Buf!Write
<1>2. ASSUME NEW i \in 0 .. Len(text)
      PROVE  new[i] = buf[i]
  <2>1. i \in 0 .. BUF_MAX - 1 /\ i - offset + 1 \notin DOMAIN more
    BY BufSizes
  <2> QED
    BY <1>1, <2>1
<1>3. \A i \in 1 .. Len(text) : i - 1 \in 0 .. Len(text)
  OBVIOUS
<1> QED
  BY <1>1, <1>2, <1>3 DEF BufHolds

(* A reader that stops at a NUL, or after limit bytes, sees the text.         *)
LEMMA BufRead ==
  ASSUME NEW buf, NEW tag, NEW n \in Nat, NEW text, text = Buf!Text(tag, n), BufHolds(buf, text),
         NEW limit \in Nat, limit <= BUF_MAX, n <= limit
  PROVE  Buf!ReadString(buf, limit) = text
<1> DEFINE ends == {i \in 0 .. limit - 1 : buf[i] = Buf!Zero}
           len == IF ends = {} THEN limit ELSE CHOOSE i \in ends : \A j \in ends : i <= j
<1>1. Len(text) = n /\ \A i \in 1 .. n : buf[i - 1] = text[i] /\ text[i] # Buf!Zero
  <2>1. Len(text) = n /\ \A i \in 1 .. n : text[i] # Buf!Zero
    BY BufText
  <2> QED
    BY <2>1 DEF BufHolds
<1>2. \A i \in ends : i >= n
  <2>1. \A i \in 0 .. limit - 1 : i < n => i + 1 \in 1 .. n /\ (i + 1) - 1 = i
    OBVIOUS
  <2>2. \A i \in 0 .. limit - 1 : i < n => buf[i] # Buf!Zero
    BY <1>1, <2>1
  <2> QED
    BY <2>2
<1>3. len = n
  <2>1. CASE n = limit
    <3>1. ends = {}
      BY <1>2, <2>1
    <3> QED
      BY <2>1, <3>1
  <2>2. CASE n < limit
    <3>1. n \in ends
      BY <1>1, <2>2, BufSizes DEF BufHolds
    <3>2. (CHOOSE i \in ends : \A j \in ends : i <= j) = n
      <4>1. \E i \in ends : \A j \in ends : i <= j
        BY <1>2, <3>1
      <4> DEFINE c == CHOOSE i \in ends : \A j \in ends : i <= j
      <4>2. c \in ends /\ \A j \in ends : c <= j
        BY <4>1
      <4>3. c <= n /\ c >= n /\ c \in Int
        BY <1>2, <3>1, <4>2
      <4> QED
        BY <4>3
    <3> QED
      BY <3>1, <3>2
  <2> QED
    BY <2>1, <2>2
<1>4. Buf!ReadString(buf, limit) = [i \in 1 .. len |-> buf[i - 1]]
  BY DEF Buf!ReadString
<1> HIDE DEF len
<1>5. [i \in 1 .. n |-> buf[i - 1]] = text
  BY <1>1 DEF Buf!Text
<1> QED
  BY <1>3, <1>4, <1>5

(* What the caller is to be shown, and the part of it that fits.              *)
LEMMA BufShows ==
  ASSUME BufTyped
  PROVE  \E tag : \E n \in Nat : BufShown = Buf!Text(tag, n) /\ (Len(printed) < READY_OFFSET => n < READY_OFFSET)
<1>1. CASE printed = <<>>
  <2>1. BufShown = Buf!Text("empty output", 1) /\ 1 < READY_OFFSET
    BY <1>1, BufSizes DEF BufShown, Buf!Diagnostic
  <2> QED
    BY <2>1
<1>2. CASE printed # <<>>
  <2>1. PICK n \in OutputLengths : printed = Buf!Text("out", n)
    BY DEF BufTyped
  <2>2. n \in Nat /\ Len(printed) = n
    BY <2>1, BufSizes, BufText
  <2> QED
    BY <1>2, <2>1, <2>2 DEF BufShown
<1> QED
  BY <1>1, <1>2

LEMMA BufDomains ==
  /\ DOMAIN Buf!Blank = 0 .. BUF_MAX - 1
  /\ \A buf, offset, text : DOMAIN Buf!Write(buf, offset, text) = DOMAIN buf
  BY DEF Buf!Blank, Buf!Write

LEMMA BufInit == Buf!Init => BufInv
<1> SUFFICES ASSUME Buf!Init PROVE BufInv
  OBVIOUS
<1>1. DOMAIN cmdbuf = 0 .. BUF_MAX - 1 /\ DOMAIN outbuf = 0 .. BUF_MAX - 1
  BY DEF Buf!Init
<1> QED
  BY <1>1 DEF Buf!Init, BufInv, BufTyped, BufKept, Buf!ShortOutputIntact, Buf!CommandIsPrefix

LEMMA BufPrepares ==
  ASSUME BufInv, Buf!Prepare
  PROVE  BufInv'
<1>1. /\ at' = "fetch" /\ outbuf' = Buf!Blank
      /\ cmdbuf' = Buf!Write(cmdbuf, 0, Append(Buf!Truncate(code, BUF_MAX - 1), Buf!Zero))
      /\ UNCHANGED <<code, divert, printed, ran, answer>>
  BY DEF Buf!Prepare
<1>2. PICK n \in CodeLengths : code = Buf!Text("code", n)
  BY DEF BufInv, BufTyped
<1>3. n \in Nat /\ BUF_MAX - 1 \in Nat
  BY BufSizes
<1>4. PICK k \in Nat : Buf!Truncate(code, BUF_MAX - 1) = Buf!Text("code", k) /\ k <= BUF_MAX - 1
  BY <1>2, <1>3, BufCut
<1> DEFINE text == Buf!Truncate(code, BUF_MAX - 1)
<1>5. text = Buf!Text("code", k) /\ k < BUF_MAX /\ DOMAIN cmdbuf = 0 .. BUF_MAX - 1
  BY <1>4, BufSizes DEF BufInv, BufTyped
<1>6. cmdbuf' = Buf!Write(cmdbuf, 0, Append(text, Buf!Zero))
  BY <1>1
<1>7. text' = text
  BY <1>1 DEF Buf!Truncate
<1> HIDE DEF text
<1>8. DOMAIN cmdbuf' = 0 .. BUF_MAX - 1 /\ BufHolds(cmdbuf', text)
  BY <1>5, <1>6, BufWritten
<1>9. BufHolds(cmdbuf, Buf!Truncate(code, BUF_MAX - 1))'
  BY <1>7, <1>8 DEF BufHolds, text
<1> QED
  BY <1>1, <1>8, <1>9, BufDomains
     DEF BufInv, BufTyped, BufKept, Buf!ShortOutputIntact, Buf!CommandIsPrefix, Buf!Truncate

LEMMA BufFetches ==
  ASSUME BufInv, Buf!Fetch
  PROVE  BufInv'
<1>1. /\ at = "fetch" /\ at' = "exec" /\ cmdbuf' = Buf!Blank
      /\ ran' = Buf!ReadString(cmdbuf, BUF_MAX - 1)
      /\ UNCHANGED <<code, divert, printed, answer>>
  BY DEF Buf!Fetch
<1>2. PICK n \in CodeLengths : code = Buf!Text("code", n)
  BY DEF BufInv, BufTyped
<1>3. n \in Nat /\ BUF_MAX - 1 \in Nat /\ BUF_MAX - 1 <= BUF_MAX
  BY BufSizes
<1>4. PICK k \in Nat : Buf!Truncate(code, BUF_MAX - 1) = Buf!Text("code", k) /\ k <= BUF_MAX - 1
  BY <1>2, <1>3, BufCut
<1> DEFINE text == Buf!Truncate(code, BUF_MAX - 1)
<1>5. BufHolds(cmdbuf, text) /\ text = Buf!Text("code", k)
  BY <1>1, <1>4 DEF BufInv, BufKept
<1>6. ran' = text /\ text' = text
  <2>1. text' = text
    BY <1>1 DEF Buf!Truncate
  <2> HIDE DEF text
  <2> QED
    BY <1>1, <1>3, <1>4, <1>5, <2>1, BufRead
<1>7. DOMAIN outbuf' = DOMAIN outbuf
  BY BufDomains DEF Buf!Fetch
<1>8. Buf!CommandIsPrefix'
  BY <1>6 DEF Buf!CommandIsPrefix
<1> QED
  BY <1>1, <1>7, <1>8, BufDomains DEF BufInv, BufTyped, BufKept, Buf!ShortOutputIntact

LEMMA BufWritesOut ==
  ASSUME BufInv, Buf!WriteOut
  PROVE  BufInv'
<1> DEFINE text == IF printed = <<>> THEN Buf!Diagnostic ELSE Buf!Truncate(printed, BUF_MAX - 1)
<1>1. /\ at = "exec" /\ at' = "ready" /\ outbuf' = Buf!Write(outbuf, 0, Append(text, Buf!Zero))
      /\ UNCHANGED <<code, divert, printed, ran, cmdbuf, answer>>
  BY DEF Buf!WriteOut
<1>2. PICK n \in OutputLengths : printed = Buf!Text("out", n)
  BY DEF BufInv, BufTyped
<1>3. n \in Nat /\ BUF_MAX - 1 \in Nat /\ Len(printed) = n
  <2> HIDE DEF text
  <2>1. n \in Nat /\ BUF_MAX - 1 \in Nat
    BY BufSizes
  <2> QED
    BY <1>2, <2>1, BufText
<1>4. PICK k \in Nat : /\ Buf!Truncate(printed, BUF_MAX - 1) = Buf!Text("out", k)
                       /\ k <= BUF_MAX - 1 /\ (n <= BUF_MAX - 1 => k = n)
  <2> HIDE DEF text
  <2> DEFINE cut == BUF_MAX - 1
  <2>1. cut \in Nat
    BY <1>3
  <2> HIDE DEF cut
  <2>2. \E k \in Nat : /\ Buf!Truncate(Buf!Text("out", n), cut) = Buf!Text("out", k)
                       /\ k <= cut /\ (n <= cut => k = n)
    BY <1>3, <2>1, BufCut
  <2> QED
    BY <1>2, <2>2 DEF cut
<1>5. \E tag : \E m \in Nat : text = Buf!Text(tag, m) /\ m < BUF_MAX
  <2>1. CASE printed = <<>>
    <3>1. text = Buf!Text("empty output", 1) /\ 1 < BUF_MAX
      BY <2>1, BufSizes DEF Buf!Diagnostic
    <3> QED
      BY <3>1
  <2>2. CASE printed # <<>>
    <3>1. text = Buf!Text("out", k) /\ k < BUF_MAX
      BY <1>4, <2>2, BufSizes
    <3> QED
      BY <3>1
  <2> QED
    BY <2>1, <2>2
<1>6. n < READY_OFFSET => text = BufShown
  <2>1. n < READY_OFFSET => k = n
    BY <1>3, <1>4, BufSizes
  <2> QED
    BY <1>2, <1>4, <2>1 DEF BufShown
<1> HIDE DEF text
<1>7. PICK tag, m : m \in Nat /\ text = Buf!Text(tag, m) /\ m < BUF_MAX
  BY <1>5
<1>8. DOMAIN outbuf = 0 .. BUF_MAX - 1
  BY DEF BufInv, BufTyped
<1>9. DOMAIN outbuf' = 0 .. BUF_MAX - 1 /\ BufHolds(outbuf', text)
  BY <1>1, <1>7, <1>8, BufWritten
<1>10. Len(printed) < READY_OFFSET => BufHolds(outbuf', BufShown)
  BY <1>3, <1>6, <1>9
<1>11. BufShown' = BufShown /\ printed' = printed
  BY <1>1 DEF BufShown
<1>12. BufKept'
  BY <1>1, <1>10, <1>11 DEF BufKept, BufHolds
<1> QED
  BY <1>1, <1>9, <1>12 DEF BufInv, BufTyped, Buf!ShortOutputIntact, Buf!CommandIsPrefix

LEMMA Appended ==
  ASSUME NEW S, NEW q \in Seq(S), NEW z, NEW n, n = Len(q)
  PROVE  DOMAIN Append(q, z) = 1 .. n + 1
  BY AppendProperties

LEMMA BufWritesReady ==
  ASSUME BufInv, Buf!WriteReady
  PROVE  BufInv'
<1> DEFINE more == Append(Buf!Ready, Buf!Zero)
<1>1. /\ at = "ready" /\ at' = "read" /\ outbuf' = Buf!Write(outbuf, READY_OFFSET, more)
      /\ UNCHANGED <<code, divert, printed, ran, cmdbuf, answer>>
  BY DEF Buf!WriteReady
<1>2. DOMAIN more = 1 .. 6
  <2> DEFINE S == {<<"ready", i>> : i \in Nat}
             q == Buf!Ready
  <2>1. q \in Seq(S) /\ Len(q) = 5
    BY BufText DEF Buf!Ready
  <2> HIDE DEF S, q
  <2>2. DOMAIN Append(q, Buf!Zero) = 1 .. 5 + 1
    BY <2>1, Appended, Zenon
  <2> QED
    BY <2>2 DEF q
<1>3. DOMAIN outbuf = 0 .. BUF_MAX - 1 /\ READY_OFFSET \in Nat /\ READY_OFFSET < BUF_MAX
  BY BufSizes DEF BufInv, BufTyped
<1>4. PICK tag, n : n \in Nat /\ BufShown = Buf!Text(tag, n)
                    /\ (Len(printed) < READY_OFFSET => n < READY_OFFSET)
  BY BufShows DEF BufInv
<1>5. Len(BufShown) = n
  BY <1>4, BufText
<1> HIDE DEF more
<1>6. Len(printed) < READY_OFFSET => BufHolds(outbuf', BufShown)
  <2>1. Len(printed) < READY_OFFSET => BufHolds(outbuf, BufShown)
    BY <1>1 DEF BufInv, BufKept
  <2> QED
    BY <1>1, <1>2, <1>3, <1>4, <1>5, <2>1, BufBehind
<1>7. BufShown' = BufShown /\ printed' = printed
  BY <1>1 DEF BufShown
<1>8. BufKept'
  BY <1>1, <1>6, <1>7 DEF BufKept, BufHolds
<1>9. DOMAIN outbuf' = DOMAIN outbuf
  BY <1>1, BufDomains
<1> QED
  BY <1>1, <1>8, <1>9 DEF BufInv, BufTyped, Buf!ShortOutputIntact, Buf!CommandIsPrefix

LEMMA BufReadsBack ==
  ASSUME BufInv, Buf!ReadBack
  PROVE  BufInv'
<1>1. /\ at = "read" /\ at' = "done" /\ answer' = Buf!ReadString(outbuf, BUF_MAX)
      /\ UNCHANGED <<code, divert, printed, ran, cmdbuf, outbuf>>
  BY DEF Buf!ReadBack
<1>2. PICK tag, n : n \in Nat /\ BufShown = Buf!Text(tag, n)
                    /\ (Len(printed) < READY_OFFSET => n < READY_OFFSET)
  BY BufShows DEF BufInv
<1>3. Len(printed) < READY_OFFSET => answer' = BufShown
  <2>1. Len(printed) < READY_OFFSET => BufHolds(outbuf, BufShown) /\ n <= BUF_MAX
    BY <1>1, <1>2, BufSizes DEF BufInv, BufKept
  <2> QED
    BY <1>1, <1>2, <2>1, BufSizes, BufRead
<1>4. Buf!ShortOutputIntact'
  BY <1>1, <1>3 DEF Buf!ShortOutputIntact, BufShown
<1> QED
  BY <1>1, <1>4 DEF BufInv, BufTyped, BufKept, Buf!CommandIsPrefix

LEMMA BufStep == BufInv /\ [Buf!Next]_(Buf!vars) => BufInv'
<1>1. ASSUME BufInv, UNCHANGED Buf!vars
      PROVE  BufInv'
  BY <1>1 DEF Buf!vars, BufInv, BufTyped, BufKept, BufHolds, BufShown,
     Buf!ShortOutputIntact, Buf!CommandIsPrefix
<1> QED
  BY <1>1, BufPrepares, BufFetches, BufWritesOut, BufWritesReady, BufReadsBack DEF Buf!Next

------------------------------------------------------------------------------
(* The fresh-boot backends and their pool.  Where an init or a destroy stands *)
(* decides what is open and what the fields say; what the pool or its call    *)
(* holds is at rest and booted, but for the one backend the call has in hand. *)

(* A backend o holds, at step p of an init or of a destroy that serves g,     *)
(* with the fields f, the VM v and the descriptors d.                         *)
FreshFits(o, p, g, f, v, d) ==
  /\ p = "rest" => (f.initialized <=> v.open)
  /\ p = "boot" => ~v.open /\ o = "caller"
  /\ p \notin {"rest", "boot"} => v.open
  /\ f.initialized <=> p \in {"session", "vm"} \/ (p = "rest" /\ v.open)
  /\ ~v.open => d \subseteq {"mmio"}
  /\ p \in {"undovm", "vm"} => "session" \notin d
  /\ p \in {"boot", "attach", "run"} \/ (p \in {"session", "vm"} /\ g = "init") =>
       f.lives < MaxLives
  /\ f.initialized => f.lives # 0
  /\ f.lives = 0 => ~f.msi /\ ~f.modules /\ ~f.tap
  /\ o = "none" => p = "rest" /\ f = Fresh!New
  /\ o = "pool" /\ p \in {"session", "vm"} => g = "drop"
  /\ p = "rest" /\ f.initialized /\ f.lives = 1 =>
       /\ f.msi => v.routing # "none"
       /\ f.modules => v.asked \/ "session" \in d
       /\ f.tap => v.net

FreshEach == \A b \in Backend : FreshFits(owner[b], pc[b], goal[b], be[b], vm[b], dev[b])

(* The one backend the pool's call has in hand.                               *)
FreshServed(b) ==
  \/ /\ pc[b] \in {"attach", "run", "undo", "undovm"} /\ call.op \in {"new", "boot", "refill"}
     /\ call.left # 0 /\ be[b] = Fresh!New
  \/ pc[b] \in {"session", "vm"} /\ call.op \in {"release", "clear"}

FreshPooled ==
  /\ \A i, j \in DOMAIN pool : pool[i] = pool[j] => i = j
  /\ \A b \in Backend : b \in Fresh!ToSet(pool) \/ b = call.got =>
       owner[b] = "pool" /\ pc[b] = "rest" /\ be[b].initialized
  /\ call.got \notin Fresh!ToSet(pool) /\ (call.got # None => call.op = "refill")
  /\ \A a, b \in Backend : Fresh!InHand(a) /\ Fresh!InHand(b) => a = b
  /\ \A b \in Backend : Fresh!InHand(b) => FreshServed(b)
  /\ call.op \in {"new", "refill"} /\ call.left # 0 => Len(pool) + call.left <= MinIdle
  /\ call.op = "gone" => pool = <<>>

FreshInv == Fresh!TypeOK /\ FreshEach /\ FreshPooled

FreshSteps == Fresh!Points
FreshSeats == {"none", "pool", "caller"}
FreshAims == {"stay", "init", "drop"}
FreshOpen == SUBSET {"session", "config", "mmio"}

FreshTypes ==
  /\ owner \in [Backend -> FreshSeats] /\ pc \in [Backend -> FreshSteps]
  /\ goal \in [Backend -> FreshAims] /\ be \in [Backend -> Fresh!BackendType]
  /\ vm \in [Backend -> Fresh!VmType] /\ dev \in [Backend -> FreshOpen]

FreshCounts ==
  /\ pool \in Seq(Backend) /\ Len(pool) <= Fresh!Larger
  /\ call \in [op : Fresh!Ops, got : Backend \cup {None}, left : 0 .. Fresh!Larger + 1]

LEMMA FreshSizes ==
  /\ MinIdle \in Nat /\ MaxIdle \in Nat /\ Retries \in Nat /\ MaxLives \in Nat /\ MaxLives # 0
  /\ None \notin Backend /\ GpuRequired \in BOOLEAN /\ NetworkAllowed \in BOOLEAN
  /\ Fresh!Larger \in Nat /\ MinIdle <= Fresh!Larger /\ MaxIdle <= Fresh!Larger
  BY Assumptions DEF Fresh!NoneAssumption, Fresh!SizeAssumption, Fresh!VariantAssumption,
     Fresh!Larger

LEMMA FreshTypeOK == Fresh!TypeOK <=> FreshTypes /\ FreshCounts
  BY DEF Fresh!TypeOK, FreshTypes, FreshCounts, FreshSteps, FreshSeats, FreshAims, FreshOpen

LEMMA FreshNew ==
  /\ Fresh!New \in Fresh!BackendType /\ Fresh!New.lives = 0 /\ ~Fresh!New.initialized
  /\ ~Fresh!New.msi /\ ~Fresh!New.modules /\ ~Fresh!New.tap
  /\ Fresh!NoVm \in Fresh!VmType /\ ~Fresh!NoVm.open
  BY FreshSizes DEF Fresh!New, Fresh!BackendType, Fresh!NoVm, Fresh!VmType

LEMMA FreshSame ==
  ASSUME FreshTypes, NEW b \in Backend
  PROVE  /\ owner = [owner EXCEPT ![b] = owner[b]] /\ pc = [pc EXCEPT ![b] = pc[b]]
         /\ goal = [goal EXCEPT ![b] = goal[b]] /\ be = [be EXCEPT ![b] = be[b]]
         /\ vm = [vm EXCEPT ![b] = vm[b]] /\ dev = [dev EXCEPT ![b] = dev[b]]
  BY DEF FreshTypes

(* A step changes what one backend is.                                        *)
FreshBecomes(b, o, p, g, f, v, d) ==
  /\ o \in FreshSeats /\ p \in FreshSteps /\ g \in FreshAims
  /\ f \in Fresh!BackendType /\ v \in Fresh!VmType /\ d \in FreshOpen
  /\ FreshFits(o, p, g, f, v, d)
  /\ owner' = [owner EXCEPT ![b] = o] /\ pc' = [pc EXCEPT ![b] = p]
  /\ goal' = [goal EXCEPT ![b] = g] /\ be' = [be EXCEPT ![b] = f]
  /\ vm' = [vm EXCEPT ![b] = v] /\ dev' = [dev EXCEPT ![b] = d]

LEMMA FreshPut ==
  ASSUME FreshTypes, FreshEach, NEW b \in Backend, NEW o, NEW p, NEW g, NEW f, NEW v, NEW d,
         FreshBecomes(b, o, p, g, f, v, d)
  PROVE  /\ FreshTypes' /\ FreshEach'
         /\ owner'[b] = o /\ pc'[b] = p /\ be'[b] = f
         /\ \A x \in Backend \ {b} : owner'[x] = owner[x] /\ pc'[x] = pc[x] /\ be'[x] = be[x]
<1>1. FreshTypes'
  BY DEF FreshTypes, FreshBecomes
<1>2. \A x \in Backend \ {b} :
        /\ owner'[x] = owner[x] /\ pc'[x] = pc[x] /\ be'[x] = be[x]
        /\ goal'[x] = goal[x] /\ vm'[x] = vm[x] /\ dev'[x] = dev[x]
  BY DEF FreshTypes, FreshBecomes
<1>3. /\ owner'[b] = o /\ pc'[b] = p /\ be'[b] = f
      /\ goal'[b] = g /\ vm'[b] = v /\ dev'[b] = d
  BY DEF FreshTypes, FreshBecomes
<1>4. \A x \in Backend : FreshFits(owner'[x], pc'[x], goal'[x], be'[x], vm'[x], dev'[x])
  BY <1>2, <1>3 DEF FreshEach, FreshBecomes
<1> QED
  BY <1>1, <1>2, <1>3, <1>4 DEF FreshEach, FreshFits

(* ... of a caller, or the one the call has in hand and goes on with.         *)
LEMMA FreshActs ==
  ASSUME FreshInv, NEW b \in Backend, NEW o, NEW p, NEW g, NEW f, NEW v, NEW d,
         FreshBecomes(b, o, p, g, f, v, d), UNCHANGED <<pool, call>>,
         \/ owner[b] # "pool" /\ o # "pool"
         \/ o = owner[b] /\ Fresh!InHand(b) /\ FreshServed(b)'
  PROVE  FreshInv'
<1>1. FreshTypes /\ FreshCounts /\ FreshEach
  BY FreshTypeOK DEF FreshInv
<1>2. /\ FreshTypes' /\ FreshEach' /\ owner'[b] = o
      /\ \A x \in Backend \ {b} : owner'[x] = owner[x] /\ pc'[x] = pc[x] /\ be'[x] = be[x]
  BY <1>1, FreshPut
<1>3. FreshCounts'
  BY <1>1 DEF FreshCounts
<1>4. \A x \in Backend : Fresh!InHand(x)' <=> Fresh!InHand(x)
  BY <1>2 DEF Fresh!InHand
<1>5. \A x \in Backend : x \in Fresh!ToSet(pool) \/ x = call.got => x # b
  BY DEF FreshInv, FreshPooled, Fresh!InHand
<1>6. ASSUME NEW x \in Backend, Fresh!InHand(x)
      PROVE  FreshServed(x)'
  <2>1. CASE x = b
    BY <1>6, <2>1 DEF Fresh!InHand
  <2>2. CASE x # b
    BY <1>2, <1>6, <2>2 DEF FreshInv, FreshPooled, FreshServed
  <2> QED
    BY <2>1, <2>2
<1>7. FreshPooled'
  <2>1. \A x \in Backend : x \in Fresh!ToSet(pool) \/ x = call.got =>
          owner'[x] = "pool" /\ pc'[x] = "rest" /\ be'[x].initialized
    BY <1>2, <1>5 DEF FreshInv, FreshPooled
  <2> QED
    BY <1>4, <1>6, <2>1 DEF FreshInv, FreshPooled, Fresh!ToSet
<1> QED
  BY <1>2, <1>3, <1>7, FreshTypeOK DEF FreshInv, Fresh!TypeOK, FreshTypes, FreshCounts,
     FreshSteps, FreshSeats, FreshAims, FreshOpen

LEMMA FreshVm ==
  [Fresh!NoVm EXCEPT !.open = TRUE] \in Fresh!VmType /\ [Fresh!NoVm EXCEPT !.open = TRUE].open
  BY DEF Fresh!NoVm, Fresh!VmType

LEMMA FreshAt ==
  ASSUME FreshInv, NEW b \in Backend
  PROVE  /\ FreshTypes /\ FreshFits(owner[b], pc[b], goal[b], be[b], vm[b], dev[b])
         /\ owner[b] \in FreshSeats /\ pc[b] \in FreshSteps /\ goal[b] \in FreshAims
         /\ be[b] \in Fresh!BackendType /\ vm[b] \in Fresh!VmType /\ dev[b] \in FreshOpen
         /\ owner[b] = "pool" /\ pc[b] # "rest" => Fresh!InHand(b) /\ FreshServed(b)
<1>1. FreshTypes
  BY FreshTypeOK DEF FreshInv
<1> QED
  BY <1>1 DEF FreshInv, FreshEach, FreshTypes, FreshPooled, Fresh!InHand

LEMMA FreshOpens ==
  ASSUME FreshInv, NEW b \in Backend, Fresh!OpenVm(b)
  PROVE  FreshInv'
<1>1. /\ pc[b] = "boot" /\ pc' = [pc EXCEPT ![b] = "attach"]
      /\ UNCHANGED <<owner, goal, be, dev, pool, call>>
      /\ vm' = [vm EXCEPT ![b] = [Fresh!NoVm EXCEPT !.open = TRUE]]
  BY DEF Fresh!OpenVm, Fresh!Goto
<1>2. /\ FreshTypes /\ FreshFits(owner[b], pc[b], goal[b], be[b], vm[b], dev[b])
      /\ owner[b] \in FreshSeats /\ goal[b] \in FreshAims /\ be[b] \in Fresh!BackendType
      /\ vm[b] \in Fresh!VmType /\ dev[b] \in FreshOpen
  BY FreshAt
<1> DEFINE v == [Fresh!NoVm EXCEPT !.open = TRUE]
           d == dev[b]
<1>3. v \in Fresh!VmType /\ d \in FreshOpen /\ "attach" \in FreshSteps
  BY <1>2, FreshVm DEF FreshOpen, FreshSteps, Fresh!Points
<1>4. FreshFits(owner[b], "attach", goal[b], be[b], v, d)
  BY <1>1, <1>2, FreshVm DEF FreshFits
<1>5. /\ owner' = [owner EXCEPT ![b] = owner[b]] /\ goal' = [goal EXCEPT ![b] = goal[b]]
      /\ be' = [be EXCEPT ![b] = be[b]] /\ vm' = [vm EXCEPT ![b] = v]
      /\ dev' = [dev EXCEPT ![b] = d]
  BY <1>1, <1>2, FreshSame
<1>6. \/ owner[b] # "pool"
      \/ Fresh!InHand(b) /\ FreshServed(b)'
  <2>1. owner[b] = "pool" => Fresh!InHand(b) /\ FreshServed(b)
    BY <1>1, FreshAt
  <2>2. pc'[b] = "attach"
    BY <1>1, <1>2 DEF FreshTypes
  <2> QED
    BY <1>1, <1>2, <2>1, <2>2 DEF FreshServed, FreshFits
<1>7. UNCHANGED <<pool, call>>
  BY <1>1
<1> HIDE DEF v, d
<1>8. FreshBecomes(b, owner[b], "attach", goal[b], be[b], v, d)
  BY <1>1, <1>2, <1>3, <1>4, <1>5 DEF FreshBecomes
<1> QED
  BY <1>6, <1>7, <1>8, FreshActs

LEMMA FreshOpenFails ==
  ASSUME FreshInv, NEW b \in Backend, Fresh!OpenFails(b)
  PROVE  FreshInv'
<1>1. /\ pc[b] = "boot" /\ pc' = [pc EXCEPT ![b] = "rest"]
      /\ UNCHANGED <<owner, goal, be, vm, dev, pool, call>>
  BY DEF Fresh!OpenFails, Fresh!Goto
<1>2. /\ FreshTypes /\ FreshFits(owner[b], pc[b], goal[b], be[b], vm[b], dev[b])
      /\ owner[b] \in FreshSeats /\ goal[b] \in FreshAims /\ be[b] \in Fresh!BackendType
      /\ vm[b] \in Fresh!VmType /\ dev[b] \in FreshOpen
  BY FreshAt
<1> DEFINE v == vm[b]
           d == dev[b]
<1>3. v \in Fresh!VmType /\ d \in FreshOpen /\ "rest" \in FreshSteps
  BY <1>2, FreshVm DEF FreshOpen, FreshSteps, Fresh!Points
<1>4. FreshFits(owner[b], "rest", goal[b], be[b], v, d)
  BY <1>1, <1>2, FreshVm DEF FreshFits
<1>5. /\ owner' = [owner EXCEPT ![b] = owner[b]] /\ goal' = [goal EXCEPT ![b] = goal[b]]
      /\ be' = [be EXCEPT ![b] = be[b]] /\ vm' = [vm EXCEPT ![b] = v]
      /\ dev' = [dev EXCEPT ![b] = d]
  BY <1>1, <1>2, FreshSame
<1>6. \/ owner[b] # "pool"
      \/ Fresh!InHand(b) /\ FreshServed(b)'
  <2>1. owner[b] = "pool" => Fresh!InHand(b) /\ FreshServed(b)
    BY <1>1, FreshAt
  <2>2. pc'[b] = "rest"
    BY <1>1, <1>2 DEF FreshTypes
  <2> QED
    BY <1>1, <1>2, <2>1, <2>2 DEF FreshServed, FreshFits
<1>7. UNCHANGED <<pool, call>>
  BY <1>1
<1> HIDE DEF v, d
<1>8. FreshBecomes(b, owner[b], "rest", goal[b], be[b], v, d)
  BY <1>1, <1>2, <1>3, <1>4, <1>5 DEF FreshBecomes
<1> QED
  BY <1>6, <1>7, <1>8, FreshActs

LEMMA FreshNoGpu ==
  ASSUME FreshInv, NEW b \in Backend, Fresh!NoGpu(b)
  PROVE  FreshInv'
<1>1. /\ pc[b] = "attach" /\ pc' = [pc EXCEPT ![b] = "run"]
      /\ UNCHANGED <<owner, goal, be, vm, dev, pool, call>>
  BY DEF Fresh!NoGpu, Fresh!Goto
<1>2. /\ FreshTypes /\ FreshFits(owner[b], pc[b], goal[b], be[b], vm[b], dev[b])
      /\ owner[b] \in FreshSeats /\ goal[b] \in FreshAims /\ be[b] \in Fresh!BackendType
      /\ vm[b] \in Fresh!VmType /\ dev[b] \in FreshOpen
  BY FreshAt
<1> DEFINE v == vm[b]
           d == dev[b]
<1>3. v \in Fresh!VmType /\ d \in FreshOpen /\ "run" \in FreshSteps
  BY <1>2, FreshVm DEF FreshOpen, FreshSteps, Fresh!Points
<1>4. FreshFits(owner[b], "run", goal[b], be[b], v, d)
  BY <1>1, <1>2, FreshVm DEF FreshFits
<1>5. /\ owner' = [owner EXCEPT ![b] = owner[b]] /\ goal' = [goal EXCEPT ![b] = goal[b]]
      /\ be' = [be EXCEPT ![b] = be[b]] /\ vm' = [vm EXCEPT ![b] = v]
      /\ dev' = [dev EXCEPT ![b] = d]
  BY <1>1, <1>2, FreshSame
<1>6. \/ owner[b] # "pool"
      \/ Fresh!InHand(b) /\ FreshServed(b)'
  <2>1. owner[b] = "pool" => Fresh!InHand(b) /\ FreshServed(b)
    BY <1>1, FreshAt
  <2>2. pc'[b] = "run"
    BY <1>1, <1>2 DEF FreshTypes
  <2> QED
    BY <1>1, <1>2, <2>1, <2>2 DEF FreshServed, FreshFits
<1>7. UNCHANGED <<pool, call>>
  BY <1>1
<1> HIDE DEF v, d
<1>8. FreshBecomes(b, owner[b], "run", goal[b], be[b], v, d)
  BY <1>1, <1>2, <1>3, <1>4, <1>5 DEF FreshBecomes
<1> QED
  BY <1>6, <1>7, <1>8, FreshActs

LEMMA FreshBootFails ==
  ASSUME FreshInv, NEW b \in Backend, Fresh!BootFails(b)
  PROVE  FreshInv'
<1>1. /\ pc[b] = "run" /\ pc' = [pc EXCEPT ![b] = "undo"]
      /\ UNCHANGED <<owner, goal, be, vm, dev, pool, call>>
  BY DEF Fresh!BootFails, Fresh!Goto
<1>2. /\ FreshTypes /\ FreshFits(owner[b], pc[b], goal[b], be[b], vm[b], dev[b])
      /\ owner[b] \in FreshSeats /\ goal[b] \in FreshAims /\ be[b] \in Fresh!BackendType
      /\ vm[b] \in Fresh!VmType /\ dev[b] \in FreshOpen
  BY FreshAt
<1> DEFINE v == vm[b]
           d == dev[b]
<1>3. v \in Fresh!VmType /\ d \in FreshOpen /\ "undo" \in FreshSteps
  BY <1>2, FreshVm DEF FreshOpen, FreshSteps, Fresh!Points
<1>4. FreshFits(owner[b], "undo", goal[b], be[b], v, d)
  BY <1>1, <1>2, FreshVm DEF FreshFits
<1>5. /\ owner' = [owner EXCEPT ![b] = owner[b]] /\ goal' = [goal EXCEPT ![b] = goal[b]]
      /\ be' = [be EXCEPT ![b] = be[b]] /\ vm' = [vm EXCEPT ![b] = v]
      /\ dev' = [dev EXCEPT ![b] = d]
  BY <1>1, <1>2, FreshSame
<1>6. \/ owner[b] # "pool"
      \/ Fresh!InHand(b) /\ FreshServed(b)'
  <2>1. owner[b] = "pool" => Fresh!InHand(b) /\ FreshServed(b)
    BY <1>1, FreshAt
  <2>2. pc'[b] = "undo"
    BY <1>1, <1>2 DEF FreshTypes
  <2> QED
    BY <1>1, <1>2, <2>1, <2>2 DEF FreshServed, FreshFits
<1>7. UNCHANGED <<pool, call>>
  BY <1>1
<1> HIDE DEF v, d
<1>8. FreshBecomes(b, owner[b], "undo", goal[b], be[b], v, d)
  BY <1>1, <1>2, <1>3, <1>4, <1>5 DEF FreshBecomes
<1> QED
  BY <1>6, <1>7, <1>8, FreshActs

LEMMA FreshUndoes ==
  ASSUME FreshInv, NEW b \in Backend, Fresh!UndoSession(b)
  PROVE  FreshInv'
<1>1. /\ pc[b] = "undo" /\ pc' = [pc EXCEPT ![b] = "undovm"]
      /\ UNCHANGED <<owner, goal, be, vm, pool, call>>
      /\ dev' = [dev EXCEPT ![b] = dev[b] \ {"session"}]
  BY DEF Fresh!UndoSession, Fresh!Goto
<1>2. /\ FreshTypes /\ FreshFits(owner[b], pc[b], goal[b], be[b], vm[b], dev[b])
      /\ owner[b] \in FreshSeats /\ goal[b] \in FreshAims /\ be[b] \in Fresh!BackendType
      /\ vm[b] \in Fresh!VmType /\ dev[b] \in FreshOpen
  BY FreshAt
<1> DEFINE v == vm[b]
           d == dev[b] \ {"session"}
<1>3. v \in Fresh!VmType /\ d \in FreshOpen /\ "undovm" \in FreshSteps
  BY <1>2, FreshVm DEF FreshOpen, FreshSteps, Fresh!Points
<1>4. FreshFits(owner[b], "undovm", goal[b], be[b], v, d)
  BY <1>1, <1>2, FreshVm DEF FreshFits
<1>5. /\ owner' = [owner EXCEPT ![b] = owner[b]] /\ goal' = [goal EXCEPT ![b] = goal[b]]
      /\ be' = [be EXCEPT ![b] = be[b]] /\ vm' = [vm EXCEPT ![b] = v]
      /\ dev' = [dev EXCEPT ![b] = d]
  BY <1>1, <1>2, FreshSame
<1>6. \/ owner[b] # "pool"
      \/ Fresh!InHand(b) /\ FreshServed(b)'
  <2>1. owner[b] = "pool" => Fresh!InHand(b) /\ FreshServed(b)
    BY <1>1, FreshAt
  <2>2. pc'[b] = "undovm"
    BY <1>1, <1>2 DEF FreshTypes
  <2> QED
    BY <1>1, <1>2, <2>1, <2>2 DEF FreshServed, FreshFits
<1>7. UNCHANGED <<pool, call>>
  BY <1>1
<1> HIDE DEF v, d
<1>8. FreshBecomes(b, owner[b], "undovm", goal[b], be[b], v, d)
  BY <1>1, <1>2, <1>3, <1>4, <1>5 DEF FreshBecomes
<1> QED
  BY <1>6, <1>7, <1>8, FreshActs

LEMMA FreshClosesSession ==
  ASSUME FreshInv, NEW b \in Backend, Fresh!CloseSession(b)
  PROVE  FreshInv'
<1>1. /\ pc[b] = "session" /\ pc' = [pc EXCEPT ![b] = "vm"]
      /\ UNCHANGED <<owner, goal, be, vm, pool, call>>
      /\ dev' = [dev EXCEPT ![b] = dev[b] \ {"session"}]
  BY DEF Fresh!CloseSession, Fresh!Goto
<1>2. /\ FreshTypes /\ FreshFits(owner[b], pc[b], goal[b], be[b], vm[b], dev[b])
      /\ owner[b] \in FreshSeats /\ goal[b] \in FreshAims /\ be[b] \in Fresh!BackendType
      /\ vm[b] \in Fresh!VmType /\ dev[b] \in FreshOpen
  BY FreshAt
<1> DEFINE v == vm[b]
           d == dev[b] \ {"session"}
<1>3. v \in Fresh!VmType /\ d \in FreshOpen /\ "vm" \in FreshSteps
  BY <1>2, FreshVm DEF FreshOpen, FreshSteps, Fresh!Points
<1>4. FreshFits(owner[b], "vm", goal[b], be[b], v, d)
  BY <1>1, <1>2, FreshVm DEF FreshFits
<1>5. /\ owner' = [owner EXCEPT ![b] = owner[b]] /\ goal' = [goal EXCEPT ![b] = goal[b]]
      /\ be' = [be EXCEPT ![b] = be[b]] /\ vm' = [vm EXCEPT ![b] = v]
      /\ dev' = [dev EXCEPT ![b] = d]
  BY <1>1, <1>2, FreshSame
<1>6. \/ owner[b] # "pool"
      \/ Fresh!InHand(b) /\ FreshServed(b)'
  <2>1. owner[b] = "pool" => Fresh!InHand(b) /\ FreshServed(b)
    BY <1>1, FreshAt
  <2>2. pc'[b] = "vm"
    BY <1>1, <1>2 DEF FreshTypes
  <2> QED
    BY <1>1, <1>2, <2>1, <2>2 DEF FreshServed, FreshFits
<1>7. UNCHANGED <<pool, call>>
  BY <1>1
<1> HIDE DEF v, d
<1>8. FreshBecomes(b, owner[b], "vm", goal[b], be[b], v, d)
  BY <1>1, <1>2, <1>3, <1>4, <1>5 DEF FreshBecomes
<1> QED
  BY <1>6, <1>7, <1>8, FreshActs

LEMMA FreshAttaches ==
  ASSUME FreshInv, NEW b \in Backend, Fresh!Attach(b)
  PROVE  FreshInv'
<1>1. PICK copies \in {{}, {"config"}, {"config", "mmio"}} :
      /\ pc[b] = "attach" /\ pc' = [pc EXCEPT ![b] = "run"]
      /\ UNCHANGED <<owner, goal, be, vm, pool, call>>
      /\ dev' = [dev EXCEPT ![b] = {"session"} \cup copies]
  BY DEF Fresh!Attach, Fresh!Goto
<1>2. /\ FreshTypes /\ FreshFits(owner[b], pc[b], goal[b], be[b], vm[b], dev[b])
      /\ owner[b] \in FreshSeats /\ goal[b] \in FreshAims /\ be[b] \in Fresh!BackendType
      /\ vm[b] \in Fresh!VmType /\ dev[b] \in FreshOpen
  BY FreshAt
<1> DEFINE v == vm[b]
           d == {"session"} \cup copies
<1>3. v \in Fresh!VmType /\ d \in FreshOpen /\ "run" \in FreshSteps
  BY <1>2, FreshVm DEF FreshOpen, FreshSteps, Fresh!Points
<1>4. FreshFits(owner[b], "run", goal[b], be[b], v, d)
  BY <1>1, <1>2, FreshVm DEF FreshFits
<1>5. /\ owner' = [owner EXCEPT ![b] = owner[b]] /\ goal' = [goal EXCEPT ![b] = goal[b]]
      /\ be' = [be EXCEPT ![b] = be[b]] /\ vm' = [vm EXCEPT ![b] = v]
      /\ dev' = [dev EXCEPT ![b] = d]
  BY <1>1, <1>2, FreshSame
<1>6. \/ owner[b] # "pool"
      \/ Fresh!InHand(b) /\ FreshServed(b)'
  <2>1. owner[b] = "pool" => Fresh!InHand(b) /\ FreshServed(b)
    BY <1>1, FreshAt
  <2>2. pc'[b] = "run"
    BY <1>1, <1>2 DEF FreshTypes
  <2> QED
    BY <1>1, <1>2, <2>1, <2>2 DEF FreshServed, FreshFits
<1>7. UNCHANGED <<pool, call>>
  BY <1>1
<1> HIDE DEF v, d
<1>8. FreshBecomes(b, owner[b], "run", goal[b], be[b], v, d)
  BY <1>1, <1>2, <1>3, <1>4, <1>5 DEF FreshBecomes
<1> QED
  BY <1>6, <1>7, <1>8, FreshActs

LEMMA FreshClosed ==
  ASSUME NEW f \in Fresh!BackendType
  PROVE  /\ Fresh!Closed(f) \in Fresh!BackendType /\ Fresh!Closed(f).initialized = FALSE
         /\ Fresh!Closed(f).lives = f.lives /\ Fresh!Closed(f).msi = f.msi
         /\ Fresh!Closed(f).modules = f.modules /\ Fresh!Closed(f).tap = f.tap
  BY DEF Fresh!Closed, Fresh!BackendType

LEMMA FreshBooted ==
  ASSUME NEW f \in Fresh!BackendType, f.lives < MaxLives, NEW t \in BOOLEAN
  PROVE  /\ Fresh!Booted(f, t) \in Fresh!BackendType /\ Fresh!Booted(f, t).initialized = TRUE
         /\ Fresh!Booted(f, t).lives = f.lives + 1 /\ Fresh!Booted(f, t).msi = f.msi
         /\ Fresh!Booted(f, t).modules = f.modules /\ (Fresh!Booted(f, t).tap <=> f.tap \/ t)
<1> DEFINE x == [f EXCEPT !.initialized = TRUE]
           h == f.tap \/ t
           y == [x EXCEPT !.tap = h]
           n == f.lives + 1
           z == [y EXCEPT !.lives = n]
<1>1. h \in BOOLEAN /\ n \in 0 .. MaxLives
  BY FreshSizes DEF Fresh!BackendType
<1>2. Fresh!Booted(f, t) = z
  BY DEF Fresh!Booted, Fresh!BackendType
<1> HIDE DEF n, h
<1>3. /\ x \in Fresh!BackendType /\ x.initialized = TRUE /\ x.lives = f.lives /\ x.msi = f.msi
      /\ x.modules = f.modules
  BY DEF Fresh!BackendType
<1> HIDE DEF x
<1>4. /\ y \in Fresh!BackendType /\ y.initialized = x.initialized /\ y.msi = x.msi
      /\ y.modules = x.modules /\ y.tap = h
  BY <1>1, <1>3 DEF Fresh!BackendType
<1> HIDE DEF y
<1>5. /\ z \in Fresh!BackendType /\ z.initialized = y.initialized /\ z.msi = y.msi
      /\ z.modules = y.modules /\ z.tap = y.tap /\ z.lives = n
  BY <1>1, <1>4 DEF Fresh!BackendType
<1> HIDE DEF z
<1> QED
  BY <1>2, <1>3, <1>4, <1>5 DEF h, n

(* destroy: what has a VM closes it step by step, what has none is done.      *)
LEMMA FreshDestroys ==
  ASSUME FreshInv, NEW b \in Backend, owner[b] = "caller", pc[b] = "rest", NEW g \in FreshAims,
         g = "init" => be[b].lives < MaxLives, Fresh!Destroy(b, g), UNCHANGED <<vm, dev, pool, call>>
  PROVE  FreshInv'
<1>1. /\ FreshTypes /\ FreshFits(owner[b], pc[b], goal[b], be[b], vm[b], dev[b])
      /\ owner[b] \in FreshSeats /\ goal[b] \in FreshAims /\ be[b] \in Fresh!BackendType
      /\ vm[b] \in Fresh!VmType /\ dev[b] \in FreshOpen
  BY FreshAt
<1>2. CASE be[b].initialized
  <2>1. /\ pc' = [pc EXCEPT ![b] = "session"] /\ goal' = [goal EXCEPT ![b] = g]
        /\ UNCHANGED <<owner, be>>
    BY <1>2 DEF Fresh!Destroy, Fresh!Goto
  <2>2. FreshFits("caller", "session", g, be[b], vm[b], dev[b])
    BY <1>1, <1>2 DEF FreshFits
  <2>3. "session" \in FreshSteps /\ "caller" \in FreshSeats
    BY DEF FreshSteps, Fresh!Points, FreshSeats
  <2>4. /\ owner' = [owner EXCEPT ![b] = "caller"] /\ be' = [be EXCEPT ![b] = be[b]]
        /\ vm' = [vm EXCEPT ![b] = vm[b]] /\ dev' = [dev EXCEPT ![b] = dev[b]]
    BY <1>1, <2>1, FreshSame
  <2>5. FreshBecomes(b, "caller", "session", g, be[b], vm[b], dev[b])
    BY <1>1, <2>1, <2>2, <2>3, <2>4 DEF FreshBecomes
  <2> QED
    BY <2>5, FreshActs
<1>3. CASE ~be[b].initialized
  <2> DEFINE p == IF g = "init" THEN "boot" ELSE "rest"
             o == IF g = "drop" THEN "none" ELSE owner[b]
             f == IF g = "drop" THEN Fresh!New ELSE Fresh!Closed(be[b])
  <2>1. /\ pc' = [pc EXCEPT ![b] = p] /\ owner' = [owner EXCEPT ![b] = o]
        /\ be' = [be EXCEPT ![b] = f] /\ UNCHANGED goal
    BY <1>3 DEF Fresh!Destroy, Fresh!Done, Fresh!Goto
  <2>2. /\ f \in Fresh!BackendType /\ ~f.initialized /\ (g # "drop" => f.lives = be[b].lives)
        /\ (f.lives = 0 => ~f.msi /\ ~f.modules /\ ~f.tap)
    BY <1>1, FreshClosed, FreshNew DEF FreshFits
  <2>3. p \in FreshSteps /\ o \in FreshSeats /\ p \in {"boot", "rest"}
        /\ (p = "boot" => g = "init" /\ o = "caller")
        /\ (o = "none" => p = "rest" /\ f = Fresh!New) /\ o # "pool"
    BY <1>1 DEF FreshSteps, Fresh!Points, FreshSeats
  <2> HIDE DEF p, o, f
  <2>4. FreshFits(o, p, goal[b], f, vm[b], dev[b])
    <3>1. p = "boot" => f.lives < MaxLives
      BY <2>2, <2>3 DEF FreshAims
    <3> QED
      BY <1>1, <1>3, <2>2, <2>3, <3>1 DEF FreshFits
  <2>5. /\ goal' = [goal EXCEPT ![b] = goal[b]]
        /\ vm' = [vm EXCEPT ![b] = vm[b]] /\ dev' = [dev EXCEPT ![b] = dev[b]]
    BY <1>1, <2>1, FreshSame
  <2>6. FreshBecomes(b, o, p, goal[b], f, vm[b], dev[b])
    BY <1>1, <2>1, <2>2, <2>3, <2>4, <2>5 DEF FreshBecomes
  <2> QED
    BY <2>3, <2>6, FreshActs
<1> QED
  BY <1>2, <1>3

LEMMA FreshCallerCloses ==
  ASSUME FreshInv, NEW b \in Backend, Fresh!InitCall(b) \/ Fresh!DestroyCall(b) \/ Fresh!DropCall(b)
  PROVE  FreshInv'
<1>1. owner[b] = "caller" /\ pc[b] = "rest" /\ UNCHANGED <<vm, dev, pool, call>>
  BY DEF Fresh!InitCall, Fresh!DestroyCall, Fresh!DropCall, Fresh!Mine
<1>2. PICK g \in FreshAims : Fresh!Destroy(b, g) /\ (g = "init" => be[b].lives < MaxLives)
  BY DEF Fresh!InitCall, Fresh!DestroyCall, Fresh!DropCall, FreshAims
<1> QED
  BY <1>1, <1>2, FreshDestroys

LEMMA FreshNewBackend ==
  ASSUME FreshInv, NEW b \in Backend, Fresh!NewBackend(b)
  PROVE  FreshInv'
<1>1. /\ owner[b] = "none" /\ owner' = [owner EXCEPT ![b] = "caller"]
      /\ be' = [be EXCEPT ![b] = Fresh!New] /\ UNCHANGED <<pc, goal, vm, dev, pool, call>>
  BY DEF Fresh!NewBackend
<1>2. /\ FreshTypes /\ FreshFits(owner[b], pc[b], goal[b], be[b], vm[b], dev[b])
      /\ goal[b] \in FreshAims /\ vm[b] \in Fresh!VmType /\ dev[b] \in FreshOpen
      /\ pc[b] \in FreshSteps /\ "caller" \in FreshSeats
  BY FreshAt DEF FreshSeats
<1>3. FreshFits("caller", pc[b], goal[b], Fresh!New, vm[b], dev[b])
  BY <1>1, <1>2, FreshNew DEF FreshFits
<1>4. /\ pc' = [pc EXCEPT ![b] = pc[b]] /\ goal' = [goal EXCEPT ![b] = goal[b]]
      /\ vm' = [vm EXCEPT ![b] = vm[b]] /\ dev' = [dev EXCEPT ![b] = dev[b]]
  BY <1>1, <1>2, FreshSame
<1>5. FreshBecomes(b, "caller", pc[b], goal[b], Fresh!New, vm[b], dev[b])
  BY <1>1, <1>2, <1>3, <1>4, FreshNew DEF FreshBecomes
<1> QED
  BY <1>1, <1>5, FreshActs

(* The routing of MSI vectors: what is set up is somewhere.                   *)
FreshMsiType == [msi : BOOLEAN, retries : 0 .. Retries, routing : {"none", "placeholder", "guest"}]

LEMMA FreshSetsUp ==
  ASSUME NEW s \in FreshMsiType, NEW x \in Fresh!MsiSetups(s)
  PROVE  /\ x \in FreshMsiType
         /\ (s.msi => s.routing # "none") => (x.msi => x.routing # "none")
<1>1. CASE x = s
  BY <1>1
<1>2. CASE ~s.msi /\ x = [s EXCEPT !.msi = TRUE, !.routing = "placeholder"]
  <2> DEFINE y == [s EXCEPT !.msi = TRUE]
  <2>1. y \in FreshMsiType /\ y.msi = TRUE
    BY DEF FreshMsiType
  <2> HIDE DEF y
  <2>2. x = [y EXCEPT !.routing = "placeholder"]
    BY <1>2 DEF y
  <2> QED
    BY <2>1, <2>2 DEF FreshMsiType
<1> QED
  BY <1>1, <1>2 DEF Fresh!MsiSetups

LEMMA FreshRefreshes ==
  ASSUME NEW s \in FreshMsiType, NEW x \in Fresh!MsiRefreshes(s)
  PROVE  /\ x \in FreshMsiType
         /\ (s.msi => s.routing # "none") => (x.msi => x.routing # "none")
<1>1. CASE x = s
  BY <1>1
<1>2. CASE s.retries # 0 /\ (x = [s EXCEPT !.retries = 0] \/ x = [s EXCEPT !.retries = @ - 1])
  <2>1. s.retries - 1 \in 0 .. Retries /\ 0 \in 0 .. Retries
    BY <1>2, FreshSizes DEF FreshMsiType
  <2> QED
    BY <1>2, <2>1 DEF FreshMsiType
<1>3. CASE x = [s EXCEPT !.retries = 0, !.routing = "guest"]
  <2> DEFINE y == [s EXCEPT !.retries = 0]
  <2>1. y \in FreshMsiType /\ y.msi = s.msi
    BY FreshSizes DEF FreshMsiType
  <2> HIDE DEF y
  <2>2. x = [y EXCEPT !.routing = "guest"]
    BY <1>3 DEF y
  <2> QED
    BY <2>1, <2>2 DEF FreshMsiType
<1> QED
  BY <1>1, <1>2, <1>3 DEF Fresh!MsiRefreshes

LEMMA FreshExec ==
  ASSUME FreshInv, NEW b \in Backend, Fresh!Exec(b)
  PROVE  FreshInv'
<1> DEFINE needs == ~be[b].modules /\ GpuRequired /\ ~Fresh!Attached(b)
           before == [msi |-> be[b].msi, retries |-> be[b].retries, routing |-> vm[b].routing]
<1>1. /\ owner[b] = "caller" /\ pc[b] = "rest" /\ be[b].initialized
      /\ UNCHANGED <<owner, pc, goal, dev, pool, call>>
  BY DEF Fresh!Exec, Fresh!Mine
<1>2. /\ FreshTypes /\ FreshFits(owner[b], pc[b], goal[b], be[b], vm[b], dev[b])
      /\ owner[b] \in FreshSeats /\ pc[b] \in FreshSteps /\ goal[b] \in FreshAims
      /\ be[b] \in Fresh!BackendType /\ vm[b] \in Fresh!VmType /\ dev[b] \in FreshOpen
  BY FreshAt
<1>3. PICK after \in IF Fresh!Attached(b) THEN UNION {Fresh!MsiRefreshes(s) : s \in Fresh!MsiSetups(before)}
                     ELSE {before} :
        /\ be' = [be EXCEPT ![b].modules = @ \/ needs \/ Fresh!Attached(b),
                            ![b].msi = after.msi, ![b].retries = after.retries]
        /\ vm' = [vm EXCEPT ![b].asked = @ \/ needs, ![b].routing = after.routing]
  BY DEF Fresh!Exec
<1>4. before \in FreshMsiType
  BY <1>2 DEF FreshMsiType, Fresh!BackendType, Fresh!VmType
<1>5. be[b].lives = 1 => (before.msi => before.routing # "none")
  BY <1>1, <1>2 DEF FreshFits
<1>6. after \in FreshMsiType /\ (be[b].lives = 1 => (after.msi => after.routing # "none"))
  <2> HIDE DEF before
  <2>1. CASE ~Fresh!Attached(b)
    BY <1>3, <1>4, <1>5, <2>1
  <2>2. CASE Fresh!Attached(b)
    <3>1. PICK s \in Fresh!MsiSetups(before) : after \in Fresh!MsiRefreshes(s)
      BY <1>3, <2>2
    <3>2. s \in FreshMsiType
      BY <1>4, <3>1, FreshSetsUp
    <3> QED
      BY <1>4, <1>5, <3>1, <3>2, FreshSetsUp, FreshRefreshes
  <2> QED
    BY <2>1, <2>2
<1> DEFINE has == "session" \in dev[b]
           m == be[b].modules \/ needs \/ has
           i == after.msi
           k == after.retries
           a == vm[b].asked \/ needs
           r == after.routing
           x == [be[b] EXCEPT !.modules = m]
           y == [x EXCEPT !.msi = i]
           f == [y EXCEPT !.retries = k]
           u == [vm[b] EXCEPT !.asked = a]
           v == [u EXCEPT !.routing = r]
<1>7. be' = [be EXCEPT ![b] = f] /\ vm' = [vm EXCEPT ![b] = v]
  BY <1>2, <1>3 DEF Fresh!Attached, FreshTypes
<1>8. /\ m \in BOOLEAN /\ a \in BOOLEAN /\ i \in BOOLEAN /\ k \in 0 .. Retries
      /\ r \in {"none", "placeholder", "guest"}
  BY <1>2, <1>6 DEF FreshMsiType, Fresh!BackendType, Fresh!VmType
<1>9. (be[b].modules = m /\ vm[b].asked = a) \/ (m /\ (a \/ has) /\ (vm[b].asked => a))
  BY <1>2, FreshSizes DEF Fresh!Attached, Fresh!BackendType, Fresh!VmType
<1>10. be[b].lives = 1 => (i => r # "none")
  BY <1>6
<1> HIDE DEF needs, before, m, i, k, a, r, has
<1>11. /\ x \in Fresh!BackendType /\ x.modules = m /\ x.lives = be[b].lives
       /\ x.initialized = be[b].initialized /\ x.tap = be[b].tap
  BY <1>2, <1>8 DEF Fresh!BackendType
<1> HIDE DEF x
<1>12. /\ y \in Fresh!BackendType /\ y.modules = x.modules /\ y.lives = x.lives /\ y.msi = i
       /\ y.initialized = x.initialized /\ y.tap = x.tap
  BY <1>8, <1>11 DEF Fresh!BackendType
<1> HIDE DEF y
<1>13. /\ f \in Fresh!BackendType /\ f.modules = y.modules /\ f.lives = y.lives /\ f.msi = y.msi
       /\ f.initialized = y.initialized /\ f.tap = y.tap
  BY <1>8, <1>12 DEF Fresh!BackendType
<1> HIDE DEF f
<1>14. u \in Fresh!VmType /\ u.asked = a /\ u.open = vm[b].open /\ u.net = vm[b].net
  BY <1>2, <1>8 DEF Fresh!VmType
<1> HIDE DEF u
<1>15. v \in Fresh!VmType /\ v.asked = u.asked /\ v.open = u.open /\ v.net = u.net /\ v.routing = r
  BY <1>8, <1>14 DEF Fresh!VmType
<1> HIDE DEF v
<1>16. FreshFits(owner[b], pc[b], goal[b], f, v, dev[b])
  <2>1. f.initialized /\ f.lives = be[b].lives /\ f.lives # 0 /\ (f.tap <=> be[b].tap)
        /\ v.open /\ vm[b].open /\ v.net = vm[b].net
    BY <1>1, <1>2, <1>11, <1>12, <1>13, <1>14, <1>15 DEF FreshFits
  <2>2. f.lives = 1 =>
          /\ f.msi => v.routing # "none"
          /\ f.modules => v.asked \/ "session" \in dev[b]
          /\ f.tap => v.net
    <3>1. be[b].lives = 1 => (be[b].modules => vm[b].asked \/ has) /\ (be[b].tap => vm[b].net)
      BY <1>1, <1>2 DEF FreshFits, has
    <3>2. f.modules = m /\ f.msi = i /\ v.asked = a /\ v.routing = r
      BY <1>11, <1>12, <1>13, <1>14, <1>15
    <3>3. be[b].lives = 1 => (m => a \/ has)
      BY <1>9, <3>1
    <3> QED
      BY <1>10, <2>1, <3>1, <3>2, <3>3 DEF has
  <2> QED
    BY <1>1, <1>2, <2>1, <2>2 DEF FreshFits
<1>17. /\ owner' = [owner EXCEPT ![b] = owner[b]] /\ pc' = [pc EXCEPT ![b] = pc[b]]
       /\ goal' = [goal EXCEPT ![b] = goal[b]] /\ dev' = [dev EXCEPT ![b] = dev[b]]
  BY <1>1, <1>2, FreshSame
<1>18. FreshBecomes(b, owner[b], pc[b], goal[b], f, v, dev[b])
  BY <1>2, <1>7, <1>13, <1>15, <1>16, <1>17 DEF FreshBecomes
<1> QED
  BY <1>1, <1>18, FreshActs

(* The pool's queue.                                                          *)
FreshOnce(q) == \A i, j \in DOMAIN q : q[i] = q[j] => i = j

LEMMA FreshAppended ==
  ASSUME NEW q \in Seq(Backend), NEW b \in Backend, b \notin Fresh!ToSet(q), FreshOnce(q)
  PROVE  /\ Append(q, b) \in Seq(Backend) /\ Len(Append(q, b)) = Len(q) + 1
         /\ FreshOnce(Append(q, b)) /\ Fresh!ToSet(Append(q, b)) = Fresh!ToSet(q) \cup {b}
<1> DEFINE r == Append(q, b)
<1>1. /\ r \in Seq(Backend) /\ Len(r) = Len(q) + 1 /\ r[Len(q) + 1] = b
      /\ \A i \in 1 .. Len(q) : r[i] = q[i]
  BY AppendProperties
<1>2. Len(q) \in Nat /\ DOMAIN q = 1 .. Len(q) /\ DOMAIN r = 1 .. Len(q) + 1
  BY <1>1
<1> HIDE DEF r
<1>3. \A i \in 1 .. Len(q) : q[i] # b
  BY <1>2 DEF Fresh!ToSet
<1>4. \A i \in 1 .. Len(q) + 1 : i \in 1 .. Len(q) \/ i = Len(q) + 1
  BY <1>2
<1>5. FreshOnce(r)
  BY <1>1, <1>2, <1>3, <1>4 DEF FreshOnce
<1>6. Fresh!ToSet(r) = Fresh!ToSet(q) \cup {b}
  <2>1. Len(q) + 1 \in DOMAIN r /\ 1 .. Len(q) \subseteq DOMAIN r
    BY <1>2
  <2> QED
    BY <1>1, <1>2, <1>4, <2>1 DEF Fresh!ToSet
<1> QED
  BY <1>1, <1>5, <1>6 DEF r

LEMMA FreshTailed ==
  ASSUME NEW q \in Seq(Backend), q # <<>>, FreshOnce(q)
  PROVE  /\ Tail(q) \in Seq(Backend) /\ Len(q) \in Nat \ {0} /\ Len(Tail(q)) = Len(q) - 1
         /\ Head(q) \in Backend /\ Head(q) \notin Fresh!ToSet(Tail(q)) /\ FreshOnce(Tail(q))
         /\ Fresh!ToSet(q) = Fresh!ToSet(Tail(q)) \cup {Head(q)}
<1> DEFINE r == Tail(q)
<1>1. /\ r \in Seq(Backend) /\ Len(q) \in Nat \ {0} /\ Len(r) = Len(q) - 1 /\ Head(q) = q[1]
      /\ \A i \in 1 .. Len(r) : r[i] = q[i + 1]
  BY HeadTailProperties, EmptySeq
<1>2. DOMAIN q = 1 .. Len(q) /\ DOMAIN r = 1 .. Len(q) - 1
  BY <1>1
<1> HIDE DEF r
<1>3. \A i \in 1 .. Len(q) - 1 : i + 1 \in 1 .. Len(q) /\ i + 1 # 1
  BY <1>1
<1>4. 1 \in 1 .. Len(q)
  BY <1>1
<1>5. Head(q) \in Backend /\ Head(q) \notin Fresh!ToSet(r)
  BY <1>1, <1>2, <1>3, <1>4 DEF Fresh!ToSet, FreshOnce
<1>6. FreshOnce(r)
  BY <1>1, <1>2, <1>3 DEF FreshOnce
<1>7. Fresh!ToSet(q) = Fresh!ToSet(r) \cup {Head(q)}
  <2>1. Fresh!ToSet(q) = {q[i] : i \in 1 .. Len(q)} /\ Fresh!ToSet(r) = {r[i] : i \in 1 .. Len(q) - 1}
    BY <1>2 DEF Fresh!ToSet
  <2>2. ASSUME NEW i \in 1 .. Len(q)
        PROVE  q[i] = q[1] \/ \E k \in 1 .. Len(q) - 1 : r[k] = q[i]
    <3>1. CASE i = 1
      BY <3>1
    <3>2. CASE i # 1
      <4>1. i - 1 \in 1 .. Len(q) - 1 /\ (i - 1) + 1 = i /\ i - 1 \in 1 .. Len(r)
        BY <1>1, <3>2
      <4>2. r[i - 1] = q[i]
        BY <1>1, <4>1
      <4> QED
        BY <4>1, <4>2
    <3> QED
      BY <3>1, <3>2
  <2>3. ASSUME NEW k \in 1 .. Len(q) - 1
        PROVE  \E i \in 1 .. Len(q) : q[i] = r[k]
    <3>1. k \in 1 .. Len(r) /\ r[k] = q[k + 1]
      BY <1>1
    <3> QED
      BY <1>3, <3>1
  <2>4. ASSUME NEW y \in Fresh!ToSet(q)
        PROVE  y \in Fresh!ToSet(r) \cup {q[1]}
    <3>1. PICK i \in 1 .. Len(q) : y = q[i]
      BY <2>1
    <3>2. q[i] = q[1] \/ \E k \in 1 .. Len(q) - 1 : r[k] = q[i]
      BY <2>2
    <3> QED
      BY <2>1, <3>1, <3>2
  <2>5. ASSUME NEW y \in Fresh!ToSet(r) \cup {q[1]}
        PROVE  y \in Fresh!ToSet(q)
    <3>1. CASE y = q[1]
      BY <1>4, <2>1, <3>1
    <3>2. CASE y \in Fresh!ToSet(r)
      <4>1. PICK k \in 1 .. Len(q) - 1 : y = r[k]
        BY <2>1, <3>2
      <4>2. \E i \in 1 .. Len(q) : q[i] = r[k]
        BY <2>3
      <4> QED
        BY <2>1, <4>1, <4>2
    <3> QED
      BY <3>1, <3>2
  <2> QED
    BY <1>1, <2>4, <2>5
<1> QED
  BY <1>1, <1>5, <1>6, <1>7 DEF r

(* What is left to show where the pool or its call changes.                   *)
LEMMA FreshHolds ==
  ASSUME FreshTypes', FreshEach', FreshCounts', FreshOnce(pool)',
         \A x \in Backend : x \in Fresh!ToSet(pool)' \/ x = call'.got =>
           owner'[x] = "pool" /\ pc'[x] = "rest" /\ be'[x].initialized,
         call'.got \notin Fresh!ToSet(pool)', call'.got # None => call'.op = "refill",
         \A a, b \in Backend : Fresh!InHand(a)' /\ Fresh!InHand(b)' => a = b,
         \A x \in Backend : Fresh!InHand(x)' => FreshServed(x)',
         call'.op \in {"new", "refill"} /\ call'.left # 0 => Len(pool)' + call'.left <= MinIdle,
         call'.op = "gone" => pool' = <<>>
  PROVE  FreshInv'
<1>1. Fresh!TypeOK'
  BY FreshTypeOK DEF Fresh!TypeOK, FreshTypes, FreshCounts, FreshSteps, FreshSeats, FreshAims, FreshOpen
<1>2. FreshPooled'
  BY DEF FreshPooled, FreshOnce, Fresh!ToSet
<1> QED
  BY <1>1, <1>2 DEF FreshInv

LEMMA FreshCalls ==
  ASSUME FreshInv
  PROVE  /\ FreshTypes /\ FreshEach /\ FreshCounts /\ FreshOnce(pool)
         /\ \A x \in Backend : x \in Fresh!ToSet(pool) \/ x = call.got =>
              owner[x] = "pool" /\ pc[x] = "rest" /\ be[x].initialized
         /\ call.got \notin Fresh!ToSet(pool) /\ (call.got # None => call.op = "refill")
         /\ \A a, b \in Backend : Fresh!InHand(a) /\ Fresh!InHand(b) => a = b
         /\ \A x \in Backend : Fresh!InHand(x) => FreshServed(x)
         /\ (call.op \in {"new", "refill"} /\ call.left # 0 => Len(pool) + call.left <= MinIdle)
         /\ (call.op = "gone" => pool = <<>>)
  BY FreshTypeOK DEF FreshInv, FreshPooled, FreshOnce

(* A backend is booted: the caller has it, or it goes where the call wants it.*)
LEMMA FreshBoots ==
  ASSUME FreshInv, NEW b \in Backend, Fresh!Boots(b)
  PROVE  FreshInv'
<1>1. PICK t \in BOOLEAN : be' = [be EXCEPT ![b] = Fresh!Booted(be[b], t)] /\ vm' = [vm EXCEPT ![b].net = t]
  BY DEF Fresh!Boots, Fresh!Taps
<1>2. pc[b] = "run" /\ pc' = [pc EXCEPT ![b] = "rest"] /\ UNCHANGED <<owner, goal, dev>>
  BY DEF Fresh!Boots, Fresh!Goto
<1>3. /\ FreshTypes /\ FreshFits(owner[b], pc[b], goal[b], be[b], vm[b], dev[b])
      /\ owner[b] \in FreshSeats /\ goal[b] \in FreshAims
      /\ be[b] \in Fresh!BackendType /\ vm[b] \in Fresh!VmType /\ dev[b] \in FreshOpen
  BY FreshAt
<1> DEFINE f == Fresh!Booted(be[b], t)
           v == [vm[b] EXCEPT !.net = t]
<1>4. /\ f \in Fresh!BackendType /\ f.initialized = TRUE /\ f.lives = be[b].lives + 1
      /\ f.msi = be[b].msi /\ f.modules = be[b].modules /\ (f.tap <=> be[b].tap \/ t)
  <2>1. be[b].lives < MaxLives
    BY <1>2, <1>3 DEF FreshFits
  <2> DEFINE w == be[b]
  <2>2. w \in Fresh!BackendType /\ w.lives < MaxLives /\ t \in BOOLEAN
    BY <1>3, <2>1
  <2> HIDE DEF w
  <2>3. /\ Fresh!Booted(w, t) \in Fresh!BackendType /\ Fresh!Booted(w, t).initialized = TRUE
        /\ Fresh!Booted(w, t).lives = w.lives + 1 /\ Fresh!Booted(w, t).msi = w.msi
        /\ Fresh!Booted(w, t).modules = w.modules /\ (Fresh!Booted(w, t).tap <=> w.tap \/ t)
    BY <2>2, FreshBooted, Zenon
  <2> QED
    BY <2>3 DEF w
<1>5. v \in Fresh!VmType /\ v.open = vm[b].open /\ v.net = t
  <2> DEFINE u == vm[b]
  <2>1. u \in Fresh!VmType
    BY <1>3
  <2> HIDE DEF u
  <2> QED
    BY <2>1 DEF Fresh!VmType, u
<1>6. vm' = [vm EXCEPT ![b] = v]
  BY <1>1, <1>3
<1> HIDE DEF f, v
<1>7. FreshFits(owner[b], "rest", goal[b], f, v, dev[b])
  <2>1. be[b].lives \in Nat
    BY <1>3, FreshSizes DEF Fresh!BackendType
  <2>2. f.lives # 0 /\ (f.lives = 1 => be[b].lives = 0)
    BY <1>4, <2>1
  <2> QED
    BY <1>2, <1>3, <1>4, <1>5, <2>2 DEF FreshFits
<1>8. FreshBecomes(b, owner[b], "rest", goal[b], f, v, dev[b])
  <2>1. "rest" \in FreshSteps
    BY DEF FreshSteps, Fresh!Points
  <2>2. /\ owner' = [owner EXCEPT ![b] = owner[b]] /\ goal' = [goal EXCEPT ![b] = goal[b]]
        /\ dev' = [dev EXCEPT ![b] = dev[b]] /\ be' = [be EXCEPT ![b] = f]
    BY <1>1, <1>2, <1>3, FreshSame DEF f
  <2> QED
    BY <1>2, <1>3, <1>4, <1>5, <1>6, <1>7, <2>1, <2>2 DEF FreshBecomes
<1>9. CASE ~Fresh!InHand(b)
  <2>1. UNCHANGED <<pool, call>>
    BY <1>9 DEF Fresh!Boots
  <2>2. owner[b] # "pool"
    BY <1>2, <1>9, FreshAt
  <2> QED
    BY <1>8, <2>1, <2>2, FreshActs
<1>10. CASE Fresh!InHand(b)
  <2>1. FreshCounts /\ FreshEach
    BY FreshCalls
  <2>2. /\ FreshTypes' /\ FreshEach' /\ owner'[b] = owner[b] /\ pc'[b] = "rest" /\ be'[b] = f
        /\ \A x \in Backend \ {b} : owner'[x] = owner[x] /\ pc'[x] = pc[x] /\ be'[x] = be[x]
    BY <1>3, <1>8, <2>1, FreshPut
  <2>3. owner[b] = "pool" /\ b \notin Fresh!ToSet(pool) /\ b # call.got
    BY <1>10 DEF Fresh!InHand
  <2>4. \A x \in Backend : owner[x] = "pool" /\ x \notin Fresh!ToSet(pool) /\ x # call.got => x = b
    BY <1>10, FreshCalls DEF Fresh!InHand
  <2>5. call.op \in {"new", "boot", "refill"} /\ call.left # 0
    BY <1>2, <1>10, FreshCalls DEF FreshServed
  <2>6. \A x \in Backend : x \in Fresh!ToSet(pool) \/ x = call.got =>
          owner'[x] = "pool" /\ pc'[x] = "rest" /\ be'[x].initialized
    BY <2>2, <2>3, FreshCalls
  <2>7. pool \in Seq(Backend) /\ FreshOnce(pool) /\ Len(pool) \in Nat /\ call.left \in Nat
    BY <2>1, FreshCalls DEF FreshCounts
  <2>8. CASE call.op = "boot" /\ call' = Fresh!Refilled(b, pool) /\ UNCHANGED pool
    <3>1. call' = [op |-> "refill", got |-> b, left |-> Fresh!Missing(pool)] /\ call.got = None
      BY <2>8, FreshCalls DEF Fresh!Refilled
    <3>2. Fresh!Missing(pool) \in 0 .. MinIdle
          /\ (Fresh!Missing(pool) # 0 => Len(pool) + Fresh!Missing(pool) <= MinIdle)
      BY <2>7, FreshSizes DEF Fresh!Missing
    <3>3. \A x \in Backend : ~Fresh!InHand(x)'
      BY <2>2, <2>4, <2>8, <3>1, FreshSizes DEF Fresh!InHand
    <3>4. FreshCounts'
      <4>1. Fresh!Missing(pool) \in 0 .. Fresh!Larger + 1
        BY <3>2, FreshSizes
      <4> QED
        BY <2>1, <2>8, <3>1, <4>1 DEF FreshCounts, Fresh!Ops
    <3>5. \A x \in Backend : x \in Fresh!ToSet(pool)' \/ x = call'.got =>
            owner'[x] = "pool" /\ pc'[x] = "rest" /\ be'[x].initialized
      BY <1>4, <2>2, <2>3, <2>6, <2>8, <3>1
    <3>6. FreshOnce(pool)' /\ call'.got \notin Fresh!ToSet(pool)' /\ call'.op = "refill"
      BY <2>3, <2>7, <2>8, <3>1 DEF FreshOnce
    <3>7. call'.op \in {"new", "refill"} /\ call'.left # 0 => Len(pool)' + call'.left <= MinIdle
      BY <2>8, <3>1, <3>2
    <3> QED
      BY <2>2, <3>3, <3>4, <3>5, <3>6, <3>7, FreshHolds
  <2>9. CASE call.op # "boot" /\ pool' = Append(pool, b) /\ call' = [call EXCEPT !.left = @ - 1]
    <3>1. /\ pool' \in Seq(Backend) /\ Len(pool') = Len(pool) + 1 /\ FreshOnce(pool')
          /\ Fresh!ToSet(pool') = Fresh!ToSet(pool) \cup {b}
      BY <2>3, <2>7, <2>9, FreshAppended
    <3>2. call'.op = call.op /\ call'.got = call.got /\ call'.left = call.left - 1
      BY <2>1, <2>9 DEF FreshCounts
    <3>3. Len(pool) + call.left <= MinIdle
      BY <2>5, <2>9, FreshCalls
    <3>4. FreshCounts'
      <4>1. Len(pool') <= Fresh!Larger /\ call.left - 1 \in 0 .. Fresh!Larger + 1
        BY <2>5, <2>7, <3>1, <3>3, FreshSizes
      <4> QED
        BY <2>1, <2>9, <3>1, <4>1 DEF FreshCounts
    <3>5. \A x \in Backend : ~Fresh!InHand(x)'
      BY <2>2, <2>4, <3>1, <3>2 DEF Fresh!InHand, Fresh!ToSet
    <3>6. \A x \in Backend : x \in Fresh!ToSet(pool)' \/ x = call'.got =>
            owner'[x] = "pool" /\ pc'[x] = "rest" /\ be'[x].initialized
      BY <1>4, <2>2, <2>3, <2>6, <3>1, <3>2 DEF Fresh!ToSet
    <3>7. /\ FreshOnce(pool)' /\ call'.got \notin Fresh!ToSet(pool)'
          /\ (call'.got # None => call'.op = "refill")
      BY <2>3, <3>1, <3>2, FreshCalls DEF FreshOnce, Fresh!ToSet
    <3>8. /\ call'.op \in {"new", "refill"} /\ call'.left # 0 => Len(pool)' + call'.left <= MinIdle
          /\ call'.op # "gone"
      BY <2>5, <2>7, <3>1, <3>2, <3>3
    <3> QED
      BY <2>2, <3>4, <3>5, <3>6, <3>7, <3>8, FreshHolds
  <2> QED
    BY <1>10, <2>8, <2>9 DEF Fresh!Boots
<1> QED
  BY <1>9, <1>10

(* Only the call changes, with no backend in hand.                            *)
FreshCallType == [op : Fresh!Ops, got : Backend \cup {None}, left : 0 .. Fresh!Larger + 1]

LEMMA FreshWaits ==
  ASSUME FreshInv, UNCHANGED <<owner, pc, goal, be, vm, dev, pool>>,
         \A x \in Backend : ~Fresh!InHand(x), call' \in FreshCallType, call'.got = call.got,
         call'.got # None => call'.op = "refill",
         call'.op \in {"new", "refill"} /\ call'.left # 0 => Len(pool) + call'.left <= MinIdle,
         call'.op = "gone" => pool = <<>>
  PROVE  FreshInv'
<1>1. FreshTypes' /\ FreshEach' /\ FreshCounts'
  BY FreshCalls DEF FreshTypes, FreshEach, FreshCounts, FreshCallType
<1>2. \A x \in Backend : ~Fresh!InHand(x)'
  BY DEF Fresh!InHand
<1>3. FreshOnce(pool)' /\ call'.got \notin Fresh!ToSet(pool)'
  BY FreshCalls DEF FreshOnce
<1>4. \A x \in Backend : x \in Fresh!ToSet(pool)' \/ x = call'.got =>
        owner'[x] = "pool" /\ pc'[x] = "rest" /\ be'[x].initialized
  BY FreshCalls
<1> QED
  BY <1>1, <1>2, <1>3, <1>4, FreshHolds

(* The backend in hand is dropped.                                            *)
LEMMA FreshLeaves ==
  ASSUME FreshInv, NEW b \in Backend, Fresh!InHand(b), NEW g, NEW v, NEW d,
         FreshBecomes(b, "none", "rest", g, Fresh!New, v, d), UNCHANGED pool,
         call' \in FreshCallType, call'.got = call.got, call'.got # None => call'.op = "refill",
         call'.op \in {"new", "refill"} => call'.left = 0, call'.op # "gone"
  PROVE  FreshInv'
<1>1. /\ FreshTypes /\ FreshEach /\ FreshCounts /\ FreshOnce(pool)
      /\ b \notin Fresh!ToSet(pool) /\ b # call.got
  BY FreshCalls DEF Fresh!InHand
<1>2. /\ FreshTypes' /\ FreshEach' /\ owner'[b] = "none"
      /\ \A x \in Backend \ {b} : owner'[x] = owner[x] /\ pc'[x] = pc[x] /\ be'[x] = be[x]
  BY <1>1, FreshPut
<1>3. FreshCounts'
  BY <1>1 DEF FreshCounts, FreshCallType
<1>4. \A x \in Backend : ~Fresh!InHand(x)'
  <2>1. \A x \in Backend : Fresh!InHand(x)' => x # b /\ Fresh!InHand(x)
    BY <1>2 DEF Fresh!InHand
  <2> QED
    BY <2>1, FreshCalls
<1>5. FreshOnce(pool)' /\ call'.got \notin Fresh!ToSet(pool)'
  BY FreshCalls DEF FreshOnce
<1>6. \A x \in Backend : x \in Fresh!ToSet(pool)' \/ x = call'.got =>
        owner'[x] = "pool" /\ pc'[x] = "rest" /\ be'[x].initialized
  BY <1>1, <1>2, FreshCalls
<1> QED
  BY <1>2, <1>3, <1>4, <1>5, <1>6, FreshHolds

LEMMA FreshLost ==
  ASSUME FreshInv, call.op \in {"new", "boot", "refill"}
  PROVE  /\ Fresh!BootLost(call) \in FreshCallType /\ Fresh!BootLost(call).got = call.got
         /\ Fresh!BootLost(call).left = 0 /\ Fresh!BootLost(call).op \in {"clear", "refill", "none"}
         /\ Fresh!BootLost(call).got # None => Fresh!BootLost(call).op = "refill"
<1>1. /\ call \in FreshCallType /\ (call.got # None => call.op = "refill") /\ 0 \in 0 .. Fresh!Larger + 1
  BY FreshCalls, FreshSizes DEF FreshCounts, FreshCallType
<1>2. CASE call.op = "new"
  <2>1. Fresh!BootLost(call) = [op |-> "clear", got |-> None, left |-> 0]
    BY <1>2 DEF Fresh!BootLost, Fresh!Idle
  <2> QED
    BY <1>1, <1>2, <2>1 DEF FreshCallType, Fresh!Ops
<1>3. CASE call.op = "refill"
  <2>1. Fresh!BootLost(call) = [call EXCEPT !.left = 0]
    BY <1>3 DEF Fresh!BootLost
  <2> QED
    BY <1>1, <1>3, <2>1 DEF FreshCallType, Fresh!Ops
<1>4. CASE call.op = "boot"
  <2>1. Fresh!BootLost(call) = [op |-> "none", got |-> None, left |-> 0]
    BY <1>4 DEF Fresh!BootLost, Fresh!Idle
  <2> QED
    BY <1>1, <1>4, <2>1 DEF FreshCallType, Fresh!Ops
<1> QED
  BY <1>2, <1>3, <1>4

LEMMA FreshVmGone ==
  ASSUME FreshInv, NEW b \in Backend, Fresh!VmGone(b), pc[b] \in {"undovm", "vm"}
  PROVE  /\ vm' = [vm EXCEPT ![b] = Fresh!NoVm] /\ dev' = [dev EXCEPT ![b] = dev[b] \ {"config"}]
         /\ dev[b] \ {"config"} \in FreshOpen /\ dev[b] \ {"config"} \subseteq {"mmio"}
<1>1. dev[b] \in FreshOpen /\ "session" \notin dev[b]
  BY FreshAt DEF FreshFits
<1> QED
  BY <1>1 DEF Fresh!VmGone, FreshOpen

LEMMA FreshUndoesVm ==
  ASSUME FreshInv, NEW b \in Backend, Fresh!UndoVm(b)
  PROVE  FreshInv'
<1> DEFINE d == dev[b] \ {"config"}
           w == Fresh!NoVm
<1>1. pc[b] = "undovm" /\ pc' = [pc EXCEPT ![b] = "rest"] /\ UNCHANGED <<goal, pool>>
  BY DEF Fresh!UndoVm, Fresh!Goto
<1>2. /\ vm' = [vm EXCEPT ![b] = w] /\ dev' = [dev EXCEPT ![b] = d]
      /\ d \in FreshOpen /\ d \subseteq {"mmio"} /\ w \in Fresh!VmType /\ ~w.open
  BY <1>1, FreshVmGone, FreshNew DEF Fresh!UndoVm
<1>3. /\ FreshTypes /\ FreshFits(owner[b], pc[b], goal[b], be[b], vm[b], dev[b])
      /\ owner[b] \in FreshSeats /\ goal[b] \in FreshAims /\ be[b] \in Fresh!BackendType
      /\ "rest" \in FreshSteps /\ "none" \in FreshSeats
  BY FreshAt DEF FreshSteps, Fresh!Points, FreshSeats
<1>4. goal' = [goal EXCEPT ![b] = goal[b]]
  BY <1>1, <1>3, FreshSame
<1> HIDE DEF d, w
<1>5. CASE owner[b] # "pool"
  <2>1. UNCHANGED <<owner, be, call>>
    BY <1>5 DEF Fresh!UndoVm
  <2>2. FreshFits(owner[b], "rest", goal[b], be[b], w, d)
    BY <1>1, <1>2, <1>3 DEF FreshFits
  <2>3. owner' = [owner EXCEPT ![b] = owner[b]] /\ be' = [be EXCEPT ![b] = be[b]]
    BY <1>3, <2>1, FreshSame
  <2>4. FreshBecomes(b, owner[b], "rest", goal[b], be[b], w, d)
    BY <1>1, <1>2, <1>3, <1>4, <2>2, <2>3 DEF FreshBecomes
  <2> QED
    BY <1>1, <1>5, <2>1, <2>4, FreshActs
<1>6. CASE owner[b] = "pool"
  <2>1. /\ owner' = [owner EXCEPT ![b] = "none"] /\ be' = [be EXCEPT ![b] = Fresh!New]
        /\ call' = Fresh!BootLost(call)
    BY <1>6 DEF Fresh!UndoVm
  <2>2. Fresh!InHand(b) /\ call.op \in {"new", "boot", "refill"}
    BY <1>1, <1>6, FreshAt DEF FreshServed
  <2>3. FreshFits("none", "rest", goal[b], Fresh!New, w, d)
    BY <1>2, <1>3, FreshNew DEF FreshFits
  <2>4. FreshBecomes(b, "none", "rest", goal[b], Fresh!New, w, d)
    BY <1>1, <1>2, <1>3, <1>4, <2>1, <2>3, FreshNew DEF FreshBecomes
  <2>5. /\ call' \in FreshCallType /\ call'.got = call.got /\ call'.left = 0
        /\ call'.got # None => call'.op = "refill"
        /\ call'.op # "gone"
    BY <2>1, <2>2, FreshLost
  <2> QED
    BY <1>1, <2>2, <2>4, <2>5, FreshLeaves
<1> QED
  BY <1>5, <1>6

LEMMA FreshClosesVm ==
  ASSUME FreshInv, NEW b \in Backend, Fresh!CloseVm(b)
  PROVE  FreshInv'
<1> DEFINE d == dev[b] \ {"config"}
           w == Fresh!NoVm
           g == goal[b]
           p == IF g = "init" THEN "boot" ELSE "rest"
           o == IF g = "drop" THEN "none" ELSE owner[b]
           f == IF g = "drop" THEN Fresh!New ELSE Fresh!Closed(be[b])
<1>1. /\ pc[b] = "vm" /\ goal' = [goal EXCEPT ![b] = "stay"] /\ UNCHANGED pool
      /\ pc' = [pc EXCEPT ![b] = p] /\ owner' = [owner EXCEPT ![b] = o]
      /\ be' = [be EXCEPT ![b] = f]
      /\ call' = IF Fresh!InHand(b) /\ call.op = "release" THEN Fresh!Idle("none") ELSE call
  BY DEF Fresh!CloseVm, Fresh!Done, Fresh!Goto
<1>2. /\ vm' = [vm EXCEPT ![b] = w] /\ dev' = [dev EXCEPT ![b] = d]
      /\ d \in FreshOpen /\ d \subseteq {"mmio"} /\ w \in Fresh!VmType /\ ~w.open
  BY <1>1, FreshVmGone, FreshNew DEF Fresh!CloseVm
<1>3. /\ FreshTypes /\ FreshFits(owner[b], pc[b], goal[b], be[b], vm[b], dev[b])
      /\ owner[b] \in FreshSeats /\ goal[b] \in FreshAims /\ be[b] \in Fresh!BackendType
  BY FreshAt
<1>4. /\ f \in Fresh!BackendType /\ ~f.initialized /\ (g # "drop" => f.lives = be[b].lives)
      /\ (f.lives = 0 => ~f.msi /\ ~f.modules /\ ~f.tap)
  BY <1>3, FreshClosed, FreshNew DEF FreshFits
<1>5. owner[b] # "none" /\ (owner[b] = "pool" => g = "drop") /\ (g = "init" => be[b].lives < MaxLives)
  BY <1>1, <1>3 DEF FreshFits
<1>6. /\ p \in FreshSteps /\ o \in FreshSeats /\ "stay" \in FreshAims /\ p \in {"boot", "rest"}
      /\ (p = "boot" => g = "init" /\ o = "caller") /\ o # "pool"
      /\ (o = "none" => p = "rest" /\ f = Fresh!New)
      /\ (g = "drop" => o = "none" /\ p = "rest" /\ f = Fresh!New)
  BY <1>3, <1>5 DEF FreshSteps, Fresh!Points, FreshSeats, FreshAims
<1> HIDE DEF d, w, g, p, o, f
<1>7. FreshFits(o, p, "stay", f, w, d)
  <2>1. p = "boot" => f.lives < MaxLives
    BY <1>4, <1>5, <1>6
  <2> QED
    BY <1>2, <1>4, <1>6, <2>1 DEF FreshFits
<1>8. FreshBecomes(b, o, p, "stay", f, w, d)
  BY <1>1, <1>2, <1>4, <1>6, <1>7 DEF FreshBecomes
<1>9. CASE owner[b] # "pool"
  <2>1. call' = call
    BY <1>1, <1>9 DEF Fresh!InHand
  <2> QED
    BY <1>1, <1>6, <1>8, <1>9, <2>1, FreshActs
<1>10. CASE owner[b] = "pool"
  <2>1. Fresh!InHand(b) /\ call.op \in {"release", "clear"}
    BY <1>1, <1>10, FreshAt DEF FreshServed
  <2>2. FreshBecomes(b, "none", "rest", "stay", Fresh!New, w, d)
    BY <1>5, <1>6, <1>8, <1>10
  <2>3. call \in FreshCallType /\ call.got = None
    BY <2>1, FreshCalls DEF FreshCounts, FreshCallType
  <2>4. /\ call' \in FreshCallType /\ call'.got = call.got
        /\ call'.op \notin {"new", "refill", "gone"} /\ call'.got = None
    <3>1. CASE call.op = "release"
      <4>1. call' = [op |-> "none", got |-> None, left |-> 0]
        BY <1>1, <2>1, <3>1 DEF Fresh!Idle
      <4> QED
        BY <2>3, <4>1, FreshSizes DEF FreshCallType, Fresh!Ops
    <3>2. CASE call.op = "clear"
      <4>1. call' = call
        BY <1>1, <3>2
      <4> QED
        BY <2>3, <3>2, <4>1
    <3> QED
      BY <2>1, <3>1, <3>2
  <2> QED
    BY <1>1, <2>1, <2>2, <2>4, FreshLeaves
<1> QED
  BY <1>9, <1>10

(* release: idle again, or dropped, at once or step by step.                  *)
LEMMA FreshReleases ==
  ASSUME FreshInv, NEW b \in Backend, Fresh!Release(b)
  PROVE  FreshInv'
<1>1. /\ call.op = "none" /\ owner[b] = "caller" /\ pc[b] = "rest" /\ UNCHANGED <<vm, dev>>
  BY DEF Fresh!Release, Fresh!Mine
<1>2. /\ FreshTypes /\ FreshFits(owner[b], pc[b], goal[b], be[b], vm[b], dev[b])
      /\ owner[b] \in FreshSeats /\ goal[b] \in FreshAims /\ be[b] \in Fresh!BackendType
      /\ vm[b] \in Fresh!VmType /\ dev[b] \in FreshOpen
  BY FreshAt
<1>3. /\ owner = [owner EXCEPT ![b] = owner[b]] /\ pc = [pc EXCEPT ![b] = pc[b]]
      /\ goal = [goal EXCEPT ![b] = goal[b]] /\ be = [be EXCEPT ![b] = be[b]]
      /\ vm' = [vm EXCEPT ![b] = vm[b]] /\ dev' = [dev EXCEPT ![b] = dev[b]]
  BY <1>1, <1>2, FreshSame
<1>4. /\ FreshEach /\ FreshCounts /\ FreshOnce(pool) /\ call.got = None
      /\ \A x \in Backend : ~Fresh!InHand(x)
      /\ b \notin Fresh!ToSet(pool) /\ b # call.got
  BY <1>1, FreshCalls DEF FreshServed
<1>5. "rest" \in FreshSteps /\ "session" \in FreshSteps /\ "pool" \in FreshSeats /\ "drop" \in FreshAims
  BY DEF FreshSteps, Fresh!Points, FreshSeats, FreshAims
<1>6. CASE ~be[b].initialized
  <2>1. Fresh!Done(b, "drop") /\ UNCHANGED <<goal, call, pool>>
    BY <1>6 DEF Fresh!Release
  <2>2. Fresh!Destroy(b, "drop") /\ UNCHANGED <<vm, dev, pool, call>>
    BY <1>1, <1>6, <2>1 DEF Fresh!Destroy
  <2> QED
    BY <1>1, <1>5, <2>2, FreshDestroys
<1>7. CASE be[b].initialized /\ Len(pool) < MaxIdle
  <2>1. /\ pool' = Append(pool, b) /\ owner' = [owner EXCEPT ![b] = "pool"]
        /\ UNCHANGED <<pc, goal, be, call>>
    BY <1>7 DEF Fresh!Release
  <2>2. FreshFits("pool", "rest", goal[b], be[b], vm[b], dev[b])
    BY <1>1, <1>2 DEF FreshFits
  <2>3. FreshBecomes(b, "pool", "rest", goal[b], be[b], vm[b], dev[b])
    BY <1>1, <1>2, <1>3, <1>5, <2>1, <2>2 DEF FreshBecomes
  <2>4. /\ FreshTypes' /\ FreshEach' /\ owner'[b] = "pool" /\ pc'[b] = "rest" /\ be'[b] = be[b]
        /\ \A x \in Backend \ {b} : owner'[x] = owner[x] /\ pc'[x] = pc[x] /\ be'[x] = be[x]
    BY <1>2, <1>4, <2>3, FreshPut
  <2>5. /\ pool' \in Seq(Backend) /\ Len(pool') = Len(pool) + 1 /\ FreshOnce(pool')
        /\ Fresh!ToSet(pool') = Fresh!ToSet(pool) \cup {b}
    BY <1>4, <2>1, FreshAppended DEF FreshCounts
  <2>6. FreshCounts'
    <3>1. Len(pool') <= Fresh!Larger
      BY <1>4, <1>7, <2>5, FreshSizes DEF FreshCounts
    <3> QED
      BY <1>4, <2>1, <2>5, <3>1 DEF FreshCounts
  <2>7. \A x \in Backend : ~Fresh!InHand(x)'
    BY <1>4, <2>1, <2>4, <2>5 DEF Fresh!InHand, Fresh!ToSet
  <2>8. \A x \in Backend : x \in Fresh!ToSet(pool)' \/ x = call'.got =>
          owner'[x] = "pool" /\ pc'[x] = "rest" /\ be'[x].initialized
    BY <1>4, <1>7, <2>1, <2>4, <2>5, FreshCalls DEF Fresh!ToSet
  <2>9. FreshOnce(pool)' /\ call'.got \notin Fresh!ToSet(pool)' /\ call'.got = None /\ call'.op = "none"
    BY <1>1, <1>4, <2>1, <2>5, FreshCalls, FreshSizes DEF FreshOnce, Fresh!ToSet
  <2> QED
    BY <2>4, <2>6, <2>7, <2>8, <2>9, FreshHolds
<1>8. CASE be[b].initialized /\ ~(Len(pool) < MaxIdle)
  <2>1. /\ UNCHANGED <<pool, be>> /\ call' = [op |-> "release", got |-> None, left |-> 0]
        /\ owner' = [owner EXCEPT ![b] = "pool"] /\ pc' = [pc EXCEPT ![b] = "session"]
        /\ goal' = [goal EXCEPT ![b] = "drop"]
    BY <1>8 DEF Fresh!Release, Fresh!Goto, Fresh!Idle
  <2>2. FreshFits("pool", "session", "drop", be[b], vm[b], dev[b])
    BY <1>1, <1>2, <1>8 DEF FreshFits
  <2>3. FreshBecomes(b, "pool", "session", "drop", be[b], vm[b], dev[b])
    BY <1>1, <1>2, <1>3, <1>5, <2>1, <2>2 DEF FreshBecomes
  <2>4. /\ FreshTypes' /\ FreshEach' /\ owner'[b] = "pool" /\ pc'[b] = "session" /\ be'[b] = be[b]
        /\ \A x \in Backend \ {b} : owner'[x] = owner[x] /\ pc'[x] = pc[x] /\ be'[x] = be[x]
    BY <1>2, <1>4, <2>3, FreshPut
  <2>5. FreshCounts'
    BY <1>4, <2>1, FreshSizes DEF FreshCounts, Fresh!Ops
  <2>6. \A x \in Backend : Fresh!InHand(x)' => x = b
    BY <1>4, <2>1, <2>4 DEF Fresh!InHand
  <2>7. \A x \in Backend : Fresh!InHand(x)' => FreshServed(x)'
    BY <2>1, <2>4, <2>6 DEF FreshServed
  <2>8. \A x \in Backend : x \in Fresh!ToSet(pool)' \/ x = call'.got =>
          owner'[x] = "pool" /\ pc'[x] = "rest" /\ be'[x].initialized
    BY <1>4, <2>1, <2>4, FreshCalls, FreshSizes
  <2>9. FreshOnce(pool)' /\ call'.got \notin Fresh!ToSet(pool)' /\ call'.got = None /\ call'.op = "release"
    BY <1>4, <2>1, FreshCalls DEF FreshOnce
  <2> QED
    BY <2>4, <2>5, <2>6, <2>7, <2>8, <2>9, FreshHolds
<1> QED
  BY <1>6, <1>7, <1>8

LEMMA FreshPoolBoots ==
  ASSUME FreshInv, NEW b \in Backend, Fresh!PoolBoot(b)
  PROVE  FreshInv'
<1> DEFINE v == [Fresh!NoVm EXCEPT !.open = TRUE]
<1>1. /\ call.op \in {"new", "boot", "refill"} /\ call.left > 0
      /\ \A x \in Backend : ~Fresh!InHand(x)
      /\ owner[b] = "none" /\ owner' = [owner EXCEPT ![b] = "pool"]
      /\ be' = [be EXCEPT ![b] = Fresh!New] /\ vm' = [vm EXCEPT ![b] = v]
      /\ pc' = [pc EXCEPT ![b] = "attach"] /\ UNCHANGED <<goal, dev, pool, call>>
  BY DEF Fresh!PoolBoot, Fresh!Wants, Fresh!Goto
<1>2. /\ FreshTypes /\ FreshFits(owner[b], pc[b], goal[b], be[b], vm[b], dev[b])
      /\ goal[b] \in FreshAims /\ dev[b] \in FreshOpen
      /\ "attach" \in FreshSteps /\ "pool" \in FreshSeats
  BY FreshAt DEF FreshSteps, Fresh!Points, FreshSeats
<1>3. v \in Fresh!VmType /\ v.open
  BY FreshVm
<1> HIDE DEF v
<1>4. FreshFits("pool", "attach", goal[b], Fresh!New, v, dev[b])
  BY <1>2, <1>3, FreshNew, FreshSizes DEF FreshFits
<1>5. FreshBecomes(b, "pool", "attach", goal[b], Fresh!New, v, dev[b])
  BY <1>1, <1>2, <1>3, <1>4, FreshNew, FreshSame DEF FreshBecomes
<1>6. /\ FreshTypes' /\ FreshEach' /\ owner'[b] = "pool" /\ pc'[b] = "attach" /\ be'[b] = Fresh!New
      /\ \A x \in Backend \ {b} : owner'[x] = owner[x] /\ pc'[x] = pc[x] /\ be'[x] = be[x]
  BY <1>2, <1>5, FreshPut, FreshCalls
<1>7. FreshCounts'
  BY <1>1, FreshCalls DEF FreshCounts
<1>8. b \notin Fresh!ToSet(pool) /\ b # call.got
  BY <1>1, FreshCalls
<1>9. \A x \in Backend : Fresh!InHand(x)' => x = b
  BY <1>1, <1>6 DEF Fresh!InHand
<1>10. \A x \in Backend : Fresh!InHand(x)' => FreshServed(x)'
  <2>1. call.left # 0
    BY <1>1, FreshCalls DEF FreshCounts
  <2> QED
    BY <1>1, <1>6, <1>9, <2>1 DEF FreshServed
<1>11. \A x \in Backend : x \in Fresh!ToSet(pool)' \/ x = call'.got =>
         owner'[x] = "pool" /\ pc'[x] = "rest" /\ be'[x].initialized
  BY <1>1, <1>6, <1>8, FreshCalls
<1>12. /\ FreshOnce(pool)' /\ call'.got \notin Fresh!ToSet(pool)'
       /\ (call'.got # None => call'.op = "refill")
       /\ (call'.op \in {"new", "refill"} /\ call'.left # 0 => Len(pool)' + call'.left <= MinIdle)
       /\ call'.op # "gone"
  BY <1>1, FreshCalls DEF FreshOnce
<1> QED
  BY <1>6, <1>7, <1>9, <1>10, <1>11, <1>12, FreshHolds

(* No backend is in hand outside the calls that boot or destroy one.          *)
LEMMA FreshIdle ==
  ASSUME FreshInv
  PROVE  /\ call.op \in {"none", "gone"} => \A x \in Backend : ~Fresh!InHand(x)
         /\ call.op \in {"new", "refill"} /\ call.left = 0 => \A x \in Backend : ~Fresh!InHand(x)
  BY FreshCalls DEF FreshServed

LEMMA FreshPoolWaits ==
  ASSUME FreshInv,
         Fresh!PoolBootFails \/ Fresh!AcquireBoot \/ Fresh!DropPool \/ Fresh!Cleared \/ Fresh!NewPool
  PROVE  FreshInv'
<1>1. UNCHANGED <<owner, pc, goal, be, vm, dev, pool>>
  BY DEF Fresh!PoolBootFails, Fresh!AcquireBoot, Fresh!DropPool, Fresh!Cleared, Fresh!NewPool
<1>2. /\ call \in FreshCallType /\ (call.got # None => call.op = "refill")
      /\ pool \in Seq(Backend) /\ MinIdle \in 0 .. Fresh!Larger + 1
  BY FreshCalls, FreshSizes DEF FreshCounts, FreshCallType
<1>3. CASE Fresh!PoolBootFails
  <2>1. /\ call.op \in {"new", "boot", "refill"} /\ \A x \in Backend : ~Fresh!InHand(x)
        /\ call' = Fresh!BootLost(call)
    BY <1>3 DEF Fresh!PoolBootFails, Fresh!Wants
  <2>2. /\ call' \in FreshCallType /\ call'.got = call.got /\ call'.left = 0
        /\ call'.got # None => call'.op = "refill"
        /\ call'.op # "gone"
    BY <2>1, FreshLost
  <2> QED
    BY <1>1, <2>1, <2>2, FreshWaits
<1>4. CASE Fresh!AcquireBoot
  <2>1. call.op = "none" /\ call' = [Fresh!Idle("boot") EXCEPT !.left = 1]
    BY <1>4 DEF Fresh!AcquireBoot
  <2>2. call' = [op |-> "boot", got |-> None, left |-> 1]
    BY <2>1 DEF Fresh!Idle
  <2>3. call' \in FreshCallType /\ call.got = None
    BY <1>2, <2>1, <2>2, FreshSizes DEF FreshCallType, Fresh!Ops
  <2> QED
    BY <1>1, <2>1, <2>2, <2>3, FreshIdle, FreshWaits
<1>5. CASE Fresh!DropPool
  <2>1. call.op = "none" /\ call' = [op |-> "clear", got |-> None, left |-> 0]
    BY <1>5 DEF Fresh!DropPool, Fresh!Idle
  <2>2. call' \in FreshCallType /\ call.got = None
    BY <1>2, <2>1, FreshSizes DEF FreshCallType, Fresh!Ops
  <2> QED
    BY <1>1, <2>1, <2>2, FreshIdle, FreshWaits
<1>6. CASE Fresh!Cleared
  <2>1. /\ call.op = "clear" /\ call' = [op |-> "gone", got |-> None, left |-> 0]
        /\ pool = <<>> /\ \A x \in Backend : ~Fresh!InHand(x)
    BY <1>6 DEF Fresh!Cleared, Fresh!Idle
  <2>2. call' \in FreshCallType /\ call.got = None
    BY <1>2, <2>1, FreshSizes DEF FreshCallType, Fresh!Ops
  <2> QED
    BY <1>1, <2>1, <2>2, FreshWaits
<1>7. CASE Fresh!NewPool
  <2>1. call.op = "gone" /\ call' = [Fresh!Idle("new") EXCEPT !.left = MinIdle]
    BY <1>7 DEF Fresh!NewPool
  <2>2. call' = [op |-> "new", got |-> None, left |-> MinIdle]
    BY <2>1 DEF Fresh!Idle
  <2>3. call' \in FreshCallType /\ call.got = None
    BY <1>2, <2>1, <2>2 DEF FreshCallType, Fresh!Ops
  <2>4. pool = <<>>
    BY <2>1, FreshCalls
  <2>5. Len(pool) + call'.left <= MinIdle
    BY <2>2, <2>4, FreshSizes
  <2> QED
    BY <1>1, <2>1, <2>2, <2>3, <2>5, FreshIdle, FreshWaits
<1> QED
  BY <1>3, <1>4, <1>5, <1>6, <1>7

LEMMA FreshEnds ==
  ASSUME FreshInv, Fresh!EndCall
  PROVE  FreshInv'
<1>1. /\ call.op \in {"new", "refill"} /\ call.left = 0
      /\ call' = [op |-> "none", got |-> None, left |-> 0]
      /\ owner' = [b \in Backend |-> IF b = call.got THEN "caller" ELSE owner[b]]
      /\ UNCHANGED <<pc, goal, be, vm, dev, pool>>
  BY DEF Fresh!EndCall, Fresh!Idle
<1>2. FreshTypes' /\ FreshCounts'
  BY <1>1, FreshCalls, FreshSizes DEF FreshTypes, FreshSeats, FreshCounts, Fresh!Ops
<1>3. FreshEach'
  <2>1. ASSUME NEW x \in Backend
        PROVE  FreshFits(owner'[x], pc[x], goal[x], be[x], vm[x], dev[x])
    <3>1. FreshFits(owner[x], pc[x], goal[x], be[x], vm[x], dev[x])
      BY FreshAt
    <3>2. CASE x = call.got
      <4>1. owner[x] = "pool" /\ pc[x] = "rest" /\ owner'[x] = "caller"
        BY <1>1, <3>2, FreshCalls
      <4> QED
        BY <3>1, <4>1 DEF FreshFits
    <3>3. CASE x # call.got
      BY <1>1, <3>1, <3>3
    <3> QED
      BY <3>2, <3>3
  <2> QED
    BY <1>1, <2>1 DEF FreshEach, FreshFits
<1>4. \A x \in Backend : ~Fresh!InHand(x)'
  BY <1>1, FreshIdle DEF Fresh!InHand
<1>5. \A x \in Backend : x \in Fresh!ToSet(pool)' \/ x = call'.got =>
        owner'[x] = "pool" /\ pc'[x] = "rest" /\ be'[x].initialized
  BY <1>1, FreshCalls, FreshSizes
<1>6. FreshOnce(pool)' /\ call'.got \notin Fresh!ToSet(pool)' /\ call'.got = None /\ call'.op = "none"
  <2>1. Fresh!ToSet(pool) \subseteq Backend
    BY FreshCalls DEF FreshCounts, Fresh!ToSet
  <2> QED
    BY <1>1, <2>1, FreshCalls, FreshSizes DEF FreshOnce
<1> QED
  BY <1>2, <1>3, <1>4, <1>5, <1>6, FreshHolds

LEMMA FreshAcquires ==
  ASSUME FreshInv, Fresh!AcquireIdle
  PROVE  FreshInv'
<1> DEFINE q == Tail(pool)
           h == Head(pool)
           n == Fresh!Missing(q)
<1>1. /\ call.op = "none" /\ pool # <<>> /\ pool' = q
      /\ call' = [op |-> "refill", got |-> h, left |-> n]
      /\ UNCHANGED <<owner, pc, goal, be, vm, dev>>
  BY DEF Fresh!AcquireIdle, Fresh!Refilled
<1>2. pool \in Seq(Backend) /\ Len(pool) <= Fresh!Larger /\ FreshOnce(pool)
  BY FreshCalls DEF FreshCounts
<1>3. /\ q \in Seq(Backend) /\ Len(pool) \in Nat \ {0} /\ Len(q) = Len(pool) - 1 /\ h \in Backend
      /\ h \notin Fresh!ToSet(q) /\ FreshOnce(q) /\ Fresh!ToSet(pool) = Fresh!ToSet(q) \cup {h}
  BY <1>1, <1>2, FreshTailed
<1>4. n \in 0 .. MinIdle /\ (n # 0 => Len(q) + n <= MinIdle)
  BY <1>3, FreshSizes DEF Fresh!Missing
<1> HIDE DEF q, h, n
<1>5. FreshTypes' /\ FreshEach'
  BY <1>1, FreshCalls DEF FreshTypes, FreshEach
<1>6. FreshCounts'
  <2>1. Len(q) <= Fresh!Larger /\ n \in 0 .. Fresh!Larger + 1
    BY <1>2, <1>3, <1>4, FreshSizes
  <2> QED
    BY <1>1, <1>3, <2>1 DEF FreshCounts, Fresh!Ops
<1>7. \A x \in Backend : ~Fresh!InHand(x)'
  <2>1. \A x \in Backend : owner[x] = "pool" => x \in Fresh!ToSet(pool)
    BY <1>1, FreshCalls, FreshIdle, FreshSizes DEF Fresh!InHand
  <2> QED
    BY <1>1, <1>3, <2>1 DEF Fresh!InHand, Fresh!ToSet
<1>8. \A x \in Backend : x \in Fresh!ToSet(pool)' \/ x = call'.got =>
        owner'[x] = "pool" /\ pc'[x] = "rest" /\ be'[x].initialized
  BY <1>1, <1>3, FreshCalls DEF Fresh!ToSet
<1>9. /\ FreshOnce(pool)' /\ call'.got \notin Fresh!ToSet(pool)' /\ call'.op = "refill"
      /\ (call'.left # 0 => Len(pool)' + call'.left <= MinIdle)
  BY <1>1, <1>3, <1>4 DEF FreshOnce, Fresh!ToSet
<1> QED
  BY <1>5, <1>6, <1>7, <1>8, <1>9, FreshHolds

LEMMA FreshClears ==
  ASSUME FreshInv, Fresh!ClearNext
  PROVE  FreshInv'
<1> DEFINE q == Tail(pool)
           h == Head(pool)
<1>1. /\ call.op = "clear" /\ pool # <<>> /\ pool' = q /\ Fresh!Destroy(h, "drop")
      /\ UNCHANGED <<vm, dev, call>> /\ \A x \in Backend : ~Fresh!InHand(x)
  BY DEF Fresh!ClearNext
<1>2. FreshTypes /\ FreshEach /\ FreshCounts /\ FreshOnce(pool) /\ call.got = None
  BY <1>1, FreshCalls
<1>3. /\ q \in Seq(Backend) /\ Len(pool) \in Nat \ {0} /\ Len(q) = Len(pool) - 1 /\ h \in Backend
      /\ h \notin Fresh!ToSet(q) /\ FreshOnce(q) /\ Fresh!ToSet(pool) = Fresh!ToSet(q) \cup {h}
  BY <1>1, <1>2, FreshTailed DEF FreshCounts
<1> HIDE DEF q, h
<1>4. owner[h] = "pool" /\ pc[h] = "rest" /\ be[h].initialized
  BY <1>3, FreshCalls
<1>5. /\ pc' = [pc EXCEPT ![h] = "session"] /\ goal' = [goal EXCEPT ![h] = "drop"]
      /\ UNCHANGED <<owner, be>>
  BY <1>1, <1>4 DEF Fresh!Destroy, Fresh!Goto
<1>6. /\ FreshFits(owner[h], pc[h], goal[h], be[h], vm[h], dev[h])
      /\ owner[h] \in FreshSeats /\ be[h] \in Fresh!BackendType
      /\ vm[h] \in Fresh!VmType /\ dev[h] \in FreshOpen
      /\ "session" \in FreshSteps /\ "drop" \in FreshAims
  BY <1>3, FreshAt DEF FreshSteps, Fresh!Points, FreshAims
<1>7. FreshFits("pool", "session", "drop", be[h], vm[h], dev[h])
  BY <1>4, <1>6 DEF FreshFits
<1>8. /\ owner' = [owner EXCEPT ![h] = "pool"] /\ be' = [be EXCEPT ![h] = be[h]]
      /\ vm' = [vm EXCEPT ![h] = vm[h]] /\ dev' = [dev EXCEPT ![h] = dev[h]]
  BY <1>1, <1>2, <1>3, <1>4, <1>5, FreshSame
<1>9. FreshBecomes(h, "pool", "session", "drop", be[h], vm[h], dev[h])
  BY <1>4, <1>5, <1>6, <1>7, <1>8 DEF FreshBecomes
<1>10. /\ FreshTypes' /\ FreshEach' /\ owner'[h] = "pool" /\ pc'[h] = "session"
       /\ \A x \in Backend \ {h} : owner'[x] = owner[x] /\ pc'[x] = pc[x] /\ be'[x] = be[x]
  BY <1>2, <1>3, <1>9, FreshPut
<1>11. FreshCounts'
  <2>1. Len(q) <= Fresh!Larger
    BY <1>2, <1>3, FreshSizes DEF FreshCounts
  <2> QED
    BY <1>1, <1>2, <1>3, <2>1 DEF FreshCounts
<1>12. \A x \in Backend : Fresh!InHand(x)' => x = h
  BY <1>1, <1>3, <1>10 DEF Fresh!InHand, Fresh!ToSet
<1>13. \A x \in Backend : Fresh!InHand(x)' => FreshServed(x)'
  BY <1>1, <1>10, <1>12 DEF FreshServed
<1>14. \A x \in Backend : x \in Fresh!ToSet(pool)' \/ x = call'.got =>
         owner'[x] = "pool" /\ pc'[x] = "rest" /\ be'[x].initialized
  <2>1. Fresh!ToSet(pool)' = Fresh!ToSet(q) /\ call'.got = None
    BY <1>1, <1>2 DEF Fresh!ToSet
  <2>2. \A x \in Backend : x \in Fresh!ToSet(q) => x # h /\ x \in Fresh!ToSet(pool)
    BY <1>3
  <2> QED
    BY <1>10, <2>1, <2>2, FreshCalls, FreshSizes
<1>15. FreshOnce(pool)' /\ call'.got \notin Fresh!ToSet(pool)' /\ call'.got = None /\ call'.op = "clear"
  BY <1>1, <1>2, <1>3, FreshCalls DEF FreshOnce, Fresh!ToSet
<1> QED
  BY <1>10, <1>11, <1>12, <1>13, <1>14, <1>15, FreshHolds

LEMMA FreshInit == Fresh!Init => FreshInv
<1> SUFFICES ASSUME Fresh!Init PROVE FreshInv
  OBVIOUS
<1>1. /\ owner = [b \in Backend |-> "none"] /\ pc = [b \in Backend |-> "rest"]
      /\ goal = [b \in Backend |-> "stay"] /\ be = [b \in Backend |-> Fresh!New]
      /\ vm = [b \in Backend |-> Fresh!NoVm] /\ dev = [b \in Backend |-> {}]
      /\ pool = <<>> /\ call = [op |-> "new", got |-> None, left |-> MinIdle]
  BY DEF Fresh!Init, Fresh!Idle
<1>2. FreshTypes
  BY <1>1, FreshNew DEF FreshTypes, FreshSeats, FreshSteps, Fresh!Points, FreshAims, FreshOpen
<1>3. FreshCounts
  BY <1>1, FreshSizes DEF FreshCounts, Fresh!Ops
<1>4. FreshEach
  BY <1>1, FreshNew DEF FreshEach, FreshFits
<1>5. Fresh!ToSet(pool) = {} /\ DOMAIN pool = {} /\ Len(pool) = 0
  BY <1>1 DEF Fresh!ToSet
<1>6. FreshPooled
  BY <1>1, <1>5, FreshSizes DEF FreshPooled, Fresh!InHand
<1> QED
  BY <1>2, <1>3, <1>4, <1>6, FreshTypeOK DEF FreshInv

LEMMA FreshStep == FreshInv /\ [Fresh!Next]_(Fresh!vars) => FreshInv'
<1>1. ASSUME FreshInv, UNCHANGED Fresh!vars
      PROVE  FreshInv'
  <2>1. UNCHANGED <<owner, pc, goal, be, vm, dev, pool, call>>
    BY <1>1 DEF Fresh!vars
  <2>2. FreshTypes' /\ FreshEach' /\ FreshCounts'
    BY <1>1, <2>1, FreshCalls DEF FreshTypes, FreshEach, FreshCounts
  <2>3. FreshPooled'
    BY <1>1, <2>1 DEF FreshInv, FreshPooled, FreshServed, Fresh!InHand
  <2>4. Fresh!TypeOK'
    BY <1>1, <2>1 DEF FreshInv, Fresh!TypeOK
  <2> QED
    BY <2>2, <2>3, <2>4 DEF FreshInv
<1>2. ASSUME FreshInv, NEW b \in Backend, Fresh!InitStep(b)
      PROVE  FreshInv'
  BY <1>2, FreshOpens, FreshOpenFails, FreshAttaches, FreshNoGpu, FreshBoots, FreshBootFails,
     FreshUndoes, FreshUndoesVm DEF Fresh!InitStep
<1>3. ASSUME FreshInv, NEW b \in Backend, Fresh!DestroyStep(b)
      PROVE  FreshInv'
  BY <1>3, FreshClosesSession, FreshClosesVm DEF Fresh!DestroyStep
<1>4. ASSUME FreshInv, NEW b \in Backend, Fresh!CallerStep(b)
      PROVE  FreshInv'
  BY <1>4, FreshNewBackend, FreshCallerCloses, FreshExec, FreshReleases DEF Fresh!CallerStep
<1>5. ASSUME FreshInv, Fresh!PoolStep
      PROVE  FreshInv'
  BY <1>5, FreshPoolBoots, FreshPoolWaits, FreshEnds, FreshAcquires, FreshClears DEF Fresh!PoolStep
<1> QED
  BY <1>1, <1>2, <1>3, <1>4, <1>5 DEF Fresh!Next

LEMMA FreshSound ==
  ASSUME FreshInv
  PROVE  Fresh!TypeOK /\ Fresh!SessionInsideVm /\ Fresh!NothingElseLost /\ Fresh!FirstLifeTrue
<1>1. Fresh!SessionInsideVm
  BY FreshAt DEF Fresh!SessionInsideVm, FreshFits, Fresh!Attached
<1>2. Fresh!NothingElseLost
  <2>1. \A b \in Backend : pc[b] = "rest" =>
          /\ be[b].initialized <=> vm[b].open
          /\ ~be[b].initialized => dev[b] \subseteq {"mmio"}
          /\ owner[b] = "none" => be[b] = Fresh!New
    BY FreshAt DEF FreshFits
  <2>2. Fresh!ToSet(pool) \cup ({call.got} \ {None}) \subseteq Backend
    BY FreshCalls DEF FreshCounts, Fresh!ToSet
  <2>3. \A b \in Fresh!ToSet(pool) \cup ({call.got} \ {None}) :
          owner[b] = "pool" /\ pc[b] = "rest" /\ be[b].initialized
    BY <2>2, FreshCalls
  <2> QED
    BY <2>1, <2>3, FreshCalls DEF Fresh!NothingElseLost, FreshOnce
<1>3. Fresh!FirstLifeTrue
  BY FreshAt DEF Fresh!FirstLifeTrue, FreshFits, Fresh!Attached
<1> QED
  BY <1>1, <1>2, <1>3 DEF FreshInv

------------------------------------------------------------------------------
(* Recursion over a list.  The naturals are well founded, so what holds of 0  *)
(* and of n whenever of n - 1 holds up to N; and a recursive function of the  *)
(* places of a list exists where its steps stay in a set.                     *)
LEMMA Least ==
  ASSUME NEW T, T \subseteq Nat, T # {}
  PROVE  \E m \in T : \A k \in T : m <= k
<1> DEFINE Below == OpToRel(<, Nat)
<1>1. IsWellFoundedOn(Below, Nat)
  BY NatLessThanWellFounded
<1>2. ASSUME NEW x \in Nat, NEW y \in Nat, y < x
      PROVE  <<y, x>> \in Below
  BY <1>2 DEF OpToRel
<1> HIDE DEF Below
<1>3. PICK x \in T : \A y \in T : ~(<<y, x>> \in Below)
  BY <1>1, WFMin
<1>4. ASSUME NEW k \in T
      PROVE  x <= k
  <2>1. ~(k < x)
    BY <1>2, <1>3
  <2> QED
    BY <2>1
<1> QED
  BY <1>4

LEMMA Climb ==
  ASSUME NEW N \in Nat, NEW G, 0 \in G, \A n \in 1 .. N : n - 1 \in G => n \in G
  PROVE  \A n \in 0 .. N : n \in G
<1> DEFINE T == {n \in 0 .. N : n \notin G}
<1> SUFFICES ASSUME T # {} PROVE FALSE
  OBVIOUS
<1>1. PICK m \in T : \A k \in T : m <= k
  <2>1. T \subseteq Nat
    OBVIOUS
  <2> HIDE DEF T
  <2> QED
    BY <2>1, Least
<1>2. m \in 1 .. N /\ m - 1 \in 0 .. N /\ ~(m <= m - 1)
  OBVIOUS
<1>3. m - 1 \in G
  BY <1>1, <1>2
<1> QED
  BY <1>2, <1>3

Stages(N, A, b, F) == N \in Nat /\ b \in A /\ F \in [1 .. N -> [A -> A]]
Staged(N, A, b, F, h) ==
  h \in [0 .. N -> A] /\ h[0] = b /\ \A n \in 1 .. N : h[n] = F[n][h[n - 1]]

LEMMA Iterates ==
  ASSUME NEW N, NEW A, NEW b, NEW F, Stages(N, A, b, F)
  PROVE  \E h : Staged(N, A, b, F, h)
<1> USE DEF Stages
<1> DEFINE Runs(n, h) == h \in [0 .. n -> A] /\ h[0] = b /\ \A m \in 1 .. n : h[m] = F[m][h[m - 1]]
           G == {n \in 0 .. N : \E h : Runs(n, h)}
<1>1. 0 \in G
  <2> DEFINE h == [m \in 0 .. 0 |-> b]
  <2>1. h \in [0 .. 0 -> A] /\ h[0] = b /\ 1 .. 0 = {}
    OBVIOUS
  <2> HIDE DEF h
  <2>2. Runs(0, h) /\ 0 \in 0 .. N
    BY <2>1
  <2> QED
    BY <2>2
<1>2. ASSUME NEW n \in 1 .. N, n - 1 \in G
      PROVE  n \in G
  <2>1. PICK h : Runs(n - 1, h)
    BY <1>2
  <2> DEFINE a == F[n][h[n - 1]]
             g == [m \in 0 .. n |-> IF m = n THEN a ELSE h[m]]
  <2>2. n - 1 \in 0 .. n - 1 /\ a \in A
    BY <2>1
  <2>3. \A m \in 0 .. n : m = n \/ m \in 0 .. n - 1
    OBVIOUS
  <2>4. g \in [0 .. n -> A]
    BY <2>1, <2>2, <2>3
  <2>5. g[0] = b
    BY <2>1
  <2>6. ASSUME NEW m \in 1 .. n
        PROVE  g[m] = F[m][g[m - 1]]
    <3>1. m \in 0 .. n /\ m - 1 \in 0 .. n /\ m - 1 # n
      OBVIOUS
    <3>2. g[m - 1] = h[m - 1]
      BY <3>1
    <3>3. CASE m = n
      BY <3>1, <3>2, <3>3
    <3>4. CASE m # n
      <4>1. m \in 1 .. n - 1 /\ g[m] = h[m]
        BY <3>1, <3>4
      <4> QED
        BY <2>1, <3>2, <4>1
    <3> QED
      BY <3>3, <3>4
  <2> HIDE DEF g
  <2>7. Runs(n, g)
    BY <2>4, <2>5, <2>6
  <2> QED
    BY <2>7
<1> HIDE DEF G
<1>3. N \in G
  <2>1. N \in 0 .. N /\ \A n \in 1 .. N : n - 1 \in G => n \in G
    BY <1>2
  <2> QED
    BY <1>1, <2>1, Climb
<1> QED
  BY <1>3 DEF G, Staged

------------------------------------------------------------------------------
(* The layers.  First what resolve returns.                                   *)
LayerMetas == [slot : MCSlot, hash : 0 .. MaxBuild, full : BOOLEAN, default : BOOLEAN]

LayerRefs(I) == {Layers!Ref(m) : m \in I}

LayerPlan(I, q) ==
  /\ q \in Seq(LayerRefs(I)) /\ Len(q) \in Nat /\ Len(q) >= 2
  /\ q[1].slot = MCBase /\ q[2].slot.type = "runtime"

LayerHas(q, import) ==
  \E i \in DOMAIN q : q[i].slot.type = "pip" /\ import \in MCProvides[q[i].slot]

LayerSought(I, explicit, q, import) ==
  (\A i \in DOMAIN explicit : explicit[i].name # import) =>
    LayerHas(q, import) \/ Layers!ResolveImport(I, import, {}) = {}

LayerPins(q, d) ==
  \E i \in DOMAIN q : /\ q[i].slot.type = "pip" /\ q[i].slot.version = d.version
                      /\ d.name \in MCProvides[q[i].slot]

(* A plan that extends another has what the other has.                        *)
LayerExtends(q, p) == DOMAIN p \subseteq DOMAIN q /\ \A i \in DOMAIN p : q[i] = p[i]

LEMMA LayerNames ==
  /\ \A s, t \in MCSlot : s.name = t.name /\ s.version = t.version => s = t
  /\ \A s, t \in MCSlot : s.name = t.name /\ s.type = t.type => MCProvides[s] = MCProvides[t]
  BY Assumptions DEF Layers!NameAssumption

LEMMA LayerGets ==
  ASSUME NEW I, NEW s, NEW ref \in Layers!GetLayer(I, s)
  PROVE  ref \in LayerRefs(I) /\ ref.slot = s
  BY DEF Layers!GetLayer, Layers!Ref, LayerRefs

LEMMA LayerFound ==
  ASSUME NEW I \in SUBSET LayerMetas, NEW import, NEW exact,
         NEW ref \in Layers!ResolveImport(I, import, exact)
  PROVE  /\ ref \in LayerRefs(I) /\ ref.slot.type = "pip" /\ import \in MCProvides[ref.slot]
         /\ exact # {} => ref.slot.version \in exact
<1>1. PICK n \in Layers!ImportedNames(I, import) :
        ref \in UNION {Layers!GetLayer(I, [type |-> "pip", name |-> n, version |-> v])
                        : v \in IF exact = {} THEN Layers!Latest(I, n) ELSE exact}
  BY DEF Layers!ResolveImport
<1>2. PICK v \in IF exact = {} THEN Layers!Latest(I, n) ELSE exact :
        ref \in Layers!GetLayer(I, [type |-> "pip", name |-> n, version |-> v])
  BY <1>1
<1>3. ref \in LayerRefs(I) /\ ref.slot = [type |-> "pip", name |-> n, version |-> v]
  BY <1>2, LayerGets
<1>4. PICK x \in I : x.slot.type = "pip" /\ import \in MCProvides[x.slot] /\ n = x.slot.name
  BY <1>1 DEF Layers!ImportedNames
<1>5. x.slot \in MCSlot /\ ref.slot \in MCSlot
  BY <1>3 DEF LayerRefs, Layers!Ref, LayerMetas
<1>6. MCProvides[ref.slot] = MCProvides[x.slot]
  BY <1>3, <1>4, <1>5, LayerNames
<1> QED
  BY <1>2, <1>3, <1>4, <1>6

LEMMA LayerPushes ==
  ASSUME NEW A, NEW q \in Seq(A), NEW ref \in A
  PROVE  /\ Layers!Push(q, ref) \in Seq(A) /\ Len(Layers!Push(q, ref)) >= Len(q)
         /\ LayerExtends(Layers!Push(q, ref), q)
         /\ \E i \in DOMAIN Layers!Push(q, ref) : Layers!Push(q, ref)[i].slot = ref.slot
<1>1. CASE \E i \in DOMAIN q : q[i].slot = ref.slot
  <2>1. Layers!Push(q, ref) = q
    BY <1>1 DEF Layers!Push
  <2> QED
    BY <1>1, <2>1 DEF LayerExtends
<1>2. CASE ~\E i \in DOMAIN q : q[i].slot = ref.slot
  <2> DEFINE r == Append(q, ref)
  <2>1. Layers!Push(q, ref) = r
    BY <1>2 DEF Layers!Push
  <2>2. /\ r \in Seq(A) /\ Len(r) = Len(q) + 1 /\ r[Len(q) + 1] = ref
        /\ \A i \in 1 .. Len(q) : r[i] = q[i]
    BY AppendProperties
  <2>3. Len(q) \in Nat /\ DOMAIN q = 1 .. Len(q) /\ DOMAIN r = 1 .. Len(q) + 1
    BY <2>2, LenProperties
  <2> HIDE DEF r
  <2>4. Len(q) + 1 \in DOMAIN r /\ DOMAIN q \subseteq DOMAIN r /\ Len(r) >= Len(q)
    BY <2>2, <2>3
  <2> QED
    BY <2>1, <2>2, <2>3, <2>4 DEF LayerExtends
<1> QED
  BY <1>1, <1>2

LEMMA LayerKeepsHaving ==
  ASSUME NEW p, NEW q, LayerExtends(q, p)
  PROVE  /\ \A import : LayerHas(p, import) => LayerHas(q, import)
         /\ \A I, explicit, import : LayerSought(I, explicit, p, import) => LayerSought(I, explicit, q, import)
         /\ \A d : LayerPins(p, d) => LayerPins(q, d)
<1>1. \A import : LayerHas(p, import) => LayerHas(q, import)
  BY DEF LayerExtends, LayerHas
<1>2. \A d : LayerPins(p, d) => LayerPins(q, d)
  BY DEF LayerExtends, LayerPins
<1> QED
  BY <1>1, <1>2 DEF LayerSought

LEMMA LayerPlanPushed ==
  ASSUME NEW I, NEW p, LayerPlan(I, p), NEW ref \in LayerRefs(I)
  PROVE  LayerPlan(I, Layers!Push(p, ref)) /\ LayerExtends(Layers!Push(p, ref), p)
<1> DEFINE q == Layers!Push(p, ref)
<1>1. /\ q \in Seq(LayerRefs(I)) /\ Len(q) >= Len(p) /\ LayerExtends(q, p)
  BY LayerPushes DEF LayerPlan
<1>2. DOMAIN p = 1 .. Len(p) /\ Len(q) \in Nat
  BY <1>1, LenProperties DEF LayerPlan
<1>3. 1 \in DOMAIN p /\ 2 \in DOMAIN p /\ Len(q) >= 2
  BY <1>1, <1>2 DEF LayerPlan
<1> QED
  BY <1>1, <1>2, <1>3 DEF LayerPlan, LayerExtends

LEMMA LayerStarts ==
  ASSUME NEW I, NEW p \in Layers!Starts(I)
  PROVE  LayerPlan(I, p)
<1>1. PICK b \in Layers!GetLayer(I, MCBase),
           rt \in UNION {Layers!GetLayer(I, [type |-> "runtime", name |-> "python", version |-> v])
                          : v \in Layers!Latest(I, "python")} : p = <<b, rt>>
  BY DEF Layers!Starts
<1>2. PICK v \in Layers!Latest(I, "python") :
        rt \in Layers!GetLayer(I, [type |-> "runtime", name |-> "python", version |-> v])
  BY <1>1
<1>3. /\ b \in LayerRefs(I) /\ b.slot = MCBase
      /\ rt \in LayerRefs(I) /\ rt.slot.type = "runtime"
  BY <1>1, <1>2, LayerGets
<1> QED
  BY <1>1, <1>3 DEF LayerPlan

LEMMA LayerAddsImport ==
  ASSUME NEW I \in SUBSET LayerMetas, NEW explicit, NEW plans, \A p \in plans : LayerPlan(I, p),
         NEW import, NEW q \in Layers!AddImport(I, explicit, plans, import)
  PROVE  LayerPlan(I, q) /\ LayerSought(I, explicit, q, import) /\ \E p \in plans : LayerExtends(q, p)
<1>1. CASE \E i \in DOMAIN explicit : explicit[i].name = import
  <2>1. q \in plans
    BY <1>1 DEF Layers!AddImport
  <2> QED
    BY <1>1, <2>1 DEF LayerSought, LayerExtends
<1>2. CASE ~\E i \in DOMAIN explicit : explicit[i].name = import
  <2> DEFINE found == Layers!ResolveImport(I, import, {})
  <2>1. PICK p \in plans : q \in {Layers!Push(p, ref) : ref \in found} \cup (IF found = {} THEN {p} ELSE {})
    BY <1>2 DEF Layers!AddImport
  <2>2. CASE q = p /\ found = {}
    BY <2>1, <2>2 DEF LayerSought, LayerExtends
  <2>3. CASE \E ref \in found : q = Layers!Push(p, ref)
    <3>1. PICK ref \in found : q = Layers!Push(p, ref)
      BY <2>3
    <3>2. ref \in LayerRefs(I) /\ ref.slot.type = "pip" /\ import \in MCProvides[ref.slot]
      BY <3>1, LayerFound
    <3>3. LayerPlan(I, q) /\ LayerExtends(q, p)
      BY <2>1, <3>1, <3>2, LayerPlanPushed
    <3>4. \E i \in DOMAIN q : q[i].slot = ref.slot
      <4>1. p \in Seq(LayerRefs(I))
        BY <2>1 DEF LayerPlan
      <4>2. \E i \in DOMAIN Layers!Push(p, ref) : Layers!Push(p, ref)[i].slot = ref.slot
        BY <3>2, <4>1, LayerPushes, Zenon
      <4> QED
        BY <3>1, <4>2
    <3>5. LayerHas(q, import)
      BY <3>2, <3>4 DEF LayerHas
    <3> QED
      BY <2>1, <3>3, <3>5 DEF LayerSought
  <2> QED
    BY <2>1, <2>2, <2>3
<1> QED
  BY <1>1, <1>2

LEMMA LayerAddsExplicit ==
  ASSUME NEW I \in SUBSET LayerMetas, NEW plans, \A p \in plans : LayerPlan(I, p),
         NEW d, NEW q \in Layers!AddExplicit(I, plans, d)
  PROVE  LayerPlan(I, q) /\ LayerPins(q, d) /\ \E p \in plans : LayerExtends(q, p)
<1>1. PICK p \in plans, ref \in Layers!ResolveImport(I, d.name, {d.version}) : q = Layers!Push(p, ref)
  BY DEF Layers!AddExplicit
<1>2. /\ ref \in LayerRefs(I) /\ ref.slot.type = "pip" /\ d.name \in MCProvides[ref.slot]
      /\ ref.slot.version = d.version
  BY <1>1, LayerFound
<1>3. LayerPlan(I, q) /\ LayerExtends(q, p)
  BY <1>1, <1>2, LayerPlanPushed
<1>4. \E i \in DOMAIN q : q[i].slot = ref.slot
  <2>1. p \in Seq(LayerRefs(I))
    BY <1>1 DEF LayerPlan
  <2>2. \E i \in DOMAIN Layers!Push(p, ref) : Layers!Push(p, ref)[i].slot = ref.slot
    BY <1>2, <2>1, LayerPushes, Zenon
  <2> QED
    BY <1>1, <2>2
<1> QED
  BY <1>1, <1>2, <1>3, <1>4 DEF LayerPins

(* The recursions of resolve, each a list of its stages.                      *)
LEMMA LayerImportStages ==
  ASSUME NEW I \in SUBSET LayerMetas, NEW explicit, NEW start, \A p \in start : LayerPlan(I, p),
         NEW D, NEW imports \in Seq(D)
  PROVE  \E f : /\ f[0] = start /\ f[Len(imports)] = Layers!Imported(I, explicit, start, imports)
                /\ \A n \in 1 .. Len(imports) :
                     f[n] = Layers!AddImport(I, explicit, f[n - 1], imports[n])
<1> DEFINE N == Len(imports)
           B == Seq(LayerRefs(I))
           A == {X \in SUBSET B : \A p \in X : LayerPlan(I, p)}
           F == [n \in 1 .. N |-> [X \in A |-> Layers!AddImport(I, explicit, X, imports[n])]]
           f == CHOOSE g : g = [n \in 0 .. N |->
                  IF n = 0 THEN start ELSE Layers!AddImport(I, explicit, g[n - 1], imports[n])]
<1>1. N \in Nat
  BY LenProperties
<1>2. \A X : (\A p \in X : LayerPlan(I, p)) => X \in A
  BY DEF LayerPlan
<1>3. \A X \in A : \A n \in 1 .. N : Layers!AddImport(I, explicit, X, imports[n]) \in A
  <2>1. ASSUME NEW X \in A, NEW n \in 1 .. N
        PROVE  \A q \in Layers!AddImport(I, explicit, X, imports[n]) : LayerPlan(I, q)
    <3>1. \A p \in X : LayerPlan(I, p)
      OBVIOUS
    <3> HIDE DEF A
    <3> QED
      BY <3>1, LayerAddsImport
  <2> HIDE DEF A
  <2> QED
    BY <1>2, <2>1
<1>4. start \in A
  BY <1>2
<1> HIDE DEF A
<1>5. F \in [1 .. N -> [A -> A]]
  BY <1>3
<1>6. PICK h : h \in [0 .. N -> A] /\ h[0] = start /\ \A n \in 1 .. N : h[n] = F[n][h[n - 1]]
  <2> HIDE DEF F, N
  <2>1. Stages(N, A, start, F)
    BY <1>1, <1>4, <1>5 DEF Stages
  <2>2. PICK h : Staged(N, A, start, F, h)
    BY <2>1, Iterates
  <2> QED
    BY <2>2 DEF Staged
<1>7. ASSUME NEW n \in 1 .. N
      PROVE  F[n][h[n - 1]] = Layers!AddImport(I, explicit, h[n - 1], imports[n])
  <2>1. n - 1 \in 0 .. N
    BY <1>1
  <2>2. h[n - 1] \in A
    BY <1>6, <2>1
  <2> QED
    BY <2>2
<1>8. h = [n \in 0 .. N |-> IF n = 0 THEN start ELSE Layers!AddImport(I, explicit, h[n - 1], imports[n])]
  <2>1. \A n \in 0 .. N : n # 0 => n \in 1 .. N
    BY <1>1
  <2> HIDE DEF F, N
  <2> QED
    BY <1>6, <1>7, <2>1
<1>9. f = [n \in 0 .. N |-> IF n = 0 THEN start ELSE Layers!AddImport(I, explicit, f[n - 1], imports[n])]
  <2> HIDE DEF N
  <2> QED
    BY <1>8
<1>10. Layers!Imported(I, explicit, start, imports) = f[Len(imports)]
  BY DEF Layers!Imported
<1> HIDE DEF f
<1>11. /\ f[0] = start
       /\ \A n \in 1 .. N : f[n] = Layers!AddImport(I, explicit, f[n - 1], imports[n])
  <2>1. 0 \in 0 .. N /\ \A n \in 1 .. N : n \in 0 .. N /\ n # 0
    BY <1>1
  <2> HIDE DEF N
  <2> QED
    BY <1>9, <2>1
<1> QED
  BY <1>10, <1>11

LEMMA LayerPinStages ==
  ASSUME NEW I \in SUBSET LayerMetas, NEW start, \A p \in start : LayerPlan(I, p),
         NEW D, NEW explicit \in Seq(D)
  PROVE  \E f : /\ f[0] = start /\ f[Len(explicit)] = Layers!Pinned(I, start, explicit)
                /\ \A n \in 1 .. Len(explicit) :
                     f[n] = Layers!AddExplicit(I, f[n - 1], explicit[n])
<1> DEFINE N == Len(explicit)
           B == Seq(LayerRefs(I))
           A == {X \in SUBSET B : \A p \in X : LayerPlan(I, p)}
           F == [n \in 1 .. N |-> [X \in A |-> Layers!AddExplicit(I, X, explicit[n])]]
           f == CHOOSE g : g = [n \in 0 .. N |->
                  IF n = 0 THEN start ELSE Layers!AddExplicit(I, g[n - 1], explicit[n])]
<1>1. N \in Nat
  BY LenProperties
<1>2. \A X : (\A p \in X : LayerPlan(I, p)) => X \in A
  BY DEF LayerPlan
<1>3. \A X \in A : \A n \in 1 .. N : Layers!AddExplicit(I, X, explicit[n]) \in A
  <2>1. ASSUME NEW X \in A, NEW n \in 1 .. N
        PROVE  \A q \in Layers!AddExplicit(I, X, explicit[n]) : LayerPlan(I, q)
    <3>1. \A p \in X : LayerPlan(I, p)
      OBVIOUS
    <3> HIDE DEF A
    <3> QED
      BY <3>1, LayerAddsExplicit
  <2> HIDE DEF A
  <2> QED
    BY <1>2, <2>1
<1>4. start \in A
  BY <1>2
<1> HIDE DEF A
<1>5. F \in [1 .. N -> [A -> A]]
  BY <1>3
<1>6. PICK h : h \in [0 .. N -> A] /\ h[0] = start /\ \A n \in 1 .. N : h[n] = F[n][h[n - 1]]
  <2> HIDE DEF F, N
  <2>1. Stages(N, A, start, F)
    BY <1>1, <1>4, <1>5 DEF Stages
  <2>2. PICK h : Staged(N, A, start, F, h)
    BY <2>1, Iterates
  <2> QED
    BY <2>2 DEF Staged
<1>7. ASSUME NEW n \in 1 .. N
      PROVE  F[n][h[n - 1]] = Layers!AddExplicit(I, h[n - 1], explicit[n])
  <2>1. n - 1 \in 0 .. N
    BY <1>1
  <2>2. h[n - 1] \in A
    BY <1>6, <2>1
  <2> QED
    BY <2>2
<1>8. h = [n \in 0 .. N |-> IF n = 0 THEN start ELSE Layers!AddExplicit(I, h[n - 1], explicit[n])]
  <2>1. \A n \in 0 .. N : n # 0 => n \in 1 .. N
    BY <1>1
  <2> HIDE DEF F, N
  <2> QED
    BY <1>6, <1>7, <2>1
<1>9. f = [n \in 0 .. N |-> IF n = 0 THEN start ELSE Layers!AddExplicit(I, f[n - 1], explicit[n])]
  <2> HIDE DEF N
  <2> QED
    BY <1>8
<1>10. Layers!Pinned(I, start, explicit) = f[Len(explicit)]
  BY DEF Layers!Pinned
<1> HIDE DEF f
<1>11. /\ f[0] = start
       /\ \A n \in 1 .. N : f[n] = Layers!AddExplicit(I, f[n - 1], explicit[n])
  <2>1. 0 \in 0 .. N /\ \A n \in 1 .. N : n \in 0 .. N /\ n # 0
    BY <1>1
  <2> HIDE DEF N
  <2> QED
    BY <1>9, <2>1
<1> QED
  BY <1>10, <1>11

LEMMA LayerAddsDep ==
  ASSUME NEW deps \in Seq(Layers!Dependency), NEW d \in Layers!Dependency
  PROVE  Layers!AddDep(deps, d) \in Seq(Layers!Dependency)
  BY DEF Layers!AddDep

LEMMA LayerDeps ==
  ASSUME NEW r \in MCRequest
  PROVE  Layers!ExplicitDeps(r) \in Seq(Layers!Dependency)
<1> DEFINE D == Layers!Dependency
           A == Seq(D)
           N == Len(r.pragmas)
           F == [n \in 1 .. N |-> [X \in A |-> Layers!AddDep(X, r.pragmas[n])]]
           f == CHOOSE g : g = [n \in 0 .. N |->
                  IF n = 0 THEN r.cli ELSE Layers!AddDep(g[n - 1], r.pragmas[n])]
<1>1. r.cli \in A /\ r.pragmas \in A
  BY Assumptions DEF Layers!RequestAssumption
<1>2. N \in Nat /\ \A n \in 1 .. N : r.pragmas[n] \in D
  BY <1>1, LenProperties, ElementOfSeq
<1>3. F \in [1 .. N -> [A -> A]]
  <2>1. \A X \in A, n \in 1 .. N : Layers!AddDep(X, r.pragmas[n]) \in A
    BY <1>2, LayerAddsDep
  <2> HIDE DEF A, D, N
  <2> QED
    BY <2>1
<1>4. PICK h : h \in [0 .. N -> A] /\ h[0] = r.cli /\ \A n \in 1 .. N : h[n] = F[n][h[n - 1]]
  <2> HIDE DEF F, N, A
  <2>1. Stages(N, A, r.cli, F)
    BY <1>1, <1>2, <1>3 DEF Stages
  <2>2. PICK h : Staged(N, A, r.cli, F, h)
    BY <2>1, Iterates
  <2> QED
    BY <2>2 DEF Staged
<1>5. ASSUME NEW n \in 1 .. N
      PROVE  F[n][h[n - 1]] = Layers!AddDep(h[n - 1], r.pragmas[n])
  <2>1. n - 1 \in 0 .. N
    BY <1>2
  <2>2. h[n - 1] \in A
    BY <1>4, <2>1
  <2> HIDE DEF A
  <2> QED
    BY <2>2
<1>6. h = [n \in 0 .. N |-> IF n = 0 THEN r.cli ELSE Layers!AddDep(h[n - 1], r.pragmas[n])]
  <2>1. \A n \in 0 .. N : n # 0 => n \in 1 .. N
    BY <1>2
  <2> HIDE DEF F, N, A
  <2> QED
    BY <1>4, <1>5, <2>1
<1>7. f = [n \in 0 .. N |-> IF n = 0 THEN r.cli ELSE Layers!AddDep(f[n - 1], r.pragmas[n])]
  <2> HIDE DEF N
  <2> QED
    BY <1>6
<1>8. Layers!ExplicitDeps(r) = f[N]
  BY DEF Layers!ExplicitDeps
<1> DEFINE G == {n \in 0 .. N : f[n] \in A}
<1> HIDE DEF f
<1>9. \A n \in 0 .. N : n \in G
  <2> HIDE DEF A, D, N
  <2>1. 0 \in G
    BY <1>1, <1>2, <1>7
  <2>2. ASSUME NEW n \in 1 .. N, n - 1 \in G
        PROVE  n \in G
    <3>1. n \in 0 .. N /\ n # 0 /\ f[n - 1] \in A /\ r.pragmas[n] \in D
      BY <1>2, <2>2
    <3>2. f[n] = Layers!AddDep(f[n - 1], r.pragmas[n])
      BY <1>7, <3>1
    <3>3. f[n] \in A
      BY <3>1, <3>2, LayerAddsDep DEF A, D
    <3> QED
      BY <3>1, <3>3
  <2> HIDE DEF G
  <2> QED
    BY <1>2, <2>1, <2>2, Climb
<1> QED
  BY <1>2, <1>8, <1>9

LEMMA LayerImports ==
  ASSUME NEW I \in SUBSET LayerMetas, NEW explicit, NEW start, \A p \in start : LayerPlan(I, p),
         NEW D, NEW imports \in Seq(D),
         NEW q \in Layers!Imported(I, explicit, start, imports)
  PROVE  LayerPlan(I, q) /\ \A i \in 1 .. Len(imports) : LayerSought(I, explicit, q, imports[i])
<1> DEFINE N == Len(imports)
<1>1. PICK f : /\ f[0] = start /\ f[N] = Layers!Imported(I, explicit, start, imports)
               /\ \A n \in 1 .. N : f[n] = Layers!AddImport(I, explicit, f[n - 1], imports[n])
  BY LayerImportStages
<1>2. N \in Nat
  BY LenProperties
<1> DEFINE Fits(n) == \A p \in f[n] : LayerPlan(I, p) /\ \A i \in 1 .. n : LayerSought(I, explicit, p, imports[i])
           G == {n \in 0 .. N : Fits(n)}
<1>3. 0 \in G
  BY <1>1, <1>2
<1>4. ASSUME NEW n \in 1 .. N, n - 1 \in G
      PROVE  n \in G
  <2>1. ASSUME NEW p \in f[n]
        PROVE  LayerPlan(I, p) /\ \A i \in 1 .. n : LayerSought(I, explicit, p, imports[i])
    <3>1. p \in Layers!AddImport(I, explicit, f[n - 1], imports[n]) /\ \A x \in f[n - 1] : LayerPlan(I, x)
      BY <1>1, <1>4, <2>1
    <3>2. /\ LayerPlan(I, p) /\ LayerSought(I, explicit, p, imports[n])
          /\ \E x \in f[n - 1] : LayerExtends(p, x)
      BY <3>1, LayerAddsImport
    <3>3. PICK x \in f[n - 1] : LayerExtends(p, x)
      BY <3>2
    <3>4. ASSUME NEW i \in 1 .. n
          PROVE  LayerSought(I, explicit, p, imports[i])
      <4>1. CASE i = n
        BY <3>2, <4>1
      <4>2. CASE i # n
        <5>1. i \in 1 .. n - 1
          BY <1>2, <4>2
        <5>2. LayerSought(I, explicit, x, imports[i])
          BY <1>4, <3>3, <5>1
        <5> QED
          BY <3>3, <5>2, LayerKeepsHaving
      <4> QED
        BY <4>1, <4>2
    <3> QED
      BY <3>2, <3>4
  <2> QED
    BY <1>2, <2>1
<1>5. N \in G
  <2>1. N \in 0 .. N /\ \A n \in 1 .. N : n - 1 \in G => n \in G
    BY <1>2, <1>4
  <2> HIDE DEF G, N
  <2> QED
    BY <1>2, <1>3, <2>1, Climb
<1> QED
  BY <1>1, <1>5

LEMMA LayerPinned ==
  ASSUME NEW I \in SUBSET LayerMetas, NEW start, \A p \in start : LayerPlan(I, p),
         NEW D, NEW explicit \in Seq(D),
         NEW q \in Layers!Pinned(I, start, explicit)
  PROVE  /\ LayerPlan(I, q) /\ \A i \in 1 .. Len(explicit) : LayerPins(q, explicit[i])
         /\ \E p \in start : LayerExtends(q, p)
<1> DEFINE N == Len(explicit)
<1>1. PICK f : /\ f[0] = start /\ f[N] = Layers!Pinned(I, start, explicit)
               /\ \A n \in 1 .. N : f[n] = Layers!AddExplicit(I, f[n - 1], explicit[n])
  BY LayerPinStages
<1>2. N \in Nat
  BY LenProperties
<1> DEFINE Fits(n) == \A p \in f[n] : /\ LayerPlan(I, p) /\ \A i \in 1 .. n : LayerPins(p, explicit[i])
                                      /\ \E x \in start : LayerExtends(p, x)
           G == {n \in 0 .. N : Fits(n)}
<1>3. 0 \in G
  BY <1>1, <1>2 DEF LayerExtends
<1>4. ASSUME NEW n \in 1 .. N, n - 1 \in G
      PROVE  n \in G
  <2>1. ASSUME NEW p \in f[n]
        PROVE  /\ LayerPlan(I, p) /\ \A i \in 1 .. n : LayerPins(p, explicit[i])
               /\ \E x \in start : LayerExtends(p, x)
    <3>1. p \in Layers!AddExplicit(I, f[n - 1], explicit[n]) /\ \A x \in f[n - 1] : LayerPlan(I, x)
      BY <1>1, <1>4, <2>1
    <3>2. /\ LayerPlan(I, p) /\ LayerPins(p, explicit[n])
          /\ \E x \in f[n - 1] : LayerExtends(p, x)
      BY <3>1, LayerAddsExplicit
    <3>3. PICK x \in f[n - 1] : LayerExtends(p, x)
      BY <3>2
    <3>4. ASSUME NEW i \in 1 .. n
          PROVE  LayerPins(p, explicit[i])
      <4>1. CASE i = n
        BY <3>2, <4>1
      <4>2. CASE i # n
        <5>1. i \in 1 .. n - 1
          BY <1>2, <4>2
        <5>2. LayerPins(x, explicit[i])
          BY <1>4, <3>3, <5>1
        <5> QED
          BY <3>3, <5>2, LayerKeepsHaving
      <4> QED
        BY <4>1, <4>2
    <3>5. \E y \in start : LayerExtends(p, y)
      <4>1. PICK y \in start : LayerExtends(x, y)
        BY <1>4, <3>3
      <4> QED
        BY <3>3, <4>1 DEF LayerExtends
    <3> QED
      BY <3>2, <3>4, <3>5
  <2> QED
    BY <1>2, <2>1
<1>5. N \in G
  <2>1. N \in 0 .. N /\ \A n \in 1 .. N : n - 1 \in G => n \in G
    BY <1>2, <1>4
  <2> HIDE DEF G, N
  <2> QED
    BY <1>2, <1>3, <2>1, Climb
<1> QED
  BY <1>1, <1>5

LayerHonours(I, r, q) ==
  /\ LayerPlan(I, q)
  /\ \A d \in Layers!Range(Layers!ExplicitDeps(r)) : LayerPins(q, d)
  /\ \A n \in Layers!Range(r.imports) : LayerSought(I, Layers!ExplicitDeps(r), q, n)

LEMMA LayerResolved ==
  ASSUME NEW I \in SUBSET LayerMetas, NEW r \in MCRequest, NEW q \in Layers!Resolve(I, r)
  PROVE  LayerHonours(I, r, q)
<1> DEFINE deps == Layers!ExplicitDeps(r)
           starts == Layers!Starts(I)
           mid == Layers!Imported(I, deps, starts, r.imports)
<1>1. deps \in Seq(Layers!Dependency) /\ r.imports \in Seq(STRING)
  BY LayerDeps, Assumptions DEF Layers!RequestAssumption
<1>2. q \in Layers!Pinned(I, mid, deps)
  BY DEF Layers!Resolve
<1>3. \A p \in starts : LayerPlan(I, p)
  BY LayerStarts
<1> HIDE DEF deps, starts
<1>4. \A p \in mid : LayerPlan(I, p) /\ \A i \in 1 .. Len(r.imports) : LayerSought(I, deps, p, r.imports[i])
  BY <1>1, <1>3, LayerImports
<1> HIDE DEF mid
<1>5. /\ LayerPlan(I, q) /\ \A i \in 1 .. Len(deps) : LayerPins(q, deps[i])
      /\ \E p \in mid : LayerExtends(q, p)
  BY <1>1, <1>2, <1>4, LayerPinned
<1>6. PICK p \in mid : LayerExtends(q, p)
  BY <1>5
<1>7. DOMAIN deps = 1 .. Len(deps) /\ DOMAIN r.imports = 1 .. Len(r.imports)
  BY <1>1, LenProperties
<1>8. \A i \in DOMAIN r.imports : LayerSought(I, deps, q, r.imports[i])
  BY <1>4, <1>6, <1>7, LayerKeepsHaving
<1>9. /\ \A d \in Layers!Range(deps) : LayerPins(q, d)
      /\ \A n \in Layers!Range(r.imports) : LayerSought(I, deps, q, n)
  BY <1>5, <1>7, <1>8 DEF Layers!Range
<1> QED
  BY <1>5, <1>9 DEF LayerHonours, deps


(* What the processes, the indexes and the cache are between any two steps.   *)
LayerDisk ==
  /\ built \in [MCSlot -> 0 .. MaxBuild] /\ meta \in [MCSlot -> 0 .. MaxBuild]
  /\ \A s \in MCSlot : meta[s] \in {0, built[s]}
  /\ \A x \in toml : x.slot \in MCSlot
  /\ now \in 1 .. MaxTime

LayerIndexed(I) ==
  /\ I \in SUBSET LayerMetas
  /\ \A m \in I : (m.hash = 0 <=> ~m.full) /\ m.hash <= built[m.slot]

LayerIndex ==
  index = [p \in Proc |-> index[p]] /\ \A p \in Proc : LayerIndexed(index[p])

LayerParts == [slot : MCSlot, build : Nat]

LayerMade(layers, parts) ==
  /\ parts \in Seq(LayerParts) /\ DOMAIN parts = DOMAIN layers
  /\ \A i \in DOMAIN layers : parts[i].slot = layers[i].slot /\ parts[i].build >= layers[i].hash

LayerAts == Layers!Filling \cup {"lookup", "check", "read", "store", "boot", "conflict"}

LayerCan(c, I) ==
  /\ c = [at |-> c.at, request |-> c.request, layers |-> c.layers, key |-> c.key,
          parts |-> c.parts, checked |-> c.checked, victims |-> c.victims]
  /\ c.at \in LayerAts /\ c.checked \in BOOLEAN
  /\ LayerHonours(I, c.request, c.layers) /\ c.key = Layers!KeyOf(I, c.layers)
  /\ c.checked => ~Layers!Overlap(c.layers, DOMAIN c.layers)
  /\ c.parts = <<>> \/ LayerMade(c.layers, c.parts)
  /\ c.at \in {"store", "write", "stamp"} => LayerMade(c.layers, c.parts)

LayerProcs ==
  /\ proc = [p \in Proc |-> proc[p]]
  /\ \A p \in Proc : proc[p] = Layers!Idle \/ LayerCan(proc[p], index[p])

LayerEntry(e) ==
  /\ e = [initrd |-> [state |-> e.initrd.state, parts |-> e.initrd.parts],
          meta |-> [state |-> e.meta.state, at |-> e.meta.at], used |-> e.used]
  /\ e.initrd.state \in {"absent", "torn", "whole"}
  /\ e.meta.state \in {"absent", "torn", "whole"}
  /\ e.meta.state = "whole" => e.meta.at = e.used

LayerKeyed(k, parts) ==
  /\ parts \in Seq(LayerParts) /\ DOMAIN parts = DOMAIN k.parts
  /\ \A i \in DOMAIN parts : /\ parts[i].slot.name = k.parts[i].name
                             /\ parts[i].slot.version = k.parts[i].version
                             /\ parts[i].build >= k.parts[i].hash

LayerSound(k, e) ==
  /\ e.initrd.state = "whole" => LayerKeyed(k, e.initrd.parts)
  /\ e.meta.state # "absent" => e.initrd.state = "whole"

LayerCache ==
  /\ cache = [k \in DOMAIN cache |-> cache[k]]
  /\ \A k \in DOMAIN cache : LayerEntry(cache[k]) /\ (k \notin shaken => LayerSound(k, cache[k]))

(* Who is about to write the stamp has written the initrd.                    *)
LayerStamps ==
  \A p \in Proc :
    proc[p].at = "stamp" /\ proc[p].key \notin shaken /\ proc[p].key \in DOMAIN cache
      => cache[proc[p].key].initrd.state = "whole"

LayerInv ==
  LayerDisk /\ LayerIndex /\ LayerProcs /\ LayerCache /\ LayerStamps

LEMMA LayerBounds ==
  MaxBuild \in Nat /\ MaxTime \in Nat /\ MaxBuild >= 1 /\ MaxTime >= 1
  BY Assumptions DEF Layers!BoundAssumption

LEMMA LayerAt ==
  ASSUME LayerInv, NEW p \in Proc
  PROVE  /\ LayerIndexed(index[p])
         /\ proc[p].at = "idle" => proc[p] = Layers!Idle
         /\ proc[p].at # "idle" => LayerCan(proc[p], index[p])
<1>1. Layers!Idle.at = "idle" /\ "idle" \notin LayerAts
  BY DEF Layers!Idle, LayerAts, Layers!Filling
<1>2. LayerIndexed(index[p]) /\ (proc[p] = Layers!Idle \/ LayerCan(proc[p], index[p]))
  BY DEF LayerInv, LayerIndex, LayerProcs
<1>3. LayerCan(proc[p], index[p]) => proc[p].at \in LayerAts
  BY DEF LayerCan
<1> QED
  BY <1>1, <1>2, <1>3

LEMMA LayerGoes ==
  ASSUME NEW I, NEW c, LayerCan(c, I), NEW a \in LayerAts,
         a \in {"store", "write", "stamp"} => LayerMade(c.layers, c.parts)
  PROVE  LayerCan([c EXCEPT !.at = a], I)
<1> DEFINE d == [c EXCEPT !.at = a]
<1>1. /\ d = [at |-> d.at, request |-> d.request, layers |-> d.layers, key |-> d.key,
              parts |-> d.parts, checked |-> d.checked, victims |-> d.victims]
      /\ d.at = a /\ d.request = c.request /\ d.layers = c.layers /\ d.key = c.key
      /\ d.parts = c.parts /\ d.checked = c.checked /\ d.victims = c.victims
  BY DEF LayerCan
<1> HIDE DEF d
<1>2. LayerCan(d, I)
  BY <1>1, Zenon DEF LayerCan
<1> QED
  BY <1>2 DEF d

(* A step of one process that leaves the cache alone.                         *)
LayerActs(p, c) ==
  /\ LayerInv /\ p \in Proc /\ proc' = [proc EXCEPT ![p] = c]
  /\ c = Layers!Idle \/ LayerCan(c, index[p])
  /\ UNCHANGED <<built, meta, toml, index, cache, now, shaken>>

LEMMA LayerAct ==
  ASSUME NEW p, NEW c, LayerActs(p, c),
         c.at = "stamp" /\ c.key \notin shaken /\ c.key \in DOMAIN cache
           => cache[c.key].initrd.state = "whole"
  PROVE  LayerInv'
<1>1. /\ p \in Proc /\ proc = [x \in Proc |-> proc[x]] /\ proc' = [proc EXCEPT ![p] = c]
      /\ \A x \in Proc : proc[x] = Layers!Idle \/ LayerCan(proc[x], index[x])
      /\ c = Layers!Idle \/ LayerCan(c, index[p])
      /\ UNCHANGED <<built, meta, toml, index, cache, now, shaken>>
  BY DEF LayerActs, LayerInv, LayerProcs
<1>2. proc' = [x \in Proc |-> proc'[x]] /\ proc'[p] = c /\ \A x \in Proc \ {p} : proc'[x] = proc[x]
  BY <1>1
<1>3. LayerProcs'
  BY <1>1, <1>2 DEF LayerProcs, Layers!Idle, Layers!NoKey, Layers!NoRequest
<1>4. LayerStamps'
  BY <1>1, <1>2 DEF LayerActs, LayerInv, LayerStamps
<1>5. LayerDisk' /\ LayerIndex' /\ LayerCache'
  BY <1>1 DEF LayerActs, LayerInv, LayerDisk, LayerIndex, LayerIndexed, LayerCache
<1> QED
  BY <1>3, <1>4, <1>5 DEF LayerInv

LEMMA LayerCachePut ==
  ASSUME LayerCache, NEW k, NEW e, Layers!PutDir(k, e), LayerEntry(e),
         k \notin shaken' => LayerSound(k, e), shaken \subseteq shaken'
  PROVE  /\ LayerCache' /\ DOMAIN cache' = DOMAIN cache \cup {k} /\ cache'[k] = e
         /\ \A x \in DOMAIN cache \ {k} : cache'[x] = cache[x]
<1>1. cache' = [x \in DOMAIN cache \cup {k} |-> IF x = k THEN e ELSE cache[x]]
  BY DEF Layers!PutDir
<1>2. /\ cache' = [x \in DOMAIN cache' |-> cache'[x]] /\ DOMAIN cache' = DOMAIN cache \cup {k}
      /\ cache'[k] = e /\ \A x \in DOMAIN cache \ {k} : cache'[x] = cache[x]
  BY <1>1
<1>3. ASSUME NEW x \in DOMAIN cache'
      PROVE  LayerEntry(cache'[x]) /\ (x \notin shaken' => LayerSound(x, cache'[x]))
  <2>1. CASE x = k
    BY <1>2, <2>1
  <2>2. CASE x # k
    BY <1>2, <2>2 DEF LayerCache
  <2> QED
    BY <2>1, <2>2
<1>4. LayerCache'
  BY <1>2, <1>3 DEF LayerCache
<1> QED
  BY <1>2, <1>4

LEMMA LayerCacheDrop ==
  ASSUME LayerCache, NEW k, Layers!DropDir(k), shaken \subseteq shaken'
  PROVE  /\ LayerCache' /\ DOMAIN cache' = DOMAIN cache \ {k}
         /\ \A x \in DOMAIN cache' : cache'[x] = cache[x]
<1>1. cache' = [x \in DOMAIN cache \ {k} |-> cache[x]]
  BY DEF Layers!DropDir, Layers!Restrict
<1>2. /\ cache' = [x \in DOMAIN cache' |-> cache'[x]] /\ DOMAIN cache' = DOMAIN cache \ {k}
      /\ \A x \in DOMAIN cache' : cache'[x] = cache[x]
  BY <1>1
<1>3. LayerCache'
  BY <1>2 DEF LayerCache
<1> QED
  BY <1>2, <1>3

LEMMA LayerInit == Layers!Init => LayerInv
<1> SUFFICES ASSUME Layers!Init PROVE LayerInv
  OBVIOUS
<1>1. LayerDisk
  <2>1. MCBase \in MCSlot
    BY DEF MCSlot
  <2> QED
    BY <2>1, LayerBounds DEF Layers!Init, LayerDisk
<1>2. LayerIndex
  <2> DEFINE I == {Layers!Meta(s, 1, TRUE, TRUE) : s \in MCSlot \ MCManaged}
  <2>1. I \in SUBSET LayerMetas /\ \A m \in I : m.hash = 1 /\ m.full /\ built[m.slot] = 1
    <3>1. ASSUME NEW m \in I
          PROVE  m \in LayerMetas /\ m.hash = 1 /\ m.full /\ built[m.slot] = 1
      <4>1. PICK s \in MCSlot : m = [slot |-> s, hash |-> 1, full |-> TRUE, default |-> TRUE]
        BY DEF Layers!Meta
      <4>2. built[s] = 1
        BY DEF Layers!Init
      <4> QED
        BY <4>1, <4>2, LayerBounds DEF LayerMetas
    <3> QED
      BY <3>1
  <2>2. index = [p \in Proc |-> I]
    BY DEF Layers!Init
  <2> HIDE DEF I
  <2>3. LayerIndexed(I)
    BY <2>1 DEF LayerIndexed
  <2> QED
    BY <2>2, <2>3 DEF LayerIndex
<1>3. LayerProcs /\ LayerStamps
  BY DEF Layers!Init, LayerProcs, LayerStamps, Layers!Idle
<1>4. LayerCache
  BY DEF Layers!Init, LayerCache
<1> QED
  BY <1>1, <1>2, <1>3, <1>4 DEF LayerInv

LEMMA LayerBuildsArchive ==
  ASSUME LayerInv, NEW s \in MCManaged, Layers!BuildArchive(s)
  PROVE  LayerInv'
<1>1. /\ built[s] < MaxBuild /\ built' = [built EXCEPT ![s] = @ + 1] /\ meta' = [meta EXCEPT ![s] = 0]
      /\ UNCHANGED <<toml, index, calls, proc, cache, now, shaken>>
  BY DEF Layers!BuildArchive, Layers!registry, Layers!store
<1>2. s \in MCSlot
  BY Assumptions DEF Layers!ManagedAssumption
<1>3. LayerDisk'
  BY <1>1, <1>2, LayerBounds DEF LayerInv, LayerDisk
<1>4. \A t \in MCSlot : built[t] \in Nat /\ built'[t] \in Nat /\ built[t] <= built'[t]
  BY <1>1, <1>2, LayerBounds DEF LayerInv, LayerDisk
<1>5. LayerIndex'
  <2>1. ASSUME NEW p \in Proc
        PROVE  LayerIndexed(index[p])'
    <3>1. LayerIndexed(index[p]) /\ index'[p] = index[p]
      BY <1>1, LayerAt
    <3>2. ASSUME NEW m \in index[p]
          PROVE  m.hash <= built'[m.slot]
      <4>1. m.slot \in MCSlot /\ m.hash \in Nat /\ m.hash <= built[m.slot]
        BY <3>1, LayerBounds DEF LayerIndexed, LayerMetas
      <4>2. built[m.slot] \in Nat /\ built'[m.slot] \in Nat /\ built[m.slot] <= built'[m.slot]
        BY <1>4, <4>1
      <4> QED
        BY <4>1, <4>2
    <3> QED
      BY <3>1, <3>2 DEF LayerIndexed
  <2> QED
    BY <1>1, <2>1 DEF LayerInv, LayerIndex
<1>6. LayerProcs' /\ LayerCache' /\ LayerStamps'
  BY <1>1 DEF LayerInv, LayerProcs, LayerCache, LayerStamps
<1> QED
  BY <1>3, <1>5, <1>6 DEF LayerInv

LEMMA LayerBuildsMeta ==
  ASSUME LayerInv, NEW s \in MCManaged, Layers!BuildMeta(s)
  PROVE  LayerInv'
<1>1. /\ meta' = [meta EXCEPT ![s] = built[s]] /\ toml' = toml \cup {[slot |-> s, quoted |-> TRUE]}
      /\ UNCHANGED <<built, index, calls, proc, cache, now, shaken>>
  BY DEF Layers!BuildMeta, Layers!registry, Layers!store
<1>2. s \in MCSlot
  BY Assumptions DEF Layers!ManagedAssumption
<1>3. LayerDisk'
  BY <1>1, <1>2 DEF LayerInv, LayerDisk
<1>4. LayerIndex' /\ LayerProcs' /\ LayerCache' /\ LayerStamps'
  BY <1>1 DEF LayerInv, LayerIndex, LayerIndexed, LayerProcs, LayerCache, LayerStamps
<1> QED
  BY <1>3, <1>4 DEF LayerInv

LEMMA LayerTick ==
  ASSUME LayerInv, Layers!Tick
  PROVE  LayerInv'
<1>1. now < MaxTime /\ now' = now + 1 /\ UNCHANGED <<built, meta, toml, index, calls, proc, cache, shaken>>
  BY DEF Layers!Tick, Layers!disk, Layers!registry
<1>2. LayerDisk'
  BY <1>1, LayerBounds DEF LayerInv, LayerDisk
<1>3. LayerIndex' /\ LayerProcs' /\ LayerCache' /\ LayerStamps'
  BY <1>1 DEF LayerInv, LayerIndex, LayerIndexed, LayerProcs, LayerCache, LayerStamps
<1> QED
  BY <1>2, <1>3 DEF LayerInv

(* The calls that change an index.                                            *)
LEMMA LayerIndexes ==
  ASSUME LayerInv, NEW p \in Proc, NEW I, LayerIndexed(I), Layers!IndexCall(p, I)
  PROVE  LayerInv'
<1>1. /\ proc[p].at = "idle" /\ index' = [index EXCEPT ![p] = I]
      /\ UNCHANGED <<built, meta, toml, proc, cache, now, shaken>>
  BY DEF Layers!IndexCall, Layers!disk, Layers!store
<1>2. /\ index = [x \in Proc |-> index[x]] /\ proc = [x \in Proc |-> proc[x]]
      /\ \A x \in Proc : LayerIndexed(index[x])
      /\ \A x \in Proc : proc[x] = Layers!Idle \/ LayerCan(proc[x], index[x])
  BY DEF LayerInv, LayerIndex, LayerProcs
<1>3. index' = [x \in Proc |-> index'[x]] /\ index'[p] = I /\ \A x \in Proc \ {p} : index'[x] = index[x]
  BY <1>1, <1>2
<1>4. proc[p] = Layers!Idle
  BY <1>1, LayerAt
<1>5. LayerIndex'
  BY <1>1, <1>2, <1>3 DEF LayerIndex, LayerIndexed
<1>6. LayerProcs'
  BY <1>1, <1>2, <1>3, <1>4 DEF LayerProcs, Layers!Idle, Layers!NoKey, Layers!NoRequest
<1>7. LayerDisk' /\ LayerCache' /\ LayerStamps'
  BY <1>1 DEF LayerInv, LayerDisk, LayerCache, LayerStamps
<1> QED
  BY <1>5, <1>6, <1>7 DEF LayerInv

LEMMA LayerSaves ==
  ASSUME LayerInv, NEW p \in Proc, Layers!Save(p)
  PROVE  LayerInv'
<1>1. /\ toml' = {[slot |-> m.slot, quoted |-> TRUE] : m \in index[p]}
      /\ UNCHANGED <<built, meta, index, proc, cache, now, shaken>>
  BY DEF Layers!Save, Layers!store
<1>2. \A m \in index[p] : m.slot \in MCSlot
  BY LayerAt DEF LayerIndexed, LayerMetas
<1>3. \A x \in toml' : x.slot \in MCSlot
  BY <1>1, <1>2
<1>4. LayerDisk' /\ LayerIndex' /\ LayerProcs' /\ LayerCache' /\ LayerStamps'
  BY <1>1, <1>3 DEF LayerInv, LayerDisk, LayerIndex, LayerIndexed, LayerProcs, LayerCache, LayerStamps
<1> QED
  BY <1>4 DEF LayerInv

LEMMA LayerCalls ==
  ASSUME LayerInv, NEW p \in Proc,
         \/ Layers!ScanLayers(p) \/ Layers!LoadFrom(p) \/ Layers!UpdateAllLatest(p)
         \/ \E s \in MCManaged : Layers!AddLayer(p, s) \/ Layers!RemoveLayer(p, s) \/ Layers!UpdateLatest(p, s)
  PROVE  LayerInv'
<1>1. LayerIndexed(index[p])
  BY LayerAt
<1>2. /\ built \in [MCSlot -> 0 .. MaxBuild] /\ meta \in [MCSlot -> 0 .. MaxBuild]
      /\ \A s \in MCSlot : meta[s] \in {0, built[s]}
      /\ \A x \in toml : x.slot \in MCSlot
  BY DEF LayerInv, LayerDisk
<1>3. CASE Layers!ScanLayers(p)
  <2> DEFINE I == {IF meta[s] > 0 THEN Layers!Meta(s, meta[s], TRUE, TRUE)
                   ELSE Layers!Meta(s, 0, FALSE, FALSE) : s \in {x \in MCSlot : built[x] > 0}}
  <2>1. Layers!IndexCall(p, I)
    BY <1>3 DEF Layers!ScanLayers
  <2>2. LayerIndexed(I)
    <3>1. ASSUME NEW m \in I
          PROVE  m \in LayerMetas /\ (m.hash = 0 <=> ~m.full) /\ m.hash <= built[m.slot]
      <4>1. PICK s \in MCSlot : built[s] > 0 /\ m = IF meta[s] > 0 THEN Layers!Meta(s, meta[s], TRUE, TRUE)
                                                  ELSE Layers!Meta(s, 0, FALSE, FALSE)
        OBVIOUS
      <4>2. meta[s] \in 0 .. MaxBuild /\ built[s] \in 0 .. MaxBuild /\ meta[s] \in {0, built[s]}
        BY <1>2
      <4>3. CASE meta[s] > 0
        <5>1. m = [slot |-> s, hash |-> meta[s], full |-> TRUE, default |-> TRUE]
          BY <4>1, <4>3 DEF Layers!Meta
        <5> QED
          BY <4>2, <4>3, <5>1, LayerBounds DEF LayerMetas
      <4>4. CASE ~(meta[s] > 0)
        <5>1. m = [slot |-> s, hash |-> 0, full |-> FALSE, default |-> FALSE]
          BY <4>1, <4>4 DEF Layers!Meta
        <5> QED
          BY <4>2, <5>1, LayerBounds DEF LayerMetas
      <4> QED
        BY <4>3, <4>4
    <3> HIDE DEF I
    <3> QED
      BY <3>1 DEF LayerIndexed
  <2> HIDE DEF I
  <2> QED
    BY <2>1, <2>2, LayerIndexes
<1>4. CASE Layers!LoadFrom(p)
  <2> DEFINE I == {Layers!Meta(x.slot, 0, FALSE, FALSE) : x \in {y \in toml : ~y.quoted}}
  <2>1. Layers!IndexCall(p, I)
    BY <1>4 DEF Layers!LoadFrom
  <2>2. LayerIndexed(I)
    <3>1. ASSUME NEW m \in I
          PROVE  m \in LayerMetas /\ (m.hash = 0 <=> ~m.full) /\ m.hash <= built[m.slot]
      <4>1. PICK x \in toml : m = [slot |-> x.slot, hash |-> 0, full |-> FALSE, default |-> FALSE]
        BY DEF Layers!Meta
      <4>2. x.slot \in MCSlot /\ built[x.slot] \in 0 .. MaxBuild
        BY <1>2, <4>1
      <4> QED
        BY <4>1, <4>2, LayerBounds DEF LayerMetas
    <3> HIDE DEF I
    <3> QED
      BY <3>1 DEF LayerIndexed
  <2> HIDE DEF I
  <2> QED
    BY <2>1, <2>2, LayerIndexes
<1>5. CASE Layers!UpdateAllLatest(p)
  <2> DEFINE Top(m) == \A x \in index[p] : x.slot.type = m.slot.type /\ x.slot.name = m.slot.name
                                             => x.slot.version <= m.slot.version
             I == {[m EXCEPT !.default = Top(m)] : m \in index[p]}
  <2>1. Layers!IndexCall(p, I)
    BY <1>5 DEF Layers!UpdateAllLatest
  <2>2. LayerIndexed(I)
    <3>1. ASSUME NEW m \in I
          PROVE  m \in LayerMetas /\ (m.hash = 0 <=> ~m.full) /\ m.hash <= built[m.slot]
      <4>1. PICK x \in index[p] : m = [x EXCEPT !.default = Top(x)]
        OBVIOUS
      <4>2. Top(x) \in BOOLEAN
        OBVIOUS
      <4> HIDE DEF Top
      <4>3. x \in LayerMetas /\ (x.hash = 0 <=> ~x.full) /\ x.hash <= built[x.slot]
        BY <1>1 DEF LayerIndexed
      <4>4. m \in LayerMetas /\ m.hash = x.hash /\ m.full = x.full /\ m.slot = x.slot
        BY <4>1, <4>2, <4>3 DEF LayerMetas
      <4> QED
        BY <4>3, <4>4
    <3> HIDE DEF I
    <3> QED
      BY <3>1 DEF LayerIndexed
  <2> HIDE DEF I
  <2> QED
    BY <2>1, <2>2, LayerIndexes
<1>6. ASSUME NEW s \in MCManaged, Layers!AddLayer(p, s)
      PROVE  LayerInv'
  <2> DEFINE I == index[p] \cup {Layers!Meta(s, built[s], TRUE, TRUE)}
  <2>1. Layers!IndexCall(p, I) /\ built[s] > 0
    BY <1>6 DEF Layers!AddLayer
  <2>2. LayerIndexed(I)
    <3>1. s \in MCSlot /\ built[s] \in 0 .. MaxBuild
      BY <1>2, Assumptions DEF Layers!ManagedAssumption
    <3>2. ASSUME NEW m \in {Layers!Meta(s, built[s], TRUE, TRUE)}
          PROVE  m \in LayerMetas /\ (m.hash = 0 <=> ~m.full) /\ m.hash <= built[m.slot]
      <4>1. m = [slot |-> s, hash |-> built[s], full |-> TRUE, default |-> TRUE]
        BY DEF Layers!Meta
      <4> QED
        BY <2>1, <3>1, <4>1, LayerBounds DEF LayerMetas
    <3> QED
      BY <1>1, <3>2 DEF LayerIndexed
  <2> HIDE DEF I
  <2> QED
    BY <2>1, <2>2, LayerIndexes
<1>7. ASSUME NEW s \in MCManaged, Layers!RemoveLayer(p, s)
      PROVE  LayerInv'
  <2> DEFINE I == {m \in index[p] : m.slot # s}
  <2>1. Layers!IndexCall(p, I)
    BY <1>7 DEF Layers!RemoveLayer
  <2>2. LayerIndexed(I)
    BY <1>1 DEF LayerIndexed
  <2> HIDE DEF I
  <2> QED
    BY <2>1, <2>2, LayerIndexes
<1>8. ASSUME NEW s \in MCManaged, Layers!UpdateLatest(p, s)
      PROVE  LayerInv'
  <2> DEFINE I == {IF m.slot.name = s.name THEN [m EXCEPT !.default = (m.slot.version = s.version)]
                   ELSE m : m \in index[p]}
  <2>1. Layers!IndexCall(p, I)
    BY <1>8 DEF Layers!UpdateLatest
  <2>2. LayerIndexed(I)
    <3>1. ASSUME NEW m \in I
          PROVE  m \in LayerMetas /\ (m.hash = 0 <=> ~m.full) /\ m.hash <= built[m.slot]
      <4>1. PICK x \in index[p] : \/ m = [x EXCEPT !.default = (x.slot.version = s.version)]
                                  \/ m = x
        OBVIOUS
      <4>2. (x.slot.version = s.version) \in BOOLEAN
        OBVIOUS
      <4>3. x \in LayerMetas /\ (x.hash = 0 <=> ~x.full) /\ x.hash <= built[x.slot]
        BY <1>1 DEF LayerIndexed
      <4>4. m \in LayerMetas /\ m.hash = x.hash /\ m.full = x.full /\ m.slot = x.slot
        BY <4>1, <4>2, <4>3 DEF LayerMetas
      <4> QED
        BY <4>3, <4>4
    <3> HIDE DEF I
    <3> QED
      BY <3>1 DEF LayerIndexed
  <2> HIDE DEF I
  <2> QED
    BY <2>1, <2>2, LayerIndexes
<1> QED
  BY <1>3, <1>4, <1>5, <1>6, <1>7, <1>8

LEMMA LayerBegins ==
  ASSUME NEW r, NEW q, NEW k
  PROVE  [Layers!Idle EXCEPT !.at = "lookup", !.request = r, !.layers = q, !.key = k]
           = [at |-> "lookup", request |-> r, layers |-> q, key |-> k,
              parts |-> <<>>, checked |-> FALSE, victims |-> {}]
<1> DEFINE b == Layers!Idle
           x == [b EXCEPT !.at = "lookup"]
           y == [x EXCEPT !.request = r]
           z == [y EXCEPT !.layers = q]
           w == [z EXCEPT !.key = k]
<1>1. [Layers!Idle EXCEPT !.at = "lookup", !.request = r, !.layers = q, !.key = k] = w
  BY Zenon
<1>2. b = [at |-> b.at, request |-> b.request, layers |-> b.layers, key |-> b.key,
           parts |-> b.parts, checked |-> b.checked, victims |-> b.victims]
  BY DEF Layers!Idle
<1>7. b.parts = <<>> /\ b.checked = FALSE /\ b.victims = {}
  BY DEF Layers!Idle
<1> HIDE DEF b
<1>3. x = [at |-> "lookup", request |-> b.request, layers |-> b.layers, key |-> b.key,
           parts |-> b.parts, checked |-> b.checked, victims |-> b.victims]
  BY <1>2
<1> HIDE DEF x
<1>4. y = [at |-> "lookup", request |-> r, layers |-> b.layers, key |-> b.key,
           parts |-> b.parts, checked |-> b.checked, victims |-> b.victims]
  BY <1>3
<1> HIDE DEF y
<1>5. z = [at |-> "lookup", request |-> r, layers |-> q, key |-> b.key,
           parts |-> b.parts, checked |-> b.checked, victims |-> b.victims]
  BY <1>4
<1> HIDE DEF z
<1>6. w = [at |-> "lookup", request |-> r, layers |-> q, key |-> k,
           parts |-> b.parts, checked |-> b.checked, victims |-> b.victims]
  BY <1>5
<1> HIDE DEF w
<1> QED
  BY <1>1, <1>6, <1>7

LEMMA LayerComposes ==
  ASSUME LayerInv, NEW p \in Proc, NEW r \in MCRequest, Layers!Compose(p, r)
  PROVE  LayerInv'
<1> DEFINE plans == Layers!Resolve(index[p], r)
<1>1. UNCHANGED <<built, meta, toml, index, cache, now, shaken>>
  BY DEF Layers!Compose, Layers!disk, Layers!store
<1>2. CASE plans = {}
  <2>1. proc' = [proc EXCEPT ![p] = Layers!Idle]
    BY <1>2 DEF Layers!Compose, Layers!Fail
  <2>2. LayerActs(p, Layers!Idle) /\ Layers!Idle.at # "stamp"
    BY <1>1, <2>1 DEF LayerActs, Layers!Idle
  <2> QED
    BY <2>2, LayerAct
<1>3. CASE plans # {}
  <2>1. PICK layers \in plans :
          proc' = [proc EXCEPT ![p] =
                     [Layers!Idle EXCEPT !.at = "lookup", !.request = r, !.layers = layers,
                                         !.key = Layers!KeyOf(index[p], layers)]]
    BY <1>3 DEF Layers!Compose
  <2> DEFINE k == Layers!KeyOf(index[p], layers)
             c == [at |-> "lookup", request |-> r, layers |-> layers, key |-> k,
                   parts |-> <<>>, checked |-> FALSE, victims |-> {}]
  <2>2. proc' = [proc EXCEPT ![p] = c]
    <3> HIDE DEF k, plans
    <3>1. [Layers!Idle EXCEPT !.at = "lookup", !.request = r, !.layers = layers, !.key = k] = c
      BY LayerBegins
    <3> HIDE DEF c
    <3> QED
      BY <2>1, <3>1 DEF k
  <2>3. LayerHonours(index[p], r, layers)
    <3>1. index[p] \in SUBSET LayerMetas
      BY LayerAt DEF LayerIndexed
    <3> QED
      BY <2>1, <3>1, LayerResolved
  <2>4. LayerCan(c, index[p])
    <3>1. "lookup" \in LayerAts /\ c.at = "lookup"
      BY DEF LayerAts
    <3> HIDE DEF k, plans
    <3> QED
      BY <2>3, <3>1 DEF LayerCan, k
  <2>5. LayerActs(p, c) /\ c.at # "stamp"
    <3> HIDE DEF k, plans
    <3>1. c.at # "stamp"
      OBVIOUS
    <3> HIDE DEF c
    <3> QED
      BY <1>1, <2>2, <2>4, <3>1 DEF LayerActs
  <2> HIDE DEF c
  <2> QED
    BY <2>5, LayerAct
<1> QED
  BY <1>2, <1>3

(* A process that is not idle goes on, with another "at" and what else.       *)
LEMMA LayerFails ==
  ASSUME LayerInv, NEW p \in Proc, Layers!Fail(p),
         UNCHANGED <<built, meta, toml, index, cache, now, shaken>>
  PROVE  LayerInv'
<1>1. proc' = [proc EXCEPT ![p] = Layers!Idle]
  BY DEF Layers!Fail
<1>2. LayerActs(p, Layers!Idle) /\ Layers!Idle.at # "stamp"
  BY <1>1 DEF LayerActs, Layers!Idle
<1> QED
  BY <1>2, LayerAct

LEMMA LayerTurns ==
  ASSUME LayerInv, NEW p \in Proc, proc[p].at # "idle", NEW a \in LayerAts, Layers!Go(p, a)
  PROVE  proc' = [proc EXCEPT ![p] = [proc[p] EXCEPT !.at = a]]
<1>1. proc' = [proc EXCEPT ![p].at = a]
  BY DEF Layers!Go
<1> QED
  BY <1>1

LEMMA LayerMoves ==
  ASSUME LayerInv, NEW p \in Proc, proc[p].at # "idle",
         NEW a \in LayerAts \ {"store", "write", "stamp"}, Layers!Go(p, a),
         UNCHANGED <<built, meta, toml, index, cache, now, shaken>>
  PROVE  LayerInv'
<1> DEFINE c == [proc[p] EXCEPT !.at = a]
<1>1. proc' = [proc EXCEPT ![p] = c]
  BY LayerTurns
<1>2. LayerCan(proc[p], index[p])
  BY LayerAt
<1>3. LayerCan(c, index[p])
  BY <1>2, LayerGoes
<1>4. c.at # "stamp"
  BY <1>2 DEF LayerCan
<1> HIDE DEF c
<1>5. LayerActs(p, c)
  BY <1>1, <1>3 DEF LayerActs
<1> QED
  BY <1>4, <1>5, LayerAct

LEMMA LayerMisses ==
  ASSUME LayerInv, NEW p \in Proc, Layers!Missed(p)
  PROVE  LayerInv'
<1>1. /\ proc[p].at = "lookup" /\ Layers!Go(p, "check")
      /\ UNCHANGED <<built, meta, toml, index, cache, now, shaken>>
  BY DEF Layers!Missed, Layers!disk, Layers!registry, Layers!store
<1>2. "check" \in LayerAts \ {"store", "write", "stamp"}
  BY DEF LayerAts
<1> QED
  BY <1>1, <1>2, LayerMoves

LEMMA LayerChecks ==
  ASSUME LayerInv, NEW p \in Proc, Layers!ConflictCheck(p)
  PROVE  LayerInv'
<1>1. /\ proc[p].at = "check" /\ UNCHANGED <<built, meta, toml, index, cache, now, shaken>>
  BY DEF Layers!ConflictCheck, Layers!disk, Layers!registry, Layers!store
<1>2. PICK seen \in Layers!Listings(proc[p].layers) :
        IF Layers!Overlap(proc[p].layers, seen) THEN Layers!Go(p, "conflict")
        ELSE proc' = [proc EXCEPT ![p].at = "read",
                                  ![p].checked = (seen = DOMAIN proc[p].layers)]
  BY DEF Layers!ConflictCheck
<1>3. CASE Layers!Overlap(proc[p].layers, seen)
  <2>1. "conflict" \in LayerAts \ {"store", "write", "stamp"}
    BY DEF LayerAts
  <2> QED
    BY <1>1, <1>2, <1>3, <2>1, LayerMoves
<1>4. CASE ~Layers!Overlap(proc[p].layers, seen)
  <2> DEFINE b == (seen = DOMAIN proc[p].layers)
             d == [proc[p] EXCEPT !.checked = b]
             c == [d EXCEPT !.at = "read"]
  <2>1. LayerCan(proc[p], index[p]) /\ "read" \in LayerAts
    BY <1>1, LayerAt DEF LayerAts
  <2>2. b \in BOOLEAN /\ (b => ~Layers!Overlap(proc[p].layers, DOMAIN proc[p].layers))
    BY <1>4
  <2> HIDE DEF b
  <2>3. LayerCan(d, index[p])
    <3>1. /\ d = [at |-> d.at, request |-> d.request, layers |-> d.layers, key |-> d.key,
                  parts |-> d.parts, checked |-> d.checked, victims |-> d.victims]
          /\ d.at = proc[p].at /\ d.request = proc[p].request /\ d.layers = proc[p].layers
          /\ d.key = proc[p].key /\ d.parts = proc[p].parts /\ d.checked = b
      BY <2>1 DEF LayerCan
    <3> HIDE DEF d
    <3> QED
      BY <2>1, <2>2, <3>1, Zenon DEF LayerCan
  <2>4. proc' = [proc EXCEPT ![p] = c]
    <3>1. proc' = [proc EXCEPT ![p] = [proc[p] EXCEPT !.at = "read", !.checked = b]]
      BY <1>2, <1>4 DEF b
    <3>2. [proc[p] EXCEPT !.at = "read", !.checked = b] = c
      BY <2>1 DEF LayerCan
    <3> QED
      BY <3>1, <3>2
  <2>5. LayerCan(c, index[p])
    <3> HIDE DEF d
    <3> QED
      BY <2>1, <2>3, LayerGoes
  <2>6. c.at # "stamp"
    BY <2>3 DEF LayerCan
  <2> HIDE DEF c
  <2>7. LayerActs(p, c)
    BY <1>1, <2>4, <2>5 DEF LayerActs
  <2> QED
    BY <2>6, <2>7, LayerAct
<1> QED
  BY <1>3, <1>4

LEMMA LayerPlanned ==
  ASSUME LayerInv, NEW p \in Proc, proc[p].at # "idle"
  PROVE  /\ proc[p].layers \in Seq(LayerRefs(index[p]))
         /\ DOMAIN proc[p].layers = 1 .. Len(proc[p].layers) /\ Len(proc[p].layers) \in Nat
         /\ \A i \in DOMAIN proc[p].layers :
              /\ proc[p].layers[i].slot \in MCSlot /\ proc[p].layers[i].hash \in Nat
              /\ proc[p].layers[i].hash <= built[proc[p].layers[i].slot]
<1> DEFINE q == proc[p].layers
           I == index[p]
<1>1. q \in Seq(LayerRefs(I)) /\ LayerIndexed(I)
  BY LayerAt DEF LayerCan, LayerHonours, LayerPlan
<1> HIDE DEF q
<1>2. DOMAIN q = 1 .. Len(q) /\ Len(q) \in Nat
  BY <1>1, LenProperties
<1>3. ASSUME NEW i \in DOMAIN q
      PROVE  q[i].slot \in MCSlot /\ q[i].hash \in Nat /\ q[i].hash <= built[q[i].slot]
  <2>1. q[i] \in LayerRefs(I)
    BY <1>1, <1>2, ElementOfSeq
  <2>2. PICK m \in I : q[i] = [slot |-> m.slot, hash |-> m.hash]
    BY <2>1 DEF LayerRefs, Layers!Ref
  <2>3. m \in LayerMetas /\ m.hash <= built[m.slot]
    BY <1>1, <2>2 DEF LayerIndexed
  <2> QED
    BY <2>2, <2>3, LayerBounds DEF LayerMetas
<1> QED
  BY <1>1, <1>2, <1>3 DEF q

LEMMA LayerReads ==
  ASSUME LayerInv, NEW p \in Proc, Layers!ReadLayers(p)
  PROVE  LayerInv'
<1> DEFINE layers == proc[p].layers
           made == [i \in DOMAIN layers |-> [slot |-> layers[i].slot, build |-> built[layers[i].slot]]]
<1>1. /\ proc[p].at = "read" /\ UNCHANGED <<built, meta, toml, index, cache, now, shaken>>
  BY DEF Layers!ReadLayers, Layers!disk, Layers!registry, Layers!store
<1>2. CASE ~\A i \in DOMAIN layers : built[layers[i].slot] > 0
  <2>1. Layers!Fail(p)
    BY <1>2 DEF Layers!ReadLayers
  <2> QED
    BY <1>1, <2>1, LayerFails
<1>3. CASE \A i \in DOMAIN layers : built[layers[i].slot] > 0
  <2>1. LayerCan(proc[p], index[p]) /\ "store" \in LayerAts
    BY <1>1, LayerAt DEF LayerAts
  <2>2. proc' = [proc EXCEPT ![p].at = "store", ![p].parts = made]
    BY <1>3 DEF Layers!ReadLayers
  <2>3. LayerMade(layers, made)
    <3>1. /\ DOMAIN layers = 1 .. Len(layers) /\ Len(layers) \in Nat
          /\ \A i \in DOMAIN layers : layers[i].slot \in MCSlot /\ layers[i].hash \in Nat
                                      /\ layers[i].hash <= built[layers[i].slot]
      BY <1>1, LayerPlanned
    <3>2. \A s \in MCSlot : built[s] \in Nat
      BY LayerBounds DEF LayerInv, LayerDisk
    <3> HIDE DEF layers
    <3>3. made \in [1 .. Len(layers) -> LayerParts]
      BY <3>1, <3>2 DEF LayerParts
    <3>4. \A i \in DOMAIN layers : made[i].slot = layers[i].slot /\ made[i].build >= layers[i].hash
      BY <3>1, <3>2
    <3>5. DOMAIN made = DOMAIN layers
      OBVIOUS
    <3> HIDE DEF made
    <3>6. made \in Seq(LayerParts)
      BY <3>1, <3>3, SeqDef
    <3> QED
      BY <3>4, <3>5, <3>6 DEF LayerMade
  <2> HIDE DEF made
  <2> DEFINE d == [proc[p] EXCEPT !.parts = made]
             c == [d EXCEPT !.at = "store"]
  <2>4. LayerCan(d, index[p]) /\ LayerMade(d.layers, d.parts)
    <3>1. /\ d = [at |-> d.at, request |-> d.request, layers |-> d.layers, key |-> d.key,
                  parts |-> d.parts, checked |-> d.checked, victims |-> d.victims]
          /\ d.at = proc[p].at /\ d.request = proc[p].request /\ d.layers = proc[p].layers
          /\ d.key = proc[p].key /\ d.parts = made /\ d.checked = proc[p].checked
      BY <2>1 DEF LayerCan
    <3> HIDE DEF d
    <3> QED
      BY <2>1, <2>3, <3>1, Zenon DEF LayerCan, layers
  <2>5. proc' = [proc EXCEPT ![p] = c]
    <3>1. proc' = [proc EXCEPT ![p] = [proc[p] EXCEPT !.at = "store", !.parts = made]]
      BY <2>2
    <3>2. [proc[p] EXCEPT !.at = "store", !.parts = made] = c
      BY <2>1 DEF LayerCan
    <3> QED
      BY <3>1, <3>2
  <2>6. LayerCan(c, index[p])
    <3> HIDE DEF d
    <3> QED
      BY <2>1, <2>4, LayerGoes
  <2>7. c.at # "stamp"
    BY <2>4 DEF LayerCan
  <2> HIDE DEF c
  <2>8. LayerActs(p, c)
    BY <1>1, <2>5, <2>6 DEF LayerActs
  <2> QED
    BY <2>7, <2>8, LayerAct
<1> QED
  BY <1>2, <1>3

LEMMA LayerCollects ==
  ASSUME LayerInv, NEW p \in Proc, Layers!Collect(p)
  PROVE  /\ LayerInv'
         /\ \E V \in Layers!Victims : proc'[p].victims = V
<1>1. /\ proc[p].at = "enforce" /\ UNCHANGED <<built, meta, toml, index, cache, now, shaken>>
  BY DEF Layers!Collect, Layers!disk, Layers!registry, Layers!store
<1>2. PICK V \in Layers!Victims :
        proc' = [proc EXCEPT ![p].at = IF V = {} THEN "boot" ELSE "evict", ![p].victims = V]
  BY DEF Layers!Collect
<1> DEFINE a == IF V = {} THEN "boot" ELSE "evict"
           d == [proc[p] EXCEPT !.victims = V]
           c == [d EXCEPT !.at = a]
<1>3. LayerCan(proc[p], index[p]) /\ a \in LayerAts /\ a \notin {"store", "write", "stamp"}
  BY <1>1, LayerAt DEF LayerAts, Layers!Filling
<1>4. proc' = [proc EXCEPT ![p].at = a, ![p].victims = V]
  BY <1>2
<1> HIDE DEF a
<1>5. LayerCan(d, index[p])
  <2>1. /\ d = [at |-> d.at, request |-> d.request, layers |-> d.layers, key |-> d.key,
                parts |-> d.parts, checked |-> d.checked, victims |-> d.victims]
        /\ d.at = proc[p].at /\ d.request = proc[p].request /\ d.layers = proc[p].layers
        /\ d.key = proc[p].key /\ d.parts = proc[p].parts /\ d.checked = proc[p].checked
    BY <1>3 DEF LayerCan
  <2> HIDE DEF d
  <2> QED
    BY <1>3, <2>1, Zenon DEF LayerCan
<1>6. proc' = [proc EXCEPT ![p] = c]
  <2>1. proc' = [proc EXCEPT ![p] = [proc[p] EXCEPT !.at = a, !.victims = V]]
    BY <1>4
  <2>2. [proc[p] EXCEPT !.at = a, !.victims = V] = c
    BY <1>3 DEF LayerCan
  <2> QED
    BY <2>1, <2>2
<1>7. LayerCan(c, index[p])
  <2> HIDE DEF d
  <2> QED
    BY <1>3, <1>5, LayerGoes
<1>8. c.at # "stamp" /\ c.victims = V
  BY <1>3, <1>5 DEF LayerCan
<1> HIDE DEF c
<1>9. LayerActs(p, c)
  BY <1>1, <1>6, <1>7 DEF LayerActs
<1>10. proc'[p] = c
  BY <1>6 DEF LayerInv, LayerProcs
<1> QED
  BY <1>8, <1>9, <1>10, LayerAct

(* A step of one process that may also change the cache, or lose its index.   *)
LayerStep(p, c, I) ==
  /\ LayerInv /\ p \in Proc /\ proc' = [proc EXCEPT ![p] = c] /\ index' = [index EXCEPT ![p] = I]
  /\ LayerIndexed(I) /\ (c = Layers!Idle \/ LayerCan(c, I))
  /\ UNCHANGED <<built, meta, toml, now>>

LEMMA LayerSteps ==
  ASSUME NEW p, NEW c, NEW I, LayerStep(p, c, I)
  PROVE  /\ LayerDisk' /\ LayerIndex' /\ LayerProcs' /\ proc'[p] = c
         /\ \A x \in Proc \ {p} : proc'[x] = proc[x]
<1>1. /\ p \in Proc /\ proc' = [proc EXCEPT ![p] = c] /\ index' = [index EXCEPT ![p] = I]
      /\ LayerIndexed(I) /\ (c = Layers!Idle \/ LayerCan(c, I))
      /\ UNCHANGED <<built, meta, toml, now>>
  BY DEF LayerStep
<1>2. /\ index = [x \in Proc |-> index[x]] /\ proc = [x \in Proc |-> proc[x]]
      /\ \A x \in Proc : LayerIndexed(index[x])
      /\ \A x \in Proc : proc[x] = Layers!Idle \/ LayerCan(proc[x], index[x])
  BY DEF LayerStep, LayerInv, LayerIndex, LayerProcs
<1>3. index' = [x \in Proc |-> index'[x]] /\ index'[p] = I /\ \A x \in Proc \ {p} : index'[x] = index[x]
  BY <1>1, <1>2
<1>4. proc' = [x \in Proc |-> proc'[x]] /\ proc'[p] = c /\ \A x \in Proc \ {p} : proc'[x] = proc[x]
  BY <1>1, <1>2
<1>5. LayerIndex'
  BY <1>1, <1>2, <1>3 DEF LayerIndex, LayerIndexed
<1>6. LayerProcs'
  <2>1. \A x \in Proc : proc'[x] = Layers!Idle \/ LayerCan(proc'[x], index'[x])
    BY <1>1, <1>2, <1>3, <1>4
  <2> QED
    BY <1>4, <2>1 DEF LayerProcs, Layers!Idle, Layers!NoKey, Layers!NoRequest
<1>7. LayerDisk'
  BY <1>1 DEF LayerStep, LayerInv, LayerDisk
<1> QED
  BY <1>4, <1>5, <1>6, <1>7

LEMMA LayerStepKeeps ==
  ASSUME NEW p, NEW c, NEW I, LayerStep(p, c, I), c.at # "stamp", UNCHANGED <<cache, shaken>>
  PROVE  LayerInv'
<1>1. /\ LayerDisk' /\ LayerIndex' /\ LayerProcs' /\ proc'[p] = c
      /\ \A x \in Proc \ {p} : proc'[x] = proc[x]
  BY LayerSteps
<1>2. LayerCache' /\ LayerStamps'
  BY <1>1 DEF LayerStep, LayerInv, LayerCache, LayerStamps
<1> QED
  BY <1>1, <1>2 DEF LayerInv

LEMMA LayerStepDrops ==
  ASSUME NEW p, NEW c, NEW I, LayerStep(p, c, I), c.at # "stamp",
         NEW k, Layers!DropDir(k), shaken \subseteq shaken'
  PROVE  LayerInv'
<1>1. /\ LayerDisk' /\ LayerIndex' /\ LayerProcs' /\ proc'[p] = c
      /\ \A x \in Proc \ {p} : proc'[x] = proc[x]
  BY LayerSteps
<1>2. LayerCache
  BY DEF LayerStep, LayerInv
<1>3. /\ LayerCache' /\ DOMAIN cache' = DOMAIN cache \ {k}
      /\ \A x \in DOMAIN cache' : cache'[x] = cache[x]
  BY <1>2, LayerCacheDrop
<1>4. LayerStamps'
  BY <1>1, <1>3 DEF LayerStep, LayerInv, LayerStamps
<1> QED
  BY <1>1, <1>3, <1>4 DEF LayerInv

LEMMA LayerStepPuts ==
  ASSUME NEW p, NEW c, NEW I, LayerStep(p, c, I),
         NEW k, NEW e, Layers!PutDir(k, e), LayerEntry(e), k \notin shaken' => LayerSound(k, e),
         shaken \subseteq shaken',
         k \notin shaken' /\ (\E x \in Proc \ {p} : proc[x].at = "stamp" /\ proc[x].key = k)
           => e.initrd.state = "whole",
         c.at = "stamp" => c.key = k /\ e.initrd.state = "whole"
  PROVE  LayerInv'
<1>1. /\ LayerDisk' /\ LayerIndex' /\ LayerProcs' /\ proc'[p] = c
      /\ \A x \in Proc \ {p} : proc'[x] = proc[x]
  BY LayerSteps
<1>2. LayerCache
  BY DEF LayerStep, LayerInv
<1>3. /\ LayerCache' /\ DOMAIN cache' = DOMAIN cache \cup {k} /\ cache'[k] = e
      /\ \A x \in DOMAIN cache \ {k} : cache'[x] = cache[x]
  BY <1>2, LayerCachePut
<1>4. ASSUME NEW x \in Proc, proc'[x].at = "stamp", proc'[x].key \notin shaken',
             proc'[x].key \in DOMAIN cache'
      PROVE  cache'[proc'[x].key].initrd.state = "whole"
  <2>1. CASE x = p
    BY <1>1, <1>3, <1>4, <2>1
  <2>2. CASE x # p
    <3>1. proc'[x] = proc[x]
      BY <1>1, <2>2
    <3>2. CASE proc[x].key = k
      BY <1>3, <1>4, <2>2, <3>1, <3>2
    <3>3. CASE proc[x].key # k
      <4>1. /\ proc[x].key \in DOMAIN cache /\ proc[x].key \notin shaken
            /\ cache'[proc[x].key] = cache[proc[x].key]
        BY <1>3, <1>4, <3>1, <3>3
      <4> QED
        BY <1>4, <3>1, <4>1 DEF LayerStep, LayerInv, LayerStamps
    <3> QED
      BY <3>2, <3>3
  <2> QED
    BY <2>1, <2>2
<1> QED
  BY <1>1, <1>3, <1>4 DEF LayerInv, LayerStamps

LEMMA LayerShakes ==
  ASSUME NEW k, NEW p
  PROVE  /\ shaken \subseteq Layers!Shaken(k, p)
         /\ k \notin Layers!Shaken(k, p) =>
              ~\E x \in Proc \ {p} : proc[x].key = k /\ proc[x].at \in Layers!Filling
  BY DEF Layers!Shaken

LEMMA LayerDirs ==
  ASSUME LayerInv, NEW k
  PROVE  /\ LayerEntry(Layers!Dir(k)) /\ (k \notin shaken => LayerSound(k, Layers!Dir(k)))
         /\ k \in DOMAIN cache => Layers!Dir(k) = cache[k]
         /\ Layers!IsCached(k) <=> /\ Layers!Dir(k).initrd.state # "absent"
                                   /\ Layers!Dir(k).meta.state # "absent"
<1>1. LayerEntry(Layers!NoDir) /\ LayerSound(k, Layers!NoDir)
  BY DEF LayerEntry, LayerSound, Layers!NoDir, Layers!NoFile, Layers!NoStamp
<1> QED
  BY <1>1 DEF LayerInv, LayerCache, Layers!Dir, Layers!IsCached

LEMMA LayerFields ==
  ASSUME NEW d, LayerEntry(d), NEW x
  PROVE  /\ [d EXCEPT !.initrd = x] = [initrd |-> x, meta |-> d.meta, used |-> d.used]
         /\ [d EXCEPT !.meta = x] = [initrd |-> d.initrd, meta |-> x, used |-> d.used]
<1>1. d = [initrd |-> d.initrd, meta |-> d.meta, used |-> d.used]
  BY DEF LayerEntry
<1> QED
  BY <1>1

LEMMA LayerTouched ==
  ASSUME NEW d, LayerEntry(d), NEW m, NEW u
  PROVE  /\ [d EXCEPT !.meta = m, !.used = u] = [initrd |-> d.initrd, meta |-> m, used |-> u]
         /\ [d EXCEPT !.used = u, !.meta = m] = [initrd |-> d.initrd, meta |-> m, used |-> u]
<1> DEFINE x == [d EXCEPT !.meta = m]
           y == [d EXCEPT !.used = u]
<1>1. d = [initrd |-> d.initrd, meta |-> d.meta, used |-> d.used]
  BY DEF LayerEntry
<1>2. x = [initrd |-> d.initrd, meta |-> m, used |-> d.used]
  BY <1>1
<1>3. y = [initrd |-> d.initrd, meta |-> d.meta, used |-> u]
  BY <1>1
<1>4. [d EXCEPT !.meta = m, !.used = u] = [x EXCEPT !.used = u]
  BY Zenon
<1>5. [d EXCEPT !.used = u, !.meta = m] = [y EXCEPT !.meta = m]
  BY Zenon
<1> HIDE DEF x, y
<1>6. [x EXCEPT !.used = u] = [initrd |-> d.initrd, meta |-> m, used |-> u]
  BY <1>2
<1>7. [y EXCEPT !.meta = m] = [initrd |-> d.initrd, meta |-> m, used |-> u]
  BY <1>3
<1> QED
  BY <1>4, <1>5, <1>6, <1>7, Zenon

LEMMA LayerEntryOf ==
  ASSUME NEW f, NEW m, NEW u,
         f = [state |-> f.state, parts |-> f.parts], f.state \in {"absent", "torn", "whole"},
         m = [state |-> m.state, at |-> m.at], m.state \in {"absent", "torn", "whole"},
         m.state = "whole" => m.at = u
  PROVE  LayerEntry([initrd |-> f, meta |-> m, used |-> u])
  BY DEF LayerEntry

LEMMA LayerKeys ==
  ASSUME NEW c, NEW I, LayerCan(c, I), LayerMade(c.layers, c.parts)
  PROVE  LayerKeyed(c.key, c.parts)
<1>1. /\ DOMAIN c.key.parts = DOMAIN c.layers
      /\ \A i \in DOMAIN c.layers : /\ c.key.parts[i].name = c.layers[i].slot.name
                                    /\ c.key.parts[i].version = c.layers[i].slot.version
                                    /\ c.key.parts[i].hash = c.layers[i].hash
  BY DEF LayerCan, Layers!KeyOf
<1> QED
  BY <1>1 DEF LayerMade, LayerKeyed

LEMMA LayerGoesOn ==
  ASSUME LayerInv, NEW p \in Proc, proc[p].at # "idle", NEW a \in LayerAts,
         a \in {"store", "write", "stamp"} => LayerMade(proc[p].layers, proc[p].parts),
         Layers!Go(p, a), UNCHANGED <<built, meta, toml, index, now>>
  PROVE  /\ LayerStep(p, [proc[p] EXCEPT !.at = a], index[p])
         /\ [proc[p] EXCEPT !.at = a].at = a /\ [proc[p] EXCEPT !.at = a].key = proc[p].key
<1> DEFINE c == [proc[p] EXCEPT !.at = a]
<1>1. proc' = [proc EXCEPT ![p] = c]
  BY LayerTurns
<1>2. LayerCan(proc[p], index[p]) /\ LayerIndexed(index[p])
  BY LayerAt
<1>3. LayerCan(c, index[p])
  BY <1>2, LayerGoes
<1>4. index' = [index EXCEPT ![p] = index[p]]
  BY DEF LayerInv, LayerIndex
<1>5. c.at = a /\ c.key = proc[p].key
  BY <1>2 DEF LayerCan
<1> HIDE DEF c
<1>6. LayerStep(p, c, index[p])
  BY <1>1, <1>2, <1>3, <1>4 DEF LayerStep
<1> QED
  BY <1>5, <1>6 DEF c

LEMMA LayerFinds ==
  ASSUME LayerInv, NEW p \in Proc, Layers!Found(p)
  PROVE  LayerInv'
<1> DEFINE k == proc[p].key
           d == Layers!Dir(k)
           m == IF d.meta.state = "whole" THEN Layers!Stamp ELSE d.meta
           e == [initrd |-> d.initrd, meta |-> m, used |-> now]
           c == [proc[p] EXCEPT !.at = "boot"]
<1>1. /\ proc[p].at = "lookup" /\ Layers!IsCached(k) /\ Layers!Go(p, "boot")
      /\ UNCHANGED <<built, meta, toml, index, now, shaken>>
  BY DEF Layers!Found, Layers!disk, Layers!registry
<1>2. /\ LayerEntry(d) /\ (k \notin shaken => LayerSound(k, d))
      /\ d.initrd.state # "absent" /\ d.meta.state # "absent"
  BY <1>1, LayerDirs
<1>3. Layers!PutDir(k, [d EXCEPT !.used = now, !.meta = m])
  <2>1. Layers!PutDir(k, [d EXCEPT !.used = now, !.meta = IF @.state = "whole" THEN Layers!Stamp ELSE @])
    BY DEF Layers!Found
  <2>2. [d EXCEPT !.used = now, !.meta = IF @.state = "whole" THEN Layers!Stamp ELSE @]
          = [d EXCEPT !.used = now, !.meta = m]
    <3> HIDE DEF d
    <3>1. d = [initrd |-> d.initrd, meta |-> d.meta, used |-> d.used]
      BY <1>2 DEF LayerEntry
    <3>2. [d EXCEPT !.used = now].meta = d.meta
      BY <3>1
    <3> QED
      BY <3>2
  <2> QED
    BY <2>1, <2>2
<1> HIDE DEF d
<1>4. Layers!PutDir(k, e)
  <2> HIDE DEF m
  <2>1. [d EXCEPT !.used = now, !.meta = m] = e
    BY <1>2, LayerTouched, Zenon
  <2> HIDE DEF e
  <2> QED
    BY <1>3, <2>1, Zenon
<1>5. /\ d.initrd = [state |-> d.initrd.state, parts |-> d.initrd.parts]
      /\ d.initrd.state \in {"absent", "torn", "whole"}
      /\ m = [state |-> m.state, at |-> m.at] /\ m.state = d.meta.state
      /\ m.state \in {"absent", "torn", "whole"} /\ (m.state = "whole" => m.at = now)
  BY <1>2 DEF LayerEntry, Layers!Stamp
<1> HIDE DEF m, k
<1>6. LayerEntry(e) /\ e.initrd = d.initrd /\ e.meta = m
  BY <1>5, LayerEntryOf
<1>7. k \notin shaken => LayerSound(k, e) /\ e.initrd.state = "whole"
  BY <1>2, <1>5, <1>6 DEF LayerSound
<1>8. "boot" \in LayerAts /\ "boot" \notin {"store", "write", "stamp"}
  BY DEF LayerAts
<1>9. LayerStep(p, c, index[p]) /\ c.at = "boot"
  BY <1>1, <1>8, LayerGoesOn
<1> HIDE DEF c, e
<1> QED
  BY <1>1, <1>4, <1>6, <1>7, <1>9, LayerStepPuts

LEMMA LayerOpens ==
  ASSUME LayerInv, NEW p \in Proc, Layers!OpenInitrd(p)
  PROVE  LayerInv'
<1> DEFINE k == proc[p].key
           d == Layers!Dir(k)
           e == [initrd |-> Layers!TornFile, meta |-> d.meta, used |-> d.used]
           c == [proc[p] EXCEPT !.at = "write"]
<1>1. /\ proc[p].at = "store" /\ Layers!Go(p, "write")
      /\ Layers!PutDir(k, [d EXCEPT !.initrd = Layers!TornFile])
      /\ shaken' = Layers!Shaken(k, p) \cup (IF Layers!IsCached(k) THEN {k} ELSE {})
      /\ UNCHANGED <<built, meta, toml, index, now>>
  BY DEF Layers!OpenInitrd, Layers!disk, Layers!registry
<1>2. /\ LayerEntry(d) /\ (k \notin shaken => LayerSound(k, d))
      /\ Layers!IsCached(k) <=> d.initrd.state # "absent" /\ d.meta.state # "absent"
  BY LayerDirs
<1>3. LayerCan(proc[p], index[p]) /\ LayerMade(proc[p].layers, proc[p].parts)
  BY <1>1, LayerAt DEF LayerCan
<1>4. LayerStep(p, c, index[p]) /\ c.at = "write"
  <2>1. "write" \in LayerAts
    BY DEF LayerAts, Layers!Filling
  <2> QED
    BY <1>1, <1>3, <2>1, LayerGoesOn
<1> HIDE DEF c, d, k
<1>5. Layers!PutDir(k, e)
  BY <1>1, <1>2, LayerFields
<1>6. LayerEntry(e) /\ e.initrd.state = "torn" /\ e.meta = d.meta
  <2> DEFINE f == Layers!TornFile
  <2>1. f = [state |-> f.state, parts |-> f.parts] /\ f.state = "torn"
    BY DEF Layers!TornFile
  <2>2. /\ d.meta = [state |-> d.meta.state, at |-> d.meta.at]
        /\ d.meta.state \in {"absent", "torn", "whole"}
        /\ d.meta.state = "whole" => d.meta.at = d.used
    BY <1>2 DEF LayerEntry
  <2> HIDE DEF f
  <2>3. LayerEntry([initrd |-> f, meta |-> d.meta, used |-> d.used])
    BY <2>1, <2>2, LayerEntryOf
  <2>4. e = [initrd |-> f, meta |-> d.meta, used |-> d.used]
    BY DEF f
  <2> HIDE DEF e
  <2> QED
    BY <2>1, <2>3, <2>4
<1> HIDE DEF e
<1>7. /\ shaken \subseteq shaken'
      /\ k \notin shaken' => /\ ~Layers!IsCached(k)
                             /\ ~\E x \in Proc \ {p} : proc[x].key = k /\ proc[x].at \in Layers!Filling
  BY <1>1, LayerShakes
<1>8. k \notin shaken' => LayerSound(k, e)
  BY <1>2, <1>6, <1>7 DEF LayerSound
<1>9. k \notin shaken' => ~\E x \in Proc \ {p} : proc[x].at = "stamp" /\ proc[x].key = k
  BY <1>7 DEF Layers!Filling
<1> QED
  BY <1>4, <1>5, <1>6, <1>7, <1>8, <1>9, LayerStepPuts

LEMMA LayerFailed ==
  ASSUME LayerInv, NEW p \in Proc, Layers!Fail(p),
         UNCHANGED <<built, meta, toml, index, now>>
  PROVE  LayerStep(p, Layers!Idle, index[p]) /\ Layers!Idle.at # "stamp"
<1>1. proc' = [proc EXCEPT ![p] = Layers!Idle] /\ index' = [index EXCEPT ![p] = index[p]]
  BY DEF Layers!Fail, LayerInv, LayerIndex
<1> QED
  BY <1>1, LayerAt DEF LayerStep, Layers!Idle

LEMMA LayerWrites ==
  ASSUME LayerInv, NEW p \in Proc, Layers!WriteInitrd(p)
  PROVE  LayerInv'
<1> DEFINE k == proc[p].key
           d == cache[k]
           f == Layers!WholeFile(proc[p].parts)
           e == [initrd |-> f, meta |-> d.meta, used |-> d.used]
           c == [proc[p] EXCEPT !.at = "stamp"]
<1>1. proc[p].at = "write" /\ UNCHANGED <<built, meta, toml, index, now, shaken>>
  BY DEF Layers!WriteInitrd, Layers!disk, Layers!registry
<1>2. CASE k \notin DOMAIN cache
  <2>1. Layers!Fail(p) /\ UNCHANGED cache
    BY <1>2 DEF Layers!WriteInitrd
  <2> QED
    BY <1>1, <2>1, LayerFails
<1>3. CASE k \in DOMAIN cache
  <2>1. Layers!PutDir(k, [d EXCEPT !.initrd = f]) /\ Layers!Go(p, "stamp")
    BY <1>3 DEF Layers!WriteInitrd
  <2>2. LayerEntry(d)
    BY <1>3 DEF LayerInv, LayerCache
  <2>3. LayerCan(proc[p], index[p]) /\ LayerMade(proc[p].layers, proc[p].parts)
    BY <1>1, LayerAt DEF LayerCan
  <2>4. LayerKeyed(k, proc[p].parts)
    BY <2>3, LayerKeys
  <2>5. f = [state |-> f.state, parts |-> f.parts] /\ f.state = "whole" /\ f.parts = proc[p].parts
    BY DEF Layers!WholeFile
  <2>6. LayerStep(p, c, index[p]) /\ c.at = "stamp" /\ c.key = k
    <3>1. "stamp" \in LayerAts
      BY DEF LayerAts, Layers!Filling
    <3> QED
      BY <1>1, <2>1, <2>3, <3>1, LayerGoesOn
  <2> HIDE DEF c, d, k, f
  <2>7. Layers!PutDir(k, e)
    BY <2>1, <2>2, LayerFields
  <2>8. /\ d.meta = [state |-> d.meta.state, at |-> d.meta.at]
        /\ d.meta.state \in {"absent", "torn", "whole"}
        /\ d.meta.state = "whole" => d.meta.at = d.used
    BY <2>2 DEF LayerEntry
  <2>9. LayerEntry(e) /\ e.initrd = f
    BY <2>5, <2>8, LayerEntryOf
  <2>10. LayerSound(k, e) /\ e.initrd.state = "whole"
    BY <2>4, <2>5, <2>9 DEF LayerSound
  <2> HIDE DEF e
  <2> QED
    BY <1>1, <2>6, <2>7, <2>9, <2>10, LayerStepPuts
<1> QED
  BY <1>2, <1>3

LEMMA LayerStampsIt ==
  ASSUME LayerInv, NEW p \in Proc, Layers!WriteStamp(p)
  PROVE  LayerInv'
<1> DEFINE k == proc[p].key
           d == cache[k]
           m == Layers!Stamp
           e == [initrd |-> d.initrd, meta |-> m, used |-> now]
           c == [proc[p] EXCEPT !.at = "enforce"]
<1>1. proc[p].at = "stamp" /\ UNCHANGED <<built, meta, toml, index, now, shaken>>
  BY DEF Layers!WriteStamp, Layers!disk, Layers!registry
<1>2. CASE k \notin DOMAIN cache
  <2>1. Layers!Fail(p) /\ UNCHANGED cache
    BY <1>2 DEF Layers!WriteStamp
  <2> QED
    BY <1>1, <2>1, LayerFails
<1>3. CASE k \in DOMAIN cache
  <2>1. Layers!PutDir(k, [d EXCEPT !.meta = m, !.used = now]) /\ Layers!Go(p, "enforce")
    BY <1>3 DEF Layers!WriteStamp
  <2>2. LayerEntry(d) /\ (k \notin shaken => LayerSound(k, d) /\ d.initrd.state = "whole")
    BY <1>1, <1>3 DEF LayerInv, LayerCache, LayerStamps
  <2>3. m = [state |-> m.state, at |-> m.at] /\ m.state = "whole" /\ m.at = now
    BY DEF Layers!Stamp
  <2>4. LayerStep(p, c, index[p]) /\ c.at = "enforce"
    <3>1. "enforce" \in LayerAts /\ "enforce" \notin {"store", "write", "stamp"}
      BY DEF LayerAts, Layers!Filling
    <3> QED
      BY <1>1, <2>1, <3>1, LayerGoesOn
  <2> HIDE DEF c, d, k, m
  <2>5. Layers!PutDir(k, e)
    <3>1. [d EXCEPT !.meta = m, !.used = now] = e
      BY <2>2, LayerTouched, Zenon
    <3> HIDE DEF e
    <3> QED
      BY <2>1, <3>1, Zenon
  <2>6. /\ d.initrd = [state |-> d.initrd.state, parts |-> d.initrd.parts]
        /\ d.initrd.state \in {"absent", "torn", "whole"}
    BY <2>2 DEF LayerEntry
  <2>7. LayerEntry(e) /\ e.initrd = d.initrd
    BY <2>3, <2>6, LayerEntryOf
  <2>8. k \notin shaken => LayerSound(k, e) /\ e.initrd.state = "whole"
    BY <2>2, <2>7 DEF LayerSound
  <2> HIDE DEF e
  <2> QED
    BY <1>1, <2>4, <2>5, <2>7, <2>8, LayerStepPuts
<1> QED
  BY <1>2, <1>3

LEMMA LayerEvicts ==
  ASSUME LayerInv, NEW p \in Proc, NEW k, Layers!EvictNext(p, k)
  PROVE  LayerInv'
<1> DEFINE v == proc[p].victims \ {k}
           a == IF proc[p].victims = {k} THEN "boot" ELSE "evict"
           d == [proc[p] EXCEPT !.victims = v]
           c == [d EXCEPT !.at = a]
<1>1. /\ proc[p].at = "evict" /\ Layers!DropDir(k) /\ shaken' = Layers!Shaken(k, p)
      /\ UNCHANGED <<built, meta, toml, index, now>>
  BY DEF Layers!EvictNext, Layers!disk, Layers!registry
<1>2. proc' = [proc EXCEPT ![p].at = IF @ = "evict" /\ proc[p].victims = {k} THEN "boot" ELSE @,
                           ![p].victims = @ \ {k}]
  BY DEF Layers!EvictNext
<1>3. LayerCan(proc[p], index[p]) /\ LayerIndexed(index[p])
  BY <1>1, LayerAt
<1>4. a \in LayerAts /\ a \notin {"store", "write", "stamp"}
  BY DEF LayerAts, Layers!Filling
<1>5. proc' = [proc EXCEPT ![p] = c]
  <2>1. proc' = [proc EXCEPT ![p] = [proc[p] EXCEPT
                   !.at = IF @ = "evict" /\ proc[p].victims = {k} THEN "boot" ELSE @,
                   !.victims = @ \ {k}]]
    BY <1>2
  <2> DEFINE q == proc[p]
             x == [q EXCEPT !.at = IF @ = "evict" /\ q.victims = {k} THEN "boot" ELSE @]
  <2>2. q = [at |-> q.at, request |-> q.request, layers |-> q.layers, key |-> q.key,
             parts |-> q.parts, checked |-> q.checked, victims |-> q.victims] /\ q.at = "evict"
    BY <1>1, <1>3 DEF LayerCan
  <2>3. a = IF q.at = "evict" /\ q.victims = {k} THEN "boot" ELSE q.at
    BY <2>2
  <2>4. v = q.victims \ {k} /\ d = [q EXCEPT !.victims = v]
    OBVIOUS
  <2>5. proc' = [proc EXCEPT ![p] = [x EXCEPT !.victims = @ \ {k}]]
    BY <2>1, Zenon
  <2> HIDE DEF q, a, v, d
  <2>6. x = [at |-> a, request |-> q.request, layers |-> q.layers, key |-> q.key,
             parts |-> q.parts, checked |-> q.checked, victims |-> q.victims]
    BY <2>2, <2>3
  <2>7. d = [at |-> q.at, request |-> q.request, layers |-> q.layers, key |-> q.key,
             parts |-> q.parts, checked |-> q.checked, victims |-> v]
    BY <2>2, <2>4
  <2> HIDE DEF x
  <2>8. [x EXCEPT !.victims = @ \ {k}]
          = [at |-> a, request |-> q.request, layers |-> q.layers, key |-> q.key,
             parts |-> q.parts, checked |-> q.checked, victims |-> v]
    BY <2>4, <2>6
  <2>9. c = [at |-> a, request |-> q.request, layers |-> q.layers, key |-> q.key,
             parts |-> q.parts, checked |-> q.checked, victims |-> v]
    BY <2>7
  <2> HIDE DEF c
  <2> QED
    BY <2>5, <2>8, <2>9
<1> HIDE DEF a, v
<1>6. LayerCan(d, index[p])
  <2>1. /\ d = [at |-> d.at, request |-> d.request, layers |-> d.layers, key |-> d.key,
                parts |-> d.parts, checked |-> d.checked, victims |-> d.victims]
        /\ d.at = proc[p].at /\ d.request = proc[p].request /\ d.layers = proc[p].layers
        /\ d.key = proc[p].key /\ d.parts = proc[p].parts /\ d.checked = proc[p].checked
    BY <1>3 DEF LayerCan
  <2> HIDE DEF d
  <2> QED
    BY <1>3, <2>1, Zenon DEF LayerCan
<1>7. LayerCan(c, index[p])
  <2> HIDE DEF d
  <2> QED
    BY <1>4, <1>6, LayerGoes
<1>8. c.at # "stamp"
  BY <1>4, <1>6 DEF LayerCan
<1>9. index' = [index EXCEPT ![p] = index[p]]
  BY <1>1 DEF LayerInv, LayerIndex
<1> HIDE DEF c
<1>10. LayerStep(p, c, index[p])
  BY <1>1, <1>3, <1>5, <1>7, <1>9 DEF LayerStep
<1>11. shaken \subseteq shaken'
  BY <1>1, LayerShakes
<1> QED
  BY <1>1, <1>8, <1>10, <1>11, LayerStepDrops

LEMMA LayerReturns ==
  ASSUME LayerInv, NEW p \in Proc, Layers!Return(p) \/ Layers!CreateCmdFails(p)
  PROVE  LayerInv'
<1>1. Layers!Fail(p) /\ UNCHANGED <<built, meta, toml, index, cache, now, shaken>>
  BY DEF Layers!Return, Layers!CreateCmdFails, Layers!Fail, Layers!disk, Layers!registry, Layers!store
<1> QED
  BY <1>1, LayerFails

(* Whoever dies may leave one file of an entry changed or gone.               *)
LEMMA LayerCrashes ==
  ASSUME LayerInv, NEW p \in Proc, Layers!Crash(p)
  PROVE  LayerInv'
<1> DEFINE c == Layers!Idle
<1>1. /\ proc[p].at # "idle" /\ proc' = [proc EXCEPT ![p] = c] /\ index' = [index EXCEPT ![p] = {}]
      /\ UNCHANGED <<built, meta, toml, calls, now>>
  BY DEF Layers!Crash, Layers!disk
<1>2. LayerIndexed({}) /\ c.at # "stamp"
  BY DEF LayerIndexed, Layers!Idle
<1>3. LayerStep(p, c, {})
  BY <1>1, <1>2 DEF LayerStep
<1> HIDE DEF c
<1>4. CASE UNCHANGED <<cache, shaken>>
  BY <1>2, <1>3, <1>4, LayerStepKeeps
<1>5. ASSUME NEW k, NEW f, NEW m, NEW u, Layers!PutDir(k, [initrd |-> f, meta |-> m, used |-> u]),
             LayerEntry([initrd |-> f, meta |-> m, used |-> u]),
             shaken \subseteq shaken',
             k \notin shaken' => /\ k \notin shaken /\ f = Layers!Dir(k).initrd
                                 /\ f.state = "whole" \/ (m.state = "absent" /\ k \in DOMAIN cache)
      PROVE  LayerInv'
  <2> DEFINE e == [initrd |-> f, meta |-> m, used |-> u]
  <2>1. e.initrd = f /\ e.meta = m
    OBVIOUS
  <2>2. k \notin shaken' => LayerSound(k, e)
    <3>1. k \notin shaken => LayerSound(k, Layers!Dir(k))
      BY LayerDirs
    <3> HIDE DEF e
    <3> QED
      BY <1>5, <2>1, <3>1 DEF LayerSound
  <2>3. k \notin shaken' /\ (\E x \in Proc \ {p} : proc[x].at = "stamp" /\ proc[x].key = k)
          => e.initrd.state = "whole"
    <3>1. k \in DOMAIN cache => Layers!Dir(k) = cache[k]
      BY LayerDirs
    <3> HIDE DEF e
    <3> QED
      BY <1>5, <2>1, <3>1 DEF LayerInv, LayerStamps
  <2>4. Layers!PutDir(k, e) /\ LayerEntry(e)
    BY <1>5
  <2> HIDE DEF e
  <2> QED
    BY <1>2, <1>3, <1>5, <2>2, <2>3, <2>4, LayerStepPuts
<1>6. CASE /\ \/ proc[p].at = "lookup" /\ Layers!IsCached(proc[p].key)
              \/ proc[p].at = "stamp" /\ proc[p].key \in DOMAIN cache
           /\ Layers!PutDir(proc[p].key, [Layers!Dir(proc[p].key) EXCEPT !.meta = Layers!TornStamp, !.used = now])
           /\ UNCHANGED shaken
  <2> DEFINE k == proc[p].key
             d == Layers!Dir(k)
             f == d.initrd
             m == Layers!TornStamp
  <2>1. /\ LayerEntry(d) /\ (k \notin shaken => LayerSound(k, d))
        /\ k \in DOMAIN cache => d = cache[k]
        /\ Layers!IsCached(k) <=> d.initrd.state # "absent" /\ d.meta.state # "absent"
    BY LayerDirs
  <2>2. k \notin shaken => f.state = "whole"
    BY <1>6, <2>1 DEF LayerSound, LayerInv, LayerStamps
  <2>3. /\ m = [state |-> m.state, at |-> m.at] /\ m.state = "torn"
        /\ f = [state |-> f.state, parts |-> f.parts] /\ f.state \in {"absent", "torn", "whole"}
    BY <2>1 DEF Layers!TornStamp, LayerEntry
  <2>4. Layers!PutDir(k, [d EXCEPT !.meta = m, !.used = now])
    BY <1>6
  <2> HIDE DEF d, k, m
  <2>5. [d EXCEPT !.meta = m, !.used = now] = [initrd |-> f, meta |-> m, used |-> now]
    <3>1. LayerEntry(d)
      BY <2>1
    <3>2. [d EXCEPT !.meta = m, !.used = now] = [initrd |-> d.initrd, meta |-> m, used |-> now]
      BY <3>1, LayerTouched, Zenon
    <3> QED
      BY <3>2, Zenon
  <2>6. LayerEntry([initrd |-> f, meta |-> m, used |-> now])
    BY <2>3, LayerEntryOf
  <2>7. Layers!PutDir(k, [initrd |-> f, meta |-> m, used |-> now])
    BY <2>4, <2>5, Zenon
  <2>8. f = Layers!Dir(k).initrd
    BY DEF d
  <2> HIDE DEF f
  <2> QED
    BY <1>5, <1>6, <2>2, <2>6, <2>7, <2>8
<1>7. ASSUME NEW k \in DOMAIN cache, Layers!PutDir(k, [cache[k] EXCEPT !.meta = Layers!NoStamp]),
             UNCHANGED shaken
      PROVE  LayerInv'
  <2> DEFINE d == cache[k]
             f == d.initrd
             m == Layers!NoStamp
             u == d.used
  <2>1. LayerEntry(d) /\ d = Layers!Dir(k)
    BY <1>7, LayerDirs
  <2>2. /\ m = [state |-> m.state, at |-> m.at] /\ m.state = "absent"
        /\ f = [state |-> f.state, parts |-> f.parts] /\ f.state \in {"absent", "torn", "whole"}
    BY <2>1 DEF Layers!NoStamp, LayerEntry
  <2>3. Layers!PutDir(k, [d EXCEPT !.meta = m])
    BY <1>7
  <2> HIDE DEF d, m
  <2>4. [d EXCEPT !.meta = m] = [initrd |-> f, meta |-> m, used |-> u]
    BY <2>1, LayerFields, Zenon
  <2>5. LayerEntry([initrd |-> f, meta |-> m, used |-> u])
    BY <2>2, LayerEntryOf
  <2>6. Layers!PutDir(k, [initrd |-> f, meta |-> m, used |-> u])
    BY <2>3, <2>4, Zenon
  <2>7. f = Layers!Dir(k).initrd
    BY <2>1
  <2> HIDE DEF f, u
  <2> QED
    BY <1>5, <1>7, <2>2, <2>5, <2>6, <2>7
<1>8. ASSUME NEW k \in DOMAIN cache, Layers!PutDir(k, [cache[k] EXCEPT !.initrd = Layers!NoFile]),
             shaken' = shaken \cup {k}
      PROVE  LayerInv'
  <2> DEFINE d == cache[k]
             f == Layers!NoFile
             m == d.meta
             u == d.used
  <2>1. LayerEntry(d)
    BY <1>8, LayerDirs
  <2>2. /\ f = [state |-> f.state, parts |-> f.parts] /\ f.state = "absent"
        /\ m = [state |-> m.state, at |-> m.at] /\ m.state \in {"absent", "torn", "whole"}
        /\ m.state = "whole" => m.at = u
    BY <2>1 DEF Layers!NoFile, LayerEntry
  <2>3. Layers!PutDir(k, [d EXCEPT !.initrd = f])
    BY <1>8
  <2> HIDE DEF d, f
  <2>4. [d EXCEPT !.initrd = f] = [initrd |-> f, meta |-> m, used |-> u]
    BY <2>1, LayerFields, Zenon
  <2>5. LayerEntry([initrd |-> f, meta |-> m, used |-> u])
    BY <2>2, LayerEntryOf
  <2>6. Layers!PutDir(k, [initrd |-> f, meta |-> m, used |-> u])
    BY <2>3, <2>4, Zenon
  <2> HIDE DEF m, u
  <2> QED
    BY <1>5, <1>8, <2>5, <2>6
<1> QED
  BY <1>4, <1>6, <1>7, <1>8 DEF Layers!Crash

LEMMA LayerNext == LayerInv /\ [Layers!Next]_(Layers!vars) => LayerInv'
<1>1. ASSUME LayerInv, UNCHANGED Layers!vars
      PROVE  LayerInv'
  <2>1. UNCHANGED <<built, meta, toml, index, calls, proc, cache, now, shaken>>
    BY <1>1 DEF Layers!vars
  <2> QED
    BY <1>1, <2>1 DEF LayerInv, LayerDisk, LayerIndex, LayerIndexed, LayerProcs, LayerCache, LayerStamps
<1>2. ASSUME LayerInv, NEW p \in Proc,
             \/ \E r \in MCRequest : Layers!Compose(p, r)
             \/ Layers!Found(p) \/ Layers!Missed(p) \/ Layers!ConflictCheck(p) \/ Layers!ReadLayers(p)
             \/ Layers!CreateCmdFails(p) \/ Layers!OpenInitrd(p) \/ Layers!WriteInitrd(p)
             \/ Layers!WriteStamp(p) \/ Layers!Collect(p)
             \/ \E k \in proc[p].victims : Layers!EvictNext(p, k)
             \/ Layers!Return(p) \/ Layers!Crash(p)
      PROVE  LayerInv'
  BY <1>2, LayerComposes, LayerFinds, LayerMisses, LayerChecks, LayerReads, LayerReturns, LayerOpens,
     LayerWrites, LayerStampsIt, LayerCollects, LayerEvicts, LayerCrashes
<1>3. ASSUME LayerInv, NEW p \in Proc,
             \/ Layers!ScanLayers(p) \/ Layers!LoadFrom(p) \/ Layers!Save(p) \/ Layers!UpdateAllLatest(p)
             \/ \E s \in MCManaged : Layers!AddLayer(p, s) \/ Layers!RemoveLayer(p, s) \/ Layers!UpdateLatest(p, s)
      PROVE  LayerInv'
  BY <1>3, LayerCalls, LayerSaves
<1> QED
  BY <1>1, <1>2, <1>3, LayerBuildsArchive, LayerBuildsMeta, LayerTick DEF Layers!Next

LEMMA LayerSoundness ==
  ASSUME LayerInv
  PROVE  Layers!TypeOK /\ Layers!BootedIsKeyed /\ Layers!NoHiddenOverwrite /\ Layers!PlanHonours
<1>1. Layers!TypeOK
  <2>1. \A p \in Proc : proc[p].at \in Layers!Filling \cup
          {"idle", "lookup", "check", "read", "store", "boot", "conflict"}
    BY LayerAt DEF LayerCan, LayerAts
  <2>2. \A p \in Proc : \A m \in index[p] :
          m.slot \in MCSlot /\ m.hash \in 0 .. MaxBuild /\ (m.hash = 0 <=> ~m.full)
    BY LayerAt DEF LayerIndexed, LayerMetas
  <2> QED
    BY <2>1, <2>2 DEF LayerInv, LayerDisk, LayerCache, LayerEntry, Layers!TypeOK
<1>2. Layers!BootedIsKeyed
  <2> SUFFICES ASSUME NEW p \in Proc, proc[p].at = "boot", proc[p].key \notin shaken,
                      Layers!IsCached(proc[p].key)
               PROVE  /\ Layers!Dir(proc[p].key).initrd.state = "whole"
                      /\ Len(Layers!Dir(proc[p].key).initrd.parts) = Len(proc[p].layers)
                      /\ \A i \in DOMAIN Layers!Dir(proc[p].key).initrd.parts :
                           /\ Layers!Dir(proc[p].key).initrd.parts[i].slot = proc[p].layers[i].slot
                           /\ Layers!Dir(proc[p].key).initrd.parts[i].build >= proc[p].layers[i].hash
    BY DEF Layers!BootedIsKeyed
  <2> DEFINE k == proc[p].key
             q == proc[p].layers
             parts == Layers!Dir(k).initrd.parts
  <2>1. Layers!Dir(k).initrd.state = "whole" /\ LayerKeyed(k, parts)
    BY LayerDirs DEF LayerSound
  <2>2. /\ DOMAIN k.parts = DOMAIN q
        /\ \A i \in DOMAIN q : /\ k.parts[i].name = q[i].slot.name /\ k.parts[i].version = q[i].slot.version
                               /\ k.parts[i].hash = q[i].hash
    <3>1. LayerCan(proc[p], index[p])
      BY LayerAt
    <3>2. k = Layers!KeyOf(index[p], q)
      BY <3>1 DEF LayerCan
    <3> HIDE DEF k, q
    <3> QED
      BY <3>2 DEF Layers!KeyOf
  <2>3. /\ DOMAIN q = 1 .. Len(q) /\ Len(q) \in Nat /\ \A i \in DOMAIN q : q[i].slot \in MCSlot
    BY LayerPlanned
  <2> HIDE DEF k, q, parts
  <2>4. parts \in Seq(LayerParts) /\ DOMAIN parts = DOMAIN q
    BY <2>1, <2>2 DEF LayerKeyed
  <2>5. Len(parts) = Len(q)
    BY <2>3, <2>4, LenProperties
  <2>6. ASSUME NEW i \in DOMAIN parts
        PROVE  parts[i].slot = q[i].slot /\ parts[i].build >= q[i].hash
    <3>1. parts[i].slot \in MCSlot
      <4>1. i \in 1 .. Len(parts)
        BY <2>3, <2>4, <2>5
      <4>2. parts[i] \in LayerParts
        BY <2>4, <4>1, ElementOfSeq
      <4> QED
        BY <4>2 DEF LayerParts
    <3>2. /\ parts[i].slot.name = q[i].slot.name /\ parts[i].slot.version = q[i].slot.version
          /\ parts[i].build >= q[i].hash /\ q[i].slot \in MCSlot
      BY <2>1, <2>2, <2>3, <2>4 DEF LayerKeyed
    <3> QED
      BY <3>1, <3>2, LayerNames
  <2> QED
    BY <2>1, <2>5, <2>6 DEF k, q, parts
<1>3. Layers!NoHiddenOverwrite
  <2> SUFFICES ASSUME NEW p \in Proc, proc[p].checked, NEW i \in DOMAIN proc[p].parts,
                      NEW j \in DOMAIN proc[p].parts, i < j
               PROVE  MCEntry[proc[p].parts[i].slot] \cap MCEntry[proc[p].parts[j].slot] = {}
    BY DEF Layers!NoHiddenOverwrite
  <2>1. LayerCan(proc[p], index[p])
    BY LayerAt DEF Layers!Idle
  <2>2. LayerMade(proc[p].layers, proc[p].parts)
    BY <2>1 DEF LayerCan
  <2>3. /\ i \in DOMAIN proc[p].layers /\ j \in DOMAIN proc[p].layers
        /\ proc[p].parts[i].slot = proc[p].layers[i].slot /\ proc[p].parts[j].slot = proc[p].layers[j].slot
    BY <2>2 DEF LayerMade
  <2> QED
    BY <2>1, <2>3 DEF LayerCan, Layers!Overlap
<1>4. Layers!PlanHonours
  <2> SUFFICES ASSUME NEW p \in Proc, proc[p].at # "idle"
               PROVE  /\ proc[p].layers[1].slot = MCBase /\ proc[p].layers[2].slot.type = "runtime"
                      /\ \A d \in Layers!Range(Layers!ExplicitDeps(proc[p].request)) :
                           LayerPins(proc[p].layers, d)
                      /\ \A n \in Layers!Range(proc[p].request.imports) :
                           (\A d \in Layers!Range(Layers!ExplicitDeps(proc[p].request)) : d.name # n) =>
                             LayerHas(proc[p].layers, n) \/ Layers!ResolveImport(index[p], n, {}) = {}
    BY DEF Layers!PlanHonours, LayerPins, LayerHas
  <2>1. LayerHonours(index[p], proc[p].request, proc[p].layers)
    BY LayerAt DEF LayerCan
  <2> QED
    BY <2>1 DEF LayerHonours, LayerPlan, LayerSought, Layers!Range
<1> QED
  BY <1>1, <1>2, <1>3, <1>4

LEMMA LayerEvictsOldest ==
  ASSUME LayerInv
  PROVE  Layers!EvictsOldest
<1> SUFFICES ASSUME NEW p \in Proc, Layers!Collect(p),
                    NEW k \in proc'[p].victims, NEW j \in Layers!Counted \ proc'[p].victims
             PROVE  cache[k].used <= cache[j].used
  BY DEF Layers!EvictsOldest
<1>1. PICK V \in Layers!Victims : proc'[p].victims = V
  BY LayerCollects
<1>2. k \in Layers!Counted /\ cache[k].meta.at <= cache[j].meta.at
  BY <1>1 DEF Layers!Victims
<1>3. cache[k].meta.at = cache[k].used /\ cache[j].meta.at = cache[j].used
  BY <1>2 DEF Layers!Counted, LayerInv, LayerCache, LayerEntry
<1> QED
  BY <1>2, <1>3

------------------------------------------------------------------------------
(* The sum.  A step of MCStores is a step of the part it has picked, or none. *)

Inv ==
  /\ part = "memo" => MemoInv
  /\ part = "wasm" => BoxInv
  /\ part = "kernel" => KernelInv
  /\ part = "store" => StoreInv
  /\ part = "layers" => LayerInv
  /\ part = "fresh" => FreshInv
  /\ part = "buffers" => BufInv

LEMMA InvInit == Init => Inv
  BY MemoInit, BoxInit, KernelInit, StoreInit, LayerInit, FreshInit, BufInit DEF Init, Inv

LEMMA PartMoves ==
  ASSUME [Next]_vars
  PROVE  /\ part' = part
         /\ part = "memo" => [Memo!Next]_(Memo!vars)
         /\ part = "wasm" => [Box!Next]_(Box!vars)
         /\ part = "kernel" => [Kernel!Next]_(Kernel!vars)
         /\ part = "store" => [Store!Next]_(Store!vars)
         /\ part = "layers" => [Layers!Next]_(Layers!vars)
         /\ part = "fresh" => [Fresh!Next]_(Fresh!vars)
         /\ part = "buffers" => [Buf!Next]_(Buf!vars)
<1>1. part' = part
  BY DEF Next, vars
<1>2. part = "memo" => Memo!Next \/ UNCHANGED memoVars
  BY DEF Next, vars
<1>3. part = "wasm" => Box!Next \/ UNCHANGED wasmVars
  BY DEF Next, vars
<1>4. part = "kernel" => Kernel!Next \/ UNCHANGED kernelVars
  BY DEF Next, vars
<1>5. part = "store" => Store!Next \/ UNCHANGED storeVars
  BY DEF Next, vars
<1>6. part = "fresh" => Fresh!Next \/ UNCHANGED freshVars
  BY DEF Next, vars
<1>7. part = "buffers" => Buf!Next \/ UNCHANGED buffersVars
  BY DEF Next, vars
<1>8. part = "layers" => Layers!Next \/ UNCHANGED layersVars
  BY DEF Next, vars
<1> QED
  BY <1>1, <1>2, <1>3, <1>4, <1>5, <1>6, <1>7, <1>8 DEF memoVars, Memo!vars, wasmVars, Box!vars,
     kernelVars, Kernel!vars, storeVars, Store!vars, layersVars, Layers!vars, freshVars, Fresh!vars,
     buffersVars, Buf!vars

LEMMA InvStep == Inv /\ [Next]_vars => Inv'
<1> SUFFICES ASSUME Inv, [Next]_vars PROVE Inv'
  OBVIOUS
<1> QED
  BY PartMoves, MemoStep, BoxStep, KernelStep, StoreStep, LayerNext, FreshStep, BufStep DEF Inv

THEOREM Invariance == Spec => []Inv
  BY InvInit, InvStep, PTL DEF Spec

(* The execution cache answers with the last result accepted for a key, for   *)
(* as long as that set promised and no longer, whatever was refused, evicted  *)
(* or reconfigured since (ExecutionCache::get, set, evict_oldest); and what a *)
(* WasmSandbox keeps changes no program's answer (WasmSandbox::run).          *)
THEOREM Remembering == Spec => []RemembersExactly
<1>1. Inv => RemembersExactly
  BY MemoRemembers DEF Inv, RemembersExactly, BoxInv
<1> QED
  BY <1>1, Invariance, PTL

(* Without overlapping stores a listed template is complete and of one        *)
(* capture, what load_snapshot returns is of one capture, and the mem file    *)
(* under a loaded snapshot is never truncated or rewritten, whoever stores,   *)
(* gives up or dies meanwhile; and a base template that load accepts was      *)
(* booted on the kernel its version has (store_snapshot, Snapshot::save and   *)
(* load, resolve_kernel_info).                                                *)
THEOREM Storing == Spec => []StoredWhole
<1>1. Inv => StoredWhole
  BY StoreSound DEF Inv, StoredWhole, KernelInv, KernelVerdict
<1> QED
  BY <1>1, Invariance, PTL

(* An answer that fits before READY is what the snippet printed, and the      *)
(* command that runs is the snippet or its first BUF_MAX - 1 bytes, for       *)
(* buffers of every size (prepare_vm_for_execution, read_vm_output, init.c).  *)
THEOREM Answering == Spec => []AnswerIntact
<1>1. Inv => AnswerIntact
  BY DEF Inv, AnswerIntact, BufInv
<1> QED
  BY <1>1, Invariance, PTL

(* Whatever step of init fails and however a fresh-boot backend is reset,     *)
(* destroyed or dropped, by its caller or by the pool, nothing is lost but    *)
(* the copy for MMIO exits; the VFIO session lives inside the life of its VM; *)
(* and what a backend believes of its first VM is true of it                  *)
(* (FreshBootBackend::init, destroy and exec, FreshBootPool).                 *)
THEOREM NothingLost == Spec => []NothingElseLost
<1>1. Inv => NothingElseLost
  BY FreshSound DEF Inv, NothingElseLost
<1> QED
  BY <1>1, Invariance, PTL

(* The states of the parts are well formed.                                   *)
THEOREM TypeCorrect == Spec => []TypeOK
<1>1. Inv => TypeOK
  BY KernelTypes, StoreSound, LayerSoundness, FreshSound DEF Inv, TypeOK, MemoInv, MemoTyped, BoxInv
<1> QED
  BY <1>1, Invariance, PTL

(* What boots under a key is the composition the key names, of no earlier     *)
(* build than its hashes say, however many processes compose, store and evict *)
(* over one cache, rebuild the layers under it and die; the keys two of them  *)
(* filled at once are excepted.  And no layer of an initrd that was listed    *)
(* whole replaces a file of another (compose_initrd, store_initrd,            *)
(* enforce_max_size, conflict_check).                                         *)
THEOREM Keyed == Spec => []BootedIsKeyed
<1>1. Inv => BootedIsKeyed
  BY LayerSoundness DEF Inv, BootedIsKeyed
<1> QED
  BY <1>1, Invariance, PTL

(* A plan starts with the base and a runtime, has every explicit dependency   *)
(* in its exact version and something for every import the index knows, for   *)
(* requests of any length over indexes in any state (resolve).                *)
THEOREM Planned == Spec => []PlanHonours
<1>1. Inv => PlanHonours
  BY LayerSoundness DEF Inv, PlanHonours
<1> QED
  BY <1>1, Invariance, PTL

(* Stores that do not overlap never take a template from the listing, as      *)
(* store_snapshot writes back all that was listed, and the new one; and one   *)
(* pass of enforce_max_size evicts what was stored or found no later than     *)
(* anything it keeps.                                                         *)
THEOREM Keeping == Spec => StepsKeep
<1>1. ASSUME StoreInv, Store!Next
      PROVE  Store!KeepsListed
  <2>1. ASSUME ~overlapped'
        PROVE  listed \subseteq listed'
    <3>1. CASE \E s \in Session : Store!Listed(s)
      <4>1. PICK s \in Session : session[s].at = "listing" /\ listed' = session[s].known
                                 /\ overlapped' = overlapped
        BY <3>1 DEF Store!Listed
      <4>2. StoreFits(session[s])
        BY <1>1, <2>1, <4>1 DEF StoreInv, StoreAlone
      <4> QED
        BY <4>1, <4>2 DEF StoreFits
    <3>2. CASE ~\E s \in Session : Store!Listed(s)
      <4>1. listed' = listed
        BY <1>1, <3>2 DEF Store!Next, Store!Open, Store!Truncate, Store!Fill, Store!List,
           Store!GiveUp, Store!ReadNext, Store!BeginLoad, Store!BeginStore
      <4> QED
        BY <4>1
    <3> QED
      BY <3>1, <3>2
  <2> QED
    BY <2>1 DEF Store!KeepsListed
<1>2. Inv /\ [Next]_vars => [part = "store" => Store!KeepsListed]_vars
  BY <1>1, PartMoves DEF Inv, vars, storeVars, Store!vars, Store!KeepsListed
<1>3. Inv /\ [Next]_vars => [part = "layers" => Layers!EvictsOldest]_vars
  BY LayerEvictsOldest DEF Inv
<1>4. Inv /\ [Next]_vars => [/\ part = "store" => Store!KeepsListed
                             /\ part = "layers" => Layers!EvictsOldest]_vars
  BY <1>2, <1>3
<1> QED
  BY <1>4, Invariance, PTL DEF Spec, StepsKeep

==============================================================================
