----------------------------- MODULE LayerStore -----------------------------
(***************************************************************************)
(* The layer registry (layer_registry.rs), the composer and its cache      *)
(* (composer.rs): a snippet's imports and dependencies become a plan, the  *)
(* plan's layers become one initrd, and the initrd is kept under the key   *)
(* of the plan.                                                            *)
(*                                                                         *)
(* Several processes share the layers directory, registry.toml and the     *)
(* cache; each has a LayerRegistry of its own.  No lock is taken.  A file  *)
(* that fs::write is filling, or left half filled, is "torn".  The order   *)
(* of an index is that of read_dir and of a HashMap, so an index is a set  *)
(* and what is found first in it is a choice.  A layer's content is the    *)
(* number of its build and so is the hash of it; 0 is the empty hash.      *)
(***************************************************************************)
EXTENDS Integers, Sequences, FiniteSets, Functions

CONSTANTS
  Proc,       \* processes with a LayerRegistry and a Composer
  Slot,       \* [type, name, version] of the layers that may be installed
  Managed,    \* those that are built, added and removed as the system runs
  Base,       \* base/base/v1
  RuntimeName,
  Request,    \* [imports, cli, pragmas]: what resolve is given
  Provides,   \* Provides[s]: the imports meta.json says s provides
  Profile,    \* Profile[s]: its kernel_profile, "base" if it names none
  Entry,      \* Entry[s]: the paths cpio lists for s
  Directory,  \* those that are directories
  MaxBytes,   \* max_size_gb, in initrds of one size
  MaxBuild, MaxTime, MaxCalls   \* bounds: builds of a slot, clock, calls of a process

SlotAssumption ==
  /\ Base \in Slot /\ Base.type = "base"
  /\ \A s \in Slot : s.type \in {"base", "runtime", "pip"}
ManagedAssumption == Managed \subseteq Slot
BoundAssumption ==
  {MaxBytes, MaxCalls} \subseteq Nat /\ {MaxBuild, MaxTime} \subseteq Nat \ {0}
(* A name and a version are of one type of layer, and the versions of a    *)
(* package provide the same imports.                                       *)
NameAssumption ==
  \A s, t \in Slot : s.name = t.name =>
    /\ s.version = t.version => s = t
    /\ s.type = t.type => Provides[s] = Provides[t]
Dependency == [name : STRING, version : Nat]
RequestAssumption ==
  Request \subseteq [imports : Seq(STRING), cli : Seq(Dependency), pragmas : Seq(Dependency)]

VARIABLES
  built,    \* built[s]: the build whose layer.cpio.zst is in the slot, 0 if none
  meta,     \* meta[s]: the build its meta.json describes, 0 if there is none
  toml,     \* registry.toml: the set of its sections [slot, quoted]
  index,    \* index[p]: LayerRegistry.index, the metadata p has
  calls,    \* calls[p]: the calls p has made
  proc,     \* proc[p]: the composition p is at
  cache,    \* cache[k]: the directory of key k; its "used" is history
  now,      \* SystemTime, in seconds
  shaken    \* keys filled twice at once or over, or half removed (history)

vars == <<built, meta, toml, index, calls, proc, cache, now, shaken>>
disk == <<built, meta, toml>>
registry == <<index, calls>>
store == <<cache, now, shaken>>

(* What add_layer_raw is given: the hash, and whether meta.json was read.  *)
Meta(s, h, full, default) ==
  [slot |-> s, hash |-> h, full |-> full, default |-> default]

Ref(m) == [slot |-> m.slot, hash |-> m.hash]

-----------------------------------------------------------------------------
(* Resolution, over one index I.                                           *)

GetLayer(I, s) == {Ref(m) : m \in {x \in I : x.slot = s}}

(* resolve_version(name, Latest): a default one, of whatever type, else    *)
(* any.                                                                    *)
Latest(I, name) ==
  LET mine == {m \in I : m.slot.name = name}
      defaults == {m \in mine : m.default}
  IN {m.slot.version : m \in IF defaults # {} THEN defaults ELSE mine}

ImportedNames(I, import) ==
  {m.slot.name : m \in {x \in I : /\ x.slot.type = "pip" /\ x.full
                                  /\ import \in Provides[x.slot]}}

(* resolve_import: the layers it may return; none is its error.  exact is   *)
(* {v} for VersionConstraint::Exact(v), and {} for Latest.                 *)
ResolveImport(I, import, exact) ==
  UNION {UNION {GetLayer(I, [type |-> "pip", name |-> n, version |-> v])
                  : v \in IF exact = {} THEN Latest(I, n) ELSE exact}
           : n \in ImportedNames(I, import)}

(* resolve pushes a layer once: display() tells layers apart.              *)
Push(layers, ref) ==
  IF \E i \in DOMAIN layers : layers[i].slot = ref.slot THEN layers
  ELSE Append(layers, ref)

(* --dep first, then the pragmas whose name is not there yet.              *)
AddDep(deps, d) ==
  IF \E i \in DOMAIN deps : deps[i].name = d.name THEN deps ELSE Append(deps, d)

ExplicitDeps(r) ==
  LET after[n \in 0 .. Len(r.pragmas)] ==
        IF n = 0 THEN r.cli ELSE AddDep(after[n - 1], r.pragmas[n])
  IN after[Len(r.pragmas)]

AddImport(I, explicit, plans, import) ==
  IF \E i \in DOMAIN explicit : explicit[i].name = import THEN plans
  ELSE UNION {LET found == ResolveImport(I, import, {})
              IN {Push(p, ref) : ref \in found}
                 \cup (IF found = {} THEN {p} ELSE {}) : p \in plans}

(* Mutated: a dependency that cannot be resolved is skipped, like an       *)
(* import.                                                                 *)
AddExplicit_Lenient(I, plans, d) ==
  LET found == ResolveImport(I, d.name, {d.version})
  IN IF found = {} THEN plans
     ELSE {Push(p, ref) : p \in plans, ref \in found}

AddExplicit(I, plans, d) ==
  UNION {{Push(p, ref) : ref \in ResolveImport(I, d.name, {d.version})}
           : p \in plans}

(* The plans once all imports are resolved, and all explicit dependencies. *)
Imported(I, explicit, start, imports) ==
  LET after[n \in 0 .. Len(imports)] ==
        IF n = 0 THEN start ELSE AddImport(I, explicit, after[n - 1], imports[n])
  IN after[Len(imports)]

Pinned(I, start, explicit) ==
  LET after[n \in 0 .. Len(explicit)] ==
        IF n = 0 THEN start ELSE AddExplicit(I, after[n - 1], explicit[n])
  IN after[Len(explicit)]

(* The base, and a default runtime if there is one.                        *)
Starts(I) ==
  {<<b, rt>> : b \in GetLayer(I, Base),
     rt \in UNION {GetLayer(I, [type |-> "runtime", name |-> RuntimeName, version |-> v])
                     : v \in Latest(I, RuntimeName)}}

(* resolve: the lists of layers it may return, none if it fails.           *)
Resolve(I, r) ==
  Pinned(I, Imported(I, ExplicitDeps(r), Starts(I), r.imports), ExplicitDeps(r))

(* kernel_profile_from_layers: the first that is not "base".               *)
ProfileOf(I, layers) ==
  LET special == {i \in DOMAIN layers :
                    /\ \E m \in I : m.slot = layers[i].slot /\ m.full
                    /\ Profile[layers[i].slot] # "base"}
  IN IF special = {} THEN "base"
     ELSE Profile[layers[CHOOSE i \in special : \A j \in special : i <= j].slot]

(* Mutated: the key names the layers without their hashes.                 *)
KeyOf_Unhashed(I, layers) ==
  [profile |-> ProfileOf(I, layers),
   parts |-> [i \in DOMAIN layers |->
                [name |-> layers[i].slot.name, version |-> layers[i].slot.version,
                 hash |-> 0]]]

(* composition_key: blake3 of it, taken for injective.                     *)
KeyOf(I, layers) ==
  [profile |-> ProfileOf(I, layers),
   parts |-> [i \in DOMAIN layers |->
                [name |-> layers[i].slot.name, version |-> layers[i].slot.version,
                 hash |-> layers[i].hash]]]

-----------------------------------------------------------------------------
(* The cache.                                                              *)

NoFile == [state |-> "absent", parts |-> <<>>]
TornFile == [state |-> "torn", parts |-> <<>>]
WholeFile(parts) == [state |-> "whole", parts |-> parts]
NoStamp == [state |-> "absent", at |-> 0]
TornStamp == [state |-> "torn", at |-> 0]
Stamp == [state |-> "whole", at |-> now]

NoDir == [initrd |-> NoFile, meta |-> NoStamp, used |-> 0]
Dir(k) == IF k \in DOMAIN cache THEN cache[k] ELSE NoDir
PutDir(k, d) == cache' = [x \in DOMAIN cache \cup {k} |-> IF x = k THEN d ELSE cache[x]]
DropDir(k) == cache' = Restrict(cache, DOMAIN cache \ {k})

IsCached(k) == Dir(k).initrd.state # "absent" /\ Dir(k).meta.state # "absent"

(* What enforce_max_size counts: a stamp it can parse, and an initrd.      *)
Counted == {k \in DOMAIN cache :
              cache[k].meta.state = "whole" /\ cache[k].initrd.state # "absent"}

(* An initrd still being written has no size to speak of.                  *)
Size(K) == Cardinality({k \in K : cache[k].initrd.state = "whole"})

(* The victims of one pass: the eldest first, ties in directory order, no  *)
(* more of them than the limit asks for.                                   *)
Victims ==
  {V \in SUBSET Counted :
     /\ \A k \in V, j \in Counted \ V : cache[k].meta.at <= cache[j].meta.at
     /\ Size(Counted \ V) <= MaxBytes
     /\ V # {} => \E k \in V : /\ \A j \in V : cache[j].meta.at <= cache[k].meta.at
                             /\ Size((Counted \ V) \cup {k}) > MaxBytes}

NoKey == [profile |-> "base", parts |-> <<>>]
NoRequest == [imports |-> <<>>, cli |-> <<>>, pragmas |-> <<>>]
Idle == [at |-> "idle", request |-> NoRequest, layers |-> <<>>, key |-> NoKey,
         parts |-> <<>>, checked |-> FALSE, victims |-> {}]

Filling == {"write", "stamp", "enforce", "evict"}

(* Another process fills the directory of k while p writes or removes it.  *)
Shaken(k, p) ==
  IF \E q \in Proc \ {p} : proc[q].key = k /\ proc[q].at \in Filling
  THEN shaken \cup {k} ELSE shaken

Go(p, at) == proc' = [proc EXCEPT ![p].at = at]
Fail(p) == proc' = [proc EXCEPT ![p] = Idle]

(* Every process has scanned, before the managed layers were installed.    *)
Init ==
  /\ built = [s \in Slot |-> 1] /\ meta = built
  /\ toml = {[slot |-> Base, quoted |-> FALSE]}
  /\ index = [p \in Proc |-> {Meta(s, 1, TRUE, TRUE) : s \in Slot \ Managed}]
  /\ calls = [p \in Proc |-> 0]
  /\ proc = [p \in Proc |-> Idle]
  /\ cache = [k \in {} |-> NoDir]
  /\ now = 1 /\ shaken = {}

-----------------------------------------------------------------------------
(* build-layer.sh: the archive of an emptied slot first, then its          *)
(* meta.json, then a quoted section of registry.toml.                      *)
BuildArchive(s) ==
  /\ built[s] < MaxBuild
  /\ built' = [built EXCEPT ![s] = @ + 1] /\ meta' = [meta EXCEPT ![s] = 0]
  /\ UNCHANGED <<toml, registry, proc, store>>

BuildMeta(s) ==
  /\ built[s] > 0 /\ meta[s] = 0
  /\ meta' = [meta EXCEPT ![s] = built[s]]
  /\ toml' = toml \cup {[slot |-> s, quoted |-> TRUE]}
  /\ UNCHANGED <<built, registry, proc, store>>

(* The calls that change an index, made by a process with no composition.  *)
IndexCall(p, I) ==
  /\ proc[p].at = "idle" /\ calls[p] < MaxCalls
  /\ index' = [index EXCEPT ![p] = I]
  /\ calls' = [calls EXCEPT ![p] = @ + 1]
  /\ UNCHANGED <<disk, proc, store>>

(* scan_layers: meta.json, or a stub for an archive without one.           *)
ScanLayers(p) ==
  IndexCall(p, {IF meta[s] > 0 THEN Meta(s, meta[s], TRUE, TRUE)
                ELSE Meta(s, 0, FALSE, FALSE) : s \in {x \in Slot : built[x] > 0}})

(* load_from: a section's quotes are not stripped, so no type name is      *)
(* found in one that has them.                                             *)
LoadFrom(p) ==
  IndexCall(p, {Meta(x.slot, 0, FALSE, FALSE) : x \in {y \in toml : ~y.quoted}})

(* save: one quoted section for each layer of the index.                   *)
Save(p) ==
  /\ proc[p].at = "idle" /\ calls[p] < MaxCalls
  /\ toml' = {[slot |-> m.slot, quoted |-> TRUE] : m \in index[p]}
  /\ calls' = [calls EXCEPT ![p] = @ + 1]
  /\ UNCHANGED <<built, meta, index, proc, store>>

(* add_layer, called for what the index does not hold.                     *)
AddLayer(p, s) ==
  /\ built[s] > 0 /\ \A m \in index[p] : m.slot # s
  /\ IndexCall(p, index[p] \cup {Meta(s, built[s], TRUE, TRUE)})

RemoveLayer(p, s) ==
  /\ \E m \in index[p] : m.slot.type = s.type /\ m.slot.name = s.name
  /\ IndexCall(p, {m \in index[p] : m.slot # s})

(* update_latest goes by the name alone.                                   *)
UpdateLatest(p, s) ==
  /\ IndexCall(p, {IF m.slot.name = s.name
                   THEN [m EXCEPT !.default = (m.slot.version = s.version)]
                   ELSE m : m \in index[p]})

(* update_all_latest: the greatest version string of each layer.           *)
UpdateAllLatest(p) ==
  IndexCall(p, {[m EXCEPT !.default =
                   \A x \in index[p] : x.slot.type = m.slot.type /\ x.slot.name = m.slot.name
                                       => x.slot.version <= m.slot.version]
                  : m \in index[p]})

-----------------------------------------------------------------------------
(* resolve_and_compose: the plan, or the error of resolve.                 *)
Compose(p, r) ==
  /\ proc[p].at = "idle" /\ calls[p] < MaxCalls
  /\ calls' = [calls EXCEPT ![p] = @ + 1]
  /\ LET plans == Resolve(index[p], r)
     IN IF plans = {} THEN Fail(p)
        ELSE \E layers \in plans :
               proc' = [proc EXCEPT ![p] =
                          [Idle EXCEPT !.at = "lookup", !.request = r, !.layers = layers,
                                       !.key = KeyOf(index[p], layers)]]
  /\ UNCHANGED <<disk, index, store>>

(* Mutated: a hit does not touch the stamp.                                *)
Found_Untouched(p) ==
  /\ proc[p].at = "lookup" /\ IsCached(proc[p].key)
  /\ PutDir(proc[p].key, [Dir(proc[p].key) EXCEPT !.used = now])
  /\ Go(p, "boot")
  /\ UNCHANGED <<disk, registry, now, shaken>>

(* compose_initrd, a hit: touch, which leaves a torn stamp as it is.       *)
Found(p) ==
  /\ proc[p].at = "lookup" /\ IsCached(proc[p].key)
  /\ LET d == Dir(proc[p].key)
     IN PutDir(proc[p].key,
               [d EXCEPT !.used = now,
                         !.meta = IF @.state = "whole" THEN Stamp ELSE @])
  /\ Go(p, "boot")
  /\ UNCHANGED <<disk, registry, now, shaken>>

Missed(p) ==
  /\ proc[p].at = "lookup" /\ ~IsCached(proc[p].key)
  /\ Go(p, "check")
  /\ UNCHANGED <<disk, registry, store>>

Overlap(layers, listed) ==
  \E i, j \in listed : i < j /\ Entry[layers[i].slot] \cap Entry[layers[j].slot] # {}


(* list_cpio_files: which layers of a plan zstd and cpio may manage to     *)
(* list, of those that have an archive: all, unless one is damaged, half   *)
(* written, or a tool is missing.                                          *)
Listings(layers) == SUBSET {i \in DOMAIN layers : built[layers[i].slot] > 0}

(* conflict_check: a layer that cannot be listed is passed over with a     *)
(* warning.                                                                *)
ConflictCheck(p) ==
  /\ proc[p].at = "check"
  /\ \E listed \in Listings(proc[p].layers) :
       IF Overlap(proc[p].layers, listed) THEN Go(p, "conflict")
       ELSE proc' = [proc EXCEPT ![p].at = "read",
                                 ![p].checked = (listed = DOMAIN proc[p].layers)]
  /\ UNCHANGED <<disk, registry, store>>

(* The archives, and cmd.json's after them; a missing one is an error.     *)
ReadLayers(p) ==
  /\ proc[p].at = "read"
  /\ LET layers == proc[p].layers
     IN IF \A i \in DOMAIN layers : built[layers[i].slot] > 0
        THEN proc' = [proc EXCEPT ![p].at = "store",
                        ![p].parts = [i \in DOMAIN layers |->
                          [slot |-> layers[i].slot, build |-> built[layers[i].slot]]]]
        ELSE Fail(p)
  /\ UNCHANGED <<disk, registry, store>>

(* create_cmd_json_cpio: the tools a check can do without are needed here.  *)
CreateCmdFails(p) ==
  /\ proc[p].at = "read" /\ Fail(p)
  /\ UNCHANGED <<disk, registry, store>>

-----------------------------------------------------------------------------
(* store_initrd: initrd.zst is opened and truncated, ...                   *)
OpenInitrd(p) ==
  /\ proc[p].at = "store"
  /\ PutDir(proc[p].key, [Dir(proc[p].key) EXCEPT !.initrd = TornFile])
  /\ shaken' = Shaken(proc[p].key, p)
                 \cup (IF IsCached(proc[p].key) THEN {proc[p].key} ELSE {})
  /\ Go(p, "write")
  /\ UNCHANGED <<disk, registry, now>>

(* ... filled, and cmd.json written beside it, ...                         *)
WriteInitrd(p) ==
  /\ proc[p].at = "write"
  /\ LET k == proc[p].key
     IN IF k \in DOMAIN cache
        THEN /\ PutDir(k, [cache[k] EXCEPT !.initrd = WholeFile(proc[p].parts)])
             /\ Go(p, "stamp")
        ELSE Fail(p) /\ UNCHANGED cache
  /\ UNCHANGED <<disk, registry, now, shaken>>

(* ... and meta.json last of all: only now is the key found.               *)
WriteStamp(p) ==
  /\ proc[p].at = "stamp"
  /\ LET k == proc[p].key
     IN IF k \in DOMAIN cache
        THEN /\ PutDir(k, [cache[k] EXCEPT !.meta = Stamp, !.used = now])
             /\ Go(p, "enforce")
        ELSE Fail(p) /\ UNCHANGED cache
  /\ UNCHANGED <<disk, registry, now, shaken>>

(* enforce_max_size: the entries are read and the victims fall out, ...    *)
Collect(p) ==
  /\ proc[p].at = "enforce"
  /\ \E V \in Victims :
       proc' = [proc EXCEPT ![p].at = IF V = {} THEN "boot" ELSE "evict",
                            ![p].victims = V]
  /\ UNCHANGED <<disk, registry, store>>

(* ... and are removed one by one, the own entry among them if need be.    *)
EvictNext(p, k) ==
  /\ proc[p].at = "evict" /\ k \in proc[p].victims
  /\ DropDir(k)
  /\ shaken' = Shaken(k, p)
  /\ proc' = [proc EXCEPT ![p].at = IF @ = "evict" /\ proc[p].victims = {k}
                                   THEN "boot" ELSE @,
                          ![p].victims = @ \ {k}]
  /\ UNCHANGED <<disk, registry, now>>

(* The caller boots a VM from the path, or reports the conflict.           *)
Return(p) ==
  /\ proc[p].at \in {"boot", "conflict"}
  /\ proc' = [proc EXCEPT ![p] = Idle]
  /\ UNCHANGED <<disk, registry, store>>

-----------------------------------------------------------------------------
(* A process dies: in touch or WriteStamp it may leave a torn stamp, in    *)
(* remove_dir_all one file of the two.                                     *)
Crash(p) ==
  /\ proc[p].at \notin {"idle", "boot", "conflict"}
  /\ proc' = [proc EXCEPT ![p] = Idle]
  /\ index' = [index EXCEPT ![p] = {}]
  /\ UNCHANGED <<disk, calls, now>>
  /\ \/ UNCHANGED <<cache, shaken>>
     \/ /\ \/ proc[p].at = "lookup" /\ IsCached(proc[p].key)
           \/ proc[p].at = "stamp" /\ proc[p].key \in DOMAIN cache
        /\ PutDir(proc[p].key, [Dir(proc[p].key) EXCEPT !.meta = TornStamp, !.used = now])
        /\ UNCHANGED shaken
     \/ /\ proc[p].at = "evict"
        /\ \E k \in proc[p].victims \cap DOMAIN cache :
             \/ /\ PutDir(k, [cache[k] EXCEPT !.meta = NoStamp])
                /\ UNCHANGED shaken
             \/ /\ PutDir(k, [cache[k] EXCEPT !.initrd = NoFile])
                /\ shaken' = shaken \cup {k}

Tick ==
  /\ now < MaxTime /\ now' = now + 1
  /\ UNCHANGED <<disk, registry, proc, cache, shaken>>

Next ==
  \/ \E s \in Managed : BuildArchive(s) \/ BuildMeta(s)
  \/ \E p \in Proc :
       \/ ScanLayers(p) \/ LoadFrom(p) \/ Save(p) \/ UpdateAllLatest(p)
       \/ \E s \in Managed : AddLayer(p, s) \/ RemoveLayer(p, s) \/ UpdateLatest(p, s)
       \/ \E r \in Request : Compose(p, r)
       \/ Found(p) \/ Missed(p) \/ ConflictCheck(p) \/ ReadLayers(p) \/ CreateCmdFails(p)
       \/ OpenInitrd(p) \/ WriteInitrd(p) \/ WriteStamp(p) \/ Collect(p)
       \/ \E k \in proc[p].victims : EvictNext(p, k)
       \/ Return(p) \/ Crash(p)
  \/ Tick

Spec == Init /\ [][Next]_vars

-----------------------------------------------------------------------------
(* The state is well formed.                                               *)
TypeOK ==
  /\ built \in [Slot -> 0 .. MaxBuild] /\ meta \in [Slot -> 0 .. MaxBuild]
  /\ \A s \in Slot : meta[s] \in {0, built[s]}
  /\ \A p \in Proc : \A m \in index[p] :
       m.slot \in Slot /\ m.hash \in 0 .. MaxBuild /\ (m.hash = 0 <=> ~m.full)
  /\ \A p \in Proc : proc[p].at \in Filling \cup
       {"idle", "lookup", "check", "read", "store", "boot", "conflict"}
  /\ \A k \in DOMAIN cache : cache[k].initrd.state \in {"absent", "torn", "whole"}
  /\ now \in 1 .. MaxTime

(* The initrd a process is sent to boot, if its entry is there, is whole   *)
(* and holds the layers of the plan in its order, none of them of an       *)
(* earlier build than the hash in the plan says (compose_initrd,           *)
(* is_cached, composition_key).  A key that two processes filled at once,  *)
(* or that a crash half removed, is excepted, as are layers without a      *)
(* hash.                                                                   *)
BootedIsKeyed ==
  \A p \in Proc :
    LET k == proc[p].key
        file == Dir(k).initrd
    IN proc[p].at = "boot" /\ k \notin shaken /\ IsCached(k) =>
         /\ file.state = "whole"
         /\ Len(file.parts) = Len(proc[p].layers)
         /\ \A i \in DOMAIN file.parts :
              LET r == proc[p].layers[i]
              IN file.parts[i].slot = r.slot /\ file.parts[i].build >= r.hash

(* No layer of an initrd composed with every layer listed overwrites a     *)
(* file of another (conflict_check: last write wins in initramfs).         *)
NoHiddenOverwrite ==
  \A p \in Proc : proc[p].checked =>
    \A i, j \in DOMAIN proc[p].parts :
      i < j => Entry[proc[p].parts[i].slot] \cap Entry[proc[p].parts[j].slot] = {}

(* What one pass evicts was stored or found no later than anything it      *)
(* keeps (enforce_max_size and touch: LRU).                                *)
EvictsOldest ==
  \A p \in Proc : Collect(p) =>
    \A k \in proc'[p].victims, j \in Counted \ proc'[p].victims :
      cache[k].used <= cache[j].used
EvictsLeastUsed == [][EvictsOldest]_vars

(* A plan starts with the base and a runtime, has every explicit           *)
(* dependency at its exact version, and something for every import the     *)
(* index knows (resolve: explicit ones fail hard, imports do not).         *)
PlanHonours ==
  \A p \in Proc :
    LET layers == proc[p].layers
        deps == ExplicitDeps(proc[p].request)
    IN proc[p].at # "idle" =>
         /\ layers[1].slot = Base /\ layers[2].slot.type = "runtime"
         /\ \A d \in Range(deps) : \E i \in DOMAIN layers :
              /\ layers[i].slot.type = "pip" /\ layers[i].slot.version = d.version
              /\ d.name \in Provides[layers[i].slot]
         /\ \A n \in Range(proc[p].request.imports) :
              (\A d \in Range(deps) : d.name # n) =>
                \/ \E i \in DOMAIN layers : /\ layers[i].slot.type = "pip"
                                            /\ n \in Provides[layers[i].slot]
                \/ ResolveImport(index[p], n, {}) = {}

(* Two layers that share no file compose: conflict_check is said to        *)
(* refuse two layers that contain the same file path.                      *)
DisjointFilesCompose ==
  \A p \in Proc : proc[p].at = "conflict" =>
    \E i, j \in DOMAIN proc[p].layers :
      i < j /\ (Entry[proc[p].layers[i].slot] \cap Entry[proc[p].layers[j].slot])
                 \ Directory # {}
=============================================================================
