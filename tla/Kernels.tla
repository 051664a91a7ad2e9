------------------------------- MODULE Kernels -------------------------------
(* Kernel files and the templates booted on them.  tools/build-kernel.sh     *)
(* installs a kernel as v<version>/vmlinux-<profile> and lists the version   *)
(* in registry.toml, which kernel_registry.rs reads, and rewrites too.  A    *)
(* build boots a kernel (boot_linux) and stores a template with a version    *)
(* and a hash; Snapshot::load compares the hash with vmlinux-base of that    *)
(* version.  The script, a program that keeps a KernelRegistry and a build   *)
(* are processes of their own: files are read while another writes them.     *)
(* Bounded: one template is stored; those of later builds have directories   *)
(* of their own.                                                             *)
EXTENDS Naturals, FiniteSets

CONSTANTS Release,  \* kernel versions
          Newest,   \* KernelRegistry::DEFAULT_VERSION
          MaxKernel,\* bound: kernels compiled, each with contents of its own
          None      \* no file, no version, no template, nothing yet

Profile == {"base", "gpu"}
Flat == "flat"  \* kernel/vmlinux-<profile>, where `template build` looks

KernelsAssumption ==
    /\ Newest \in Release /\ MaxKernel \in Nat
    /\ Flat \notin Release /\ None \notin Release

VARIABLES file,     \* file[place][profile]: the kernel it holds, 0 if missing
          compiled, \* how many kernels were compiled
          registry, \* registry.toml, None if missing
          script,   \* what build-kernel.sh has installed and not yet listed
          keeper,   \* the KernelRegistry a program keeps in memory
          build,    \* the template build under way
          template, \* the template stored
          verdict   \* what Snapshot::load last said of it

vars == <<file, compiled, registry, script, keeper, build, template, verdict>>

(* Hashes are the numbers of kernels, 0 is the empty string.  A file without *)
(* a default_version or without versions does not parse.                     *)
Listing == [profiles : SUBSET Profile, hash : 0 .. MaxKernel]
Unlisted == [profiles |-> {}, hash |-> 0]
Registry == [default : Release \cup {None}, parses : BOOLEAN, versions : [Release -> Listing]]
RegistryAssumption == None \notin Registry
NoVersions == [r \in Release |-> Unlisted]
Truncated == [default |-> None, parses |-> FALSE, versions |-> NoVersions]
Listed(reg, r) == reg.versions[r] # Unlisted
Installed(r) == {p \in Profile : file[r][p] # 0}

Idle == [at |-> "idle", place |-> Flat, profile |-> "base", version |-> None,
         hash |-> 0, kernel |-> 0, raced |-> FALSE]

Init ==
    /\ file = [r \in Release \cup {Flat} |-> [p \in Profile |-> 0]] /\ compiled = 0
    /\ registry = None /\ script = None
    /\ keeper = [saves |-> FALSE, reg |-> None]
    /\ build = Idle /\ template = None /\ verdict = None

-----------------------------------------------------------------------------
(* build-kernel.sh *)

Install(r, p) ==
    /\ script = None /\ compiled < MaxKernel
    /\ compiled' = compiled + 1
    /\ file' = [file EXCEPT ![r][p] = compiled + 1]
    /\ script' = [version |-> r, profile |-> p]
    /\ UNCHANGED <<registry, keeper, build, template, verdict>>

(* update_registry lists the version just built and no other, and keeps the  *)
(* default_version it finds. *)
Update ==
    /\ script # None
    /\ LET r == script.version IN
       registry' = [default |-> IF registry = None \/ registry.default = None
                                THEN r ELSE registry.default,
                    parses |-> TRUE,
                    versions |-> [NoVersions EXCEPT ![r] =
                        [profiles |-> Installed(r),
                         hash |-> file[r][IF "base" \in Installed(r)
                                          THEN "base" ELSE script.profile]]]]
    /\ script' = None
    /\ UNCHANGED <<file, compiled, keeper, build, template, verdict>>

(* The script dies between the two. *)
Interrupted ==
    /\ script # None /\ script' = None
    /\ UNCHANGED <<file, compiled, registry, keeper, build, template, verdict>>

(* set_default_version; what it writes where nothing was has no versions.    *)
SetDefault(r) ==
    /\ script = None /\ Installed(r) # {}
    /\ registry' = [(IF registry = None THEN Truncated ELSE registry) EXCEPT !.default = r]
    /\ UNCHANGED <<file, compiled, script, keeper, build, template, verdict>>

(* Somebody puts a kernel where `template build` looks for it. *)
Copy(r, p) ==
    /\ file[r][p] # 0
    /\ file' = [file EXCEPT ![Flat][p] = file[r][p]]
    /\ UNCHANGED <<compiled, registry, script, keeper, build, template, verdict>>

-----------------------------------------------------------------------------
(* KernelRegistry *)

(* load; a missing file is an empty registry *)
Loaded == IF registry = None THEN [default |-> Newest, parses |-> TRUE, versions |-> NoVersions]
          ELSE registry
Loads == Loaded.parses

Keep ==
    /\ keeper.reg = None /\ Loads
    /\ keeper' = [keeper EXCEPT !.reg = Loaded]
    /\ UNCHANGED <<file, compiled, registry, script, build, template, verdict>>

(* register_version and set_default change the copy in memory; save          *)
(* truncates registry.toml ... *)
Save(reg) ==
    /\ keeper' = [saves |-> TRUE, reg |-> reg]
    /\ registry' = Truncated
    /\ UNCHANGED <<file, compiled, script, build, template, verdict>>

Register(r) ==
    /\ keeper.reg # None /\ ~keeper.saves /\ Installed(r) # {}
    /\ \E p \in Installed(r) :
          /\ "base" \in Installed(r) => p = "base"
          /\ Save([keeper.reg EXCEPT !.versions[r] =
                      [profiles |-> Installed(r), hash |-> file[r][p]]])

ChooseDefault(r) ==
    /\ keeper.reg # None /\ ~keeper.saves
    /\ Listed(keeper.reg, r) \/ Installed(r) # {}
    /\ Save([keeper.reg EXCEPT !.default = r])

(* ... and writes it, unless the program dies first. *)
Saved ==
    /\ keeper.saves
    /\ registry' = keeper.reg /\ keeper' = [keeper EXCEPT !.saves = FALSE]
    /\ UNCHANGED <<file, compiled, script, build, template, verdict>>

Forget ==
    /\ keeper.reg # None
    /\ keeper' = [saves |-> FALSE, reg |-> None]
    /\ UNCHANGED <<file, compiled, registry, script, build, template, verdict>>

-----------------------------------------------------------------------------
(* A template build *)

(* resolve: the version that is asked for, or else the default's kernel *)
Source(reg, r) == IF Listed(reg, r) THEN r ELSE reg.default

(* resolve_version: it lists the profile, and its file is there.             *)
Has(reg, r, p) == Listed(reg, r) /\ p \in reg.versions[r].profiles /\ file[r][p] # 0

(* FreshBootBackend::resolve_kernel_info, for a variant that names a version *)
(* or none.  The version is the one asked for even if its kernel is not, and *)
(* the hash is that of the base kernel whatever the profile.                 *)
Resolve(asked, p) ==
    /\ build.at = "idle" /\ template = None /\ Loads
    /\ LET r == IF asked = None THEN Loaded.default ELSE asked
           from == Source(Loaded, r)
       IN /\ Has(Loaded, from, p)
          /\ build' = [Idle EXCEPT !.at = "resolved", !.place = from, !.profile = p,
                                   !.version = r, !.hash = Loaded.versions[r].hash]
    /\ UNCHANGED <<file, compiled, registry, script, keeper, template, verdict>>

(* `template build` and build-snapshot name a file, no version and no hash.  *)
Point(place, p) ==
    /\ build.at = "idle" /\ template = None /\ file[place][p] # 0
    /\ build' = [Idle EXCEPT !.at = "resolved", !.place = place, !.profile = p]
    /\ UNCHANGED <<file, compiled, registry, script, keeper, template, verdict>>

(* boot_linux reads the kernel first ... *)
ReadKernel ==
    /\ build.at = "resolved"
    /\ build' = [build EXCEPT !.at = "read", !.kernel = file[build.place][build.profile]]
    /\ UNCHANGED <<file, compiled, registry, script, keeper, template, verdict>>

(* Mutated: the hash found in the registry is thrown away. *)
Identify_Rehashes ==
    /\ build.at = "read"
    /\ LET found == file[build.place][build.profile] IN
       build' = [build EXCEPT !.at = "booted", !.hash = found,
                              !.version = IF @ = None THEN Newest ELSE @,
                              !.raced = build.hash = 0 /\ build.kernel # found]
    /\ UNCHANGED <<file, compiled, registry, script, keeper, template, verdict>>

(* ... and, without a hash, the file again once the VM is set up.            *)
Identify ==
    /\ build.at = "read"
    /\ LET found == file[build.place][build.profile] IN
       build' = [build EXCEPT !.at = "booted",
                              !.hash = IF @ = 0 THEN found ELSE @,
                              !.version = IF @ = None THEN Newest ELSE @,
                              !.raced = build.hash = 0 /\ build.kernel # found]
    /\ UNCHANGED <<file, compiled, registry, script, keeper, template, verdict>>

(* capture_snapshot and store_snapshot, which adds what is empty: nothing.   *)
Store ==
    /\ build.at = "booted"
    /\ template' = build /\ build' = Idle
    /\ UNCHANGED <<file, compiled, registry, script, keeper, verdict>>

Abandon ==
    /\ build.at # "idle" /\ build' = Idle
    /\ UNCHANGED <<file, compiled, registry, script, keeper, template, verdict>>

(* Snapshot::load: the check is against vmlinux-base, whatever the profile.  *)
Load ==
    /\ template # None
    /\ LET found == file[template.version]["base"] IN
       verdict' = [ok |-> found # 0 /\ found = template.hash, base |-> found]
    /\ UNCHANGED <<file, compiled, registry, script, keeper, build, template>>

Next ==
    \/ Update \/ Interrupted \/ Keep \/ Saved \/ Forget
    \/ ReadKernel \/ Identify \/ Store \/ Abandon \/ Load
    \/ \E r \in Release : SetDefault(r) \/ Register(r) \/ ChooseDefault(r)
    \/ \E p \in Profile :
          \/ \E r \in Release : Install(r, p) \/ Copy(r, p)
          \/ \E r \in Release \cup {None} : Resolve(r, p)
          \/ \E place \in Release \cup {Flat} : Point(place, p)

Spec == Init /\ [][Next]_vars

-----------------------------------------------------------------------------
(* A build has read its kernel from where it was found, and what is listed   *)
(* was compiled.                                                             *)
TypeOK ==
    /\ file \in [Release \cup {Flat} -> [Profile -> 0 .. compiled]] /\ compiled <= MaxKernel
    /\ registry # None => registry \in Registry
    /\ script # None => script \in [version : Release, profile : Profile]
    /\ keeper.reg # None => keeper.reg \in Registry /\ keeper.reg.parses
    /\ keeper.saves => keeper.reg # None
    /\ build.at \in {"idle", "resolved", "read", "booted"}
    /\ build.at = "booted" => build.version \in Release /\ build.hash # 0
    /\ build.at \in {"read", "booted"} => build.kernel # 0
    /\ template # None => template.at = "booted"
    /\ verdict # None => template # None

(* Kernel integrity (SnapMeta): a template of the base profile that load     *)
(* accepts was booted on the base kernel its version has at the moment of    *)
(* the load, whatever was rebuilt, relisted, copied or overwritten by a      *)
(* stale registry in between, except when its file was replaced while        *)
(* boot_linux was at work.                                                   *)
LoadsItsKernel ==
    verdict # None /\ verdict.ok /\ template.profile = "base" /\ ~template.raced =>
        template.kernel = verdict.base
=============================================================================
