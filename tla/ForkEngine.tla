------------------------------ MODULE ForkEngine ------------------------------
(***************************************************************************)
(* ForkEngine::fork and fork_batch of tinymachine-fork/src/fork.rs, with   *)
(* the shared regions of shared_mem.rs: the fallible steps that turn one   *)
(* snapshot into n VMs, what each step allocates, and what is given back   *)
(* when a step fails.                                                      *)
(*                                                                         *)
(* Memory is abstracted to one page of the snapshot (who wrote it last),   *)
(* and each shared region to its last writer.  A VM's memslots are a       *)
(* sequence whose first element is slot 0, the snapshot memory.            *)
(***************************************************************************)
EXTENDS Integers, Sequences, FiniteSets

CONSTANTS
  VM,         \* identities of VMs; one that left nothing behind is reused
  NoVM,       \* no VM under construction
  Region,     \* the SharedMemoryRegions a caller creates
  Addr,       \* guest-physical addresses a caller registers regions at
  LoadAddr,   \* the address of the snapshot memory
  MaxShared,  \* MAX_SHARED_SLOTS: slots KVM leaves for shared regions
  MaxBatch    \* bound: the largest count asked of fork_batch

NumAssumption == MaxShared \in Nat /\ MaxBatch \in Nat
NoVMAssumption == NoVM \notin VM
SnapshotAssumption == "snapshot" \notin Region   \* the memory is no region

VARIABLES
  capable,  \* whether the host has KVM_CAP_READONLY_MEM
  up,       \* whether the engine exists
  regions,  \* ForkEngine.shared_regions: records [region, addr]
  stage,    \* the next step of the fork under way, "idle" if none
  want,     \* the count of the fork_batch under way
  done,     \* the VMs that fork_batch has built so far
  cur,      \* the VM under construction
  live,     \* the VMs owned by callers
  vmfd,     \* the VMs whose VM descriptor is open
  vcpu,     \* the VMs whose VCPU descriptor is open
  run,      \* the VMs whose kvm_run page is mapped
  mapping,  \* mapping[x]: how the memory of x is mapped
  slots,    \* slots[x]: the memslots of x, records [region, addr, ro]
  copied,   \* the VMs that have their own copy of the page
  file,     \* the writer of the page in the snapshot file
  content   \* content[r]: the writer of region r

vars == <<capable, up, regions, stage, want, done, cur, live, vmfd, vcpu, run,
          mapping, slots, copied, file, content>>

host == <<capable, up, regions>>
kernel == <<vmfd, vcpu, run, mapping, slots>>
pages == <<copied, file, content>>

Snapshot == "snapshot"   \* the writer of the page when the template was saved
Host == "host"           \* the writer of a region before any guest runs
Stages == {"idle", "vm", "mem", "slot0", "shared", "run", "state"}

Elems(s) == {s[i] : i \in DOMAIN s}

(* The VMs of which something exists.                                      *)
Existing == vmfd \cup vcpu \cup run \cup {x \in VM : mapping[x] # "none"}

(* What the guest of x reads in the page.                                  *)
Page(x) == IF x \in copied THEN x ELSE file

-----------------------------------------------------------------------------
Init ==
  /\ capable \in BOOLEAN
  /\ up = TRUE /\ regions = <<>>
  /\ stage = "idle" /\ want = 0 /\ done = <<>> /\ cur = NoVM
  /\ live = {} /\ vmfd = {} /\ vcpu = {} /\ run = {} /\ copied = {}
  /\ mapping = [x \in VM |-> "none"]
  /\ slots = [x \in VM |-> <<>>]
  /\ file = Snapshot
  /\ content = [r \in Region |-> Host]

(* add_shared_region: pushed as it is, whatever its address and however    *)
(* many there are; the region moves in, so it is registered once.          *)
AddShared(r, a) ==
  /\ up /\ stage = "idle"
  /\ \A i \in DOMAIN regions : regions[i].region # r
  /\ regions' = Append(regions, [region |-> r, addr |-> a])
  /\ UNCHANGED <<capable, up, stage, want, done, cur, live, kernel, pages>>

(* fork_batch(n), and fork() as a batch of one.                            *)
ForkBatch(n) ==
  /\ up /\ stage = "idle"
  /\ stage' = "vm" /\ want' = n /\ done' = <<>>
  /\ UNCHANGED <<host, cur, live, kernel, pages>>

CreateVm(x) ==
  /\ stage = "vm"
  /\ x \notin Existing
  /\ cur' = x /\ vmfd' = vmfd \cup {x} /\ stage' = "mem"
  /\ UNCHANGED <<host, want, done, live, vcpu, run, mapping, slots, pages>>

(* Mutated: the memory file is mapped MAP_SHARED.                          *)
MapMemory_Shared ==
  /\ stage = "mem"
  /\ mapping' = [mapping EXCEPT ![cur] = "shared"]
  /\ stage' = "slot0"
  /\ UNCHANGED <<host, want, done, cur, live, vmfd, vcpu, run, slots, pages>>

(* The memory: MAP_PRIVATE over the memory file, or an anonymous copy of   *)
(* the snapshot; either way the guest's first write makes the page its own.*)
MapMemory ==
  /\ stage = "mem"
  /\ mapping' = [mapping EXCEPT ![cur] = "private"]
  /\ stage' = "slot0"
  /\ UNCHANGED <<host, want, done, cur, live, vmfd, vcpu, run, slots, pages>>

MapSlot0 ==
  /\ stage = "slot0"
  /\ slots' = [slots EXCEPT ![cur] =
                 <<[region |-> Snapshot, addr |-> LoadAddr, ro |-> FALSE]>>]
  /\ stage' = "shared"
  /\ UNCHANGED <<host, want, done, cur, live, vmfd, vcpu, run, mapping, pages>>

NextShared == Len(slots[cur])   \* the index in regions of the next to map

(* Mutated: the last slot offset is taken for free.                        *)
MaySlot_OffByOne == NextShared <= MaxShared + 1 /\ capable

(* What ept_map demands of the host and of the number of regions.          *)
MaySlot == NextShared <= MaxShared /\ capable

(* ept_map of the next region.  KVM refuses an address in use, and honours *)
(* KVM_MEM_READONLY only if the host has the capability.                   *)
MapShared ==
  /\ stage = "shared"
  /\ NextShared <= Len(regions)
  /\ MaySlot
  /\ \A i \in DOMAIN slots[cur] : slots[cur][i].addr # regions[NextShared].addr
  /\ slots' = [slots EXCEPT ![cur] =
                 Append(@, [region |-> regions[NextShared].region,
                            addr |-> regions[NextShared].addr,
                            ro |-> capable])]
  /\ UNCHANGED <<host, stage, want, done, cur, live, vmfd, vcpu, run, mapping,
                 pages>>

(* The loop over the regions has ended; the irqchip and the PIT, if asked  *)
(* for, and then the VCPU.                                                 *)
SharedDone == NextShared > Len(regions)

CreateVcpu ==
  /\ stage = "shared"
  /\ SharedDone
  /\ vcpu' = vcpu \cup {cur} /\ stage' = "run"
  /\ UNCHANGED <<host, want, done, cur, live, vmfd, run, mapping, slots, pages>>

MapRun ==
  /\ stage = "run"
  /\ run' = run \cup {cur} /\ stage' = "state"
  /\ UNCHANGED <<host, want, done, cur, live, vmfd, vcpu, mapping, slots, pages>>

(* CPUID and registers restored: the guard is disarmed, the ForkedVm       *)
(* built; the last of a batch makes fork_batch return them all.            *)
Restore ==
  /\ stage = "state"
  /\ LET all == Append(done, cur)
     IN IF Len(all) < want
        THEN /\ done' = all /\ stage' = "vm" /\ UNCHANGED <<want, live>>
        ELSE /\ live' = live \cup Elems(all)
             /\ done' = <<>> /\ stage' = "idle" /\ want' = 0
  /\ cur' = NoVM
  /\ UNCHANGED <<host, kernel, pages>>

(* ForkedVm::drop and the fields after it, for the VMs in S.               *)
Freed(S) ==
  /\ vmfd' = vmfd \ S /\ vcpu' = vcpu \ S /\ copied' = copied \ S
  /\ mapping' = [x \in VM |-> IF x \in S THEN "none" ELSE mapping[x]]
  /\ slots' = [x \in VM |-> IF x \in S THEN <<>> ELSE slots[x]]

(* Mutated: the memory is guarded only once the VCPU exists.               *)
ForkFails_LateGuard ==
  /\ stage # "idle"
  /\ LET S == Elems(done) \cup {cur}
         kept == {cur} \ vcpu
     IN /\ vmfd' = vmfd \ S /\ vcpu' = vcpu \ S /\ copied' = copied \ S
        /\ mapping' = [x \in VM |-> IF x \in S \ kept THEN "none" ELSE mapping[x]]
        /\ slots' = [x \in VM |-> IF x \in S THEN <<>> ELSE slots[x]]
  /\ run' = run \ Elems(done)
  /\ stage' = "idle" /\ want' = 0 /\ done' = <<>> /\ cur' = NoVM
  /\ UNCHANGED <<host, live, file, content>>

(* Mutated: a batch that fails returns what it has built so far.           *)
ForkFails_Partial ==
  /\ stage # "idle"
  /\ Freed({cur})
  /\ live' = live \cup Elems(done)
  /\ stage' = "idle" /\ want' = 0 /\ done' = <<>> /\ cur' = NoVM
  /\ UNCHANGED <<host, run, file, content>>

(* The step named by stage fails: `?` drops the guard of the memory and    *)
(* the descriptors of the VM under construction, but not its kvm_run page, *)
(* which only a ForkedVm unmaps; the VMs of the batch are dropped whole.   *)
ForkFails ==
  /\ stage # "idle"
  /\ Freed(Elems(done) \cup {cur})
  /\ run' = run \ Elems(done)
  /\ stage' = "idle" /\ want' = 0 /\ done' = <<>> /\ cur' = NoVM
  /\ UNCHANGED <<host, live, file, content>>

DropVm(x) ==
  /\ x \in live
  /\ live' = live \ {x} /\ run' = run \ {x}
  /\ Freed({x})
  /\ UNCHANGED <<host, stage, want, done, cur, file, content>>

(* The guest of x writes its page: the first write to a private mapping    *)
(* copies it, a write to a shared one reaches the file.                    *)
WritePage(x) ==
  /\ x \in live
  /\ IF mapping[x] = "private"
     THEN copied' = copied \cup {x} /\ UNCHANGED file
     ELSE file' = x /\ UNCHANGED copied
  /\ UNCHANGED <<host, stage, want, done, cur, live, kernel, content>>

(* The guest of x writes at the address of a region that is still mapped:  *)
(* a read-only slot stops it.                                              *)
WriteRegion(x, i) ==
  /\ x \in live
  /\ slots[x][i].region \in {regions[j].region : j \in DOMAIN regions}
  /\ content' = IF slots[x][i].ro THEN content
                ELSE [content EXCEPT ![slots[x][i].region] = x]
  /\ UNCHANGED <<host, stage, want, done, cur, live, kernel, copied, file>>

(* Dropping the engine unmaps its regions; a ForkedVm may outlive it.      *)
DropEngine ==
  /\ up /\ stage = "idle"
  /\ up' = FALSE /\ regions' = <<>>
  /\ UNCHANGED <<capable, stage, want, done, cur, live, kernel, pages>>

(* ForkEngine::new on the same snapshot.                                   *)
NewEngine ==
  /\ ~up
  /\ up' = TRUE
  /\ UNCHANGED <<capable, regions, stage, want, done, cur, live, kernel, pages>>

Next ==
  \/ \E r \in Region, a \in Addr : AddShared(r, a)
  \/ \E n \in 1..MaxBatch : ForkBatch(n)
  \/ \E x \in VM : CreateVm(x)
  \/ MapMemory
  \/ MapSlot0
  \/ MapShared
  \/ CreateVcpu
  \/ MapRun
  \/ Restore
  \/ ForkFails
  \/ \E x \in VM : DropVm(x)
  \/ \E x \in VM : WritePage(x)
  \/ \E x \in VM : \E i \in DOMAIN slots[x] : WriteRegion(x, i)
  \/ DropEngine
  \/ NewEngine

Spec == Init /\ [][Next]_vars

-----------------------------------------------------------------------------
Slot == [region : Region \cup {Snapshot}, addr : Addr \cup {LoadAddr}, ro : BOOLEAN]

(* Types, and the slot budget: no VM is given a slot past the last one     *)
(* ept_map allows, and a VM is under construction exactly in its stages.   *)
TypeOK ==
  /\ capable \in BOOLEAN /\ up \in BOOLEAN
  /\ regions \in Seq([region : Region, addr : Addr])
  /\ stage \in Stages /\ want \in 0..MaxBatch /\ done \in Seq(VM)
  /\ cur \in VM \cup {NoVM}
  /\ (cur = NoVM) = (stage \in {"idle", "vm"})
  /\ live \subseteq VM /\ vmfd \subseteq VM /\ vcpu \subseteq VM
  /\ run \subseteq VM /\ copied \subseteq VM
  /\ mapping \in [VM -> {"none", "private", "shared"}]
  /\ slots \in [VM -> Seq(Slot)]
  /\ \A x \in VM : Len(slots[x]) <= MaxShared + 1
  /\ file \in VM \cup {Snapshot}
  /\ content \in [Region -> VM \cup {Host}]

(* Of a VM that is neither owned by a caller nor under construction        *)
(* nothing remains but, if its fork failed in restoring the CPU state, the *)
(* kvm_run page: the guard and the drops give everything else back.        *)
OnlyRunLeaks ==
  \A x \in VM \ (live \cup Elems(done) \cup {cur}) :
    x \notin vmfd \cup vcpu \cup copied /\ mapping[x] = "none" /\ slots[x] = <<>>

(* What a guest reads in its memory is what the snapshot held or what it   *)
(* wrote itself, whatever the other forks of the snapshot did and in       *)
(* whatever order they were forked, written and dropped.                   *)
Isolated == \A x \in VM : mapping[x] # "none" => Page(x) \in {Snapshot, x}

(* No guest ever changes a shared region, on a host with the read-only     *)
(* capability or without it: the other VMs read the host's data.           *)
SharedKept == \A r \in Region : content[r] = Host

(* fork_batch hands over all the VMs it was asked for or none; each one    *)
(* has its own memory in slot 0 and, in order, every region registered.    *)
AllOrNone ==
  LET new == live' \ live
  IN /\ new # {} => Cardinality(new) = want
     /\ \A x \in new :
          /\ x \in vmfd \cap vcpu \cap run /\ mapping[x] # "none"
          /\ Len(slots[x]) = Len(regions) + 1
          /\ \A i \in DOMAIN regions : slots[x][i + 1].region = regions[i].region
BatchWhole == [][AllOrNone]_vars

=============================================================================
