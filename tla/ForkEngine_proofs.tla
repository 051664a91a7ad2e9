-------------------------- MODULE ForkEngine_proofs --------------------------
(***************************************************************************)
(* Proofs about ForkEngine, for every set of VMs, regions and addresses,   *)
(* every slot budget and every batch.  The invariant says of each VM how   *)
(* far its construction has come: what the kernel holds for it, and which  *)
(* slots it has.  A VM of a batch is whole before the next one is begun,   *)
(* so a failure has one half-built VM to give back, and the last step of a *)
(* batch has only whole ones to hand over.                                 *)
(***************************************************************************)
EXTENDS ForkEngine, FiniteSetTheorems, TLAPS

Assumptions == NumAssumption /\ NoVMAssumption /\ SnapshotAssumption

Distinct(s) == \A i, j \in DOMAIN s : s[i] = s[j] => i = j

(* The first k regions are mapped, in order, behind the memory.            *)
Mapped(x, k) ==
  /\ Len(slots[x]) = k + 1
  /\ \A i \in 1..k : slots[x][i + 1].region = regions[i].region

(* A VM the engine has finished.                                           *)
Whole(x) ==
  x \in vmfd \cap vcpu \cap run /\ mapping[x] = "private" /\ Mapped(x, Len(regions))

(* What the VM under construction has when its next step is stage.         *)
Construction ==
  /\ cur # NoVM => cur \in vmfd
  /\ stage \in {"slot0", "shared", "run", "state"} => mapping[cur] = "private"
  /\ stage = "shared" =>
       /\ Len(slots[cur]) \in 1..(Len(regions) + 1)
       /\ Mapped(cur, Len(slots[cur]) - 1)
  /\ stage \in {"run", "state"} => Mapped(cur, Len(regions)) /\ cur \in vcpu
  /\ stage = "state" => cur \in run

(* The batch: VMs of its own, all whole, and more to come.                 *)
Batch ==
  /\ Distinct(done)
  /\ live \cap Elems(done) = {} /\ cur \notin live \cup Elems(done)
  /\ \A x \in Elems(done) : Whole(x)
  /\ IF stage = "idle" THEN done = <<>> ELSE Len(done) < want

(* The file keeps the snapshot, as no VM maps it shared.                   *)
Memory ==
  /\ file = Snapshot
  /\ \A x \in VM : mapping[x] \in {"none", "private"}
  /\ \A x \in live : x \in vmfd /\ mapping[x] = "private"

(* Every slot but the memory's own is read-only.                           *)
ReadOnly ==
  /\ SharedKept
  /\ \A x \in VM : \A i \in DOMAIN slots[x] :
       slots[x][i].ro \/ slots[x][i].region = Snapshot

IInv ==
  TypeOK /\ OnlyRunLeaks /\ Construction /\ Batch /\ Memory /\ ReadOnly

-----------------------------------------------------------------------------
(* Facts about the sequences of VMs, regions and slots.                    *)

LEMMA AppendFacts ==
  ASSUME NEW S, NEW s \in Seq(S), NEW e \in S
  PROVE  /\ Append(s, e) \in Seq(S)
         /\ Len(s) \in Nat /\ Len(Append(s, e)) = Len(s) + 1
         /\ DOMAIN s = 1..Len(s) /\ DOMAIN Append(s, e) = 1..(Len(s) + 1)
         /\ \A i \in 1..Len(s) : Append(s, e)[i] = s[i]
         /\ Append(s, e)[Len(s) + 1] = e
         /\ Elems(Append(s, e)) = Elems(s) \cup {e}
  <1>1. /\ Append(s, e) \in Seq(S)
        /\ Len(s) \in Nat /\ Len(Append(s, e)) = Len(s) + 1
        /\ DOMAIN s = 1..Len(s) /\ DOMAIN Append(s, e) = 1..(Len(s) + 1)
        /\ \A i \in 1..Len(s) : Append(s, e)[i] = s[i]
        /\ Append(s, e)[Len(s) + 1] = e
    OBVIOUS
  <1>2. Elems(Append(s, e)) = Elems(s) \cup {e}
    <2>1. \A i \in 1..(Len(s) + 1) : i \in 1..Len(s) \/ i = Len(s) + 1
      BY <1>1
    <2>2. \A i \in 1..Len(s) : i \in 1..(Len(s) + 1)
      BY <1>1
    <2>3. Len(s) + 1 \in 1..(Len(s) + 1)
      BY <1>1
    <2> QED BY <1>1, <2>1, <2>2, <2>3 DEF Elems
  <1> QED BY <1>1, <1>2

LEMMA MemberFacts ==
  ASSUME NEW S, NEW s \in Seq(S), NEW i \in 1..Len(s)
  PROVE  s[i] \in S
  OBVIOUS

LEMMA EmptyFacts ==
  /\ \A S : <<>> \in Seq(S)
  /\ Len(<<>>) = 0
  /\ DOMAIN <<>> = {}
  /\ Elems(<<>>) = {}
  /\ Distinct(<<>>)
  BY DEF Elems, Distinct

(* A sequence without repetition has as many members as places.            *)
LEMMA DistinctCardinality ==
  ASSUME NEW S, NEW s \in Seq(S), Distinct(s)
  PROVE  Cardinality(Elems(s)) = Len(s)
  <1>1. Len(s) \in Nat /\ DOMAIN s = 1..Len(s)
    OBVIOUS
  <1>2. s \in Bijection(1..Len(s), Elems(s))
    BY <1>1 DEF Bijection, Injection, Surjection, IsInjective, Elems, Distinct
  <1>3. ExistsBijection(1..Len(s), Elems(s))
    BY <1>2 DEF ExistsBijection
  <1> QED BY <1>1, <1>3, FS_CountingElements

LEMMA DistinctAppend ==
  ASSUME NEW S, NEW s \in Seq(S), NEW e \in S, Distinct(s), e \notin Elems(s)
  PROVE  Distinct(Append(s, e))
  <1> DEFINE t == Append(s, e)
  <1> SUFFICES ASSUME NEW i \in 1..(Len(s) + 1), NEW j \in 1..(Len(s) + 1), t[i] = t[j]
               PROVE  i = j
    BY AppendFacts DEF Distinct
  <1>1. CASE i \in 1..Len(s) /\ j \in 1..Len(s)
    BY <1>1, AppendFacts DEF Distinct
  <1>2. CASE i \in 1..Len(s) /\ j = Len(s) + 1
    BY <1>2, AppendFacts DEF Elems
  <1>3. CASE i = Len(s) + 1 /\ j \in 1..Len(s)
    BY <1>3, AppendFacts DEF Elems
  <1> QED BY <1>1, <1>2, <1>3, AppendFacts

(* All that is mapped is a VM's own slots and the first regions, so a step *)
(* that leaves both alone leaves it mapped.                                *)
LEMMA MappedKept ==
  ASSUME NEW x, NEW k, Mapped(x, k), slots'[x] = slots[x], regions' = regions
  PROVE  Mapped(x, k)'
  BY DEF Mapped

-----------------------------------------------------------------------------
(* The steps, one by one.                                                  *)

LEMMA InitEstablishes == Assumptions /\ Init => IInv
  <1> SUFFICES ASSUME Assumptions, Init PROVE IInv
    OBVIOUS
  <1> USE EmptyFacts DEF Init
  <1>1. \A x \in VM : slots[x] = <<>> /\ DOMAIN slots[x] = {}
    OBVIOUS
  <1>2. slots \in [VM -> Seq(Slot)]
    OBVIOUS
  <1>3. TypeOK
    BY <1>1, <1>2 DEF TypeOK, Stages, Assumptions, NumAssumption
  <1>4. OnlyRunLeaks
    BY <1>1 DEF OnlyRunLeaks
  <1>5. Construction /\ Memory
    BY DEF Construction, Memory
  <1>6. Batch
    BY DEF Batch, Assumptions, NoVMAssumption
  <1>7. ReadOnly
    BY <1>1 DEF ReadOnly, SharedKept
  <1> QED BY <1>3, <1>4, <1>5, <1>6, <1>7 DEF IInv

LEMMA BatchIsVMs ==
  ASSUME TypeOK
  PROVE  Elems(done) \subseteq VM
  BY DEF TypeOK, Elems

(* Regions come and go between forks only, when no VM has yet to be given  *)
(* them all.                                                               *)
LEMMA BetweenForks ==
  ASSUME IInv, stage = "idle", UNCHANGED <<capable, stage, want, done, cur, live, kernel, pages>>,
         up' \in BOOLEAN, regions' \in Seq([region : Region, addr : Addr])
  PROVE  IInv'
  <1> USE DEF IInv, kernel, pages
  <1>1. cur = NoVM
    BY DEF TypeOK
  <1>2. TypeOK'
    BY DEF TypeOK
  <1>3. OnlyRunLeaks' /\ Memory' /\ ReadOnly'
    BY DEF OnlyRunLeaks, Memory, ReadOnly, SharedKept
  <1>4. Construction'
    BY <1>1 DEF Construction
  <1>5. Batch'
    BY EmptyFacts DEF Batch
  <1> QED BY <1>2, <1>3, <1>4, <1>5

LEMMA AddSharedKeeps ==
  ASSUME IInv, NEW r \in Region, NEW a \in Addr, AddShared(r, a)
  PROVE  IInv'
  <1>1. regions' \in Seq([region : Region, addr : Addr])
    BY DEF AddShared, IInv, TypeOK
  <1> QED BY <1>1, BetweenForks DEF AddShared, IInv, TypeOK

LEMMA DropEngineKeeps ==
  ASSUME IInv, DropEngine
  PROVE  IInv'
  BY BetweenForks, EmptyFacts DEF DropEngine

LEMMA NewEngineKeeps ==
  ASSUME IInv, NewEngine
  PROVE  IInv'
  BY DEF NewEngine, IInv, kernel, pages, TypeOK, OnlyRunLeaks, Construction, Batch,
         Memory, ReadOnly, SharedKept, Mapped, Whole

LEMMA ForkBatchKeeps ==
  ASSUME IInv, NEW n \in 1..MaxBatch, ForkBatch(n)
  PROVE  IInv'
  <1> USE EmptyFacts DEF IInv, ForkBatch, host, kernel, pages
  <1>1. done = <<>> /\ cur = NoVM
    BY DEF Batch, TypeOK
  <1>2. TypeOK'
    BY DEF TypeOK, Stages
  <1>3. OnlyRunLeaks' /\ Memory' /\ ReadOnly'
    BY <1>1 DEF OnlyRunLeaks, Memory, ReadOnly, SharedKept
  <1>4. Construction'
    BY <1>1 DEF Construction
  <1>5. Batch'
    BY <1>1 DEF Batch
  <1> QED BY <1>2, <1>3, <1>4, <1>5

(* A new VM is one of which nothing exists, so neither a caller nor the    *)
(* batch has it.                                                           *)
LEMMA CreateVmKeeps ==
  ASSUME Assumptions, IInv, NEW x \in VM, CreateVm(x)
  PROVE  IInv'
  <1> USE DEF IInv, CreateVm, host, pages
  <1>1. x \notin live \cup Elems(done) /\ x # NoVM /\ cur = NoVM
    BY DEF Existing, Memory, Batch, Whole, Assumptions, NoVMAssumption, TypeOK
  <1>2. TypeOK'
    BY <1>1 DEF TypeOK, Stages
  <1>3. OnlyRunLeaks'
    BY <1>1 DEF OnlyRunLeaks, Assumptions, NoVMAssumption
  <1>4. Memory' /\ ReadOnly'
    BY DEF Memory, ReadOnly, SharedKept
  <1>5. Construction'
    BY DEF Construction
  <1>6. Batch'
    BY <1>1 DEF Batch, Whole, Mapped
  <1> QED BY <1>2, <1>3, <1>4, <1>5, <1>6

LEMMA MapMemoryKeeps ==
  ASSUME Assumptions, IInv, MapMemory
  PROVE  IInv'
  <1> USE DEF IInv, MapMemory, host, pages
  <1>1. cur \in VM /\ cur \notin live \cup Elems(done)
    BY DEF TypeOK, Batch
  <1>2. TypeOK'
    BY <1>1 DEF TypeOK, Stages
  <1>3. OnlyRunLeaks'
    BY <1>1 DEF OnlyRunLeaks, TypeOK
  <1>4. Memory' /\ ReadOnly'
    BY <1>1 DEF Memory, ReadOnly, SharedKept, TypeOK
  <1>5. Construction'
    BY <1>1 DEF Construction, TypeOK
  <1>6. Batch'
    BY <1>1 DEF Batch, Whole, Mapped, TypeOK
  <1> QED BY <1>2, <1>3, <1>4, <1>5, <1>6

LEMMA MapSlot0Keeps ==
  ASSUME Assumptions, IInv, MapSlot0
  PROVE  IInv'
  <1> USE DEF IInv, MapSlot0, host, pages
  <1> DEFINE e == [region |-> Snapshot, addr |-> LoadAddr, ro |-> FALSE]
  <1>1. cur \in VM /\ cur \notin live \cup Elems(done)
    BY DEF TypeOK, Batch
  <1>2. e \in Slot
    BY DEF Slot
  <1>3. <<e>> \in Seq(Slot) /\ Len(<<e>>) = 1 /\ DOMAIN <<e>> = {1} /\ <<e>>[1] = e
    BY <1>2
  <1>4. slots'[cur] = <<e>> /\ \A x \in VM \ {cur} : slots'[x] = slots[x]
    BY <1>1 DEF TypeOK
  <1> HIDE DEF e
  <1>5. TypeOK'
    <2>1. slots' \in [VM -> Seq(Slot)]
      BY <1>1, <1>3 DEF TypeOK, e
    <2>2. \A x \in VM : Len(slots'[x]) <= MaxShared + 1
      BY <1>3, <1>4 DEF TypeOK, Assumptions, NumAssumption
    <2> QED BY <2>1, <2>2 DEF TypeOK, Stages
  <1>6. OnlyRunLeaks'
    BY <1>1, <1>4 DEF OnlyRunLeaks
  <1>7. Memory'
    BY DEF Memory
  <1>8. ReadOnly'
    BY <1>3, <1>4 DEF ReadOnly, SharedKept, e
  <1>9. Construction'
    <2>1. Len(regions) \in Nat
      BY DEF TypeOK
    <2>2. Len(slots'[cur]) = 1
      BY <1>3, <1>4
    <2>3. mapping[cur] = "private"
      BY DEF Construction
    <2>4. stage' = "shared" /\ UNCHANGED <<regions, mapping, cur, vmfd>> /\ cur \in vmfd
      BY <1>1 DEF Construction, TypeOK
    <2> HIDE DEF MapSlot0
    <2>5. Len(slots'[cur]) \in 1..(Len(regions) + 1) /\ Len(slots'[cur]) - 1 = 0
      BY <2>1, <2>2
    <2> QED BY <2>3, <2>4, <2>5 DEF Construction, Mapped
  <1>10. Batch'
    <2>1. \A x \in Elems(done) : Whole(x)'
      BY <1>1, <1>4, BatchIsVMs DEF Batch, Whole, Mapped
    <2> QED BY <2>1 DEF Batch
  <1> QED BY <1>5, <1>6, <1>7, <1>8, <1>9, <1>10

LEMMA MapSharedKeeps ==
  ASSUME Assumptions, IInv, MapShared
  PROVE  IInv'
  <1> USE DEF IInv
  <1> DEFINE k == Len(slots[cur])
             e == [region |-> regions[k].region, addr |-> regions[k].addr, ro |-> capable]
  <1>1. cur \in VM /\ cur \notin live \cup Elems(done)
    BY DEF MapShared, TypeOK, Batch
  <1>2. /\ slots[cur] \in Seq(Slot) /\ k \in Nat /\ k <= MaxShared /\ capable
        /\ Len(regions) \in Nat /\ k \in 1..Len(regions) /\ Mapped(cur, k - 1)
    BY <1>1 DEF MapShared, MaySlot, NextShared, TypeOK, Construction
  <1>3. e \in Slot /\ e.region = regions[k].region /\ e.ro
    <2>1. regions \in Seq([region : Region, addr : Addr]) /\ k \in 1..Len(regions)
      BY <1>2 DEF TypeOK
    <2> HIDE DEF k
    <2>2. regions[k] \in [region : Region, addr : Addr]
      BY <2>1, MemberFacts
    <2> QED BY <1>2, <2>2 DEF Slot
  <1>4. /\ slots'[cur] = Append(slots[cur], e)
        /\ \A x \in VM \ {cur} : slots'[x] = slots[x]
        /\ slots' = [slots EXCEPT ![cur] = Append(slots[cur], e)]
    BY <1>1 DEF MapShared, NextShared, TypeOK
  <1> HIDE DEF e
  <1>5. /\ slots'[cur] \in Seq(Slot) /\ Len(slots'[cur]) = k + 1
        /\ DOMAIN slots[cur] = 1..k /\ DOMAIN slots'[cur] = 1..(k + 1)
        /\ \A i \in 1..k : slots'[cur][i] = slots[cur][i]
        /\ slots'[cur][k + 1] = e
    BY <1>2, <1>3, <1>4, AppendFacts
  <1>6. UNCHANGED <<capable, up, regions, stage, want, done, cur, live, vmfd, vcpu,
                    run, mapping, copied, file, content>>
    BY DEF MapShared, host, pages
  <1>7. TypeOK'
    <2>1. slots' \in [VM -> Seq(Slot)]
      BY <1>1, <1>4, <1>5 DEF TypeOK
    <2>2. \A x \in VM : Len(slots'[x]) <= MaxShared + 1
      BY <1>2, <1>4, <1>5 DEF TypeOK, Assumptions, NumAssumption
    <2> QED BY <1>6, <2>1, <2>2 DEF TypeOK
  <1>8. OnlyRunLeaks'
    BY <1>1, <1>4, <1>6 DEF OnlyRunLeaks
  <1>9. Memory'
    BY <1>6 DEF Memory
  <1>10. ReadOnly'
    <2>1. ASSUME NEW x \in VM, NEW i \in DOMAIN slots'[x]
          PROVE  slots'[x][i].ro \/ slots'[x][i].region = Snapshot
      <3>1. CASE x # cur
        BY <1>4, <3>1 DEF ReadOnly
      <3>2. CASE x = cur /\ i \in 1..k
        BY <1>5, <3>2 DEF ReadOnly
      <3>3. CASE x = cur /\ i = k + 1
        BY <1>3, <1>5, <3>3
      <3> QED BY <1>2, <1>5, <3>1, <3>2, <3>3
    <2> QED BY <1>6, <2>1 DEF ReadOnly, SharedKept
  <1>11. Construction'
    <2>1. stage = "shared" /\ mapping[cur] = "private" /\ cur \in vmfd
      BY <1>1 DEF MapShared, Construction, TypeOK
    <2>2. Len(slots'[cur]) \in 1..(Len(regions) + 1) /\ Len(slots'[cur]) - 1 = k
      BY <1>2, <1>5
    <2>3. \A i \in 1..k : slots'[cur][i + 1].region = regions[i].region
      <3> TAKE i \in 1..k
      <3>1. CASE i = k
        BY <1>3, <1>5, <3>1
      <3>2. CASE i # k
        <4>1. i \in 1..(k - 1) /\ i + 1 \in 1..k
          BY <1>2, <3>2
        <4> QED BY <1>2, <1>5, <4>1 DEF Mapped
      <3> QED BY <3>1, <3>2
    <2> QED BY <1>6, <2>1, <2>2, <2>3 DEF Construction, Mapped
  <1>12. Batch'
    <2>1. \A x \in Elems(done) : Whole(x)'
      BY <1>1, <1>4, <1>6, BatchIsVMs DEF Batch, Whole, Mapped
    <2> QED BY <1>6, <2>1 DEF Batch
  <1> QED BY <1>7, <1>8, <1>9, <1>10, <1>11, <1>12

LEMMA CreateVcpuKeeps ==
  ASSUME IInv, CreateVcpu
  PROVE  IInv'
  <1> USE DEF IInv, CreateVcpu, host, pages
  <1>1. cur \in VM /\ cur \notin live \cup Elems(done)
    BY DEF TypeOK, Batch
  <1>2. TypeOK'
    BY <1>1 DEF TypeOK, Stages
  <1>3. OnlyRunLeaks' /\ Memory' /\ ReadOnly'
    BY <1>1 DEF OnlyRunLeaks, Memory, ReadOnly, SharedKept
  <1>4. Construction'
    <2>1. Len(slots[cur]) - 1 = Len(regions)
      BY <1>1 DEF SharedDone, NextShared, Construction, TypeOK
    <2> QED BY <2>1 DEF Construction, Mapped
  <1>5. Batch'
    BY DEF Batch, Whole, Mapped
  <1> QED BY <1>2, <1>3, <1>4, <1>5

LEMMA MapRunKeeps ==
  ASSUME IInv, MapRun
  PROVE  IInv'
  <1> USE DEF IInv, MapRun, host, pages
  <1>1. cur \in VM /\ cur \notin live \cup Elems(done)
    BY DEF TypeOK, Batch
  <1>2. TypeOK'
    BY <1>1 DEF TypeOK, Stages
  <1>3. OnlyRunLeaks' /\ Memory' /\ ReadOnly'
    BY <1>1 DEF OnlyRunLeaks, Memory, ReadOnly, SharedKept
  <1>4. Construction'
    BY DEF Construction, Mapped
  <1>5. Batch'
    BY DEF Batch, Whole, Mapped
  <1> QED BY <1>2, <1>3, <1>4, <1>5

(* The last step of a VM: it is whole, and so is all of its batch.         *)
LEMMA Finished ==
  ASSUME IInv, stage = "state"
  PROVE  LET all == Append(done, cur)
         IN /\ all \in Seq(VM) /\ Distinct(all)
            /\ Elems(all) = Elems(done) \cup {cur} /\ Len(all) = Len(done) + 1
            /\ Len(all) <= want
            /\ live \cap Elems(all) = {}
            /\ \A x \in Elems(all) : Whole(x)
  <1> USE DEF IInv
  <1>1. cur \in VM /\ cur \notin live \cup Elems(done) /\ done \in Seq(VM)
    BY DEF TypeOK, Batch
  <1>2. Whole(cur)
    BY DEF Construction, Whole, TypeOK
  <1>3. Distinct(Append(done, cur))
    BY <1>1, DistinctAppend DEF Batch
  <1>4. Len(done) + 1 <= want
    BY <1>1 DEF Batch, TypeOK
  <1> QED BY <1>1, <1>2, <1>3, <1>4, AppendFacts DEF Batch

LEMMA RestoreKeeps ==
  ASSUME Assumptions, IInv, Restore
  PROVE  IInv'
  <1> DEFINE all == Append(done, cur)
  <1> USE DEF IInv
  <1>1. /\ all \in Seq(VM) /\ Distinct(all)
        /\ Elems(all) = Elems(done) \cup {cur} /\ Elems(all) \subseteq VM
        /\ Len(all) \in Nat /\ Len(all) <= want
        /\ live \cap Elems(all) = {} /\ \A x \in Elems(all) : Whole(x)
    BY Finished DEF Restore, Elems
  <1>2. /\ stage = "state" /\ cur' = NoVM /\ NoVM \notin VM
        /\ UNCHANGED <<capable, up, regions, vmfd, vcpu, run, mapping, slots, copied,
                       file, content>>
    BY DEF Restore, host, kernel, pages, Assumptions, NoVMAssumption
  <1>3. CASE Len(all) < want
    <2>1. done' = all /\ stage' = "vm" /\ want' = want /\ live' = live
      BY <1>3 DEF Restore
    <2> HIDE DEF all
    <2>2. TypeOK'
      BY <1>1, <1>2, <2>1 DEF TypeOK, Stages
    <2>3. OnlyRunLeaks' /\ Memory' /\ ReadOnly'
      BY <1>1, <1>2, <2>1 DEF OnlyRunLeaks, Memory, ReadOnly, SharedKept
    <2>4. Construction'
      BY <1>2, <2>1 DEF Construction
    <2>5. \A x \in Elems(all) : Whole(x)'
      BY <1>1, <1>2 DEF Whole, Mapped
    <2>6. Batch'
      BY <1>1, <1>2, <1>3, <2>1, <2>5 DEF Batch, TypeOK
    <2> QED BY <2>2, <2>3, <2>4, <2>6
  <1>4. CASE ~(Len(all) < want)
    <2>1. done' = <<>> /\ stage' = "idle" /\ want' = 0 /\ live' = live \cup Elems(all)
      BY <1>4 DEF Restore
    <2> HIDE DEF all
    <2>2. done' \in Seq(VM) /\ want' \in 0..MaxBatch /\ live' \subseteq VM
      BY <1>1, <2>1, EmptyFacts DEF TypeOK, Assumptions, NumAssumption
    <2>3. (cur' = NoVM) = (stage' \in {"idle", "vm"})
      BY <1>2, <2>1
    <2>4. TypeOK'
      BY <1>2, <2>1, <2>2, <2>3 DEF TypeOK, Stages
    <2>5. OnlyRunLeaks' /\ ReadOnly'
      BY <1>1, <1>2, <2>1 DEF OnlyRunLeaks, ReadOnly, SharedKept
    <2>6. Memory'
      BY <1>1, <1>2, <2>1 DEF Memory, Whole
    <2>7. Construction'
      BY <1>2, <2>1 DEF Construction
    <2>8. Batch'
      BY <1>1, <1>2, <2>1, EmptyFacts DEF Batch, TypeOK
    <2> QED BY <2>4, <2>5, <2>6, <2>7, <2>8
  <1> QED BY <1>3, <1>4

(* What a fork that fails and a VM that is dropped give back.              *)
LEMMA FreedFacts ==
  ASSUME TypeOK, NEW S, Freed(S)
  PROVE  /\ vmfd' \subseteq VM /\ vcpu' \subseteq VM /\ copied' \subseteq VM
         /\ mapping' \in [VM -> {"none", "private", "shared"}]
         /\ slots' \in [VM -> Seq(Slot)]
         /\ \A x \in VM : slots'[x] = IF x \in S THEN <<>> ELSE slots[x]
         /\ \A x \in VM : mapping'[x] = IF x \in S THEN "none" ELSE mapping[x]
         /\ MaxShared \in Nat => \A x \in VM : Len(slots'[x]) <= MaxShared + 1
  <1> USE DEF Freed, TypeOK
  <1>1. vmfd' \subseteq VM /\ vcpu' \subseteq VM /\ copied' \subseteq VM
    OBVIOUS
  <1>2. mapping' \in [VM -> {"none", "private", "shared"}]
    OBVIOUS
  <1>3. \A x \in VM : slots'[x] = IF x \in S THEN <<>> ELSE slots[x]
    OBVIOUS
  <1>4. \A x \in VM : mapping'[x] = IF x \in S THEN "none" ELSE mapping[x]
    OBVIOUS
  <1>5. slots' \in [VM -> Seq(Slot)]
    BY EmptyFacts
  <1>6. MaxShared \in Nat => \A x \in VM : Len(slots'[x]) <= MaxShared + 1
    BY <1>3, EmptyFacts
  <1> QED BY <1>1, <1>2, <1>3, <1>4, <1>5, <1>6

(* Whatever step fails, the VMs of the batch go whole and the one under    *)
(* construction but for its kvm_run page; what callers own is not touched. *)
LEMMA ForkFailsKeeps ==
  ASSUME Assumptions, IInv, ForkFails
  PROVE  IInv'
  <1> DEFINE S == Elems(done) \cup {cur}
  <1> USE DEF IInv
  <1>1. /\ stage' = "idle" /\ want' = 0 /\ done' = <<>> /\ cur' = NoVM
        /\ run' = run \ Elems(done)
        /\ UNCHANGED <<capable, up, regions, live, file, content>>
    BY DEF ForkFails, host
  <1>2. /\ vmfd' \subseteq VM /\ vcpu' \subseteq VM /\ copied' \subseteq VM
        /\ mapping' \in [VM -> {"none", "private", "shared"}]
        /\ slots' \in [VM -> Seq(Slot)]
        /\ \A x \in VM : slots'[x] = IF x \in S THEN <<>> ELSE slots[x]
        /\ \A x \in VM : mapping'[x] = IF x \in S THEN "none" ELSE mapping[x]
        /\ \A x \in VM : Len(slots'[x]) <= MaxShared + 1
    BY FreedFacts DEF ForkFails, Assumptions, NumAssumption
  <1>3. vmfd' = vmfd \ S /\ vcpu' = vcpu \ S /\ copied' = copied \ S
    BY DEF ForkFails, Freed
  <1>4. live \cap S = {} /\ live \subseteq VM /\ NoVM \notin VM
    BY DEF Batch, TypeOK, Assumptions, NoVMAssumption
  <1> HIDE DEF S
  <1>5. TypeOK'
    BY <1>1, <1>2, EmptyFacts DEF TypeOK, Stages, Assumptions, NumAssumption
  <1>6. OnlyRunLeaks'
    BY <1>1, <1>2, <1>3, EmptyFacts DEF OnlyRunLeaks, S
  <1>7. Construction'
    BY <1>1 DEF Construction
  <1>8. Batch'
    BY <1>1, <1>4, EmptyFacts DEF Batch
  <1>9. Memory'
    BY <1>1, <1>2, <1>3, <1>4 DEF Memory
  <1>10. ReadOnly'
    BY <1>1, <1>2, EmptyFacts DEF ReadOnly, SharedKept
  <1> QED BY <1>5, <1>6, <1>7, <1>8, <1>9, <1>10

LEMMA DropVmKeeps ==
  ASSUME Assumptions, IInv, NEW x \in VM, DropVm(x)
  PROVE  IInv'
  <1> USE DEF IInv
  <1>1. /\ x \in live /\ live' = live \ {x} /\ run' = run \ {x}
        /\ UNCHANGED <<capable, up, regions, stage, want, done, cur, file, content>>
    BY DEF DropVm, host
  <1>2. /\ vmfd' \subseteq VM /\ vcpu' \subseteq VM /\ copied' \subseteq VM
        /\ mapping' \in [VM -> {"none", "private", "shared"}]
        /\ slots' \in [VM -> Seq(Slot)]
        /\ \A y \in VM : slots'[y] = IF y \in {x} THEN <<>> ELSE slots[y]
        /\ \A y \in VM : mapping'[y] = IF y \in {x} THEN "none" ELSE mapping[y]
        /\ \A y \in VM : Len(slots'[y]) <= MaxShared + 1
    BY FreedFacts DEF DropVm, Assumptions, NumAssumption
  <1>3. vmfd' = vmfd \ {x} /\ vcpu' = vcpu \ {x} /\ copied' = copied \ {x}
    BY DEF DropVm, Freed
  <1>4. cur # x /\ x \notin Elems(done) /\ Elems(done) \subseteq VM
    BY <1>1, BatchIsVMs DEF Batch
  <1>5. TypeOK'
    BY <1>1, <1>2 DEF TypeOK
  <1>6. OnlyRunLeaks'
    BY <1>1, <1>2, <1>3 DEF OnlyRunLeaks
  <1>7. Construction'
    BY <1>1, <1>2, <1>3, <1>4 DEF Construction, Mapped, TypeOK
  <1>8. Batch'
    <2>1. \A y \in Elems(done) : Whole(y)'
      BY <1>1, <1>2, <1>3, <1>4 DEF Batch, Whole, Mapped
    <2> QED BY <1>1, <2>1 DEF Batch
  <1>9. Memory'
    BY <1>1, <1>2, <1>3 DEF Memory, TypeOK
  <1>10. ReadOnly'
    BY <1>1, <1>2, EmptyFacts DEF ReadOnly, SharedKept
  <1> QED BY <1>5, <1>6, <1>7, <1>8, <1>9, <1>10

(* A private mapping is what a caller's VM has, so its first write copies. *)
LEMMA WritePageKeeps ==
  ASSUME IInv, NEW x \in VM, WritePage(x)
  PROVE  IInv'
  <1> USE DEF IInv, host, kernel
  <1>1. /\ x \in live /\ copied' = copied \cup {x}
        /\ UNCHANGED <<capable, up, regions, stage, want, done, cur, live, kernel, file,
                       content>>
    BY DEF WritePage, Memory
  <1>2. TypeOK' /\ Construction' /\ Batch' /\ Memory' /\ ReadOnly'
    BY <1>1 DEF TypeOK, Construction, Batch, Whole, Mapped, Memory, ReadOnly, SharedKept
  <1>3. OnlyRunLeaks'
    BY <1>1 DEF OnlyRunLeaks
  <1> QED BY <1>2, <1>3

(* Every slot of a region is read-only, so the guest's write is stopped.   *)
LEMMA WriteRegionKeeps ==
  ASSUME Assumptions, IInv, NEW x \in VM, NEW i \in DOMAIN slots[x], WriteRegion(x, i)
  PROVE  IInv'
  <1> USE DEF IInv
  <1>1. slots[x][i].region \in Region
    <2>1. regions \in Seq([region : Region, addr : Addr]) /\ DOMAIN regions = 1..Len(regions)
      BY DEF TypeOK
    <2>2. \A j \in DOMAIN regions : regions[j] \in [region : Region, addr : Addr]
      BY <2>1, MemberFacts
    <2> QED BY <2>2 DEF WriteRegion
  <1>2. slots[x][i].ro
    BY <1>1 DEF ReadOnly, Assumptions, SnapshotAssumption, Snapshot
  <1>3. UNCHANGED vars
    BY <1>2 DEF WriteRegion, vars, host, kernel
  <1> QED BY <1>3 DEF vars, TypeOK, OnlyRunLeaks, Construction, Batch, Whole, Mapped,
                      Memory, ReadOnly, SharedKept

LEMMA StepKeeps == Assumptions /\ IInv /\ [Next]_vars => IInv'
  <1> SUFFICES ASSUME Assumptions, IInv, [Next]_vars PROVE IInv'
    OBVIOUS
  <1>1. CASE UNCHANGED vars
    BY <1>1 DEF vars, IInv, TypeOK, OnlyRunLeaks, Construction, Batch, Whole, Mapped,
                Memory, ReadOnly, SharedKept
  <1> QED BY <1>1, AddSharedKeeps, ForkBatchKeeps, CreateVmKeeps, MapMemoryKeeps,
             MapSlot0Keeps, MapSharedKeeps, CreateVcpuKeeps, MapRunKeeps, RestoreKeeps,
             ForkFailsKeeps, DropVmKeeps, WritePageKeeps, WriteRegionKeeps,
             DropEngineKeeps, NewEngineKeeps DEF Next

-----------------------------------------------------------------------------
(* The results.                                                            *)

THEOREM Invariance == ASSUME Assumptions PROVE Spec => []IInv
  BY InitEstablishes, StepKeeps, PTL DEF Spec

(* The engine's books have the types fork.rs gives them, and no VM has     *)
(* more slots than KVM was asked to leave for shared regions.              *)
THEOREM TypeCorrect == ASSUME Assumptions PROVE Spec => []TypeOK
  <1>1. IInv => TypeOK
    BY DEF IInv
  <1> QED BY <1>1, Invariance, PTL

(* Nothing but a kvm_run page remains of a VM that nobody owns, whichever  *)
(* step of fork failed and however many VMs of its batch were done.        *)
THEOREM OnlyRunPagesLeak == ASSUME Assumptions PROVE Spec => []OnlyRunLeaks
  <1>1. IInv => OnlyRunLeaks
    BY DEF IInv
  <1> QED BY <1>1, Invariance, PTL

(* A guest reads what the snapshot held or what it wrote itself: no VM     *)
(* maps the memory file shared, so the file keeps the snapshot.            *)
THEOREM Isolation == ASSUME Assumptions PROVE Spec => []Isolated
  <1>1. IInv => Isolated
    BY DEF IInv, Memory, Isolated, Page
  <1> QED BY <1>1, Invariance, PTL

(* No guest changes a shared region: every slot behind the first is        *)
(* read-only, as ept_map refuses a host that cannot make it so.            *)
THEOREM SharedRegionsKept == ASSUME Assumptions PROVE Spec => []SharedKept
  <1>1. IInv => SharedKept
    BY DEF IInv, ReadOnly
  <1> QED BY <1>1, Invariance, PTL

(* fork_batch hands over as many VMs as it was asked for, or none; each of *)
(* them whole, with every region registered in its slots, in order.        *)
LEMMA StepHandsOverAll ==
  ASSUME Assumptions, IInv, [Next]_vars
  PROVE  AllOrNone
  <1> DEFINE new == live' \ live
             all == Append(done, cur)
  <1>1. CASE Restore
    <2>1. /\ all \in Seq(VM) /\ Distinct(all) /\ Len(all) <= want
          /\ live \cap Elems(all) = {} /\ \A x \in Elems(all) : Whole(x)
          /\ Len(all) \in Nat /\ want \in Nat
      BY <1>1, Finished DEF Restore, IInv, TypeOK
    <2>2. CASE Len(all) < want
      BY <1>1, <2>2 DEF Restore, AllOrNone
    <2>3. CASE ~(Len(all) < want)
      <3>1. live' = live \cup Elems(all)
        BY <1>1, <2>3 DEF Restore
      <3>2. new = Elems(all)
        BY <2>1, <3>1
      <3> HIDE DEF all, new
      <3>3. Cardinality(new) = want
        BY <2>1, <2>3, <3>2, DistinctCardinality
      <3>4. ASSUME NEW x \in new
            PROVE  /\ x \in vmfd \cap vcpu \cap run /\ mapping[x] # "none"
                   /\ Len(slots[x]) = Len(regions) + 1
                   /\ \A i \in DOMAIN regions :
                        slots[x][i + 1].region = regions[i].region
        <4>1. DOMAIN regions = 1..Len(regions)
          BY DEF IInv, TypeOK
        <4>2. Whole(x)
          BY <2>1, <3>2, <3>4
        <4> QED BY <4>1, <4>2 DEF Whole, Mapped
      <3> QED BY <3>3, <3>4 DEF AllOrNone, new
    <2> QED BY <2>2, <2>3
  <1>2. CASE ~Restore
    <2>1. live' \subseteq live
      BY <1>2 DEF Next, vars, AddShared, ForkBatch, CreateVm, MapMemory, MapSlot0,
                  MapShared, CreateVcpu, MapRun, ForkFails, DropVm, WritePage,
                  WriteRegion, DropEngine, NewEngine
    <2> QED BY <2>1 DEF AllOrNone
  <1> QED BY <1>1, <1>2

THEOREM BatchesWhole == ASSUME Assumptions PROVE Spec => BatchWhole
  <1>1. Assumptions /\ IInv /\ [Next]_vars => [AllOrNone]_vars
    BY StepHandsOverAll
  <1> QED BY <1>1, Invariance, PTL DEF Spec, BatchWhole

=============================================================================
