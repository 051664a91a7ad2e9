-------------------------- MODULE MCDevices_proofs --------------------------
(***************************************************************************)
(* Proofs about MCDevices, the composition that is model-checked: what is  *)
(* proved of a component in a module of its own is carried over, as a step *)
(* of the composition is a step of one part and a stutter of the others.   *)
(***************************************************************************)
EXTENDS MCDevices, FiniteSetTheorems, SequenceTheorems, WellFoundedInduction, TLAPS

Engine == INSTANCE ForkEngine_proofs WITH stage <- forking, live <- owned

-----------------------------------------------------------------------------
(* The fork engine                                                         *)

EngineInv == part = "engine" => Engine!IInv

LEMMA EngineAssumed == Engine!Assumptions
  BY Assumptions DEF Engine!Assumptions, Engine!NumAssumption, Engine!NoVMAssumption,
     Engine!SnapshotAssumption, Fork!NumAssumption, Fork!NoVMAssumption, Fork!SnapshotAssumption

LEMMA EngineInit == Init => EngineInv
  BY EngineAssumed, Engine!InitEstablishes DEF Init, EngineInv, Fork!Init, Engine!Init,
     Fork!Snapshot, Engine!Snapshot, Fork!Host, Engine!Host

(* The engine's steps are the same under either name.                      *)
LEMMA EngineSame == Fork!Next <=> Engine!Next
  BY DEF Fork!Next, Engine!Next, Fork!AddShared, Engine!AddShared,
     Fork!ForkBatch, Engine!ForkBatch, Fork!CreateVm, Engine!CreateVm,
     Fork!MapMemory, Engine!MapMemory, Fork!MapSlot0, Engine!MapSlot0,
     Fork!MapShared, Engine!MapShared, Fork!CreateVcpu, Engine!CreateVcpu,
     Fork!MapRun, Engine!MapRun, Fork!Restore, Engine!Restore,
     Fork!ForkFails, Engine!ForkFails, Fork!DropVm, Engine!DropVm,
     Fork!WritePage, Engine!WritePage, Fork!WriteRegion, Engine!WriteRegion,
     Fork!DropEngine, Engine!DropEngine, Fork!NewEngine, Engine!NewEngine,
     Fork!Existing, Engine!Existing, Fork!NextShared, Engine!NextShared,
     Fork!MaySlot, Engine!MaySlot, Fork!SharedDone, Engine!SharedDone,
     Fork!Elems, Engine!Elems, Fork!Freed, Engine!Freed, Fork!Snapshot,
     Engine!Snapshot, Fork!Host, Engine!Host, Fork!host, Engine!host,
     Fork!kernel, Engine!kernel, Fork!pages, Engine!pages

LEMMA EngineMoves ==
  ASSUME [Next]_vars, part' = "engine"
  PROVE  part = "engine" /\ [Engine!Next]_(Engine!vars)
  <1>1. part = "engine"
    BY DEF Next, vars
  <1> QED BY <1>1, EngineSame DEF Next, vars, engineVars, Engine!vars

LEMMA EngineStep == EngineInv /\ [Next]_vars => EngineInv'
  BY EngineMoves, EngineAssumed, Engine!StepKeeps DEF EngineInv

THEOREM EngineInvariance == Spec => []EngineInv
  BY EngineInit, EngineStep, PTL DEF Spec

(* A VM that nobody owns has left nothing but a kvm_run page, whichever    *)
(* step of ForkEngine::fork failed.                                        *)
THEOREM OnlyRunPagesLeak == Spec => []OnlyRunLeaks
  <1>1. EngineInv => OnlyRunLeaks
    BY DEF EngineInv, OnlyRunLeaks, Engine!IInv, Engine!OnlyRunLeaks, Fork!OnlyRunLeaks,
           Engine!Elems, Fork!Elems
  <1> QED BY <1>1, EngineInvariance, PTL

(* No VM reads what another wrote, and no guest changes a shared region    *)
(* (MAP_PRIVATE over the snapshot, ept_map's read-only slots).             *)
THEOREM Isolation == Spec => []Isolated
  <1>1. EngineInv => Isolated
    BY DEF EngineInv, Isolated, Engine!IInv, Engine!Memory, Engine!ReadOnly, Fork!Isolated,
           Fork!SharedKept, Engine!SharedKept, Fork!Page, Fork!Snapshot, Engine!Snapshot,
           Fork!Host, Engine!Host
  <1> QED BY <1>1, EngineInvariance, PTL

(* fork_batch hands over all the VMs it was asked for, each whole, or none. *)
THEOREM BatchesWhole == Spec => BatchWhole
  <1>1. EngineInv /\ [Next]_vars => [part = "engine" => Fork!AllOrNone]_vars
    <2> SUFFICES ASSUME EngineInv, [Next]_vars, part = "engine"
                 PROVE  Fork!AllOrNone
      OBVIOUS
    <2>1. part' = "engine"
      BY DEF Next, vars
    <2>2. Engine!AllOrNone
      BY <2>1, EngineMoves, EngineAssumed, Engine!StepHandsOverAll DEF EngineInv
    <2> QED BY <2>2 DEF Engine!AllOrNone, Fork!AllOrNone, Engine!Cardinality, Fork!Cardinality
  <1> QED BY <1>1, EngineInvariance, PTL DEF Spec, BatchWhole

-----------------------------------------------------------------------------
(***************************************************************************)
(* The PCI bus and the UART.  A write that begins at a writable byte is at *)
(* most four bytes long and reaches no bus number, so the numbers the root *)
(* port caches change with the registers.                                  *)
(***************************************************************************)
Octet == 0 .. 255

LEMMA BusAssumed ==
  /\ Dwords \subseteq 0 .. 60 /\ Byte \subseteq Octet
  /\ MaxWrites \in Nat /\ MaxCapture \in Nat
  BY Assumptions DEF Bus!PciBusAssumption, Octet

Cut(s, m) == SubSeq(s, 1, IF Len(s) < m THEN Len(s) ELSE m)

Console == serial = sent /\ sent \in Seq(Octet) /\ captured = Cut(sent, MaxCapture)

Registers ==
  /\ port \in [0 .. 63 -> Octet] /\ buses \in [Bus!BusNumbers -> Octet]
  /\ bar0 \in [1 .. 4 -> Octet] /\ gpu \in [0 .. 63 -> Octet]
  /\ divisor \in [1 .. 2 -> Octet] /\ ier \in Octet

BusInv == Bus!TypeOK /\ Bus!BusNumbersAgree /\ Console

LEMMA RegistersTyped == Bus!TypeOK =>
  Registers /\ target \in [f : Bus!Function, reg : Dwords \cup {0}] /\ writes \in 0 .. MaxWrites
  BY DEF Bus!TypeOK, Registers, Octet

LEMMA RegistersKept ==
  ASSUME Bus!TypeOK, Registers', loop' \in {"rom", "kernel"}, enabled' \in BOOLEAN,
         target' \in [f : Bus!Function, reg : Dwords \cup {0}], dlab' \in BOOLEAN,
         writes' \in 0 .. MaxWrites
  PROVE  Bus!TypeOK'
  BY DEF Bus!TypeOK, Registers, Octet

LEMMA ByteSequence ==
  ASSUME NEW n \in Nat, NEW S, NEW s \in [1 .. n -> S]
  PROVE  s \in Seq(S) /\ Len(s) = n
  OBVIOUS

LEMMA BytesOf ==
  ASSUME NEW S, NEW s \in Seq(S)
  PROVE  \A i \in 1 .. Len(s) : s[i] \in S
  OBVIOUS

LEMMA FourBytes ==
  ASSUME NEW S, NEW a \in S, NEW b \in S, NEW c \in S, NEW d \in S
  PROVE  <<a, b, c, d>> \in [1 .. 4 -> S]
  OBVIOUS

(* What the guest sends with one OUT.                                      *)
LEMMA SentBytes ==
  ASSUME NEW a \in Bus!Access, NEW b \in Byte
  PROVE  /\ a[1] \in 0 .. 3
         /\ [n \in 1 .. a[2] |-> b] \in Seq(Octet)
         /\ Len([n \in 1 .. a[2] |-> b]) \in 1 .. 4
  <1>1. a[2] \in 1 .. 4 /\ a[2] \in Nat /\ a[1] \in 0 .. 3
    BY DEF Bus!Access
  <1>2. b \in Octet
    BY BusAssumed
  <1>3. [n \in 1 .. a[2] |-> b] \in [1 .. a[2] -> Octet]
    BY <1>2
  <1> QED BY <1>1, <1>3, ByteSequence

LEMMA PokeKeeps ==
  ASSUME NEW cells \in [0 .. 63 -> Octet], NEW o \in Nat, NEW v \in Seq(Octet)
  PROVE  /\ Bus!Poke(cells, o, v) \in [0 .. 63 -> Octet]
         /\ \A x \in 0 .. 63 : x \notin o .. o + Len(v) - 1 => Bus!Poke(cells, o, v)[x] = cells[x]
  <1>1. \A x \in 0 .. 63 : x \in o .. o + Len(v) - 1 => v[x - o + 1] \in Octet
    <2> SUFFICES ASSUME NEW x \in 0 .. 63, x \in o .. o + Len(v) - 1
                 PROVE  v[x - o + 1] \in Octet
      OBVIOUS
    <2>1. Len(v) \in Nat
      OBVIOUS
    <2>2. x - o + 1 \in 1 .. Len(v)
      BY <2>1
    <2> QED BY <2>2, ElementOfSeq
  <1> QED BY <1>1 DEF Bus!Poke

LEMMA WritableApart ==
  \A x \in Bus!Writable : x \in Nat /\ x \notin {24, 25, 26} /\ (x < 24 => x <= 12)
  <1> DEFINE Fit(x) == x \in Nat /\ x \notin {24, 25, 26} /\ (x < 24 => x <= 12)
  <1>1. \A x \in {4, 5, 12} : Fit(x)
    OBVIOUS
  <1>2. \A x \in 27 .. 51 : Fit(x)
    OBVIOUS
  <1>3. \A x \in 56 .. 60 : Fit(x)
    OBVIOUS
  <1>4. \A x \in {62, 63} : Fit(x)
    OBVIOUS
  <1> HIDE DEF Fit
  <1>5. \A x \in Bus!Writable : Fit(x)
    BY <1>1, <1>2, <1>3, <1>4 DEF Bus!Writable
  <1> QED BY <1>5 DEF Fit

LEMMA WriteMisses ==
  ASSUME NEW o \in Bus!Writable, NEW n \in 1 .. 4
  PROVE  \A x \in {24, 25, 26} : x \in 0 .. 63 /\ x \notin o .. o + n - 1
  BY WritableApart

(* The root port, written with a whole value at once.                      *)
LEMMA PortWritten ==
  ASSUME Registers, Bus!BusNumbersAgree, NEW o \in Nat, NEW v \in Seq(Octet),
         NEW n \in 1 .. 4, Len(v) = n, Bus!PortWrite(o, v)
  PROVE  /\ port' \in [0 .. 63 -> Octet] /\ buses' \in [Bus!BusNumbers -> Octet]
         /\ Bus!BusNumbersAgree'
  <1>1. v[1] \in Octet
    BY BytesOf
  <1>2. port \in [0 .. 63 -> Octet] /\ buses \in [Bus!BusNumbers -> Octet]
    BY DEF Registers
  <1>3. CASE o \in Bus!BusNumbers
    <2>1. port' = [port EXCEPT ![o] = v[1]] /\ buses' = [buses EXCEPT ![o] = v[1]]
      <3>1. o \notin Bus!Writable
        BY <1>3, WritableApart DEF Bus!BusNumbers
      <3> QED BY <1>3, <3>1, Zenon DEF Bus!PortWrite
    <2>2. \A x \in Bus!BusNumbers : x \in 0 .. 63
      BY DEF Bus!BusNumbers
    <2>3. port' \in [0 .. 63 -> Octet] /\ buses' \in [Bus!BusNumbers -> Octet]
      BY <1>1, <1>2, <2>1
    <2>4. \A x \in Bus!BusNumbers : buses'[x] = port'[x]
      BY <1>1, <1>2, <1>3, <2>1, <2>2 DEF Bus!BusNumbersAgree
    <2> QED BY <2>3, <2>4 DEF Bus!BusNumbersAgree
  <1>4. CASE o \in Bus!Writable
    <2>1. o \notin Bus!BusNumbers
      BY <1>4, WritableApart DEF Bus!BusNumbers
    <2>2. port' = Bus!Poke(port, o, v) /\ buses' = buses
      BY <1>4, <2>1, Zenon DEF Bus!PortWrite
    <2>3. \A x \in {24, 25, 26} : x \in 0 .. 63 /\ x \notin o .. o + Len(v) - 1
      BY <1>4, WriteMisses
    <2>4. /\ Bus!Poke(port, o, v) \in [0 .. 63 -> Octet]
          /\ \A x \in 0 .. 63 : x \notin o .. o + Len(v) - 1 => Bus!Poke(port, o, v)[x] = port[x]
      BY <1>2, PokeKeeps
    <2>5. \A x \in {24, 25, 26} : port'[x] = port[x]
      BY <2>2, <2>3, <2>4, Zenon
    <2> QED BY <1>2, <2>2, <2>4, <2>5 DEF Bus!BusNumbersAgree, Bus!BusNumbers
  <1>5. CASE o \notin Bus!BusNumbers /\ o \notin Bus!Writable
    <2>1. port' = port /\ buses' = buses
      BY <1>5, Zenon DEF Bus!PortWrite
    <2> QED BY <1>2, <2>1 DEF Bus!BusNumbersAgree
  <1> QED BY <1>3, <1>4, <1>5

LEMMA BusInit == Bus!Init => BusInv
  <1> SUFFICES ASSUME Bus!Init PROVE BusInv
    OBVIOUS
  <1> USE DEF Bus!Init
  <1>1. Bus!Template \in [0 .. 63 -> 0 .. 255]
    BY DEF Bus!Template
  <1>2. \A o \in Bus!BusNumbers : o \in 0 .. 63
    BY DEF Bus!BusNumbers
  <1>3. port \in [0 .. 63 -> 0 .. 255] /\ buses \in [Bus!BusNumbers -> 0 .. 255]
    BY <1>1, <1>2
  <1>4. bar0 \in [1 .. 4 -> 0 .. 255] /\ divisor \in [1 .. 2 -> 0 .. 255]
    OBVIOUS
  <1>5. gpu \in [0 .. 63 -> 0 .. 255] /\ ier \in 0 .. 255 /\ writes \in 0 .. MaxWrites
    BY BusAssumed
  <1>6. Bus!TypeOK
    BY <1>3, <1>4, <1>5 DEF Bus!TypeOK, Bus!Function
  <1>7. Bus!BusNumbersAgree
    BY DEF Bus!BusNumbersAgree
  <1>8. Console
    <2>1. sent = <<>> /\ Len(sent) = 0 /\ sent \in Seq(Octet)
      OBVIOUS
    <2>2. (IF Len(sent) < MaxCapture THEN Len(sent) ELSE MaxCapture) = 0
      BY <2>1, BusAssumed
    <2>3. SubSeq(sent, 1, 0) = <<>>
      BY SubSeqEmpty
    <2> QED BY <2>1, <2>2, <2>3 DEF Console, Cut
  <1> QED BY <1>6, <1>7, <1>8 DEF BusInv

LEMMA BusSelects ==
  ASSUME BusInv, NEW f \in Bus!Function, NEW r \in Dwords, NEW on \in BOOLEAN,
         Bus!SelectRegister(f, r, on)
  PROVE  BusInv'
  <1>1. UNCHANGED <<loop, port, buses, bar0, gpu, dlab, divisor, ier, captured, serial, sent, writes>>
    BY DEF Bus!SelectRegister, Bus!config, Bus!uart
  <1>2. enabled' \in BOOLEAN /\ target' \in [f : Bus!Function, reg : Dwords \cup {0}]
    BY DEF Bus!SelectRegister
  <1> QED BY <1>1, <1>2 DEF BusInv, Bus!TypeOK, Bus!BusNumbersAgree, Console

LEMMA RegisterPlace ==
  ASSUME NEW r \in Dwords \cup {0}, NEW l \in 0 .. 3
  PROVE  r \in Nat /\ r + l \in Nat
  BY BusAssumed

LEMMA BusWrites ==
  ASSUME BusInv, NEW l \in 0 .. 3, NEW v \in Seq(Octet), NEW n \in 1 .. 4, Len(v) = n,
         Bus!Out(l, v)
  PROVE  BusInv'
  <1> DEFINE at == IF loop = "rom" THEN target.reg ELSE target.reg + l
  <1>1. \A i \in 1 .. n : v[i] \in Octet
    BY BytesOf
  <1>2. Registers /\ target.reg \in Dwords \cup {0} /\ writes \in 0 .. MaxWrites
    BY RegistersTyped DEF BusInv
  <1>3. at \in Nat
    BY <1>2, RegisterPlace, Zenon DEF at
  <1> HIDE DEF at
  <1>5. gpu' = gpu \/ gpu' = Bus!Poke(gpu, at, v)
    BY Zenon DEF Bus!Out, Bus!RomWrite, Bus!KernelWrite, at
  <1>6. Bus!PortWrite(at, v) \/ UNCHANGED <<port, buses>>
    BY Zenon DEF Bus!Out, Bus!RomWrite, Bus!KernelWrite, at
  <1>7. \/ bar0' = bar0
        \/ /\ Len(v) = 4
           /\ bar0' = <<bar0[1], ((v[2] \div 16) * 16) + (bar0[2] % 16), v[3], v[4]>>
    BY Zenon DEF Bus!Out, Bus!RomWrite, Bus!KernelWrite, Bus!NetWrite
  <1>8. /\ UNCHANGED <<loop, enabled, target, dlab, divisor, ier, captured, serial, sent>>
        /\ writes' \in 0 .. MaxWrites
    <2>1. writes < MaxWrites /\ writes' = writes + 1
          /\ UNCHANGED <<loop, enabled, target, dlab, divisor, ier, captured, serial, sent>>
      BY Zenon DEF Bus!Out, Bus!Write, Bus!address, Bus!uart
    <2> QED BY <1>2, <2>1, BusAssumed
  <1>9. gpu' \in [0 .. 63 -> Octet]
    <2>1. gpu \in [0 .. 63 -> Octet]
      BY <1>2 DEF Registers
    <2>2. Bus!Poke(gpu, at, v) \in [0 .. 63 -> Octet]
      BY <1>3, <2>1, PokeKeeps
    <2> QED BY <1>5, <2>1, <2>2
  <1>10. /\ port' \in [0 .. 63 -> Octet] /\ buses' \in [Bus!BusNumbers -> Octet]
         /\ Bus!BusNumbersAgree'
    <2>1. CASE Bus!PortWrite(at, v)
      BY <1>2, <1>3, <2>1, PortWritten DEF BusInv
    <2>2. CASE UNCHANGED <<port, buses>>
      BY <1>2, <2>2 DEF BusInv, Registers, Bus!BusNumbersAgree
    <2> QED BY <1>6, <2>1, <2>2
  <1>11. bar0' \in [1 .. 4 -> Octet]
    <2>1. bar0 \in [1 .. 4 -> Octet]
      BY <1>2 DEF Registers
    <2>2. CASE bar0' = bar0
      BY <2>1, <2>2
    <2>3. CASE /\ Len(v) = 4
               /\ bar0' = <<bar0[1], ((v[2] \div 16) * 16) + (bar0[2] % 16), v[3], v[4]>>
      <3>1. bar0[1] \in Octet /\ bar0[2] \in Octet
        BY <2>1
      <3>2. v[2] \in Octet /\ v[3] \in Octet /\ v[4] \in Octet
        BY <1>1, <2>3
      <3>3. \A x, y \in Octet : ((x \div 16) * 16) + (y % 16) \in Octet
        BY DEF Octet
      <3>4. ((v[2] \div 16) * 16) + (bar0[2] % 16) \in Octet
        BY <3>1, <3>2, <3>3, Zenon
      <3> QED BY <2>3, <3>1, <3>2, <3>4, FourBytes
    <2> QED BY <1>7, <2>2, <2>3
  <1>12. Registers'
    BY <1>2, <1>8, <1>9, <1>10, <1>11 DEF Registers
  <1>13. Bus!TypeOK'
    <2>1. target' \in [f : Bus!Function, reg : Dwords \cup {0}]
      BY <1>8, RegistersTyped DEF BusInv
    <2>2. loop' \in {"rom", "kernel"} /\ enabled' \in BOOLEAN /\ dlab' \in BOOLEAN
      BY <1>8 DEF BusInv, Bus!TypeOK
    <2> QED BY <1>8, <1>12, <2>1, <2>2, RegistersKept DEF BusInv
  <1>14. Console'
    BY <1>8 DEF BusInv, Console
  <1> QED BY <1>10, <1>13, <1>14 DEF BusInv

(* What is captured of a longer console.                                   *)
LEMMA Captures ==
  ASSUME NEW S, NEW s \in Seq(S), NEW b \in S, NEW m \in Nat
  PROVE  Cut(Append(s, b), m) = IF Len(Cut(s, m)) < m THEN Append(Cut(s, m), b) ELSE Cut(s, m)
  <1> DEFINE n == Len(s)
             t == Append(s, b)
  <1>1. n \in Nat /\ t \in Seq(S) /\ Len(t) = n + 1 /\ t[n + 1] = b
        /\ (\A i \in 1 .. n : t[i] = s[i] /\ s[i] \in S)
        /\ (\A i \in 1 .. n + 1 : t[i] \in S)
    <2>1. /\ t \in Seq(S) /\ Len(t) = n + 1 /\ t[n + 1] = b
          /\ \A i \in 1 .. n : t[i] = s[i]
      BY AppendProperties
    <2>2. n \in Nat /\ \A i \in 1 .. n : s[i] \in S
      BY LenProperties, BytesOf
    <2> HIDE DEF t
    <2>3. \A i \in 1 .. n + 1 : t[i] \in S
      BY <2>1, BytesOf
    <2> QED BY <2>1, <2>2, <2>3
  <1> HIDE DEF n, t
  <1>2. CASE n < m
    <2>1. SubSeq(s, 1, n) = s
      BY SubSeqProperties DEF n
    <2>2. SubSeq(t, 1, n + 1) = t
      BY <1>1, SubSeqProperties
    <2>3. (IF Len(t) < m THEN Len(t) ELSE m) = n + 1
      <3>1. Len(t) = n + 1 /\ n \in Nat
        BY <1>1
      <3>2. \A x, y \in Nat : x < y => (IF x + 1 < y THEN x + 1 ELSE y) = x + 1
        OBVIOUS
      <3> QED BY <1>2, <3>1, <3>2
    <2>4. (IF n < m THEN n ELSE m) = n
      BY <1>2
    <2>5. Cut(s, m) = s /\ Cut(t, m) = t
      BY <2>1, <2>2, <2>3, <2>4 DEF Cut, n
    <2> QED BY <1>2, <2>5 DEF n, t
  <1>3. CASE ~(n < m)
    <2>1. (IF Len(t) < m THEN Len(t) ELSE m) = m /\ (IF n < m THEN n ELSE m) = m /\ m <= n
      BY <1>1, <1>3
    <2>2. /\ SubSeq(s, 1, m) \in Seq(S) /\ Len(SubSeq(s, 1, m)) = m
          /\ \A i \in 1 .. m : SubSeq(s, 1, m)[i] = s[i]
      <3>1. \A i \in 1 .. m : s[i] \in S
        BY <1>1, <2>1
      <3> QED BY <3>1, SubSeqProperties
    <2>3. /\ SubSeq(t, 1, m) \in Seq(S) /\ Len(SubSeq(t, 1, m)) = m
          /\ \A i \in 1 .. m : SubSeq(t, 1, m)[i] = t[i]
      <3>1. \A i \in 1 .. m : t[i] \in S
        BY <1>1, <2>1
      <3> QED BY <3>1, SubSeqProperties
    <2>4. SubSeq(t, 1, m) = SubSeq(s, 1, m)
      BY <1>1, <2>1, <2>2, <2>3
    <2>5. Cut(t, m) = Cut(s, m) /\ Cut(s, m) = SubSeq(s, 1, m)
      BY <2>1, <2>4 DEF Cut, n
    <2>6. ~(Len(Cut(s, m)) < m)
      BY <2>2, <2>5
    <2> QED BY <2>5, <2>6 DEF t
  <1> QED BY <1>2, <1>3

(* The UART and the loop that begins anew.                                 *)
LEMMA BusTransmits ==
  ASSUME BusInv, NEW b \in Byte, Bus!UartData(b) \/ Bus!UartIer(b)
  PROVE  BusInv'
  <1>1. b \in Octet
    BY BusAssumed
  <1>2. Registers /\ writes \in 0 .. MaxWrites /\ Console
    BY RegistersTyped DEF BusInv
  <1>3. /\ UNCHANGED <<loop, enabled, target, port, buses, bar0, gpu, dlab>>
        /\ writes < MaxWrites /\ writes' = writes + 1
    BY Zenon DEF Bus!UartData, Bus!UartIer, Bus!Write, Bus!address, Bus!config
  <1>4. \/ /\ divisor' = [divisor EXCEPT ![1] = b] \/ divisor' = [divisor EXCEPT ![2] = b]
           /\ UNCHANGED <<ier, captured, serial, sent>>
        \/ /\ captured' = IF Len(captured) < MaxCapture THEN Append(captured, b) ELSE captured
           /\ serial' = Append(serial, b) /\ sent' = Append(sent, b)
           /\ UNCHANGED <<divisor, ier>>
        \/ ier' = b /\ UNCHANGED <<divisor, captured, serial, sent>>
    BY Zenon DEF Bus!UartData, Bus!UartIer, Bus!Transmit
  <1>5. divisor' \in [1 .. 2 -> Octet] /\ ier' \in Octet
    <2>1. divisor \in [1 .. 2 -> Octet] /\ ier \in Octet
      BY <1>2 DEF Registers
    <2>2. divisor' \in {divisor, [divisor EXCEPT ![1] = b], [divisor EXCEPT ![2] = b]}
          /\ ier' \in {ier, b}
      BY <1>4
    <2> QED BY <1>1, <2>1, <2>2
  <1>6. Registers'
    BY <1>2, <1>3, <1>5 DEF Registers
  <1>7. writes' \in 0 .. MaxWrites
    BY <1>2, <1>3, BusAssumed
  <1>8. Bus!TypeOK'
    BY <1>3, <1>6, <1>7, RegistersKept, RegistersTyped DEF BusInv, Bus!TypeOK
  <1>9. Bus!BusNumbersAgree'
    BY <1>3 DEF BusInv, Bus!BusNumbersAgree
  <1>10. Console'
    <2>1. CASE UNCHANGED <<captured, serial, sent>>
      BY <1>2, <2>1 DEF Console
    <2>2. CASE /\ captured' = IF Len(captured) < MaxCapture THEN Append(captured, b) ELSE captured
               /\ serial' = Append(serial, b) /\ sent' = Append(sent, b)
      <3>1. sent \in Seq(Octet) /\ captured = Cut(sent, MaxCapture) /\ serial = sent
        BY <1>2 DEF Console
      <3>2. captured' = Cut(sent', MaxCapture)
        BY <1>1, <2>2, <3>1, BusAssumed, Captures
      <3>3. sent' \in Seq(Octet) /\ serial' = sent'
        BY <1>1, <2>2, <3>1
      <3> QED BY <3>2, <3>3 DEF Console
    <2> QED BY <1>4, <2>1, <2>2
  <1> QED BY <1>8, <1>9, <1>10 DEF BusInv

LEMMA BusTurns ==
  ASSUME BusInv, Bus!NextLoop \/ \E on \in BOOLEAN : Bus!SetDlab(on)
  PROVE  BusInv'
  <1>1. /\ UNCHANGED <<port, buses, bar0, gpu>> /\ loop' \in {"rom", "kernel"}
        /\ enabled' \in BOOLEAN /\ dlab' \in BOOLEAN
        /\ target' \in [f : Bus!Function, reg : Dwords \cup {0}]
        /\ writes' = writes \/ (writes < MaxWrites /\ writes' = writes + 1)
        /\ \/ divisor' = <<1, 0>> /\ ier' = 0
           \/ UNCHANGED <<divisor, ier>>
        /\ \/ captured' = <<>> /\ serial' = <<>> /\ sent' = <<>>
           \/ UNCHANGED <<captured, serial, sent>>
    <2>1. CASE Bus!NextLoop
      BY <2>1 DEF Bus!NextLoop, Bus!config, Bus!Function
    <2>2. ASSUME NEW on \in BOOLEAN, Bus!SetDlab(on)
          PROVE  /\ UNCHANGED <<loop, enabled, target, port, buses, bar0, gpu, divisor, ier,
                                captured, serial, sent>>
                 /\ writes < MaxWrites /\ writes' = writes + 1 /\ dlab' \in BOOLEAN
      BY <2>2 DEF Bus!SetDlab, Bus!Write, Bus!address, Bus!config
    <2>3. /\ loop \in {"rom", "kernel"} /\ enabled \in BOOLEAN
          /\ target \in [f : Bus!Function, reg : Dwords \cup {0}]
      BY DEF BusInv, Bus!TypeOK
    <2> QED BY <2>1, <2>2, <2>3
  <1>2. Registers /\ writes \in 0 .. MaxWrites /\ Console
    BY RegistersTyped DEF BusInv
  <1>3. <<1, 0>> \in [1 .. 2 -> Octet] /\ 0 \in Octet
    BY DEF Octet
  <1>4. Registers'
    BY <1>1, <1>2, <1>3 DEF Registers
  <1>5. writes' \in 0 .. MaxWrites
    BY <1>1, <1>2, BusAssumed
  <1>6. Bus!TypeOK'
    BY <1>1, <1>4, <1>5, RegistersKept DEF BusInv
  <1>7. Bus!BusNumbersAgree'
    BY <1>1 DEF BusInv, Bus!BusNumbersAgree
  <1>8. Console'
    <2>1. <<>> \in Seq(Octet) /\ Cut(<<>>, MaxCapture) = <<>>
      <3>1. Len(<<>>) = 0
        OBVIOUS
      <3>2. (IF Len(<<>>) < MaxCapture THEN Len(<<>>) ELSE MaxCapture) = 0
        BY <3>1, BusAssumed
      <3>3. SubSeq(<<>>, 1, 0) = <<>>
        BY SubSeqEmpty
      <3> QED BY <3>2, <3>3 DEF Cut
    <2> QED BY <1>1, <1>2, <2>1 DEF Console
  <1> QED BY <1>6, <1>7, <1>8 DEF BusInv

LEMMA BusNext == BusInv /\ Bus!Next => BusInv'
  <1> SUFFICES ASSUME BusInv, Bus!Next PROVE BusInv'
    OBVIOUS
  <1>1. CASE \E f \in Bus!Function, r \in Dwords, on \in BOOLEAN : Bus!SelectRegister(f, r, on)
    BY <1>1, BusSelects
  <1>2. CASE \E a \in Bus!Access, b \in Byte : Bus!Out(a[1], [n \in 1 .. a[2] |-> b])
    <2>1. PICK a \in Bus!Access, b \in Byte : Bus!Out(a[1], [n \in 1 .. a[2] |-> b])
      BY <1>2
    <2> QED BY <2>1, SentBytes, BusWrites, Zenon
  <1>3. CASE \E b \in Byte : Bus!UartData(b) \/ Bus!UartIer(b)
    BY <1>3, BusTransmits
  <1>4. CASE Bus!NextLoop \/ \E on \in BOOLEAN : Bus!SetDlab(on)
    BY <1>4, BusTurns
  <1> QED BY <1>1, <1>2, <1>3, <1>4, Zenon DEF Bus!Next

LEMMA BusStutters == BusInv /\ UNCHANGED busVars => BusInv'
  <1> SUFFICES ASSUME BusInv, UNCHANGED busVars PROVE BusInv'
    OBVIOUS
  <1> USE DEF busVars
  <1>1. Bus!TypeOK'
    BY DEF BusInv, Bus!TypeOK
  <1>2. Bus!BusNumbersAgree' /\ Console'
    BY DEF BusInv, Bus!BusNumbersAgree, Console
  <1> QED BY <1>1, <1>2 DEF BusInv

(* A byte or word is the lane of the dword, whatever is in the registers.  *)
LEMMA LaneOf ==
  ASSUME NEW w \in Bus!Access, NEW d, NEW g
  PROVE  [n \in 1 .. w[2] |-> d[w[1] + n]]
         = SubSeq([n \in 1 .. 4 |-> d[n]], w[1] + 1, w[1] + w[2])
  <1> DEFINE all == [n \in 1 .. 4 |-> d[n]]
             l == w[1]
             z == w[2]
             S == {d[n] : n \in 1 .. 4}
  <1>1. l \in 0 .. 3 /\ z \in 1 .. 4 /\ l + z <= 4
    BY DEF Bus!Access
  <1>2. \A n \in 1 .. 4 : all[n] = d[n] /\ all[n] \in S
    OBVIOUS
  <1> HIDE DEF all, l, z, S
  <1> DEFINE m == l + 1
             k == l + z
  <1>3. m \in Int /\ k \in Int /\ m <= k /\ k - m + 1 = z /\ z \in Nat
        /\ (\A i \in m .. k : i \in 1 .. 4)
        /\ (\A i \in 1 .. z : m + i - 1 = l + i /\ l + i \in 1 .. 4)
    BY <1>1
  <1> HIDE DEF m, k
  <1>4. /\ SubSeq(all, m, k) \in Seq(S)
        /\ Len(SubSeq(all, m, k)) = IF m <= k THEN k - m + 1 ELSE 0
        /\ \A i \in 1 .. k - m + 1 : SubSeq(all, m, k)[i] = all[m + i - 1]
    <2>1. \A i \in m .. k : all[i] \in S
      BY <1>2, <1>3
    <2> QED BY <1>3, <2>1, SubSeqProperties
  <1>5. Len(SubSeq(all, m, k)) = z /\ \A i \in 1 .. z : SubSeq(all, m, k)[i] = all[m + i - 1]
    BY <1>3, <1>4
  <1>6. \A i \in 1 .. z : SubSeq(all, m, k)[i] = d[l + i]
    BY <1>2, <1>3, <1>5
  <1>7. SubSeq(all, m, k) \in [1 .. z -> S]
    BY <1>4, <1>5, LenProperties
  <1>8. SubSeq(all, m, k) = [n \in 1 .. z |-> d[l + n]]
    BY <1>6, <1>7
  <1> QED BY <1>8 DEF all, l, z, m, k

(* What the kernel reads of a function is a lane of what it reads with one *)
(* access to all four bytes.                                               *)
LEMMA LanesRight == Bus!LanesAgree
  <1> SUFFICES ASSUME NEW f \in Bus!Function, NEW r \in Dwords, NEW w \in Bus!Access
               PROVE  Bus!KernelRead(f, r, w[1], w[2])
                      = SubSeq(Bus!KernelRead(f, r, 0, 4), w[1] + 1, w[1] + w[2])
    BY Zenon DEF Bus!LanesAgree
  <1>1. r \in Nat /\ w[1] \in 0 .. 3 /\ w[2] \in 1 .. 4 /\ w[1] + w[2] <= 4
    BY BusAssumed DEF Bus!Access
  <1> DEFINE l == w[1]
             z == w[2]
  <1>2. ASSUME NEW d, Bus!KernelRead(f, r, l, z) = [n \in 1 .. z |-> d[l + n]],
               Bus!KernelRead(f, r, 0, 4) = [n \in 1 .. 4 |-> d[n]]
        PROVE  Bus!KernelRead(f, r, l, z) = SubSeq(Bus!KernelRead(f, r, 0, 4), l + 1, l + z)
    BY <1>2, LaneOf, Zenon
  <1> HIDE DEF l, z
  <1>3. l \in 0 .. 3 /\ z \in 1 .. 4 /\ l + z <= 4
    BY <1>1 DEF l, z
  <1>4. CASE f = "gpu"
    <2> DEFINE d == [n \in 1 .. 4 |-> gpu[r + n - 1]]
    <2>1. Bus!KernelRead(f, r, l, z) = [n \in 1 .. z |-> gpu[r + l + n - 1]]
          /\ Bus!KernelRead(f, r, 0, 4) = [n \in 1 .. 4 |-> gpu[r + 0 + n - 1]]
      BY <1>4 DEF Bus!KernelRead
    <2>2. \A n \in 1 .. z : d[l + n] = gpu[r + l + n - 1]
      <3>1. \A n \in 1 .. z : l + n \in 1 .. 4 /\ r + (l + n) - 1 = r + l + n - 1
        BY <1>1, <1>3
      <3> QED BY <3>1
    <2>3. \A n \in 1 .. 4 : d[n] = gpu[r + 0 + n - 1]
      <3>1. \A n \in 1 .. 4 : r + n - 1 = r + 0 + n - 1
        BY <1>1
      <3> QED BY <3>1
    <2> HIDE DEF d
    <2>4. Bus!KernelRead(f, r, l, z) = [n \in 1 .. z |-> d[l + n]]
          /\ Bus!KernelRead(f, r, 0, 4) = [n \in 1 .. 4 |-> d[n]]
      BY <2>1, <2>2, <2>3
    <2> QED BY <1>2, <2>4 DEF l, z
  <1>5. CASE f = "port"
    <2> DEFINE e(o) == IF o \in DOMAIN port THEN port[o] ELSE 0
               d == [n \in 1 .. 4 |-> e(r + n - 1)]
    <2>1. Bus!KernelRead(f, r, l, z) = [n \in 1 .. z |-> e(r + l + n - 1)]
          /\ Bus!KernelRead(f, r, 0, 4) = [n \in 1 .. 4 |-> e(r + 0 + n - 1)]
      BY <1>5 DEF Bus!KernelRead, Bus!PortRead
    <2> HIDE DEF e
    <2>2. \A n \in 1 .. z : d[l + n] = e(r + l + n - 1)
      <3>1. \A n \in 1 .. z : l + n \in 1 .. 4 /\ r + (l + n) - 1 = r + l + n - 1
        BY <1>1, <1>3
      <3> QED BY <3>1
    <2>3. \A n \in 1 .. 4 : d[n] = e(r + 0 + n - 1)
      <3>1. \A n \in 1 .. 4 : r + n - 1 = r + 0 + n - 1
        BY <1>1
      <3> QED BY <3>1
    <2> HIDE DEF d
    <2>4. Bus!KernelRead(f, r, l, z) = [n \in 1 .. z |-> d[l + n]]
          /\ Bus!KernelRead(f, r, 0, 4) = [n \in 1 .. 4 |-> d[n]]
      BY <2>1, <2>2, <2>3
    <2> QED BY <1>2, <2>4 DEF l, z
  <1>6. CASE f = "none"
    <2> DEFINE d == [n \in 1 .. 4 |-> 255]
    <2>1. Bus!KernelRead(f, r, l, z) = [n \in 1 .. z |-> 255]
          /\ Bus!KernelRead(f, r, 0, 4) = [n \in 1 .. 4 |-> 255]
      BY <1>6 DEF Bus!KernelRead, Bus!Ones
    <2>2. \A n \in 1 .. z : d[l + n] = 255
      <3>1. \A n \in 1 .. z : l + n \in 1 .. 4
        BY <1>3
      <3> QED BY <3>1
    <2>3. \A n \in 1 .. 4 : d[n] = 255
      OBVIOUS
    <2> HIDE DEF d
    <2>4. Bus!KernelRead(f, r, l, z) = [n \in 1 .. z |-> d[l + n]]
          /\ Bus!KernelRead(f, r, 0, 4) = [n \in 1 .. 4 |-> d[n]]
      BY <2>1, <2>2, <2>3
    <2> QED BY <1>2, <2>4 DEF l, z
  <1>7. CASE f \notin {"gpu", "port", "none"}
    <2> DEFINE d == Bus!Fixed(f, r)
    <2>1. Bus!KernelRead(f, r, l, z) = [n \in 1 .. z |-> IF l + n <= 4 THEN d[l + n] ELSE 0]
          /\ Bus!KernelRead(f, r, 0, 4) = [n \in 1 .. 4 |-> IF 0 + n <= 4 THEN d[0 + n] ELSE 0]
      BY <1>7 DEF Bus!KernelRead, Bus!Dword
    <2> HIDE DEF d
    <2>2. \A n \in 1 .. z : l + n <= 4
      BY <1>3
    <2>3. \A n \in 1 .. 4 : 0 + n <= 4 /\ 0 + n = n
      OBVIOUS
    <2>4. Bus!KernelRead(f, r, l, z) = [n \in 1 .. z |-> d[l + n]]
          /\ Bus!KernelRead(f, r, 0, 4) = [n \in 1 .. 4 |-> d[n]]
      BY <2>1, <2>2, <2>3
    <2> QED BY <1>2, <2>4 DEF l, z
  <1> QED BY <1>4, <1>5, <1>6, <1>7 DEF l, z

LEMMA BusSoundness == BusInv => Bus!LanesAgree /\ Bus!BusNumbersAgree /\ Bus!ConsoleFaithful
  BY LanesRight, Zenon DEF BusInv, Console, Cut, Bus!ConsoleFaithful

BusPart == part = "bus" => BusInv

LEMMA BusPartInit == Init => BusPart
  BY BusInit DEF Init, BusPart

LEMMA BusPartStep == BusPart /\ [Next]_vars => BusPart'
  <1> SUFFICES ASSUME BusPart, [Next]_vars, part' = "bus" PROVE BusInv'
    BY DEF BusPart
  <1>1. part = "bus" /\ (Bus!Next \/ UNCHANGED busVars)
    BY DEF Next, vars
  <1> QED BY <1>1, BusNext, BusStutters DEF BusPart

THEOREM BusInvariance == Spec => []BusPart
  BY BusPartInit, BusPartStep, PTL DEF Spec

(* Reads by byte and word are lanes of the dword, the root port's cached   *)
(* bus numbers are those of its registers, and the console that was        *)
(* captured is what the guest sent.                                        *)
THEOREM BusIsFaithful == Spec => []BusFaithful
  <1>1. BusPart => BusFaithful
    BY BusSoundness DEF BusPart, BusFaithful
  <1> QED BY <1>1, BusInvariance, PTL

-----------------------------------------------------------------------------
(***************************************************************************)
(* The VFIO session.  Outside an open session the GPU is quiet unless a    *)
(* call failed, and a VM that is being given one has the routing table of  *)
(* a new VM; so MSI that is marked as set up was either set up in this     *)
(* session, or not at all since the last one.                              *)
(***************************************************************************)
Opening == {"probed", "container", "group", "iommu", "device", "ready"}

DevType == [intx : BOOLEAN, msi : BOOLEAN, trigger : SUBSET Vectors, dirty : BOOLEAN]
Gsis == Gpu!Default \cup {Gpu!Gsi(v) : v \in Vectors}
KvmType == [routes : SUBSET Gsis, irqfds : SUBSET Gsis]

SessionTypes ==
  /\ session \in Opening \cup {"none", "open"}
  /\ fds \subseteq Gpu!Closed /\ events \subseteq Vectors
  /\ dev \in DevType
  /\ kvm \in KvmType
  /\ faults \in 0 .. MaxFaults

ConfigTypes == config \in Regions \cup {Gpu!NoRegion}

DescriptorsClosed ==
  /\ events # {} => refused
  /\ session = "none" => fds = {}

QuietOutside ==
  session # "open" => (dev.dirty \/ dev.trigger # {} => faults > 0)

FreshTable ==
  session \in Opening => kvm = Gpu!FreshKvm

Wired ==
  /\ dev.trigger = Vectors
  /\ \A v \in Vectors : Gpu!Gsi(v) \in kvm.irqfds \cap kvm.routes
  /\ Gpu!Default \subseteq kvm.routes

MsiRight ==
  session = "open" /\ faults = 0 /\ config = Gpu!ConfigRegion =>
     IF msi THEN Wired \/ (dev.trigger = {} /\ kvm.routes = Gpu!Default)
     ELSE dev.trigger = {} /\ kvm.routes = Gpu!Default

ConfigRight ==
  session \in {"ready", "open"} /\ looks[Gpu!ConfigRegion] = "ours" /\ faults = 0
     => config = Gpu!ConfigRegion

SessionInv ==
  SessionTypes /\ ConfigTypes /\ DescriptorsClosed /\ QuietOutside /\ FreshTable /\ MsiRight
    /\ ConfigRight

LEMMA SessionAssumed ==
  /\ Pins \in Nat /\ IntxGsi \in 0 .. Pins - 1 /\ MaxFaults \in Nat
  /\ {Gpu!ConfigRegion, Gpu!VgaRegion} \subseteq Regions /\ Regions \subseteq 0 .. 7
  /\ Vectors \subseteq Nat
  /\ Gpu!Cardinality(Vectors) \in Nat /\ Vectors = 0 .. Gpu!Cardinality(Vectors) - 1
  <1>1. Gpu!Cardinality(Vectors) = Cardinality(Vectors)
    BY Zenon DEF Gpu!Cardinality, Cardinality
  <1>2. Gpu!IsFiniteSet(Vectors) = IsFiniteSet(Vectors)
    BY Zenon DEF Gpu!IsFiniteSet, IsFiniteSet
  <1>3. IsFiniteSet(Vectors) /\ Vectors = 0 .. Gpu!Cardinality(Vectors) - 1
    BY <1>2, Assumptions DEF Gpu!SessionAssumption
  <1>4. Gpu!Cardinality(Vectors) \in Nat /\ Vectors \subseteq Nat
    BY <1>1, <1>3, FS_CardinalityType
  <1> QED BY <1>3, <1>4, Assumptions DEF Gpu!SessionAssumption

LEMMA FaultCounted ==
  ASSUME faults \in 0 .. MaxFaults, Gpu!Works \/ Gpu!Fails
  PROVE  faults' \in 0 .. MaxFaults /\ (faults' = 0 => faults = 0) /\ (faults > 0 => faults' > 0)
  BY SessionAssumed DEF Gpu!Works, Gpu!Fails

LEMMA DeviceQuiet ==
  /\ Gpu!QuietDev \in DevType /\ ~Gpu!QuietDev.dirty /\ Gpu!QuietDev.trigger = {}
  /\ Gpu!FreshKvm \in KvmType /\ Gpu!FreshKvm.routes = Gpu!Default
  BY DEF Gpu!QuietDev, DevType, Gpu!FreshKvm, KvmType, Gsis

(* What may be done to a device and to a VM's interrupts.                  *)
LEMMA DeviceMoves ==
  /\ \A d \in DevType, on \in BOOLEAN :
        LET a == [d EXCEPT !.intx = FALSE, !.msi = FALSE, !.trigger = {}]
            b == [d EXCEPT !.dirty = TRUE, !.msi = on]
            c == [d EXCEPT !.intx = TRUE]
        IN /\ a \in DevType /\ a.trigger = {}
           /\ b \in DevType /\ b.trigger = d.trigger
           /\ c \in DevType /\ c.trigger = d.trigger
  /\ \A k \in KvmType :
        /\ Gpu!DeassignIrqfds(k) \in KvmType
        /\ [k EXCEPT !.irqfds = @ \cup {IntxGsi}] \in KvmType
        /\ [k EXCEPT !.irqfds = @ \cup {IntxGsi}].routes = k.routes
  <1>1. IntxGsi \in Gsis
    BY SessionAssumed DEF Gsis, Gpu!Default
  <1> QED BY <1>1 DEF DevType, KvmType, Gpu!DeassignIrqfds

(* The smallest of some regions.                                           *)
LEMMA LeastRegion ==
  ASSUME NEW T \in SUBSET (0 .. 7), T # {}
  PROVE  (CHOOSE r \in T : \A q \in T : r <= q) \in T
  <1>1. \E r \in T : \A q \in T : r <= q
    <2>1. CASE 0 \in T
      BY <2>1
    <2>2. CASE 0 \notin T /\ 1 \in T
      <3>1. \A q \in T : 1 <= q
        BY <2>2
      <3> QED BY <2>2, <3>1
    <2>3. CASE {0, 1} \cap T = {} /\ 2 \in T
      <3>1. \A q \in T : 2 <= q
        BY <2>3
      <3> QED BY <2>3, <3>1
    <2>4. CASE {0, 1, 2} \cap T = {} /\ 3 \in T
      <3>1. \A q \in T : 3 <= q
        BY <2>4
      <3> QED BY <2>4, <3>1
    <2>5. CASE {0, 1, 2, 3} \cap T = {} /\ 4 \in T
      <3>1. \A q \in T : 4 <= q
        BY <2>5
      <3> QED BY <2>5, <3>1
    <2>6. CASE {0, 1, 2, 3, 4} \cap T = {} /\ 5 \in T
      <3>1. \A q \in T : 5 <= q
        BY <2>6
      <3> QED BY <2>6, <3>1
    <2>7. CASE {0, 1, 2, 3, 4, 5} \cap T = {} /\ 6 \in T
      <3>1. \A q \in T : 6 <= q
        BY <2>7
      <3> QED BY <2>7, <3>1
    <2>8. CASE {0, 1, 2, 3, 4, 5, 6} \cap T = {}
      <3>1. \A q \in T : q = 7
        BY <2>8
      <3>2. PICK q \in T : TRUE
        OBVIOUS
      <3>3. q = 7 /\ \A x \in T : 7 <= x
        BY <3>1, <3>2
      <3> QED BY <3>3
    <2> QED BY <2>1, <2>2, <2>3, <2>4, <2>5, <2>6, <2>7, <2>8
  <1> QED BY <1>1

(* What find_config_region finds is a region, and the real config region   *)
(* when that looks like the device.                                        *)
LEMMA ConfigFound ==
  ASSUME NEW found \in SUBSET Regions
  PROVE  /\ Gpu!FindConfigRegion(found) \in Regions \cup {Gpu!NoRegion}
         /\ Gpu!ConfigRegion \in found /\ looks[Gpu!ConfigRegion] = "ours"
              => Gpu!FindConfigRegion(found) = Gpu!ConfigRegion
  <1> DEFINE fit == {r \in found : Gpu!Passes(r)}
             low == fit \cap {Gpu!ConfigRegion, Gpu!VgaRegion}
             first(s) == CHOOSE r \in s : \A q \in s : r <= q
  <1>0. fit \in SUBSET (0 .. 7) /\ fit \in SUBSET Regions /\ low \in SUBSET (0 .. 7) /\ low \in SUBSET Regions
    BY SessionAssumed
  <1>1. Gpu!FindConfigRegion(found) = IF low # {} THEN first(low)
                                      ELSE IF fit # {} THEN first(fit) ELSE Gpu!NoRegion
    BY DEF Gpu!FindConfigRegion
  <1>2. low # {} => first(low) \in Regions
    BY <1>0, LeastRegion
  <1>3. fit # {} => first(fit) \in Regions
    BY <1>0, LeastRegion
  <1>4. Gpu!FindConfigRegion(found) \in Regions \cup {Gpu!NoRegion}
    BY <1>1, <1>2, <1>3
  <1>5. ASSUME Gpu!ConfigRegion \in found, looks[Gpu!ConfigRegion] = "ours"
        PROVE  Gpu!FindConfigRegion(found) = Gpu!ConfigRegion
    <2>1. 6 \in low /\ low \subseteq {6, 7}
      BY <1>5 DEF Gpu!Passes, Gpu!ConfigRegion, Gpu!VgaRegion
    <2> HIDE DEF low, fit
    <2>2. \A q \in low : 6 <= q
      BY <2>1
    <2>3. \A r \in low : (\A q \in low : r <= q) => r = 6
      BY <2>1
    <2>4. first(low) = 6
      BY <2>1, <2>2, <2>3
    <2> QED BY <1>1, <2>1, <2>4 DEF Gpu!ConfigRegion
  <1> QED BY <1>4, <1>5

LEMMA SessionInit == Gpu!Init => SessionInv
  <1> SUFFICES ASSUME Gpu!Init PROVE SessionInv
    OBVIOUS
  <1> USE DeviceQuiet DEF Gpu!Init
  <1>1. SessionTypes
    <2>1. 0 \in 0 .. MaxFaults
      BY SessionAssumed
    <2> QED BY <2>1 DEF SessionTypes
  <1>2. ConfigTypes /\ DescriptorsClosed /\ QuietOutside
    BY DEF ConfigTypes, DescriptorsClosed, QuietOutside
  <1>3. FreshTable /\ MsiRight /\ ConfigRight
    BY DEF FreshTable, MsiRight, ConfigRight, Opening
  <1> QED BY <1>1, <1>2, <1>3 DEF SessionInv

(* Opening a session: what init holds, and what it returns early with.     *)
LEMMA SessionOpens ==
  SessionInv /\ (Gpu!Probe \/ Gpu!InitFails \/ Gpu!OpenContainer \/ Gpu!OpenGroup
                 \/ Gpu!SetIommu \/ Gpu!GetDevice \/ Gpu!RegisterWithKvm) => SessionInv'
  <1> SUFFICES ASSUME SessionInv,
                      Gpu!Probe \/ Gpu!InitFails \/ Gpu!OpenContainer \/ Gpu!OpenGroup
                        \/ Gpu!SetIommu \/ Gpu!GetDevice \/ Gpu!RegisterWithKvm
               PROVE  SessionInv'
    OBVIOUS
  <1> USE SessionAssumed
      DEF SessionInv, Opening, Gpu!Probe, Gpu!InitFails, Gpu!OpenContainer, Gpu!OpenGroup,
          Gpu!SetIommu, Gpu!GetDevice, Gpu!RegisterWithKvm, Gpu!Step, Gpu!Works, Gpu!Fails
  <1>1. faults' \in 0 .. MaxFaults /\ (faults' = 0 => faults = 0) /\ (faults > 0 => faults' > 0)
    BY FaultCounted DEF SessionTypes
  <1>2. dev' = dev \/ dev' = Gpu!QuietDev
    OBVIOUS
  <1>3. kvm' = kvm \/ kvm' = Gpu!FreshKvm
    OBVIOUS
  <1>4. SessionTypes'
    <2>1. fds' \subseteq Gpu!Closed
      BY DEF SessionTypes, Gpu!Closed
    <2>2. dev' \in DevType
      BY <1>2, DeviceQuiet DEF SessionTypes
    <2>3. kvm' \in KvmType
      BY <1>3, DeviceQuiet DEF SessionTypes
    <2>4. session' \in Opening \cup {"none", "open"} /\ events' = events
      OBVIOUS
    <2> QED BY <1>1, <2>1, <2>2, <2>3, <2>4 DEF SessionTypes
  <1>5. ConfigTypes'
    BY DEF ConfigTypes
  <1>6. DescriptorsClosed'
    BY DEF DescriptorsClosed, SessionTypes, Gpu!Closed
  <1>7. QuietOutside'
    BY <1>1, <1>2, DeviceQuiet DEF QuietOutside
  <1>8. FreshTable'
    BY DEF FreshTable
  <1>9. MsiRight'
    <2>1. ASSUME session' = "open", faults' = 0 PROVE dev'.trigger = {} /\ kvm'.routes = Gpu!Default
      <3>1. session = "ready" /\ faults = 0 /\ dev' = dev /\ kvm' = kvm
        BY <2>1
      <3> QED BY <3>1, DeviceQuiet DEF QuietOutside, FreshTable
    <2> QED BY <2>1 DEF MsiRight
  <1>10. ConfigRight'
    BY <1>1 DEF ConfigRight
  <1> QED BY <1>4, <1>5, <1>6, <1>7, <1>8, <1>9, <1>10

LEMMA SessionReady == SessionInv /\ Gpu!Ready => SessionInv'
  <1> SUFFICES ASSUME SessionInv, Gpu!Ready PROVE SessionInv'
    OBVIOUS
  <1>1. faults' \in 0 .. MaxFaults /\ (faults' = 0 => faults = 0) /\ (faults > 0 => faults' > 0)
    BY SessionAssumed DEF SessionInv, SessionTypes, Gpu!Ready, Gpu!Works, Gpu!Fails
  <1>2. PICK q : /\ q \in Regions \cup {Gpu!NoRegion}
                 /\ config' = Gpu!FindConfigRegion(Regions \ {q})
                 /\ faults' = 0 => q = Gpu!NoRegion
    <2>1. CASE Gpu!Works /\ config' = Gpu!FindConfigRegion(Gpu!QueryBarRegions(Gpu!NoRegion))
      BY <2>1 DEF Gpu!QueryBarRegions
    <2>2. ASSUME NEW r \in Regions,
                 Gpu!Fails, config' = Gpu!FindConfigRegion(Gpu!QueryBarRegions(r))
          PROVE  config' = Gpu!FindConfigRegion(Regions \ {r}) /\ faults' # 0
      BY <2>2 DEF Gpu!QueryBarRegions, Gpu!Fails, SessionInv, SessionTypes
    <2> QED BY <2>1, <2>2 DEF Gpu!Ready
  <1>3. /\ config' \in Regions \cup {Gpu!NoRegion}
        /\ Gpu!ConfigRegion \in Regions \ {q} /\ looks[Gpu!ConfigRegion] = "ours"
             => config' = Gpu!ConfigRegion
    BY <1>2, ConfigFound
  <1>4. UNCHANGED <<looks, fds, events, dev, kvm, vm, msi, refused>>
        /\ session = "device" /\ session' = "ready"
    BY DEF Gpu!Ready
  <1>5. SessionTypes'
    BY <1>1, <1>4 DEF SessionInv, SessionTypes, Opening
  <1>6. ConfigTypes' /\ DescriptorsClosed' /\ QuietOutside' /\ FreshTable' /\ MsiRight'
    BY <1>1, <1>3, <1>4 DEF SessionInv, ConfigTypes, DescriptorsClosed, QuietOutside,
                            FreshTable, MsiRight, Opening, SessionTypes
  <1>7. ConfigRight'
    <2>1. faults' = 0 => Gpu!ConfigRegion \in Regions \ {q}
      BY <1>2, SessionAssumed DEF Gpu!NoRegion, Gpu!ConfigRegion
    <2> QED BY <1>3, <1>4, <2>1 DEF ConfigRight
  <1> QED BY <1>5, <1>6, <1>7 DEF SessionInv

(* The guest runs, and INTx is set up: both before MSI is.                 *)
LEMMA SessionGuest ==
  SessionInv /\ (Gpu!GuestRuns \/ Gpu!SetupIntxIrqfd \/ Gpu!SetGsiRoutingFails) => SessionInv'
  <1> SUFFICES ASSUME SessionInv, Gpu!GuestRuns \/ Gpu!SetupIntxIrqfd \/ Gpu!SetGsiRoutingFails
               PROVE  SessionInv'
    OBVIOUS
  <1> USE SessionAssumed
      DEF SessionInv, Gpu!GuestRuns, Gpu!SetupIntxIrqfd, Gpu!SetGsiRoutingFails, Gpu!Works, Gpu!Fails
  <1>1. faults' \in 0 .. MaxFaults /\ (faults' = 0 => faults = 0) /\ (faults > 0 => faults' > 0)
    BY FaultCounted DEF SessionTypes
  <1>2. /\ UNCHANGED <<looks, session, fds, events, config, vm, msi, refused>>
        /\ session = "open" /\ ~msi
    OBVIOUS
  <1>3. /\ dev' \in DevType
        /\ dev'.trigger = dev.trigger
    <2>1. dev \in DevType
      BY DEF SessionTypes
    <2>2. CASE Gpu!GuestRuns
      <3>1. PICK on \in BOOLEAN : dev' = [dev EXCEPT !.dirty = TRUE, !.msi = on]
        BY <2>2
      <3> QED BY <2>1, <3>1, DeviceMoves
    <2>3. CASE Gpu!SetupIntxIrqfd
      <3>1. dev' = dev \/ dev' = [dev EXCEPT !.intx = TRUE]
        BY <2>3
      <3> QED BY <2>1, <3>1, DeviceMoves
    <2>4. CASE Gpu!SetGsiRoutingFails
      BY <2>1, <2>4
    <2> QED BY <2>2, <2>3, <2>4
  <1>4. /\ kvm' \in KvmType
        /\ kvm'.routes = kvm.routes
    BY DeviceMoves DEF SessionTypes
  <1>5. SessionTypes'
    BY <1>1, <1>2, <1>3, <1>4 DEF SessionTypes
  <1>6. ConfigTypes' /\ DescriptorsClosed' /\ QuietOutside' /\ FreshTable' /\ ConfigRight'
    BY <1>1, <1>2 DEF ConfigTypes, DescriptorsClosed, QuietOutside, FreshTable, ConfigRight, Opening
  <1>7. MsiRight'
    BY <1>1, <1>2, <1>3, <1>4 DEF MsiRight
  <1> QED BY <1>5, <1>6, <1>7

(* MSI: after INTx and MSI Enable were cleared VFIO accepts the triggers,  *)
(* and the new table lists the pins of the IOAPIC again.                   *)
LEMMA SessionMsi == SessionInv /\ Gpu!SetupMsiRouting => SessionInv'
  <1> SUFFICES ASSUME SessionInv, Gpu!SetupMsiRouting PROVE SessionInv'
    OBVIOUS
  <1> DEFINE quiet(ok) == Gpu!DisableIntx(Gpu!DisableMsiOnPhysicalDevice(dev), ok)
             all == Gpu!Cardinality(Vectors)
  <1>1. \E d \in DevType, ok \in BOOLEAN, n \in Nat :
          /\ Gpu!SetupMsiIrqfds(d, ok, n)
          /\ faults' \in 0 .. MaxFaults
          /\ faults' = 0 => /\ faults = 0 /\ d = quiet(TRUE) /\ n = all
                            /\ ok = Gpu!SetIrqsAccepted(quiet(TRUE))
          /\ faults > 0 => faults' > 0
    <2>1. \A ok \in BOOLEAN : quiet(ok) \in DevType
      BY DEF SessionInv, SessionTypes, Gpu!DisableIntx, Gpu!DisableMsiOnPhysicalDevice, DevType
    <2>2. \A ok \in BOOLEAN : Gpu!SetIrqsAccepted(quiet(ok)) \in BOOLEAN
      BY DEF Gpu!SetIrqsAccepted
    <2> DEFINE acc(ok) == Gpu!SetIrqsAccepted(quiet(ok))
    <2>3. \/ Gpu!Works /\ Gpu!SetupMsiIrqfds(quiet(TRUE), acc(TRUE), all)
          \/ Gpu!Fails /\ Gpu!SetupMsiIrqfds(quiet(FALSE), acc(FALSE), all)
          \/ Gpu!Fails /\ Gpu!SetupMsiIrqfds(quiet(TRUE), FALSE, all)
          \/ \E n \in Vectors : Gpu!Fails /\ Gpu!SetupMsiIrqfds(quiet(TRUE), acc(TRUE), n)
      BY Zenon DEF Gpu!SetupMsiRouting, Gpu!QueryMsiVectorCount
    <2>4. faults \in 0 .. MaxFaults
      BY DEF SessionInv, SessionTypes
    <2>5. Gpu!Works => faults' \in 0 .. MaxFaults /\ faults' = faults
      BY <2>4 DEF Gpu!Works
    <2>6. Gpu!Fails => faults' \in 0 .. MaxFaults /\ faults' > 0
      BY <2>4, SessionAssumed DEF Gpu!Fails
    <2>7. all \in Nat /\ \A n \in Vectors : n \in Nat
      BY SessionAssumed
    <2>8. faults' > 0 => faults' # 0
      BY <2>3, <2>5, <2>6
    <2> HIDE DEF quiet, all
    <2>9. acc(TRUE) \in BOOLEAN /\ acc(FALSE) \in BOOLEAN
      BY <2>2
    <2> HIDE DEF acc
    <2>10. quiet(TRUE) \in DevType /\ quiet(FALSE) \in DevType
      BY <2>1
    <2>11. CASE Gpu!Works /\ Gpu!SetupMsiIrqfds(quiet(TRUE), acc(TRUE), all)
      <3>1. acc(TRUE) = Gpu!SetIrqsAccepted(quiet(TRUE))
        BY DEF acc
      <3>2. Gpu!SetupMsiIrqfds(quiet(TRUE), acc(TRUE), all)
        BY <2>11
      <3>3. faults' = faults /\ faults' \in 0 .. MaxFaults
        BY <2>5, <2>11
      <3> USE <2>7, <2>9, <2>10
      <3> WITNESS quiet(TRUE) \in DevType, acc(TRUE) \in BOOLEAN, all \in Nat
      <3> QED BY <3>1, <3>2, <3>3
    <2>12. CASE Gpu!Fails
      <3>1. \E d \in DevType, ok \in BOOLEAN, n \in Nat : Gpu!SetupMsiIrqfds(d, ok, n)
        <4>1. CASE Gpu!SetupMsiIrqfds(quiet(TRUE), acc(TRUE), all)
          BY <2>7, <2>9, <2>10, <4>1
        <4>2. CASE Gpu!SetupMsiIrqfds(quiet(FALSE), acc(FALSE), all)
          BY <2>7, <2>9, <2>10, <4>2
        <4>3. CASE Gpu!SetupMsiIrqfds(quiet(TRUE), FALSE, all)
          BY <2>7, <2>10, <4>3
        <4>4. ASSUME NEW n \in Vectors, Gpu!SetupMsiIrqfds(quiet(TRUE), acc(TRUE), n)
              PROVE  \E d \in DevType, ok \in BOOLEAN, m \in Nat : Gpu!SetupMsiIrqfds(d, ok, m)
          BY <2>7, <2>9, <2>10, <4>4
        <4> QED BY <2>3, <4>1, <4>2, <4>3, <4>4
      <3> QED BY <2>6, <2>8, <2>12, <3>1
    <2> QED BY <2>3, <2>11, <2>12
  <1>2. PICK d \in DevType, ok \in BOOLEAN, n \in Nat :
          /\ Gpu!SetupMsiIrqfds(d, ok, n)
          /\ faults' \in 0 .. MaxFaults
          /\ faults' = 0 => /\ faults = 0 /\ d = quiet(TRUE) /\ n = all
                            /\ ok = Gpu!SetIrqsAccepted(quiet(TRUE))
          /\ faults > 0 => faults' > 0
    BY <1>1
  <1>3. UNCHANGED <<looks, session, fds, config, vm>> /\ session = "open" /\ msi' = TRUE
    BY DEF Gpu!SetupMsiRouting
  <1>4. SessionTypes'
    <2>1. dev' \in DevType
      BY <1>2 DEF Gpu!SetupMsiIrqfds, DevType
    <2>2. kvm'.routes \in SUBSET Gsis /\ kvm'.irqfds \in SUBSET Gsis
      BY <1>2 DEF Gpu!SetupMsiIrqfds, Gpu!BuildGsiRoutingTable, SessionInv, SessionTypes,
                  Gsis, KvmType
    <2>3. kvm' = [routes |-> kvm'.routes, irqfds |-> kvm'.irqfds]
      BY <1>2 DEF Gpu!SetupMsiIrqfds
    <2>4. events' \subseteq Vectors
      BY <1>2 DEF Gpu!SetupMsiIrqfds, Gpu!LeftOpen, SessionInv, SessionTypes
    <2>5. kvm' \in KvmType
      BY <2>2, <2>3 DEF KvmType
    <2> QED BY <1>2, <1>3, <2>1, <2>4, <2>5 DEF SessionInv, SessionTypes
  <1>5. ConfigTypes' /\ QuietOutside' /\ FreshTable' /\ ConfigRight'
    BY <1>2, <1>3 DEF SessionInv, ConfigTypes, QuietOutside, FreshTable, ConfigRight, Opening
  <1>6. DescriptorsClosed'
    BY <1>2, <1>3 DEF SessionInv, DescriptorsClosed, Gpu!SetupMsiIrqfds, Gpu!LeftOpen
  <1>7. MsiRight'
    <2> SUFFICES ASSUME faults' = 0, config = Gpu!ConfigRegion PROVE Wired'
      BY <1>3 DEF MsiRight
    <2>1. d = quiet(TRUE) /\ n = all /\ ok = Gpu!SetIrqsAccepted(quiet(TRUE))
      BY <1>2
    <2>2. ~d.intx /\ ~d.msi
      BY <2>1 DEF Gpu!DisableIntx, Gpu!DisableMsiOnPhysicalDevice, SessionInv, SessionTypes, DevType
    <2>3. ok
      BY <2>1, <2>2 DEF Gpu!SetIrqsAccepted
    <2>4. dev'.trigger = Vectors
      BY <1>2, <2>3 DEF Gpu!SetupMsiIrqfds
    <2>5. \A v \in Vectors : v < n
      BY <2>1, SessionAssumed
    <2>6. \A v \in Vectors : Gpu!Gsi(v) \in kvm'.irqfds \cap kvm'.routes
      BY <1>2, <2>3, <2>5 DEF Gpu!SetupMsiIrqfds, Gpu!BuildGsiRoutingTable
    <2>7. Gpu!Default \subseteq kvm'.routes
      BY <1>2 DEF Gpu!SetupMsiIrqfds, Gpu!BuildGsiRoutingTable
    <2> QED BY <2>4, <2>6, <2>7 DEF Wired
  <1> QED BY <1>4, <1>5, <1>6, <1>7 DEF SessionInv

(* Closing: destroy(), the VM, and a new backend.                          *)
LEMMA SessionCloses ==
  SessionInv /\ (Gpu!Destroy \/ Gpu!DropVm \/ Gpu!NewBackend) => SessionInv'
  <1> SUFFICES ASSUME SessionInv, Gpu!Destroy \/ Gpu!DropVm \/ Gpu!NewBackend
               PROVE  SessionInv'
    OBVIOUS
  <1> USE SessionAssumed
      DEF SessionInv, Gpu!Destroy, Gpu!DropVm, Gpu!NewBackend, Gpu!Works, Gpu!Fails
  <1>1. faults' \in 0 .. MaxFaults /\ (faults' = 0 => faults = 0) /\ (faults > 0 => faults' > 0)
    BY FaultCounted DEF SessionTypes
  <1>2. session' = "none" /\ UNCHANGED <<looks, events, refused>>
    OBVIOUS
  <1>3. /\ dev' \in DevType
        /\ dev'.dirty \/ dev'.trigger # {} => faults' > 0
    <2>1. CASE Gpu!Destroy
      <3>1. dev' = Gpu!QuietDev \/ (faults' = faults + 1
              /\ dev' = [dev EXCEPT !.intx = FALSE, !.msi = FALSE, !.trigger = {}])
        BY <2>1
      <3>2. faults' = faults + 1 => faults' > 0
        BY DEF SessionTypes
      <3>3. dev \in DevType
        BY DEF SessionTypes
      <3> QED BY <3>1, <3>2, <3>3, DeviceMoves, DeviceQuiet
    <2>2. CASE Gpu!DropVm \/ Gpu!NewBackend
      BY <2>2 DEF SessionTypes, QuietOutside
    <2> QED BY <2>1, <2>2
  <1>4. kvm' \in KvmType
    <2>1. kvm' = kvm \/ kvm' = Gpu!FreshKvm \/ kvm' = Gpu!DeassignIrqfds(kvm)
      OBVIOUS
    <2> QED BY <2>1, DeviceMoves, DeviceQuiet DEF SessionTypes
  <1>5. fds' = {}
    BY DEF DescriptorsClosed
  <1>6. SessionTypes'
    BY <1>1, <1>2, <1>3, <1>4, <1>5 DEF SessionTypes
  <1>7. ConfigTypes'
    BY DEF ConfigTypes
  <1>8. DescriptorsClosed' /\ QuietOutside' /\ FreshTable' /\ MsiRight' /\ ConfigRight'
    BY <1>2, <1>3, <1>5 DEF DescriptorsClosed, QuietOutside, FreshTable, MsiRight, ConfigRight,
                            Opening
  <1> QED BY <1>6, <1>7, <1>8

LEMMA SessionNext == SessionInv /\ Gpu!Next => SessionInv'
  BY SessionOpens, SessionReady, SessionGuest, SessionMsi, SessionCloses DEF Gpu!Next

LEMMA SessionStutters == SessionInv /\ UNCHANGED sessionVars => SessionInv'
  BY DEF SessionInv, sessionVars, SessionTypes, ConfigTypes, DescriptorsClosed, QuietOutside,
         FreshTable, MsiRight, ConfigRight, Wired

LEMMA SessionSoundness == SessionInv => Gpu!MsiWired /\ Gpu!OnlyRefusedLeak /\ Gpu!ConfigIsConfig
  BY DEF SessionInv, DescriptorsClosed, QuietOutside, MsiRight, Wired, ConfigRight,
         Gpu!MsiWired, Gpu!OnlyRefusedLeak, Gpu!ConfigIsConfig

SessionPart == part = "session" => SessionInv

LEMMA SessionPartInit == Init => SessionPart
  BY SessionInit DEF Init, SessionPart

LEMMA SessionPartStep == SessionPart /\ [Next]_vars => SessionPart'
  <1> SUFFICES ASSUME SessionPart, [Next]_vars, part' = "session" PROVE SessionInv'
    BY DEF SessionPart
  <1>1. part = "session" /\ (Gpu!Next \/ UNCHANGED sessionVars)
    BY DEF Next, vars
  <1> QED BY <1>1, SessionNext, SessionStutters DEF SessionPart

THEOREM SessionInvariance == Spec => []SessionPart
  BY SessionPartInit, SessionPartStep, PTL DEF Spec

(* With MSI set up and no failure every vector is wired to an irqfd on a   *)
(* GSI that is routed, and the pins of the IOAPIC keep their routes.       *)
THEOREM MsiIsWired == Spec => []MsiWired
  <1>1. SessionPart => MsiWired
    BY SessionSoundness DEF SessionPart, MsiWired
  <1> QED BY <1>1, SessionInvariance, PTL

(* Only a refused irqfd leaves an eventfd open, a session that is over has *)
(* no descriptor and a GPU that was reset, and config space is region 6.   *)
THEOREM SessionIsClean == Spec => []SessionClean
  <1>1. SessionPart => SessionClean
    BY SessionSoundness DEF SessionPart, SessionClean
  <1> QED BY <1>1, SessionInvariance, PTL

-----------------------------------------------------------------------------
(* The virtio-net device: arithmetic of the rings                          *)

(* A number has one quotient and one remainder.                            *)
LEMMA OneRemainder ==
  ASSUME NEW q \in Nat, q > 0, NEW x \in Int, NEW y \in Int, NEW r \in Nat, NEW s \in Nat,
         r < q, s < q, q * x + r = q * y + s
  PROVE  x = y /\ r = s
  <1>1. CASE x > y
    <2>1. q * (x - y) >= q * 1
      BY <1>1
    <2> QED BY <2>1
  <1>2. CASE y > x
    <2>1. q * (y - x) >= q * 1
      BY <1>2
    <2> QED BY <2>1
  <1>3. CASE x = y
    BY <1>3
  <1> QED BY <1>1, <1>2, <1>3

LEMMA Division ==
  ASSUME NEW q \in Nat, q > 0, NEW a \in Int
  PROVE  \E x \in Int : a = q * x + (a % q) /\ a % q \in 0 .. q - 1
  <1>1. a \div q \in Int /\ a = q * (a \div q) + (a % q) /\ a % q \in 0 .. q - 1
    OBVIOUS
  <1> QED BY <1>1

LEMMA Remainder ==
  ASSUME NEW q \in Nat, q > 0, NEW a \in Int, NEW x \in Int, NEW r \in 0 .. q - 1,
         a = q * x + r
  PROVE  a % q = r
  OBVIOUS

LEMMA NetAssumed ==
  /\ QueueSize \in Nat /\ QueueSize > 0 /\ IdxMod \in Nat /\ IdxMod > QueueSize
  /\ Frames \in Nat
  BY Assumptions DEF Net!VirtioAssumption

LEMMA RingsDivide == \E c \in Int : IdxMod = QueueSize * c
  <1>1. QueueSize \in Nat \ {0} /\ IdxMod \in Nat /\ IdxMod % QueueSize = 0 /\ IdxMod > QueueSize
    BY Assumptions DEF Net!VirtioAssumption
  <1>2. PICK c \in Int : IdxMod = QueueSize * c + (IdxMod % QueueSize)
    <2>1. QueueSize \in Nat /\ QueueSize > 0 /\ IdxMod \in Int
      BY <1>1
    <2> QED BY <2>1, Division
  <1> QED BY <1>1, <1>2

(* The slots of an index and of the index the ring wraps it to are one.    *)
LEMMA SlotWraps ==
  ASSUME NEW a \in Nat, NEW k \in Nat
  PROVE  Net!SlotOf((a % IdxMod) + k) = Net!SlotOf(a + k)
  <1>0. QueueSize \in Nat /\ QueueSize > 0 /\ IdxMod \in Nat /\ IdxMod > 0
    BY NetAssumed
  <1>1. PICK c \in Int : IdxMod = QueueSize * c
    BY RingsDivide
  <1>2. PICK x \in Int : a = IdxMod * x + (a % IdxMod) /\ a % IdxMod \in 0 .. IdxMod - 1
    BY <1>0, Division
  <1> DEFINE b == (a % IdxMod) + k
  <1>3. b \in Int /\ a + k = IdxMod * x + b
    BY <1>0, <1>2
  <1> HIDE DEF b
  <1>4. PICK y \in Int : b = QueueSize * y + (b % QueueSize) /\ b % QueueSize \in 0 .. QueueSize - 1
    BY <1>3, NetAssumed, Division
  <1>5. a + k = QueueSize * (c * x + y) + (b % QueueSize)
    <2>1. IdxMod * x = QueueSize * (c * x)
      BY <1>1, NetAssumed
    <2>2. QueueSize * (c * x) + QueueSize * y = QueueSize * (c * x + y)
      BY <1>1, NetAssumed
    <2> QED BY <1>3, <1>4, <2>1, <2>2, NetAssumed
  <1>6. c * x + y \in Int /\ a + k \in Int
    OBVIOUS
  <1>7. (a + k) % QueueSize = b % QueueSize
    BY <1>4, <1>5, <1>6, NetAssumed, Remainder
  <1> QED BY <1>7 DEF Net!SlotOf, b

(* Two of QueueSize indices in a row are at two slots.                     *)
LEMMA SlotsApart ==
  ASSUME NEW a \in Nat, NEW k \in Nat, NEW l \in Nat, k < l, l - k < QueueSize
  PROVE  Net!SlotOf(a + k) # Net!SlotOf(a + l)
  <1> SUFFICES ASSUME (a + k) % QueueSize = (a + l) % QueueSize
               PROVE  FALSE
    BY DEF Net!SlotOf
  <1>1. PICK x \in Int : a + k = QueueSize * x + ((a + k) % QueueSize)
    <2>1. QueueSize \in Nat /\ QueueSize > 0 /\ a + k \in Int
      BY NetAssumed
    <2> QED BY <2>1, Division
  <1>2. PICK y \in Int : a + l = QueueSize * y + ((a + l) % QueueSize)
    <2>1. QueueSize \in Nat /\ QueueSize > 0 /\ a + l \in Int
      BY NetAssumed
    <2> QED BY <2>1, Division
  <1>3. l - k = QueueSize * (y - x)
    <2>1. (a + k) % QueueSize \in Int
      BY NetAssumed
    <2>2. QueueSize * (y - x) = QueueSize * y - QueueSize * x
      BY NetAssumed
    <2> QED BY <1>1, <1>2, <2>1, <2>2, NetAssumed
  <1>4. QueueSize * (y - x) = QueueSize * 0 + (l - k)
    BY <1>3, NetAssumed
  <1>5. y - x = 0 /\ 0 = l - k
    <2>1. QueueSize * (y - x) + 0 = QueueSize * 0 + (l - k) /\ l - k \in Nat
      BY <1>4, NetAssumed
    <2> QED BY <2>1, NetAssumed, OneRemainder
  <1> QED BY <1>5

LEMMA SlotIn ==
  ASSUME NEW a \in Nat
  PROVE  Net!SlotOf(a) \in Net!Slot
  <1>1. a % QueueSize \in 0 .. QueueSize - 1
    BY NetAssumed, Division
  <1> QED BY <1>1 DEF Net!SlotOf, Net!Slot

LEMMA WrapIn ==
  ASSUME NEW a \in Int
  PROVE  a % IdxMod \in Net!Index
  <1>1. a % IdxMod \in 0 .. IdxMod - 1
    BY NetAssumed, Division
  <1> QED BY <1>1 DEF Net!Index

(* How far one index is ahead of another, as the ring counts it.           *)
LEMMA Ahead ==
  ASSUME NEW a \in Net!Index, NEW b \in Net!Index
  PROVE  /\ Net!Between(a, b) \in 0 .. IdxMod - 1
         /\ Net!Between(a, b) = IF a >= b THEN a - b ELSE a + IdxMod - b
         /\ (b + Net!Between(a, b)) % IdxMod = a
  <1>1. a \in 0 .. IdxMod - 1 /\ b \in 0 .. IdxMod - 1
    BY DEF Net!Index
  <1> DEFINE d == IF a >= b THEN a - b ELSE a + IdxMod - b
  <1>2. d \in 0 .. IdxMod - 1
    BY <1>1, NetAssumed
  <1>3. (a + IdxMod - b) % IdxMod = d
    <2>1. CASE a >= b
      <3>1. a + IdxMod - b = IdxMod * 1 + d /\ a + IdxMod - b \in Int
        BY <1>1, <2>1, NetAssumed
      <3> HIDE DEF d
      <3> QED BY <1>2, <3>1, NetAssumed, Remainder
    <2>2. CASE ~(a >= b)
      <3>1. a + IdxMod - b = IdxMod * 0 + d /\ a + IdxMod - b \in Int
        BY <1>1, <2>2, NetAssumed
      <3> HIDE DEF d
      <3> QED BY <1>2, <3>1, NetAssumed, Remainder
    <2> QED BY <2>1, <2>2
  <1>4. (b + d) % IdxMod = a
    <2>1. CASE a >= b
      <3>1. b + d = IdxMod * 0 + a /\ b + d \in Int
        BY <1>1, <2>1, NetAssumed
      <3> HIDE DEF d
      <3> QED BY <1>1, <3>1, NetAssumed, Remainder
    <2>2. CASE ~(a >= b)
      <3>1. b + d = IdxMod * 1 + a /\ b + d \in Int
        BY <1>1, <2>2, NetAssumed
      <3> HIDE DEF d
      <3> QED BY <1>1, <3>1, NetAssumed, Remainder
    <2> QED BY <2>1, <2>2
  <1> QED BY <1>2, <1>3, <1>4 DEF Net!Between

(* An index that is n ahead of b is as far ahead as n says.                *)
LEMMA Gap ==
  ASSUME NEW b \in Net!Index, NEW n \in 0 .. IdxMod - 1
  PROVE  Net!Between((b + n) % IdxMod, b) = n
  <1> DEFINE a == (b + n) % IdxMod
  <1>1. b \in 0 .. IdxMod - 1 /\ a \in Net!Index
    BY WrapIn, NetAssumed DEF Net!Index
  <1>2. a = IF b + n < IdxMod THEN b + n ELSE b + n - IdxMod
    <2>1. CASE b + n < IdxMod
      <3>1. b + n = IdxMod * 0 + (b + n) /\ b + n \in 0 .. IdxMod - 1 /\ b + n \in Int
        BY <1>1, <2>1, NetAssumed
      <3> QED BY <2>1, <3>1, NetAssumed, Remainder
    <2>2. CASE ~(b + n < IdxMod)
      <3>1. b + n = IdxMod * 1 + (b + n - IdxMod) /\ b + n - IdxMod \in 0 .. IdxMod - 1 /\ b + n \in Int
        BY <1>1, <2>2, NetAssumed
      <3> QED BY <2>2, <3>1, NetAssumed, Remainder
    <2> QED BY <2>1, <2>2
  <1> HIDE DEF a
  <1>3. Net!Between(a, b) = n
    BY <1>1, <1>2, Ahead, NetAssumed
  <1> QED BY <1>3 DEF a

(* The newer index moved n further.                                        *)
LEMMA NewerMoves ==
  ASSUME NEW a \in Net!Index, NEW b \in Net!Index, NEW n \in Nat,
         Net!Between(a, b) + n < IdxMod
  PROVE  Net!Between((a + n) % IdxMod, b) = Net!Between(a, b) + n
  <1> DEFINE m == Net!Between(a, b)
  <1>1. m \in 0 .. IdxMod - 1 /\ m = (IF a >= b THEN a - b ELSE a + IdxMod - b)
    BY Ahead
  <1>2. m + n \in 0 .. IdxMod - 1
    BY <1>1, NetAssumed
  <1>3. Net!Between((b + (m + n)) % IdxMod, b) = m + n
    BY <1>2, Gap
  <1>4. a \in 0 .. IdxMod - 1 /\ b \in 0 .. IdxMod - 1
    BY DEF Net!Index
  <1>5. (b + (m + n)) % IdxMod = (a + n) % IdxMod
    <2>1. PICK x \in Int : a + n = IdxMod * x + ((a + n) % IdxMod) /\ (a + n) % IdxMod \in 0 .. IdxMod - 1
      <3>1. IdxMod \in Nat /\ IdxMod > 0 /\ a + n \in Int
        BY <1>4, NetAssumed
      <3> QED BY <3>1, Division
    <2>2. b + (m + n) = a + n \/ b + (m + n) = a + n + IdxMod
      BY <1>1, <1>4, NetAssumed
    <2>3. CASE b + (m + n) = a + n
      BY <2>3
    <2>4. CASE b + (m + n) = a + n + IdxMod
      <3> DEFINE r == (a + n) % IdxMod
      <3>0. IdxMod \in Nat /\ IdxMod > 0 /\ b + (m + n) \in Int /\ x + 1 \in Int /\ r \in 0 .. IdxMod - 1
        BY <1>1, <1>4, <2>1, NetAssumed
      <3>1. b + (m + n) = IdxMod * (x + 1) + r
        <4>1. IdxMod * (x + 1) = IdxMod * x + IdxMod /\ a + n = IdxMod * x + r
          BY <2>1, <3>0
        <4> HIDE DEF r
        <4> QED BY <2>4, <3>0, <4>1
      <3> HIDE DEF r
      <3>2. (b + (m + n)) % IdxMod = r
        BY <3>0, <3>1, Remainder
      <3> QED BY <3>2 DEF r
    <2> QED BY <2>2, <2>3, <2>4
  <1> QED BY <1>3, <1>5

(* The older index moved n further, towards the newer.                     *)
LEMMA OlderMoves ==
  ASSUME NEW a \in Net!Index, NEW b \in Net!Index, NEW n \in 0 .. Net!Between(a, b)
  PROVE  Net!Between(a, (b + n) % IdxMod) = Net!Between(a, b) - n
  <1> DEFINE m == Net!Between(a, b)
             c == (b + n) % IdxMod
  <1>1. m \in 0 .. IdxMod - 1 /\ m = (IF a >= b THEN a - b ELSE a + IdxMod - b)
    BY Ahead
  <1>2. n \in 0 .. IdxMod - 1
    BY <1>1, NetAssumed
  <1>3. Net!Between(c, b) = n /\ c \in Net!Index
    <2>1. b + n \in Int
      BY <1>2 DEF Net!Index
    <2> QED BY <1>2, <2>1, Gap, WrapIn
  <1> HIDE DEF c
  <1>4. n = IF c >= b THEN c - b ELSE c + IdxMod - b
    BY <1>3, Ahead
  <1>5. Net!Between(a, c) = IF a >= c THEN a - c ELSE a + IdxMod - c
    BY <1>3, Ahead
  <1>6. Net!Between(a, c) = m - n
    BY <1>1, <1>2, <1>3, <1>4, <1>5, NetAssumed DEF Net!Index
  <1> QED BY <1>6 DEF c

-----------------------------------------------------------------------------
(* The rings: what they hold, and what each step of the device and of the  *)
(* driver does to the buffers offered and the buffers filled.              *)
RxType == [avail : Net!Index, used : Net!Index, seen : Net!Index, mine : SUBSET Net!Desc,
           ring : [Net!Slot -> Net!Desc], done : [Net!Slot -> Net!Completion]]

OfferedCount(r) == Net!Between(r.avail, r.used)
FilledCount(r) == Net!Between(r.used, r.seen)
OfferedIn(r, k) == r.ring[Net!SlotOf(r.used + k)]
FilledIn(r, k) == r.done[Net!SlotOf(r.seen + k)]

(* Every buffer is in one place.                                           *)
Conserved(r) ==
  /\ OfferedCount(r) + FilledCount(r) + Cardinality(r.mine) = QueueSize
  /\ \A k, l \in Nat : k < OfferedCount(r) /\ l < OfferedCount(r) /\ OfferedIn(r, k) = OfferedIn(r, l) => k = l
  /\ \A k, l \in Nat : k < FilledCount(r) /\ l < FilledCount(r) /\ FilledIn(r, k).desc = FilledIn(r, l).desc => k = l
  /\ \A k, l \in Nat : k < OfferedCount(r) /\ l < FilledCount(r) => OfferedIn(r, k) # FilledIn(r, l).desc
  /\ \A d \in Net!Desc : d \notin r.mine =>
       \/ \E k \in Nat : k < OfferedCount(r) /\ d = OfferedIn(r, k)
       \/ \E k \in Nat : k < FilledCount(r) /\ d = FilledIn(r, k).desc
  /\ \A k \in Nat : k < OfferedCount(r) => OfferedIn(r, k) \notin r.mine
  /\ \A k \in Nat : k < FilledCount(r) => FilledIn(r, k).desc \notin r.mine

LEMMA RxFields ==
  ASSUME NEW r \in RxType
  PROVE  /\ r.avail \in Net!Index /\ r.used \in Net!Index /\ r.seen \in Net!Index
         /\ r.mine \in SUBSET Net!Desc
         /\ r.ring \in [Net!Slot -> Net!Desc] /\ r.done \in [Net!Slot -> Net!Completion]
         /\ r = [avail |-> r.avail, used |-> r.used, seen |-> r.seen, mine |-> r.mine,
                 ring |-> r.ring, done |-> r.done]
  BY DEF RxType

LEMMA IndexNat == \A i \in Net!Index : i \in Nat /\ i < IdxMod
  BY NetAssumed DEF Net!Index

LEMMA Counts ==
  ASSUME NEW r \in RxType
  PROVE  /\ OfferedCount(r) \in Nat /\ OfferedCount(r) < IdxMod
         /\ FilledCount(r) \in Nat /\ FilledCount(r) < IdxMod
         /\ IsFiniteSet(r.mine) /\ Cardinality(r.mine) \in Nat
  <1>1. Net!Between(r.avail, r.used) \in 0 .. IdxMod - 1
    BY RxFields, Ahead
  <1>2. Net!Between(r.used, r.seen) \in 0 .. IdxMod - 1
    BY RxFields, Ahead
  <1>3. IsFiniteSet(r.mine) /\ Cardinality(r.mine) \in Nat
    <2>1. QueueSize - 1 \in Int /\ 0 \in Int
      BY NetAssumed
    <2>2. IsFiniteSet(0 .. QueueSize - 1)
      BY <2>1, FS_Interval
    <2>3. r.mine \subseteq 0 .. QueueSize - 1
      BY RxFields DEF Net!Desc
    <2>4. IsFiniteSet(r.mine)
      BY <2>2, <2>3, FS_Subset
    <2> QED BY <2>4, FS_CardinalityType
  <1> QED BY <1>1, <1>2, <1>3, NetAssumed DEF OfferedCount, FilledCount

LEMMA InRings ==
  ASSUME NEW r \in RxType, NEW k \in Nat
  PROVE  OfferedIn(r, k) \in Net!Desc /\ FilledIn(r, k) \in Net!Completion
  <1>1. r.used + k \in Nat /\ r.seen + k \in Nat
    BY RxFields, IndexNat
  <1>2. Net!SlotOf(r.used + k) \in Net!Slot /\ Net!SlotOf(r.seen + k) \in Net!Slot
    BY <1>1, SlotIn
  <1> QED BY <1>2, RxFields DEF OfferedIn, FilledIn

(* The slot that is n behind the last filled one is the n-th offered one.  *)
LEMMA UsedSlot ==
  ASSUME NEW r \in RxType, NEW k \in Nat
  PROVE  Net!SlotOf(r.used + k) = Net!SlotOf(r.seen + (FilledCount(r) + k))
  <1>1. (r.seen + FilledCount(r)) % IdxMod = r.used
    BY RxFields, Ahead DEF FilledCount
  <1>2. r.seen \in Nat /\ FilledCount(r) \in Nat /\ r.seen + FilledCount(r) \in Nat
    BY RxFields, IndexNat, Counts
  <1>3. Net!SlotOf(((r.seen + FilledCount(r)) % IdxMod) + k) = Net!SlotOf((r.seen + FilledCount(r)) + k)
    BY <1>2, SlotWraps
  <1>4. (r.seen + FilledCount(r)) + k = r.seen + (FilledCount(r) + k)
    BY <1>2
  <1> QED BY <1>1, <1>3, <1>4

LEMMA AvailSlot ==
  ASSUME NEW r \in RxType
  PROVE  Net!SlotOf(r.avail) = Net!SlotOf(r.used + OfferedCount(r))
  <1>1. (r.used + OfferedCount(r)) % IdxMod = r.avail
    BY RxFields, Ahead DEF OfferedCount
  <1>2. r.used + OfferedCount(r) \in Nat /\ r.avail \in Nat
    BY RxFields, IndexNat, Counts
  <1>3. Net!SlotOf(((r.used + OfferedCount(r)) % IdxMod) + 0) = Net!SlotOf((r.used + OfferedCount(r)) + 0)
    BY <1>2, SlotWraps
  <1>4. r.avail + 0 = r.avail /\ (r.used + OfferedCount(r)) + 0 = r.used + OfferedCount(r)
    BY <1>2
  <1> QED BY <1>1, <1>3, <1>4

(* try_rx fills the next Len(f) of the offered buffers.                    *)
LEMMA FillMoves ==
  ASSUME NEW r \in RxType, Conserved(r), NEW S, S \subseteq Net!Received, NEW f \in Seq(S),
         Len(f) <= OfferedCount(r)
  PROVE  /\ Net!Fill(r, f) \in RxType
         /\ OfferedCount(Net!Fill(r, f)) = OfferedCount(r) - Len(f)
         /\ FilledCount(Net!Fill(r, f)) = FilledCount(r) + Len(f)
         /\ Net!Fill(r, f).mine = r.mine
         /\ \A k \in Nat : OfferedIn(Net!Fill(r, f), k) = OfferedIn(r, k + Len(f))
         /\ \A k \in Nat : k < FilledCount(r) => FilledIn(Net!Fill(r, f), k) = FilledIn(r, k)
         /\ \A j \in 1 .. Len(f) :
              FilledIn(Net!Fill(r, f), FilledCount(r) + j - 1)
                = [desc |-> OfferedIn(r, j - 1), frame |-> f[j]]
  <1> DEFINE n == Len(f)
             F == FilledCount(r)
             O == OfferedCount(r)
             q == Net!Fill(r, f)
  <1>1. /\ n \in Nat /\ F \in Nat /\ O \in Nat /\ F + O <= QueueSize /\ n <= O /\ DOMAIN f = 1 .. n
        /\ F < IdxMod /\ O < IdxMod /\ QueueSize \in Nat /\ IdxMod \in Nat /\ QueueSize < IdxMod
    <2>1. Len(f) \in Nat /\ DOMAIN f = 1 .. Len(f)
      BY LenProperties
    <2> QED BY <2>1, Counts, NetAssumed DEF Conserved
  <1>2. /\ r.avail \in Net!Index /\ r.used \in Net!Index /\ r.seen \in Net!Index
        /\ r.used \in Nat /\ r.seen \in Nat
    BY RxFields, IndexNat
  <1> DEFINE At(s) == {k \in DOMAIN f : Net!SlotOf(r.used + k - 1) = s}
             D == [s \in Net!Slot |-> IF At(s) = {} THEN r.done[s]
                     ELSE [desc |-> r.ring[s], frame |-> f[CHOOSE k \in At(s) : TRUE]]]
  <1>3. q = [avail |-> r.avail, used |-> (r.used + n) % IdxMod, seen |-> r.seen, mine |-> r.mine,
             ring |-> r.ring, done |-> D]
    <2>1. q = [[r EXCEPT !.used = (r.used + Len(f)) % IdxMod] EXCEPT !.done = D]
      BY RxFields DEF Net!Fill, Net!Complete
    <2> HIDE DEF D
    <2> DEFINE u == (r.used + Len(f)) % IdxMod
               moved == [r EXCEPT !.used = u]
    <2>2. r = [avail |-> r.avail, used |-> r.used, seen |-> r.seen, mine |-> r.mine,
               ring |-> r.ring, done |-> r.done]
      BY RxFields
    <2> HIDE DEF u
    <2>3. moved = [avail |-> r.avail, used |-> u, seen |-> r.seen, mine |-> r.mine,
                    ring |-> r.ring, done |-> r.done]
      BY <2>2
    <2> HIDE DEF moved
    <2>4. [moved EXCEPT !.done = D]
            = [avail |-> r.avail, used |-> u, seen |-> r.seen, mine |-> r.mine,
               ring |-> r.ring, done |-> D]
      BY <2>3
    <2> QED BY <2>1, <2>4 DEF u, moved
  <1>4. \A s \in Net!Slot : At(s) # {} => (CHOOSE k \in At(s) : TRUE) \in At(s)
    OBVIOUS
  <1>5. D \in [Net!Slot -> Net!Completion]
    <2>1. ASSUME NEW s \in Net!Slot
          PROVE  (IF At(s) = {} THEN r.done[s]
                   ELSE [desc |-> r.ring[s], frame |-> f[CHOOSE k \in At(s) : TRUE]]) \in Net!Completion
      <3>1. CASE At(s) = {}
        BY <3>1, RxFields
      <3>2. CASE At(s) # {}
        <4> DEFINE k == CHOOSE i \in At(s) : TRUE
        <4>1. k \in DOMAIN f
          BY <1>4, <3>2
        <4> HIDE DEF k
        <4>2. f[k] \in Net!Received
          BY <4>1, <1>1
        <4>3. r.ring[s] \in Net!Desc
          BY RxFields
        <4>4. [desc |-> r.ring[s], frame |-> f[k]] \in Net!Completion
          BY <4>2, <4>3 DEF Net!Completion
        <4> QED BY <3>2, <4>4 DEF k
      <3> QED BY <3>1, <3>2
    <2> QED BY <2>1
  <1>6. (r.used + n) % IdxMod \in Net!Index
    BY <1>1, <1>2, WrapIn
  <1>7. ASSUME NEW j \in 1 .. n
        PROVE  /\ Net!SlotOf(r.used + j - 1) \in Net!Slot
               /\ D[Net!SlotOf(r.used + j - 1)] = [desc |-> OfferedIn(r, j - 1), frame |-> f[j]]
    <2> DEFINE s == Net!SlotOf(r.used + j - 1)
    <2>1. s \in Net!Slot /\ s = Net!SlotOf(r.used + (j - 1))
      <3>1. r.used + j - 1 \in Nat /\ r.used + j - 1 = r.used + (j - 1)
        BY <1>1, <1>2
      <3> QED BY <3>1, SlotIn
    <2>2. j \in At(s)
      BY <1>1
    <2>3. \A k \in At(s) : k = j
      <3>1. ASSUME NEW k \in DOMAIN f, k # j
            PROVE  Net!SlotOf(r.used + k - 1) # s
        <4>1. /\ k - 1 \in Nat /\ j - 1 \in Nat /\ k \in Nat
              /\ r.used + k - 1 = r.used + (k - 1) /\ r.used + j - 1 = r.used + (j - 1)
          BY <1>1, <1>2
        <4>2. CASE k < j
          <5>1. k - 1 < j - 1 /\ (j - 1) - (k - 1) < QueueSize
            BY <1>1, <4>1, <4>2
          <5> QED BY <1>2, <4>1, <5>1, SlotsApart
        <4>3. CASE j < k
          <5>1. j - 1 < k - 1 /\ (k - 1) - (j - 1) < QueueSize
            BY <1>1, <4>1, <4>3
          <5> QED BY <1>2, <4>1, <5>1, SlotsApart
        <4> QED BY <1>1, <3>1, <4>1, <4>2, <4>3
      <3> QED BY <3>1
    <2> HIDE DEF s, At
    <2>4. (CHOOSE k \in At(s) : TRUE) = j
      BY <2>2, <2>3
    <2>5. D[s] = [desc |-> r.ring[s], frame |-> f[j]]
      BY <2>1, <2>2, <2>4
    <2> QED BY <2>1, <2>5 DEF s, OfferedIn
  <1>8. ASSUME NEW k \in Nat, k < F
        PROVE  D[Net!SlotOf(r.seen + k)] = r.done[Net!SlotOf(r.seen + k)]
    <2>1. r.seen + k \in Nat
      BY <1>2
    <2>2. Net!SlotOf(r.seen + k) \in Net!Slot
      BY <2>1, SlotIn
    <2>3. ASSUME NEW j \in DOMAIN f
          PROVE  Net!SlotOf(r.used + j - 1) # Net!SlotOf(r.seen + k)
      <3>1. j - 1 \in Nat /\ r.used + j - 1 = r.used + (j - 1) /\ F + (j - 1) \in Nat
            /\ k < F + (j - 1) /\ (F + (j - 1)) - k < QueueSize
        BY <1>1, <1>2, <1>8
      <3>2. Net!SlotOf(r.used + (j - 1)) = Net!SlotOf(r.seen + (F + (j - 1)))
        BY <3>1, UsedSlot
      <3> QED BY <1>2, <3>1, <3>2, SlotsApart
    <2>4. At(Net!SlotOf(r.seen + k)) = {}
      BY <2>3
    <2> HIDE DEF At
    <2> QED BY <2>2, <2>4
  <1> HIDE DEF D, q, n, F, O
  <1>9. q \in RxType
    BY <1>2, <1>3, <1>5, <1>6, RxFields DEF RxType
  <1>10. /\ q.avail = r.avail /\ q.used = (r.used + n) % IdxMod /\ q.seen = r.seen /\ q.mine = r.mine
         /\ q.ring = r.ring /\ q.done = D
    BY <1>3
  <1>11. OfferedCount(q) = O - n
    <2>1. n \in 0 .. Net!Between(r.avail, r.used)
      BY <1>1 DEF O, OfferedCount
    <2>2. Net!Between(r.avail, (r.used + n) % IdxMod) = Net!Between(r.avail, r.used) - n
      BY <1>2, <2>1, OlderMoves
    <2> QED BY <1>10, <2>2 DEF O, OfferedCount
  <1>12. FilledCount(q) = F + n
    <2>1. Net!Between(r.used, r.seen) + n < IdxMod
      BY <1>1 DEF F, FilledCount
    <2>2. Net!Between((r.used + n) % IdxMod, r.seen) = Net!Between(r.used, r.seen) + n
      BY <1>1, <1>2, <2>1, NewerMoves
    <2> QED BY <1>10, <2>2 DEF F, FilledCount
  <1>13. ASSUME NEW k \in Nat
         PROVE  OfferedIn(q, k) = OfferedIn(r, k + n)
    <2>0. r.used + n \in Nat
      BY <1>1, <1>2
    <2>1. Net!SlotOf(((r.used + n) % IdxMod) + k) = Net!SlotOf((r.used + n) + k)
      BY <2>0, SlotWraps
    <2>2. (r.used + n) + k = r.used + (k + n)
      BY <1>1, <1>2
    <2> QED BY <1>10, <2>1, <2>2 DEF OfferedIn
  <1>14. ASSUME NEW k \in Nat, k < F
         PROVE  FilledIn(q, k) = FilledIn(r, k)
    BY <1>8, <1>10, <1>14 DEF FilledIn
  <1>15. ASSUME NEW j \in 1 .. n
         PROVE  FilledIn(q, F + j - 1) = [desc |-> OfferedIn(r, j - 1), frame |-> f[j]]
    <2>1. j - 1 \in Nat /\ F + j - 1 = F + (j - 1) /\ r.used + (j - 1) = r.used + j - 1
      BY <1>1, <1>2
    <2>2. Net!SlotOf(r.used + (j - 1)) = Net!SlotOf(r.seen + (F + (j - 1)))
      BY <2>1, UsedSlot DEF F
    <2> QED BY <1>7, <1>10, <2>1, <2>2 DEF FilledIn
  <1> QED BY <1>9, <1>10, <1>11, <1>12, <1>13, <1>14, <1>15 DEF q, n, F, O

LEMMA FillConserves ==
  ASSUME NEW r \in RxType, Conserved(r), NEW S, S \subseteq Net!Received, NEW f \in Seq(S),
         Len(f) <= OfferedCount(r)
  PROVE  Conserved(Net!Fill(r, f))
  <1> DEFINE n == Len(f)
             F == FilledCount(r)
             O == OfferedCount(r)
             q == Net!Fill(r, f)
  <1>1. /\ q \in RxType /\ OfferedCount(q) = O - n /\ FilledCount(q) = F + n /\ q.mine = r.mine
        /\ \A k \in Nat : OfferedIn(q, k) = OfferedIn(r, k + n)
        /\ \A k \in Nat : k < F => FilledIn(q, k) = FilledIn(r, k)
        /\ \A j \in 1 .. n :
             FilledIn(q, F + j - 1) = [desc |-> OfferedIn(r, j - 1), frame |-> f[j]]
    BY FillMoves
  <1>2. n \in Nat /\ F \in Nat /\ O \in Nat /\ n <= O
    BY LenProperties, Counts
  <1> HIDE DEF n, F, O, q
  <1>3. ASSUME NEW k \in Nat, k < F + n, ~(k < F)
        PROVE  FilledIn(q, k).desc = OfferedIn(r, k - F) /\ k - F \in Nat /\ k - F < n
    <2>1. (k - F) + 1 \in 1 .. n /\ F + ((k - F) + 1) - 1 = k /\ ((k - F) + 1) - 1 = k - F
      BY <1>2, <1>3
    <2>2. FilledIn(q, F + ((k - F) + 1) - 1)
            = [desc |-> OfferedIn(r, ((k - F) + 1) - 1), frame |-> f[(k - F) + 1]]
      BY <1>1, <2>1
    <2>3. FilledIn(q, k).desc = OfferedIn(r, k - F)
      BY <2>1, <2>2
    <2> QED BY <1>2, <1>3, <2>3
  <1>4. \A k \in Nat : k < F => FilledIn(q, k).desc = FilledIn(r, k).desc
    BY <1>1
  <1>5. /\ \A k, l \in Nat : k < O /\ l < O /\ OfferedIn(r, k) = OfferedIn(r, l) => k = l
        /\ \A k, l \in Nat : k < F /\ l < F /\ FilledIn(r, k).desc = FilledIn(r, l).desc => k = l
        /\ \A k, l \in Nat : k < O /\ l < F => OfferedIn(r, k) # FilledIn(r, l).desc
        /\ \A k \in Nat : k < O => OfferedIn(r, k) \notin r.mine
        /\ \A k \in Nat : k < F => FilledIn(r, k).desc \notin r.mine
        /\ O + F + Cardinality(r.mine) = QueueSize
    BY DEF Conserved, O, F
  <1>6. OfferedCount(q) + FilledCount(q) + Cardinality(q.mine) = QueueSize
    BY <1>1, <1>2, <1>5, Counts
  <1>7. ASSUME NEW k \in Nat, NEW l \in Nat, k < O - n, l < O - n, OfferedIn(q, k) = OfferedIn(q, l)
        PROVE  k = l
    <2>1. k + n \in Nat /\ l + n \in Nat /\ k + n < O /\ l + n < O
      BY <1>2, <1>7
    <2>2. OfferedIn(r, k + n) = OfferedIn(r, l + n)
      BY <1>1, <1>7
    <2>3. k + n = l + n
      BY <1>5, <2>1, <2>2
    <2> QED BY <1>2, <2>3
  <1>8. ASSUME NEW k \in Nat, NEW l \in Nat, k < F + n, l < F + n, FilledIn(q, k).desc = FilledIn(q, l).desc
        PROVE  k = l
    <2>1. CASE k < F /\ l < F
      BY <1>4, <1>5, <1>8, <2>1
    <2>2. CASE ~(k < F) /\ ~(l < F)
      <3>1. /\ FilledIn(q, k).desc = OfferedIn(r, k - F) /\ k - F \in Nat /\ k - F < O
            /\ FilledIn(q, l).desc = OfferedIn(r, l - F) /\ l - F \in Nat /\ l - F < O
        BY <1>2, <1>3, <1>8, <2>2
      <3>2. k - F = l - F
        BY <1>5, <1>8, <3>1
      <3> QED BY <1>2, <3>2
    <2>3. CASE k < F /\ ~(l < F)
      <3>1. FilledIn(q, l).desc = OfferedIn(r, l - F) /\ l - F \in Nat /\ l - F < O
        BY <1>2, <1>3, <1>8, <2>3
      <3> QED BY <1>4, <1>5, <1>8, <2>3, <3>1
    <2>4. CASE ~(k < F) /\ l < F
      <3>1. FilledIn(q, k).desc = OfferedIn(r, k - F) /\ k - F \in Nat /\ k - F < O
        BY <1>2, <1>3, <1>8, <2>4
      <3> QED BY <1>4, <1>5, <1>8, <2>4, <3>1
    <2> QED BY <2>1, <2>2, <2>3, <2>4
  <1>9. ASSUME NEW k \in Nat, NEW l \in Nat, k < O - n, l < F + n
        PROVE  OfferedIn(q, k) # FilledIn(q, l).desc
    <2>1. OfferedIn(q, k) = OfferedIn(r, k + n) /\ k + n \in Nat /\ k + n < O
      BY <1>1, <1>2, <1>9
    <2>2. CASE l < F
      BY <1>4, <1>5, <2>1, <2>2
    <2>3. CASE ~(l < F)
      <3>1. FilledIn(q, l).desc = OfferedIn(r, l - F) /\ l - F \in Nat /\ l - F < n
        BY <1>3, <1>9, <2>3
      <3>2. l - F # k + n /\ l - F < O
        BY <1>2, <3>1
      <3> QED BY <1>5, <2>1, <3>1, <3>2
    <2> QED BY <2>2, <2>3
  <1>10. ASSUME NEW d \in Net!Desc, d \notin q.mine
         PROVE  \/ \E k \in Nat : k < O - n /\ d = OfferedIn(q, k)
                \/ \E k \in Nat : k < F + n /\ d = FilledIn(q, k).desc
    <2>1. d \notin r.mine
      BY <1>1, <1>10
    <2>2. \/ \E k \in Nat : k < O /\ d = OfferedIn(r, k)
          \/ \E k \in Nat : k < F /\ d = FilledIn(r, k).desc
      BY <2>1 DEF Conserved, O, F
    <2>3. ASSUME NEW k \in Nat, k < O, d = OfferedIn(r, k)
          PROVE  \/ \E i \in Nat : i < O - n /\ d = OfferedIn(q, i)
                 \/ \E i \in Nat : i < F + n /\ d = FilledIn(q, i).desc
      <3>1. CASE k < n
        <4>1. F + k \in Nat /\ F + k < F + n /\ ~(F + k < F) /\ (F + k) - F = k
          BY <1>2, <3>1
        <4>2. FilledIn(q, F + k).desc = OfferedIn(r, (F + k) - F)
          BY <1>3, <4>1
        <4> QED BY <2>3, <4>1, <4>2
      <3>2. CASE ~(k < n)
        <4>1. k - n \in Nat /\ k - n < O - n /\ (k - n) + n = k
          BY <1>2, <2>3, <3>2
        <4>2. OfferedIn(q, k - n) = OfferedIn(r, (k - n) + n)
          BY <1>1, <4>1
        <4> QED BY <2>3, <4>1, <4>2
      <3> QED BY <3>1, <3>2
    <2>4. ASSUME NEW k \in Nat, k < F, d = FilledIn(r, k).desc
          PROVE  \E i \in Nat : i < F + n /\ d = FilledIn(q, i).desc
      <3>1. k < F + n
        BY <1>2, <2>4
      <3> QED BY <1>4, <2>4, <3>1
    <2> QED BY <2>2, <2>3, <2>4
  <1>11. ASSUME NEW k \in Nat, k < O - n
         PROVE  OfferedIn(q, k) \notin q.mine
    <2>1. OfferedIn(q, k) = OfferedIn(r, k + n) /\ k + n \in Nat /\ k + n < O
      BY <1>1, <1>2, <1>11
    <2> QED BY <1>1, <1>5, <2>1
  <1>12. ASSUME NEW k \in Nat, k < F + n
         PROVE  FilledIn(q, k).desc \notin q.mine
    <2>1. CASE k < F
      BY <1>1, <1>4, <1>5, <2>1
    <2>2. CASE ~(k < F)
      <3>1. FilledIn(q, k).desc = OfferedIn(r, k - F) /\ k - F \in Nat /\ k - F < n
        BY <1>3, <1>12, <2>2
      <3>2. k - F < O
        BY <1>2, <3>1
      <3> QED BY <1>1, <1>5, <3>1, <3>2
    <2> QED BY <2>1, <2>2
  <1>13. OfferedCount(q) = O - n /\ FilledCount(q) = F + n
    BY <1>1
  <1>14. Conserved(q)
    <2>1. \A k, l \in Nat : k < O - n /\ l < O - n /\ OfferedIn(q, k) = OfferedIn(q, l) => k = l
      BY <1>7
    <2>2. \A k, l \in Nat : k < F + n /\ l < F + n /\ FilledIn(q, k).desc = FilledIn(q, l).desc => k = l
      BY <1>8
    <2>3. \A k, l \in Nat : k < O - n /\ l < F + n => OfferedIn(q, k) # FilledIn(q, l).desc
      BY <1>9
    <2>4. \A d \in Net!Desc : d \notin q.mine =>
            \/ \E k \in Nat : k < O - n /\ d = OfferedIn(q, k)
            \/ \E k \in Nat : k < F + n /\ d = FilledIn(q, k).desc
      BY <1>10
    <2>5. /\ \A k \in Nat : k < O - n => OfferedIn(q, k) \notin q.mine
          /\ \A k \in Nat : k < F + n => FilledIn(q, k).desc \notin q.mine
      BY <1>11, <1>12
    <2> QED BY <1>6, <1>13, <2>1, <2>2, <2>3, <2>4, <2>5 DEF Conserved
  <1> QED BY <1>14 DEF q

(* The driver offers a buffer it has.                                      *)
LEMMA OfferMoves ==
  ASSUME NEW r \in RxType, Conserved(r), NEW d \in r.mine, NEW q,
         q = [r EXCEPT !.ring[Net!SlotOf(r.avail)] = d, !.avail = (@ + 1) % IdxMod, !.mine = @ \ {d}]
  PROVE  /\ q \in RxType /\ Conserved(q) /\ FilledCount(q) = FilledCount(r)
         /\ q.used = r.used /\ q.seen = r.seen
         /\ \A k \in Nat : FilledIn(q, k) = FilledIn(r, k)
  <1> DEFINE F == FilledCount(r)
             O == OfferedCount(r)
             s == Net!SlotOf(r.avail)
  <1>1. /\ r.avail \in Net!Index /\ r.used \in Net!Index /\ r.seen \in Net!Index
        /\ r.avail \in Nat /\ r.used \in Nat /\ r.seen \in Nat /\ d \in Net!Desc
    BY RxFields, IndexNat
  <1>2. s \in Net!Slot /\ (r.avail + 1) % IdxMod \in Net!Index
    BY <1>1, SlotIn, WrapIn
  <1> DEFINE R == [r.ring EXCEPT ![s] = d]
             a == (r.avail + 1) % IdxMod
             M == r.mine \ {d}
  <1>3. R \in [Net!Slot -> Net!Desc] /\ M \in SUBSET Net!Desc /\ a \in Net!Index
    BY <1>1, <1>2, RxFields
  <1>4. q = [avail |-> a, used |-> r.used, seen |-> r.seen, mine |-> M, ring |-> R, done |-> r.done]
    <2> DEFINE q1 == [r EXCEPT !.ring[s] = d]
               q2 == [q1 EXCEPT !.avail = a]
    <2>1. q1 = [avail |-> r.avail, used |-> r.used, seen |-> r.seen, mine |-> r.mine, ring |-> R,
                done |-> r.done]
      <3>1. q1 = [r EXCEPT !.ring = R]
        OBVIOUS
      <3> HIDE DEF R, q1
      <3>2. r = [avail |-> r.avail, used |-> r.used, seen |-> r.seen, mine |-> r.mine,
                 ring |-> r.ring, done |-> r.done]
        BY RxFields
      <3>3. [r EXCEPT !.ring = R] = [avail |-> r.avail, used |-> r.used, seen |-> r.seen,
                                     mine |-> r.mine, ring |-> R, done |-> r.done]
        BY <3>2
      <3> QED BY <3>1, <3>3
    <2>2. q = [q2 EXCEPT !.mine = M]
      <3>1. q1.avail = r.avail
        BY <2>1
      <3> QED OBVIOUS
    <2> HIDE DEF q1, R, a, M
    <2>3. q2 = [avail |-> a, used |-> r.used, seen |-> r.seen, mine |-> r.mine, ring |-> R,
                done |-> r.done]
      BY <2>1
    <2> HIDE DEF q2
    <2> QED BY <2>2, <2>3
  <1>5. q \in RxType
    <2> HIDE DEF R, a, M
    <2> QED BY <1>1, <1>3, <1>4, RxFields DEF RxType
  <1>6. /\ q.avail = a /\ q.used = r.used /\ q.seen = r.seen /\ q.mine = M /\ q.ring = R
        /\ q.done = r.done
    <2> HIDE DEF R, a, M
    <2>1. \A x : x = [avail |-> a, used |-> r.used, seen |-> r.seen, mine |-> M, ring |-> R,
                      done |-> r.done]
            => /\ x.avail = a /\ x.used = r.used /\ x.seen = r.seen /\ x.mine = M
               /\ x.ring = R /\ x.done = r.done
      OBVIOUS
    <2> QED BY <1>4, <2>1
  <1>7. /\ FilledCount(q) = F
        /\ \A k \in Nat : FilledIn(q, k) = FilledIn(r, k)
    BY <1>6 DEF FilledCount, FilledIn
  <1>8. IsFiniteSet(r.mine) /\ Cardinality(r.mine) \in Nat /\ Cardinality(M) = Cardinality(r.mine) - 1
    BY Counts, FS_RemoveElement
  <1>9. /\ O \in Nat /\ F \in Nat /\ O + F + Cardinality(r.mine) = QueueSize
        /\ Cardinality(M) \in Nat /\ O < QueueSize /\ O + 1 < IdxMod /\ QueueSize \in Nat
    <2>1. IsFiniteSet(M)
      BY <1>8, FS_RemoveElement
    <2>2. Cardinality(M) \in Nat
      BY <2>1, FS_CardinalityType
    <2>3. O \in Nat /\ F \in Nat /\ O + F + Cardinality(r.mine) = QueueSize
      BY Counts DEF Conserved
    <2> HIDE DEF M, O, F
    <2> QED BY <1>8, <2>2, <2>3, NetAssumed
  <1>10. OfferedCount(q) = O + 1
    <2>1. Net!Between(r.avail, r.used) + 1 < IdxMod
      BY <1>9 DEF OfferedCount
    <2>2. Net!Between((r.avail + 1) % IdxMod, r.used) = Net!Between(r.avail, r.used) + 1
      BY <1>1, <2>1, NewerMoves
    <2> QED BY <1>6, <2>2 DEF OfferedCount
  <1>11. s = Net!SlotOf(r.used + O)
    BY AvailSlot
  <1>12. OfferedIn(q, O) = d
    <2>1. q.ring[s] = d
      BY <1>2, <1>6, RxFields
    <2> HIDE DEF s
    <2> QED BY <1>6, <1>11, <2>1 DEF OfferedIn
  <1>13. ASSUME NEW k \in Nat, k < O
         PROVE  OfferedIn(q, k) = OfferedIn(r, k)
    <2>1. O - k < QueueSize
      BY <1>9, <1>13
    <2>2. Net!SlotOf(r.used + k) # s
      BY <1>1, <1>9, <1>11, <1>13, <2>1, SlotsApart
    <2>3. Net!SlotOf(r.used + k) \in Net!Slot
      <3>1. r.used + k \in Nat
        BY <1>1
      <3> QED BY <3>1, SlotIn
    <2>4. R[Net!SlotOf(r.used + k)] = r.ring[Net!SlotOf(r.used + k)]
      <3> HIDE DEF s
      <3> QED BY <2>2, <2>3, RxFields
    <2> HIDE DEF R
    <2> QED BY <1>6, <2>4 DEF OfferedIn
  <1> HIDE DEF R, a, M, s, O, F
  <1>14. /\ \A k, l \in Nat : k < O /\ l < O /\ OfferedIn(r, k) = OfferedIn(r, l) => k = l
         /\ \A k, l \in Nat : k < F /\ l < F /\ FilledIn(r, k).desc = FilledIn(r, l).desc => k = l
         /\ \A k, l \in Nat : k < O /\ l < F => OfferedIn(r, k) # FilledIn(r, l).desc
         /\ \A k \in Nat : k < O => OfferedIn(r, k) \notin r.mine
         /\ \A k \in Nat : k < F => FilledIn(r, k).desc \notin r.mine
         /\ \A e \in Net!Desc : e \notin r.mine =>
              \/ \E k \in Nat : k < O /\ e = OfferedIn(r, k)
              \/ \E k \in Nat : k < F /\ e = FilledIn(r, k).desc
    BY DEF Conserved, O, F
  <1>15. \A k \in Nat : k < O + 1 => k = O \/ k < O
    BY <1>9
  <1>16. M = r.mine \ {d}
    BY DEF M
  <1>17. \A k \in Nat : k < O => OfferedIn(q, k) # d
    BY <1>13, <1>14
  <1>18. \A k \in Nat : k < F => FilledIn(q, k).desc # d /\ FilledIn(q, k).desc = FilledIn(r, k).desc
    BY <1>7, <1>14
  <1>19. \A k, l \in Nat : k < O + 1 /\ l < O + 1 /\ OfferedIn(q, k) = OfferedIn(q, l) => k = l
    BY <1>12, <1>13, <1>14, <1>15, <1>17
  <1>20. \A k, l \in Nat : k < F /\ l < F /\ FilledIn(q, k).desc = FilledIn(q, l).desc => k = l
    BY <1>14, <1>18
  <1>21. \A k, l \in Nat : k < O + 1 /\ l < F => OfferedIn(q, k) # FilledIn(q, l).desc
    BY <1>12, <1>13, <1>14, <1>15, <1>18
  <1>22. ASSUME NEW e \in Net!Desc, e \notin q.mine
         PROVE  \/ \E k \in Nat : k < O + 1 /\ e = OfferedIn(q, k)
                \/ \E k \in Nat : k < F /\ e = FilledIn(q, k).desc
    <2>1. CASE e = d
      BY <1>9, <1>12, <2>1
    <2>2. CASE e # d
      <3>1. e \notin r.mine
        BY <1>6, <1>16, <1>22, <2>2
      <3>2. CASE \E k \in Nat : k < O /\ e = OfferedIn(r, k)
        <4>1. PICK k \in Nat : k < O /\ e = OfferedIn(r, k)
          BY <3>2
        <4>2. k < O + 1 /\ e = OfferedIn(q, k)
          BY <1>9, <1>13, <4>1
        <4> QED BY <4>2
      <3>3. CASE \E k \in Nat : k < F /\ e = FilledIn(r, k).desc
        BY <1>18, <3>3
      <3> QED BY <1>14, <3>1, <3>2, <3>3
    <2> QED BY <2>1, <2>2
  <1>23. /\ \A k \in Nat : k < O + 1 => OfferedIn(q, k) \notin q.mine
         /\ \A k \in Nat : k < F => FilledIn(q, k).desc \notin q.mine
    BY <1>6, <1>12, <1>13, <1>14, <1>15, <1>16, <1>18
  <1>24. OfferedCount(q) + FilledCount(q) + Cardinality(q.mine) = QueueSize
    <2>1. Cardinality(q.mine) = Cardinality(r.mine) - 1
      BY <1>6, <1>8
    <2>2. (O + 1) + F + (Cardinality(r.mine) - 1) = QueueSize
      BY <1>8, <1>9
    <2> QED BY <1>7, <1>10, <2>1, <2>2
  <1>25. Conserved(q)
    <2>1. \A e \in Net!Desc : e \notin q.mine =>
            \/ \E k \in Nat : k < O + 1 /\ e = OfferedIn(q, k)
            \/ \E k \in Nat : k < F /\ e = FilledIn(q, k).desc
      BY <1>22
    <2> QED BY <1>7, <1>10, <1>19, <1>20, <1>21, <1>23, <1>24, <2>1 DEF Conserved
  <1> QED BY <1>5, <1>6, <1>7, <1>25 DEF F

(* The driver takes the oldest filled buffer.                              *)
LEMMA TakeMoves ==
  ASSUME NEW r \in RxType, Conserved(r), r.seen # r.used, NEW q, NEW e, e = FilledIn(r, 0),
         q = [r EXCEPT !.seen = (@ + 1) % IdxMod, !.mine = @ \cup {e.desc}]
  PROVE  /\ q \in RxType /\ Conserved(q) /\ FilledCount(r) > 0 /\ FilledCount(q) = FilledCount(r) - 1
         /\ q.used = r.used /\ e \in Net!Completion
         /\ \A k \in Nat : FilledIn(q, k) = FilledIn(r, k + 1)
  <1> DEFINE F == FilledCount(r)
             O == OfferedCount(r)
             d == e.desc
             c == (r.seen + 1) % IdxMod
             M == r.mine \cup {d}
  <1>1. /\ r.avail \in Net!Index /\ r.used \in Net!Index /\ r.seen \in Net!Index
        /\ r.avail \in Nat /\ r.used \in Nat /\ r.seen \in Nat
    BY RxFields, IndexNat
  <1>2. e \in Net!Completion /\ d \in Net!Desc
    <2>1. e \in Net!Completion
      BY InRings
    <2> QED BY <2>1 DEF Net!Completion
  <1>3. c \in Net!Index /\ M \in SUBSET Net!Desc
    BY <1>1, <1>2, WrapIn, RxFields
  <1>4. q = [avail |-> r.avail, used |-> r.used, seen |-> c, mine |-> M, ring |-> r.ring, done |-> r.done]
    <2> DEFINE q1 == [r EXCEPT !.seen = c]
    <2>1. q = [q1 EXCEPT !.mine = M]
      <3>1. q1.mine = r.mine
        BY RxFields
      <3> QED OBVIOUS
    <2> HIDE DEF c, M
    <2>2. r = [avail |-> r.avail, used |-> r.used, seen |-> r.seen, mine |-> r.mine,
               ring |-> r.ring, done |-> r.done]
      BY RxFields
    <2>3. q1 = [avail |-> r.avail, used |-> r.used, seen |-> c, mine |-> r.mine,
                ring |-> r.ring, done |-> r.done]
      BY <2>2
    <2> HIDE DEF q1
    <2> QED BY <2>1, <2>3
  <1> HIDE DEF c, M
  <1>5. /\ q.avail = r.avail /\ q.used = r.used /\ q.seen = c /\ q.mine = M /\ q.ring = r.ring
        /\ q.done = r.done
    <2>1. \A x : x = [avail |-> r.avail, used |-> r.used, seen |-> c, mine |-> M, ring |-> r.ring,
                      done |-> r.done]
            => /\ x.avail = r.avail /\ x.used = r.used /\ x.seen = c /\ x.mine = M
               /\ x.ring = r.ring /\ x.done = r.done
      OBVIOUS
    <2> QED BY <1>4, <2>1
  <1>6. q \in RxType
    BY <1>1, <1>3, <1>4, RxFields DEF RxType
  <1>7. F \in Nat /\ F > 0 /\ O \in Nat /\ O + F + Cardinality(r.mine) = QueueSize
        /\ QueueSize \in Nat /\ Cardinality(r.mine) \in Nat
    <2>1. F \in Nat /\ O \in Nat /\ O + F + Cardinality(r.mine) = QueueSize /\ QueueSize \in Nat
          /\ Cardinality(r.mine) \in Nat
      BY Counts, NetAssumed DEF Conserved
    <2>2. F = IF r.used >= r.seen THEN r.used - r.seen ELSE r.used + IdxMod - r.seen
      BY <1>1, Ahead DEF FilledCount
    <2>3. r.seen < IdxMod
      BY <1>1, IndexNat
    <2> HIDE DEF F, O
    <2>4. F # 0
      BY <1>1, <2>2, <2>3, NetAssumed
    <2> QED BY <2>1, <2>4
  <1>8. OfferedCount(q) = O /\ \A k \in Nat : OfferedIn(q, k) = OfferedIn(r, k)
    BY <1>5 DEF OfferedCount, OfferedIn
  <1>9. FilledCount(q) = F - 1
    <2>1. 1 \in 0 .. Net!Between(r.used, r.seen)
      BY <1>7 DEF FilledCount
    <2>2. Net!Between(r.used, (r.seen + 1) % IdxMod) = Net!Between(r.used, r.seen) - 1
      BY <1>1, <2>1, OlderMoves
    <2> QED BY <1>5, <2>2 DEF FilledCount, c
  <1>10. ASSUME NEW k \in Nat
         PROVE  FilledIn(q, k) = FilledIn(r, k + 1)
    <2>1. r.seen + 1 \in Nat /\ (r.seen + 1) + k = r.seen + (k + 1)
      BY <1>1
    <2>2. Net!SlotOf(((r.seen + 1) % IdxMod) + k) = Net!SlotOf((r.seen + 1) + k)
      BY <2>1, SlotWraps
    <2> QED BY <1>5, <2>1, <2>2 DEF FilledIn, c
  <1> HIDE DEF O, F
  <1>11. /\ \A k, l \in Nat : k < O /\ l < O /\ OfferedIn(r, k) = OfferedIn(r, l) => k = l
         /\ \A k, l \in Nat : k < F /\ l < F /\ FilledIn(r, k).desc = FilledIn(r, l).desc => k = l
         /\ \A k, l \in Nat : k < O /\ l < F => OfferedIn(r, k) # FilledIn(r, l).desc
         /\ \A k \in Nat : k < O => OfferedIn(r, k) \notin r.mine
         /\ \A k \in Nat : k < F => FilledIn(r, k).desc \notin r.mine
         /\ \A x \in Net!Desc : x \notin r.mine =>
              \/ \E k \in Nat : k < O /\ x = OfferedIn(r, k)
              \/ \E k \in Nat : k < F /\ x = FilledIn(r, k).desc
    BY DEF Conserved, O, F
  <1>12. d \notin r.mine /\ d = FilledIn(r, 0).desc /\ 0 \in Nat /\ 0 < F
    BY <1>7, <1>11
  <1>13. IsFiniteSet(r.mine) /\ Cardinality(M) = Cardinality(r.mine) + 1
    BY <1>12, Counts, FS_AddElement DEF M
  <1>14. OfferedCount(q) + FilledCount(q) + Cardinality(q.mine) = QueueSize
    <2>1. Cardinality(q.mine) = Cardinality(r.mine) + 1
      BY <1>5, <1>13
    <2>2. O + (F - 1) + (Cardinality(r.mine) + 1) = QueueSize
      BY <1>7
    <2> QED BY <1>8, <1>9, <2>1, <2>2
  <1>15. ASSUME NEW k \in Nat, k < F - 1
         PROVE  /\ k + 1 \in Nat /\ k + 1 < F /\ k + 1 # 0
                /\ FilledIn(q, k) = FilledIn(r, k + 1) /\ FilledIn(q, k).desc # d
    BY <1>7, <1>10, <1>11, <1>12, <1>15
  <1>16. ASSUME NEW k \in Nat, NEW l \in Nat, k < F - 1, l < F - 1, FilledIn(q, k).desc = FilledIn(q, l).desc
         PROVE  k = l
    <2>1. k + 1 = l + 1
      BY <1>11, <1>15, <1>16
    <2> QED BY <2>1
  <1>17. \A k, l \in Nat : k < O /\ l < F - 1 => OfferedIn(q, k) # FilledIn(q, l).desc
    BY <1>8, <1>11, <1>15
  <1>18. ASSUME NEW x \in Net!Desc, x \notin q.mine
         PROVE  \/ \E k \in Nat : k < O /\ x = OfferedIn(q, k)
                \/ \E k \in Nat : k < F - 1 /\ x = FilledIn(q, k).desc
    <2>1. x \notin r.mine /\ x # d
      BY <1>5, <1>18 DEF M
    <2>2. CASE \E k \in Nat : k < O /\ x = OfferedIn(r, k)
      BY <1>8, <2>2
    <2>3. CASE \E k \in Nat : k < F /\ x = FilledIn(r, k).desc
      <3>1. PICK k \in Nat : k < F /\ x = FilledIn(r, k).desc
        BY <2>3
      <3>2. k # 0
        BY <1>12, <2>1, <3>1
      <3>3. k - 1 \in Nat /\ k - 1 < F - 1 /\ (k - 1) + 1 = k
        BY <1>7, <3>1, <3>2
      <3>4. FilledIn(q, k - 1) = FilledIn(r, (k - 1) + 1)
        BY <1>10, <3>3
      <3> QED BY <3>1, <3>3, <3>4
    <2> QED BY <1>11, <2>1, <2>2, <2>3
  <1>19. /\ \A k \in Nat : k < O => OfferedIn(q, k) \notin q.mine
         /\ \A k \in Nat : k < F - 1 => FilledIn(q, k).desc \notin q.mine
    <2>1. \A k \in Nat : k < O => OfferedIn(q, k) # d
      BY <1>8, <1>11, <1>12
    <2> QED BY <1>5, <1>8, <1>11, <1>15, <2>1 DEF M
  <1>20. Conserved(q)
    <2>1. \A x \in Net!Desc : x \notin q.mine =>
            \/ \E k \in Nat : k < O /\ x = OfferedIn(q, k)
            \/ \E k \in Nat : k < F - 1 /\ x = FilledIn(q, k).desc
      BY <1>18
    <2>2. \A k, l \in Nat : k < F - 1 /\ l < F - 1 /\ FilledIn(q, k).desc = FilledIn(q, l).desc => k = l
      BY <1>16
    <2>3. \A k, l \in Nat : k < O /\ l < O /\ OfferedIn(q, k) = OfferedIn(q, l) => k = l
      BY <1>8, <1>11
    <2> QED BY <1>8, <1>9, <1>14, <1>17, <1>19, <2>1, <2>2, <2>3 DEF Conserved
  <1> QED BY <1>2, <1>5, <1>6, <1>7, <1>9, <1>10, <1>20 DEF F

(* The rings of a driver that has just configured the device.              *)
LEMMA FreshRings ==
  /\ Net!FreshRx \in RxType /\ Conserved(Net!FreshRx) /\ FilledCount(Net!FreshRx) = 0
  /\ Net!FreshRx.used = Net!FreshRx.seen
  <1> DEFINE q == Net!FreshRx
  <1>1. 0 \in Net!Index /\ 0 \in Net!Desc /\ 0 \in Net!Slot
    BY NetAssumed DEF Net!Index, Net!Desc, Net!Slot
  <1>2. [desc |-> 0, frame |-> Net!Tap(0)] \in Net!Completion
    BY <1>1 DEF Net!Completion
  <1> DEFINE R == [s \in Net!Slot |-> 0]
             D == [s \in Net!Slot |-> [desc |-> 0, frame |-> Net!Tap(0)]]
  <1>3. R \in [Net!Slot -> Net!Desc] /\ D \in [Net!Slot -> Net!Completion]
    BY <1>1, <1>2
  <1>4. q = [avail |-> 0, used |-> 0, seen |-> 0, mine |-> Net!Desc, ring |-> R, done |-> D]
    BY DEF Net!FreshRx
  <1> HIDE DEF q, R, D
  <1>5. /\ q.avail = 0 /\ q.used = 0 /\ q.seen = 0 /\ q.mine = Net!Desc
    BY <1>4
  <1>6. q \in RxType
    BY <1>1, <1>3, <1>4 DEF RxType
  <1>7. Net!Between(0, 0) = 0
    <2>1. Net!Between(0, 0) = IF 0 >= 0 THEN 0 - 0 ELSE 0 + IdxMod - 0
      BY <1>1, Ahead
    <2> QED BY <2>1
  <1>8. OfferedCount(q) = 0 /\ FilledCount(q) = 0
    BY <1>5, <1>7 DEF OfferedCount, FilledCount
  <1>9. Cardinality(q.mine) = QueueSize
    <2>1. Cardinality(0 .. QueueSize - 1) = QueueSize
      <3>1. 0 \in Int /\ QueueSize - 1 \in Int /\ ~(0 > QueueSize - 1) /\ (QueueSize - 1) - 0 + 1 = QueueSize
        BY NetAssumed
      <3> QED BY <3>1, FS_Interval
    <2> QED BY <1>5, <2>1 DEF Net!Desc
  <1>10. \A k \in Nat : ~(k < 0)
    OBVIOUS
  <1>11. Conserved(q)
    BY <1>5, <1>8, <1>9, <1>10, NetAssumed DEF Conserved
  <1> QED BY <1>5, <1>6, <1>8, <1>11 DEF q

-----------------------------------------------------------------------------
(* What try_rx reads from the TAP.                                         *)
LEMMA Least ==
  ASSUME NEW T, T \subseteq Nat, T # {}
  PROVE  \E m \in T : \A k \in T : m <= k
<1> DEFINE Below == OpToRel(<, Nat)
<1>1. IsWellFoundedOn(Below, Nat)
  BY NatLessThanWellFounded
<1>2. ASSUME NEW x \in Nat, NEW y \in Nat, y < x
      PROVE  <<y, x>> \in Below
  BY <1>2 DEF OpToRel
<1> HIDE DEF Below
<1>3. PICK x \in T : \A y \in T : ~(<<y, x>> \in Below)
  BY <1>1, WFMin
<1>4. ASSUME NEW k \in T
      PROVE  x <= k
  <2>1. ~(k < x)
    BY <1>2, <1>3
  <2> QED
    BY <2>1
<1> QED
  BY <1>4

LEMMA Climb ==
  ASSUME NEW N \in Nat, NEW G, 0 \in G, \A n \in 1 .. N : n - 1 \in G => n \in G
  PROVE  \A n \in 0 .. N : n \in G
<1> DEFINE T == {n \in 0 .. N : n \notin G}
<1> SUFFICES ASSUME T # {} PROVE FALSE
  OBVIOUS
<1>1. PICK m \in T : \A k \in T : m <= k
  <2>1. T \subseteq Nat
    OBVIOUS
  <2> HIDE DEF T
  <2> QED
    BY <2>1, Least
<1>2. m \in 1 .. N /\ m - 1 \in 0 .. N /\ ~(m <= m - 1)
  OBVIOUS
<1>3. m - 1 \in G
  BY <1>1, <1>2
<1> QED
  BY <1>2, <1>3

Stages(N, A, b, F) == N \in Nat /\ b \in A /\ F \in [1 .. N -> [A -> A]]
Staged(N, A, b, F, h) ==
  h \in [0 .. N -> A] /\ h[0] = b /\ \A n \in 1 .. N : h[n] = F[n][h[n - 1]]

LEMMA Iterates ==
  ASSUME NEW N, NEW A, NEW b, NEW F, Stages(N, A, b, F)
  PROVE  \E h : Staged(N, A, b, F, h)
<1> USE DEF Stages
<1> DEFINE Runs(n, h) == h \in [0 .. n -> A] /\ h[0] = b /\ \A m \in 1 .. n : h[m] = F[m][h[m - 1]]
           G == {n \in 0 .. N : \E h : Runs(n, h)}
<1>1. 0 \in G
  <2> DEFINE h == [m \in 0 .. 0 |-> b]
  <2>1. h \in [0 .. 0 -> A] /\ h[0] = b /\ 1 .. 0 = {}
    OBVIOUS
  <2> HIDE DEF h
  <2>2. Runs(0, h) /\ 0 \in 0 .. N
    BY <2>1
  <2> QED
    BY <2>2
<1>2. ASSUME NEW n \in 1 .. N, n - 1 \in G
      PROVE  n \in G
  <2>1. PICK h : Runs(n - 1, h)
    BY <1>2
  <2> DEFINE a == F[n][h[n - 1]]
             g == [m \in 0 .. n |-> IF m = n THEN a ELSE h[m]]
  <2>2. n - 1 \in 0 .. n - 1 /\ a \in A
    BY <2>1
  <2>3. \A m \in 0 .. n : m = n \/ m \in 0 .. n - 1
    OBVIOUS
  <2>4. g \in [0 .. n -> A]
    BY <2>1, <2>2, <2>3
  <2>5. g[0] = b
    BY <2>1
  <2>6. ASSUME NEW m \in 1 .. n
        PROVE  g[m] = F[m][g[m - 1]]
    <3>1. m \in 0 .. n /\ m - 1 \in 0 .. n /\ m - 1 # n
      OBVIOUS
    <3>2. g[m - 1] = h[m - 1]
      BY <3>1
    <3>3. CASE m = n
      BY <3>1, <3>2, <3>3
    <3>4. CASE m # n
      <4>1. m \in 1 .. n - 1 /\ g[m] = h[m]
        BY <3>1, <3>4
      <4> QED
        BY <2>1, <3>2, <4>1
    <3> QED
      BY <3>3, <3>4
  <2> HIDE DEF g
  <2>7. Runs(n, g)
    BY <2>4, <2>5, <2>6
  <2> QED
    BY <2>7
<1> HIDE DEF G
<1>3. N \in G
  <2>1. N \in 0 .. N /\ \A n \in 1 .. N : n - 1 \in G => n \in G
    BY <1>2
  <2> QED
    BY <1>1, <2>1, Climb
<1> QED
  BY <1>3 DEF G, Staged

(* The frames of the TAP are those that arrived, in their order.           *)
Frame(n) == {Net!Tap(k) : k \in 1 .. n}
InOrder(t) == \A i, j \in 1 .. Len(t) : i < j => t[i][2] < t[j][2]

LEMMA Reading ==
  ASSUME NEW S, NEW t \in Seq(S)
  PROVE  /\ Net!Wanted(t)[0] = <<>>
         /\ \A n \in 1 .. Len(t) :
              Net!Wanted(t)[n] = IF t[n][2] \in IPv6 THEN Net!Wanted(t)[n - 1]
                                 ELSE Append(Net!Wanted(t)[n - 1], t[n])
         /\ \A n \in 0 .. Len(t) : Net!Wanted(t)[n] \in Seq(S)
<1> DEFINE N == Len(t)
           A == Seq(S)
           F == [n \in 1 .. N |-> [x \in A |-> IF t[n][2] \in IPv6 THEN x ELSE Append(x, t[n])]]
           f == CHOOSE g : g = [n \in 0 .. N |->
                  IF n = 0 THEN <<>>
                  ELSE IF t[n][2] \in IPv6 THEN g[n - 1] ELSE Append(g[n - 1], t[n])]
<1>1. N \in Nat /\ \A n \in 1 .. N : t[n] \in S
  BY LenProperties
<1>2. <<>> \in A
  BY EmptySeq
<1>3. F \in [1 .. N -> [A -> A]]
  <2>1. ASSUME NEW n \in 1 .. N, NEW x \in A
        PROVE  (IF t[n][2] \in IPv6 THEN x ELSE Append(x, t[n])) \in A
    <3>1. Append(x, t[n]) \in A
      BY <1>1, AppendProperties
    <3> QED
      BY <3>1
  <2> HIDE DEF A, N
  <2> QED
    BY <2>1
<1>4. PICK h : h \in [0 .. N -> A] /\ h[0] = <<>> /\ \A n \in 1 .. N : h[n] = F[n][h[n - 1]]
  <2> HIDE DEF F, N, A
  <2>1. Stages(N, A, <<>>, F)
    BY <1>1, <1>2, <1>3 DEF Stages
  <2>2. PICK h : Staged(N, A, <<>>, F, h)
    BY <2>1, Iterates
  <2> QED
    BY <2>2 DEF Staged
<1>5. ASSUME NEW n \in 1 .. N
      PROVE  F[n][h[n - 1]] = IF t[n][2] \in IPv6 THEN h[n - 1] ELSE Append(h[n - 1], t[n])
  <2>1. n - 1 \in 0 .. N
    BY <1>1
  <2> HIDE DEF A
  <2>2. h[n - 1] \in A
    BY <1>4, <2>1
  <2> QED
    BY <2>2
<1>6. h = [n \in 0 .. N |-> IF n = 0 THEN <<>>
                            ELSE IF t[n][2] \in IPv6 THEN h[n - 1] ELSE Append(h[n - 1], t[n])]
  <2>1. \A n \in 0 .. N : n # 0 => n \in 1 .. N
    BY <1>1
  <2> HIDE DEF F, N, A
  <2> QED
    BY <1>4, <1>5, <2>1
<1>7. f = [n \in 0 .. N |-> IF n = 0 THEN <<>>
                            ELSE IF t[n][2] \in IPv6 THEN f[n - 1] ELSE Append(f[n - 1], t[n])]
  <2> HIDE DEF N
  <2> QED
    BY <1>6
<1>8. Net!Wanted(t) = f
  BY DEF Net!Wanted
<1> HIDE DEF f
<1>9. /\ f[0] = <<>>
      /\ \A n \in 1 .. N : f[n] = IF t[n][2] \in IPv6 THEN f[n - 1] ELSE Append(f[n - 1], t[n])
  <2>1. 0 \in 0 .. N /\ \A n \in 1 .. N : n \in 0 .. N /\ n # 0
    BY <1>1
  <2> HIDE DEF N
  <2> QED
    BY <1>7, <2>1
<1>10. \A n \in 0 .. N : f[n] \in A
  <2> DEFINE G == {n \in 0 .. N : f[n] \in A}
  <2>1. 0 \in G
    <3>1. f[0] \in A
      BY <1>2, <1>9, Zenon
    <3>2. 0 \in 0 .. N
      BY <1>1
    <3> HIDE DEF A, N
    <3> QED
      BY <3>1, <3>2
  <2>2. ASSUME NEW n \in 1 .. N, n - 1 \in G
        PROVE  n \in G
    <3>1. f[n - 1] \in A /\ n \in 0 .. N /\ t[n] \in S
      BY <1>1, <2>2
    <3>2. Append(f[n - 1], t[n]) \in A
      BY <3>1, AppendProperties
    <3> QED
      BY <1>9, <3>1, <3>2
  <2> HIDE DEF G, N
  <2>3. \A n \in 0 .. N : n \in G
    BY <1>1, <2>1, <2>2, Climb
  <2> QED
    BY <2>3 DEF G
<1> QED
  BY <1>8, <1>9, <1>10

(* Each frame that is read is behind those read before it.                 *)
LEMMA ReadSteps ==
  ASSUME NEW S, NEW t \in Seq(S), NEW n \in 1 .. Len(t)
  PROVE  /\ Len(Net!Wanted(t)[n - 1]) \in Nat /\ Len(Net!Wanted(t)[n]) \in Nat
         /\ \A i \in 1 .. Len(Net!Wanted(t)[n - 1]) : Net!Wanted(t)[n][i] = Net!Wanted(t)[n - 1][i]
         /\ \/ Len(Net!Wanted(t)[n]) = Len(Net!Wanted(t)[n - 1])
            \/ /\ Len(Net!Wanted(t)[n]) = Len(Net!Wanted(t)[n - 1]) + 1
               /\ Net!Wanted(t)[n][Len(Net!Wanted(t)[n])] = t[n]
  <1> DEFINE w == Net!Wanted(t)[n - 1]
             v == Net!Wanted(t)[n]
  <1>1. n - 1 \in 0 .. Len(t) /\ n \in 0 .. Len(t) /\ t[n] \in S
    BY LenProperties
  <1>2. w \in Seq(S) /\ v \in Seq(S) /\ v = IF t[n][2] \in IPv6 THEN w ELSE Append(w, t[n])
    BY <1>1, Reading
  <1> HIDE DEF w, v
  <1>3. Len(w) \in Nat /\ Len(v) \in Nat
    BY <1>2, LenProperties
  <1>4. CASE t[n][2] \in IPv6
    BY <1>2, <1>3, <1>4 DEF w, v
  <1>5. CASE t[n][2] \notin IPv6
    <2>1. /\ Len(Append(w, t[n])) = Len(w) + 1
          /\ \A i \in 1 .. Len(w) : Append(w, t[n])[i] = w[i]
          /\ Append(w, t[n])[Len(w) + 1] = t[n]
      BY <1>1, <1>2, AppendProperties
    <2>2. v = Append(w, t[n])
      BY <1>2, <1>5
    <2> QED BY <1>3, <2>1, <2>2 DEF w, v
  <1> QED BY <1>4, <1>5

LEMMA ReadGrows ==
  ASSUME NEW S, NEW t \in Seq(S), NEW m \in 0 .. Len(t), NEW n \in 0 .. Len(t), m <= n
  PROVE  /\ Len(Net!Wanted(t)[m]) <= Len(Net!Wanted(t)[n])
         /\ \A i \in 1 .. Len(Net!Wanted(t)[m]) : Net!Wanted(t)[n][i] = Net!Wanted(t)[m][i]
  <1> DEFINE W == Net!Wanted(t)
             N == Len(t)
             Grown(k) == Len(W[m]) <= Len(W[k]) /\ \A i \in 1 .. Len(W[m]) : W[k][i] = W[m][i]
             G == {k \in 0 .. N : m <= k => Grown(k)}
  <1>1. N \in Nat
    BY LenProperties
  <1>2. Len(W[m]) \in Nat
    <2>1. W[m] \in Seq(S)
      BY Reading
    <2> QED BY <2>1, LenProperties
  <1>3. Grown(m)
    BY <1>2
  <1>4. 0 \in G
    BY <1>1, <1>3
  <1>5. ASSUME NEW k \in 1 .. N, k - 1 \in G
        PROVE  k \in G
    <2> SUFFICES ASSUME m <= k, m # k PROVE Grown(k)
      BY <1>1, <1>3
    <2>1. m <= k - 1
      BY <1>1
    <2>2. Grown(k - 1)
      BY <1>5, <2>1
    <2>3. /\ Len(W[k - 1]) \in Nat /\ Len(W[k]) \in Nat
          /\ \A i \in 1 .. Len(W[k - 1]) : W[k][i] = W[k - 1][i]
          /\ Len(W[k - 1]) <= Len(W[k])
      <3>1. k \in 1 .. Len(t)
        OBVIOUS
      <3> HIDE DEF N
      <3> QED BY <3>1, ReadSteps
    <2> HIDE DEF W
    <2>4. \A i \in 1 .. Len(W[m]) : i \in 1 .. Len(W[k - 1])
      BY <1>2, <2>2, <2>3
    <2> QED BY <1>2, <2>2, <2>3, <2>4
  <1> HIDE DEF G, N, W
  <1>6. \A k \in 0 .. N : k \in G
    BY <1>1, <1>4, <1>5, Climb
  <1>7. Grown(n)
    BY <1>6 DEF G, N
  <1> QED BY <1>7 DEF W

(* Reading keeps the order of the TAP.                                     *)
Among(w, t, n) == \A i \in 1 .. Len(w) : \E k \in 1 .. n : w[i] = t[k]

LEMMA ReadInOrder ==
  ASSUME NEW S, NEW t \in Seq(S), InOrder(t), NEW n \in 0 .. Len(t)
  PROVE  /\ Among(Net!Wanted(t)[n], t, n)
         /\ InOrder(Net!Wanted(t)[n])
  <1> DEFINE W == Net!Wanted(t)
             N == Len(t)
             From(k) == \A i \in 1 .. Len(W[k]) : \E l \in 1 .. k : W[k][i] = t[l]
             G == {k \in 0 .. N : From(k) /\ InOrder(W[k])}
  <1>1. N \in Nat
    BY LenProperties
  <1>2. 0 \in G
    <2>1. Len(W[0]) = 0
      BY Reading, EmptySeq
    <2> HIDE DEF W
    <2> QED BY <1>1, <2>1 DEF InOrder
  <1>3. ASSUME NEW k \in 1 .. N, k - 1 \in G
        PROVE  k \in G
    <2>1. /\ Len(W[k - 1]) \in Nat /\ Len(W[k]) \in Nat
          /\ \A i \in 1 .. Len(W[k - 1]) : W[k][i] = W[k - 1][i]
          /\ \/ Len(W[k]) = Len(W[k - 1])
             \/ Len(W[k]) = Len(W[k - 1]) + 1 /\ W[k][Len(W[k])] = t[k]
      <3>1. k \in 1 .. Len(t)
        OBVIOUS
      <3> HIDE DEF N
      <3> QED BY <3>1, ReadSteps
    <2>2. From(k - 1) /\ InOrder(W[k - 1])
      BY <1>3
    <2> HIDE DEF W
    <2>3. ASSUME NEW i \in 1 .. Len(W[k])
          PROVE  \/ i \in 1 .. Len(W[k - 1]) /\ \E l \in 1 .. k - 1 : W[k][i] = t[l] /\ W[k][i] = W[k - 1][i]
                 \/ i = Len(W[k]) /\ Len(W[k]) = Len(W[k - 1]) + 1 /\ W[k][i] = t[k]
      <3>1. CASE i \in 1 .. Len(W[k - 1])
        BY <2>1, <2>2, <3>1
      <3>2. CASE i \notin 1 .. Len(W[k - 1])
        BY <2>1, <3>2
      <3> QED BY <3>1, <3>2
    <2>4. From(k)
      <3>1. \A l \in 1 .. k - 1 : l \in 1 .. k
        BY <1>1
      <3>2. k \in 1 .. k
        BY <1>1
      <3> QED BY <2>3, <3>1, <3>2
    <2>5. ASSUME NEW i \in 1 .. Len(W[k]), NEW j \in 1 .. Len(W[k]), i < j
          PROVE  W[k][i][2] < W[k][j][2]
      <3>1. i \in 1 .. Len(W[k - 1])
        BY <2>1, <2>5
      <3>2. W[k][i] = W[k - 1][i] /\ \E l \in 1 .. k - 1 : W[k][i] = t[l]
        BY <2>1, <2>2, <3>1
      <3>3. CASE j \in 1 .. Len(W[k - 1])
        <4>1. W[k - 1][i][2] < W[k - 1][j][2]
          BY <2>2, <2>5, <3>1, <3>3 DEF InOrder
        <4>2. W[k][j] = W[k - 1][j]
          BY <2>1, <3>3
        <4> QED BY <3>2, <4>1, <4>2
      <3>4. CASE j \notin 1 .. Len(W[k - 1])
        <4>1. W[k][j] = t[k]
          BY <2>3, <3>4
        <4>2. PICK l \in 1 .. k - 1 : W[k][i] = t[l]
          BY <3>2
        <4>3. l \in 1 .. Len(t) /\ k \in 1 .. Len(t) /\ l < k
          BY <1>1
        <4>4. t[l][2] < t[k][2]
          BY <4>3 DEF InOrder
        <4> QED BY <4>1, <4>2, <4>4
      <3> QED BY <3>3, <3>4
    <2>6. InOrder(W[k])
      BY <2>5 DEF InOrder
    <2> QED BY <1>1, <2>4, <2>6
  <1> HIDE DEF G, N, W
  <1>4. \A k \in 0 .. N : k \in G
    BY <1>1, <1>2, <1>3, Climb
  <1>5. n \in G
    BY <1>4 DEF N
  <1> QED BY <1>5 DEF G, W, Among

LEMMA FrameFacts ==
  ASSUME NEW n \in Nat, NEW x \in Frame(n)
  PROVE  x \notin Net!Reply /\ x[2] \in 1 .. n /\ x = Net!Tap(x[2])
  <1>1. PICK k \in 1 .. n : x = <<"tap", k>>
    BY DEF Frame, Net!Tap
  <1>2. x[1] = "tap" /\ x[2] = k
    BY <1>1
  <1>3. x # <<"synack", 0>> /\ x # <<"arp_reply", 0>>
    <2>1. \A y : y = <<"synack", 0>> => y[1] = "synack"
      OBVIOUS
    <2>2. \A y : y = <<"arp_reply", 0>> => y[1] = "arp_reply"
      OBVIOUS
    <2>3. x[1] # "synack" /\ x[1] # "arp_reply"
      BY <1>2
    <2> QED BY <2>1, <2>2, <2>3, Zenon
  <1> QED BY <1>1, <1>2, <1>3 DEF Net!Tap, Net!Reply, Net!SynAck, Net!ArpReply

(* The first n elements of a sequence.                                     *)
LEMMA FirstOf ==
  ASSUME NEW S, NEW s, NEW n \in Nat, \A i \in 1 .. n : s[i] \in S
  PROVE  /\ SubSeq(s, 1, n) \in Seq(S) /\ Len(SubSeq(s, 1, n)) = n
         /\ \A i \in 1 .. n : SubSeq(s, 1, n)[i] = s[i]
  <1> DEFINE one == 1
  <1>1. one \in Int /\ n \in Int /\ one = 1
    OBVIOUS
  <1> HIDE DEF one
  <1>2. \A i \in one .. n : s[i] \in S
    BY <1>1
  <1>3. /\ SubSeq(s, one, n) \in Seq(S)
        /\ Len(SubSeq(s, one, n)) = IF one <= n THEN n - one + 1 ELSE 0
        /\ \A i \in 1 .. n - one + 1 : SubSeq(s, one, n)[i] = s[one + i - 1]
    BY <1>1, <1>2, SubSeqProperties
  <1>4. /\ n - one + 1 = n /\ (IF one <= n THEN n - one + 1 ELSE 0) = n
        /\ \A i \in 1 .. n : one + i - 1 = i
    BY <1>1
  <1>5. /\ SubSeq(s, one, n) \in Seq(S) /\ Len(SubSeq(s, one, n)) = n
        /\ \A i \in 1 .. n : SubSeq(s, one, n)[i] = s[i]
    BY <1>3, <1>4
  <1> QED BY <1>1, <1>5

(* What one call of try_rx delivers, and what it leaves in the TAP.        *)
Delivers(replies, room, filled, t) ==
  LET offered == replies \o Net!Wanted(tap)[Len(tap)]
      over == Net!Overrun(room - Net!Least(room, Len(replies)))
  IN /\ filled = SubSeq(offered, 1, Net!Least(room, Len(offered)))
     /\ t = IF over = 0 THEN <<>> ELSE SubSeq(tap, over + 1, Len(tap))
Ordered(m) == tap \in Seq(Frame(m)) /\ InOrder(tap)

LEMMA Delivery ==
  ASSUME NEW m \in Nat, Ordered(m), NEW replies \in Seq(Net!Reply),
         NEW room \in Nat, NEW filled, NEW t, Delivers(replies, room, filled, t)
  PROVE  /\ filled \in Seq(Net!Reply \cup Frame(m)) /\ Len(filled) <= room
         /\ t \in Seq(Frame(m)) /\ InOrder(t)
         /\ \A i \in 1 .. Len(t) : \E k \in 1 .. Len(tap) : t[i] = tap[k]
         /\ \A i, j \in 1 .. Len(filled) :
              i < j /\ filled[i] \notin Net!Reply /\ filled[j] \notin Net!Reply
                => filled[i][2] < filled[j][2]
         /\ \A i \in 1 .. Len(filled) : filled[i] \notin Net!Reply =>
              /\ \E k \in 1 .. Len(tap) : filled[i] = tap[k]
              /\ \A j \in 1 .. Len(t) : filled[i][2] < t[j][2]
  <1>a. tap \in Seq(Frame(m)) /\ InOrder(tap)
    BY DEF Ordered
  <1> DEFINE W == Net!Wanted(tap)
             N == Len(tap)
             offered == replies \o W[N]
             over == Net!Overrun(room - Net!Least(room, Len(replies)))
             R == Len(replies)
             S == Net!Reply \cup Frame(m)
             left == room - Net!Least(room, R)
             late == {i \in DOMAIN tap : Len(W[i]) > left}
             n == Net!Least(room, Len(offered))
  <1>b. /\ filled = SubSeq(offered, 1, n)
        /\ t = IF over = 0 THEN <<>> ELSE SubSeq(tap, over + 1, Len(tap))
    BY DEF Delivers
  <1>c. offered = replies \o W[N]
    OBVIOUS
  <1>d. over = Net!Overrun(left)
    OBVIOUS
  <1> HIDE DEF offered, over
  <1>1. /\ N \in Nat /\ R \in Nat /\ DOMAIN tap = 1 .. N /\ \A i \in 1 .. N : tap[i] \in Frame(m)
        /\ \A i \in 1 .. R : replies[i] \in Net!Reply
    BY <1>a, LenProperties
  <1>2. left \in Nat /\ left = IF room < R THEN 0 ELSE room - R
    BY <1>1 DEF Net!Least
  <1>3. \A i \in 0 .. N : W[i] \in Seq(Frame(m)) /\ Len(W[i]) \in Nat
    <2>1. \A i \in 0 .. Len(tap) : W[i] \in Seq(Frame(m))
      BY <1>a, Reading
    <2>2. \A w \in Seq(Frame(m)) : Len(w) \in Nat
      BY LenProperties
    <2> QED BY <2>1, <2>2
  <1> HIDE DEF W
  <1>4. over = IF late = {} THEN 0 ELSE CHOOSE i \in late : \A j \in late : i <= j
    BY <1>d DEF Net!Overrun, W
  <1> HIDE DEF left, N, R
  <1>5. \/ over = 0 /\ Len(W[N]) <= left
        \/ over \in 1 .. N /\ Len(W[over - 1]) = left
    <2>1. Len(W[0]) = 0
      BY <1>a, Reading, EmptySeq DEF W
    <2>2. CASE late = {}
      <3>1. N # 0 => N \in DOMAIN tap
        BY <1>1
      <3>2. N # 0 => ~(Len(W[N]) > left)
        BY <2>2, <3>1
      <3>3. N \in 0 .. N
        BY <1>1
      <3> HIDE DEF late
      <3> QED BY <1>1, <1>2, <1>3, <1>4, <2>1, <2>2, <3>2, <3>3
    <2>3. CASE late # {}
      <3>1. late \subseteq Nat
        BY <1>1
      <3>2. \E i \in late : \A j \in late : i <= j
        <4> HIDE DEF late
        <4> QED BY <2>3, <3>1, Least
      <3>3. over \in late /\ \A j \in late : over <= j
        <4> HIDE DEF late
        <4> QED BY <1>4, <2>3, <3>2
      <3>4. over \in 1 .. N /\ Len(W[over]) > left
        BY <1>1, <3>3
      <3>5. over - 1 \in 0 .. N /\ over \in 0 .. N
        BY <1>1, <3>4
      <3>6. Len(W[over - 1]) <= left
        <4>1. CASE over = 1
          BY <1>2, <2>1, <4>1
        <4>2. CASE over # 1
          <5>1. over - 1 \in DOMAIN tap /\ ~(over <= over - 1)
            BY <1>1, <3>4, <4>2
          <5>2. ~(Len(W[over - 1]) > left)
            BY <3>3, <5>1
          <5> QED BY <1>2, <1>3, <3>5, <5>2
        <4> QED BY <4>1, <4>2
      <3>7. Len(W[over]) = Len(W[over - 1]) \/ Len(W[over]) = Len(W[over - 1]) + 1
        <4>1. over \in 1 .. Len(tap)
          BY <3>4 DEF N
        <4> QED BY <1>a, <4>1, ReadSteps DEF W
      <3> HIDE DEF late
      <3>8. Len(W[over - 1]) = left
        BY <1>2, <1>3, <3>4, <3>5, <3>6, <3>7
      <3> QED BY <3>4, <3>8
    <2> QED BY <2>2, <2>3
  <1> HIDE DEF late
  <1>6. /\ offered \in Seq(S) /\ Len(offered) = R + Len(W[N])
        /\ \A i \in 1 .. R + Len(W[N]) : offered[i] = IF i <= R THEN replies[i] ELSE W[N][i - R]
    <2>1. N \in 0 .. N
      BY <1>1
    <2>2. \A A, B : A \subseteq B => Seq(A) \subseteq Seq(B)
      OBVIOUS
    <2>3. replies \in Seq(S) /\ W[N] \in Seq(S)
      BY <1>3, <2>1, <2>2
    <2> DEFINE w == W[N]
    <2>4. offered = replies \o w
      BY <1>c
    <2> HIDE DEF w, S
    <2>5. w \in Seq(S)
      BY <2>3 DEF w
    <2>6. /\ replies \o w \in Seq(S) /\ Len(replies \o w) = Len(replies) + Len(w)
          /\ \A i \in 1 .. Len(replies) + Len(w) :
               (replies \o w)[i] = IF i <= Len(replies) THEN replies[i] ELSE w[i - Len(replies)]
      BY <2>3, <2>5, ConcatProperties
    <2> QED BY <2>4, <2>6 DEF w, R
  <1>7. N \in 0 .. N /\ Len(W[N]) \in Nat /\ Len(offered) \in Nat
    BY <1>1, <1>3, <1>6
  <1>8. n \in Nat /\ n <= room /\ n <= R + Len(W[N])
    BY <1>1, <1>6, <1>7 DEF Net!Least
  <1> HIDE DEF n
  <1>9. /\ filled \in Seq(S) /\ Len(filled) = n
        /\ \A i \in 1 .. n : filled[i] = offered[i]
    <2>1. \A i \in 1 .. n : offered[i] \in S
      <3>1. DOMAIN offered = 1 .. Len(offered) /\ \A i \in 1 .. Len(offered) : offered[i] \in S
        <4> HIDE DEF S
        <4> QED BY <1>6, LenProperties
      <3>2. \A i \in 1 .. n : i \in 1 .. Len(offered)
        BY <1>1, <1>6, <1>7, <1>8
      <3> QED BY <3>1, <3>2
    <2> HIDE DEF S
    <2>2. /\ SubSeq(offered, 1, n) \in Seq(S) /\ Len(SubSeq(offered, 1, n)) = n
          /\ \A i \in 1 .. n : SubSeq(offered, 1, n)[i] = offered[i]
      <3>1. n \in Nat
        BY <1>8
      <3> QED BY <2>1, <3>1, FirstOf
    <2> QED BY <1>b, <2>2
  <1>10. ASSUME NEW i \in 1 .. n, filled[i] \notin Net!Reply
         PROVE  i > R /\ i - R \in 1 .. Len(W[N]) /\ filled[i] = W[N][i - R] /\ i - R <= left
    <2>1. i \in 1 .. R + Len(W[N])
      BY <1>1, <1>7, <1>8
    <2>2. filled[i] = IF i <= R THEN replies[i] ELSE W[N][i - R]
      BY <1>6, <1>9, <2>1
    <2>3. ~(i <= R)
      <3> SUFFICES ASSUME i <= R PROVE FALSE
        OBVIOUS
      <3>1. i \in 1 .. R
        BY <1>1, <2>1
      <3>2. filled[i] = replies[i] /\ replies[i] \in Net!Reply
        BY <1>1, <2>2, <3>1
      <3> QED BY <1>10, <3>2
    <2>4. i - R \in 1 .. Len(W[N])
      BY <1>1, <1>7, <2>1, <2>3
    <2>5. i - R <= left
      BY <1>1, <1>2, <1>8, <2>3
    <2>6. filled[i] = W[N][i - R]
      BY <2>2, <2>3, Zenon
    <2>7. i > R
      BY <1>1, <2>1, <2>3
    <2> QED BY <2>4, <2>5, <2>6, <2>7, Zenon
  <1>11. /\ t \in Seq(Frame(m)) /\ Len(t) \in Nat
         /\ \A j \in 1 .. Len(t) : over \in 1 .. N /\ over + j \in 1 .. N /\ t[j] = tap[over + j]
    <2>1. CASE over = 0
      <3>1. t = <<>>
        BY <1>b, <2>1
      <3>2. <<>> \in Seq(Frame(m)) /\ Len(<<>>) = 0
        BY EmptySeq
      <3>3. Len(t) = 0
        BY <3>1, <3>2, Zenon
      <3>4. \A l : l = 0 => 1 .. l = {}
        OBVIOUS
      <3>5. 1 .. Len(t) = {}
        BY <3>3, <3>4, Zenon
      <3>6. 0 \in Nat
        OBVIOUS
      <3> QED BY <3>1, <3>2, <3>3, <3>5, <3>6, Zenon
    <2>2. CASE over # 0
      <3>1. over \in 1 .. N /\ over + 1 \in Int /\ N \in Int
        BY <1>1, <1>5, <2>2
      <3>2. \A i \in over + 1 .. N : tap[i] \in Frame(m)
        BY <1>1, <3>1
      <3>3. /\ SubSeq(tap, over + 1, N) \in Seq(Frame(m))
            /\ Len(SubSeq(tap, over + 1, N)) = IF over + 1 <= N THEN N - (over + 1) + 1 ELSE 0
            /\ \A i \in 1 .. N - (over + 1) + 1 : SubSeq(tap, over + 1, N)[i] = tap[over + 1 + i - 1]
        BY <3>1, <3>2, SubSeqProperties
      <3>4. t = SubSeq(tap, over + 1, N)
        BY <1>b, <2>2 DEF N
      <3>5. Len(t) = N - over /\ N - over \in Nat /\ N - (over + 1) + 1 = N - over
        BY <1>1, <3>1, <3>3, <3>4
      <3>6. \A j \in 1 .. N - over : over + 1 + j - 1 = over + j /\ over + j \in 1 .. N
        BY <1>1, <3>1
      <3> QED BY <3>1, <3>3, <3>4, <3>5, <3>6
    <2> QED BY <2>1, <2>2
  <1>12. InOrder(t)
    <2>1. ASSUME NEW i \in 1 .. Len(t), NEW j \in 1 .. Len(t), i < j
          PROVE  t[i][2] < t[j][2]
      <3>1. over \in 1 .. N /\ over + i \in 1 .. N /\ over + j \in 1 .. N /\ over + i < over + j
        BY <1>11, <2>1
      <3>2. tap[over + i][2] < tap[over + j][2]
        BY <1>a, <3>1 DEF InOrder, N
      <3> QED BY <1>11, <3>2
    <2> QED BY <2>1 DEF InOrder
  <1>13. \A i \in 1 .. Len(t) : \E k \in 1 .. Len(tap) : t[i] = tap[k]
    BY <1>11 DEF N
  <1>14. ASSUME NEW i \in 1 .. n, NEW j \in 1 .. n, i < j, filled[i] \notin Net!Reply,
                filled[j] \notin Net!Reply
         PROVE  filled[i][2] < filled[j][2]
    <2>1. InOrder(W[N])
      BY <1>a, <1>7, ReadInOrder DEF W, N
    <2>2. /\ i - R \in 1 .. Len(W[N]) /\ filled[i] = W[N][i - R]
          /\ j - R \in 1 .. Len(W[N]) /\ filled[j] = W[N][j - R]
      BY <1>10, <1>14
    <2>3. i - R < j - R
      BY <1>1, <1>14
    <2> QED BY <2>1, <2>2, <2>3 DEF InOrder
  <1>15. ASSUME NEW i \in 1 .. n, filled[i] \notin Net!Reply
         PROVE  /\ \E k \in 1 .. Len(tap) : filled[i] = tap[k]
                /\ \A j \in 1 .. Len(t) : filled[i][2] < t[j][2]
    <2>1. i - R \in 1 .. Len(W[N]) /\ filled[i] = W[N][i - R] /\ i - R <= left
      BY <1>10, <1>15
    <2>2. \E k \in 1 .. Len(tap) : filled[i] = tap[k]
      <3>1. Among(W[N], tap, N)
        BY <1>a, <1>7, ReadInOrder DEF W, N
      <3> QED BY <2>1, <3>1 DEF Among, N
    <2>3. ASSUME NEW j \in 1 .. Len(t)
          PROVE  filled[i][2] < t[j][2]
      <3>1. over \in 1 .. N /\ over + j \in 1 .. N /\ t[j] = tap[over + j]
        BY <1>11
      <3>2. Len(W[over - 1]) = left
        BY <1>5, <3>1
      <3>3. over - 1 \in 0 .. Len(tap) /\ N \in 0 .. Len(tap) /\ over - 1 <= N
        BY <1>1, <1>7, <3>1 DEF N
      <3>4. i - R \in 1 .. Len(W[over - 1])
        BY <1>2, <1>7, <2>1, <3>2
      <3>5. W[N][i - R] = W[over - 1][i - R]
        BY <1>a, <3>3, <3>4, ReadGrows DEF W
      <3>6. \E l \in 1 .. over - 1 : W[over - 1][i - R] = tap[l]
        <4> DEFINE o == over - 1
        <4>1. o \in 0 .. Len(tap)
          BY <3>3
        <4> HIDE DEF o
        <4>2. Among(W[o], tap, o)
          BY <1>a, <4>1, ReadInOrder DEF W
        <4> QED BY <3>4, <4>2 DEF o, Among
      <3>7. PICK l \in 1 .. over - 1 : filled[i] = tap[l]
        BY <2>1, <3>5, <3>6
      <3>8. l \in 1 .. N /\ l < over + j
        BY <1>1, <3>1
      <3>9. tap[l][2] < tap[over + j][2]
        BY <1>a, <3>1, <3>8 DEF InOrder, N
      <3> QED BY <3>1, <3>7, <3>9
    <2> QED BY <2>2, <2>3
  <1>16. filled \in Seq(Net!Reply \cup Frame(m)) /\ Len(filled) <= room
    BY <1>8, <1>9
  <1>17. 1 .. Len(filled) = 1 .. n
    BY <1>9
  <1>18. \A i, j \in 1 .. Len(filled) :
           i < j /\ filled[i] \notin Net!Reply /\ filled[j] \notin Net!Reply
             => filled[i][2] < filled[j][2]
    BY <1>14, <1>17
  <1>19. \A i \in 1 .. Len(filled) : filled[i] \notin Net!Reply =>
           /\ \E k \in 1 .. Len(tap) : filled[i] = tap[k]
           /\ \A j \in 1 .. Len(t) : filled[i][2] < t[j][2]
    BY <1>15, <1>17, Zenon
  <1> HIDE DEF S
  <1> QED BY <1>11, <1>12, <1>13, <1>16, <1>18, <1>19, Zenon

(* What the driver has yet to see, and what the TAP holds behind it.       *)
FrameIn(r, k) == FilledIn(r, k).frame
Flow(r, t, l, m) ==
  /\ t \in Seq(Frame(m)) /\ InOrder(t)
  /\ \A j \in 1 .. Len(t) : l < t[j][2]
  /\ \A k \in Nat : k < FilledCount(r) => FrameIn(r, k) \in Net!Reply \cup Frame(m)
  /\ \A k \in Nat : k < FilledCount(r) /\ FrameIn(r, k) \notin Net!Reply =>
       /\ l < FrameIn(r, k)[2]
       /\ \A j \in 1 .. Len(t) : FrameIn(r, k)[2] < t[j][2]
  /\ \A k, i \in Nat : k < i /\ i < FilledCount(r)
                       /\ FrameIn(r, k) \notin Net!Reply /\ FrameIn(r, i) \notin Net!Reply
       => FrameIn(r, k)[2] < FrameIn(r, i)[2]

LEMMA FlowDelivered ==
  ASSUME NEW m \in Nat, NEW l \in Nat, NEW r \in RxType, Conserved(r), Flow(r, tap, l, m),
         Net!Reply \cup Frame(m) \subseteq Net!Received, NEW replies \in Seq(Net!Reply),
         NEW filled, NEW t, Delivers(replies, OfferedCount(r), filled, t)
  PROVE  /\ Net!Fill(r, filled) \in RxType /\ Conserved(Net!Fill(r, filled))
         /\ Flow(Net!Fill(r, filled), t, l, m)
  <1> DEFINE q == Net!Fill(r, filled)
             n == Len(filled)
             F == FilledCount(r)
             S == Net!Reply \cup Frame(m)
  <1>1. Ordered(m) /\ OfferedCount(r) \in Nat /\ F \in Nat
    BY Counts DEF Flow, Ordered
  <1>2. /\ filled \in Seq(S) /\ n <= OfferedCount(r)
        /\ t \in Seq(Frame(m)) /\ InOrder(t)
        /\ \A i \in 1 .. Len(t) : \E k \in 1 .. Len(tap) : t[i] = tap[k]
        /\ \A i, j \in 1 .. n :
             i < j /\ filled[i] \notin Net!Reply /\ filled[j] \notin Net!Reply
               => filled[i][2] < filled[j][2]
        /\ \A i \in 1 .. n : filled[i] \notin Net!Reply =>
             /\ \E k \in 1 .. Len(tap) : filled[i] = tap[k]
             /\ \A j \in 1 .. Len(t) : filled[i][2] < t[j][2]
    BY <1>1, Delivery, Zenon
  <1>3. n \in Nat /\ \A i \in 1 .. n : filled[i] \in S
    <2> HIDE DEF S
    <2> QED BY <1>2, LenProperties
  <1> HIDE DEF S, n
  <1>4. S \subseteq Net!Received
    BY DEF S
  <1>5. Conserved(q)
    BY <1>2, <1>4, FillConserves DEF n
  <1>6. /\ q \in RxType /\ FilledCount(q) = F + n
        /\ \A k \in Nat : k < F => FilledIn(q, k) = FilledIn(r, k)
        /\ \A j \in 1 .. n : FilledIn(q, F + j - 1) = [desc |-> OfferedIn(r, j - 1), frame |-> filled[j]]
    BY <1>2, <1>4, FillMoves DEF n
  <1> HIDE DEF q, F
  <1>7. ASSUME NEW k \in Nat, k < F + n
        PROVE  \/ k < F /\ FrameIn(q, k) = FrameIn(r, k)
               \/ ~(k < F) /\ (k - F) + 1 \in 1 .. n /\ FrameIn(q, k) = filled[(k - F) + 1]
    <2>1. CASE k < F
      BY <1>6, <2>1 DEF FrameIn
    <2>2. CASE ~(k < F)
      <3>1. (k - F) + 1 \in 1 .. n /\ F + ((k - F) + 1) - 1 = k
        BY <1>1, <1>3, <1>7, <2>2
      <3>2. FilledIn(q, F + ((k - F) + 1) - 1)
              = [desc |-> OfferedIn(r, ((k - F) + 1) - 1), frame |-> filled[(k - F) + 1]]
        BY <1>6, <3>1
      <3> QED BY <2>2, <3>1, <3>2 DEF FrameIn
    <2> QED BY <2>1, <2>2
  <1>8. /\ \A j \in 1 .. Len(tap) : l < tap[j][2]
        /\ \A k \in Nat : k < F => FrameIn(r, k) \in S
        /\ \A k \in Nat : k < F /\ FrameIn(r, k) \notin Net!Reply =>
             /\ l < FrameIn(r, k)[2]
             /\ \A j \in 1 .. Len(tap) : FrameIn(r, k)[2] < tap[j][2]
        /\ \A k, i \in Nat : k < i /\ i < F
                             /\ FrameIn(r, k) \notin Net!Reply /\ FrameIn(r, i) \notin Net!Reply
             => FrameIn(r, k)[2] < FrameIn(r, i)[2]
    BY DEF Flow, F, S
  <1>9. \A j \in 1 .. Len(t) : l < t[j][2]
    BY <1>2, <1>8
  <1>10. ASSUME NEW k \in Nat, k < F + n
         PROVE  FrameIn(q, k) \in S
    BY <1>3, <1>7, <1>8, <1>10
  <1>11. ASSUME NEW k \in Nat, k < F + n, FrameIn(q, k) \notin Net!Reply
         PROVE  /\ l < FrameIn(q, k)[2]
                /\ \A j \in 1 .. Len(t) : FrameIn(q, k)[2] < t[j][2]
    <2>1. CASE k < F
      <3>1. FrameIn(q, k) = FrameIn(r, k)
        BY <1>7, <1>11, <2>1
      <3> QED BY <1>2, <1>8, <1>11, <2>1, <3>1
    <2>2. CASE ~(k < F)
      <3>1. (k - F) + 1 \in 1 .. n /\ FrameIn(q, k) = filled[(k - F) + 1]
        BY <1>7, <1>11, <2>2
      <3>2. PICK x \in 1 .. Len(tap) : FrameIn(q, k) = tap[x]
        BY <1>2, <1>11, <3>1
      <3> QED BY <1>2, <1>8, <1>11, <3>1, <3>2
    <2> QED BY <2>1, <2>2
  <1>12. ASSUME NEW k \in Nat, NEW i \in Nat, k < i, i < F + n,
                FrameIn(q, k) \notin Net!Reply, FrameIn(q, i) \notin Net!Reply
         PROVE  FrameIn(q, k)[2] < FrameIn(q, i)[2]
    <2>0. k < F + n
      BY <1>1, <1>3, <1>12
    <2>1. CASE i < F
      <3>1. k < F /\ FrameIn(q, k) = FrameIn(r, k) /\ FrameIn(q, i) = FrameIn(r, i)
        BY <1>1, <1>7, <1>12, <2>0, <2>1
      <3> QED BY <1>8, <1>12, <2>1, <3>1
    <2>2. CASE ~(i < F) /\ k < F
      <3>1. /\ FrameIn(q, k) = FrameIn(r, k)
            /\ (i - F) + 1 \in 1 .. n /\ FrameIn(q, i) = filled[(i - F) + 1]
        BY <1>7, <1>12, <2>0, <2>2
      <3>2. PICK x \in 1 .. Len(tap) : FrameIn(q, i) = tap[x]
        BY <1>2, <1>12, <3>1
      <3> QED BY <1>8, <1>12, <2>2, <3>1, <3>2
    <2>3. CASE ~(k < F)
      <3>1. ~(i < F)
        BY <1>1, <1>12, <2>3
      <3>2. /\ (k - F) + 1 \in 1 .. n /\ FrameIn(q, k) = filled[(k - F) + 1]
            /\ (i - F) + 1 \in 1 .. n /\ FrameIn(q, i) = filled[(i - F) + 1]
        BY <1>7, <1>12, <2>0, <2>3, <3>1
      <3>3. (k - F) + 1 < (i - F) + 1
        BY <1>1, <1>12
      <3> QED BY <1>2, <1>12, <3>2, <3>3
    <2> QED BY <2>1, <2>2, <2>3
  <1>13. Flow(q, t, l, m)
    BY <1>2, <1>6, <1>9, <1>10, <1>11, <1>12 DEF Flow, S
  <1> QED BY <1>5, <1>6, <1>13 DEF q

LEMMA FlowKept ==
  ASSUME NEW m, NEW l, NEW r, NEW q, NEW t, Flow(r, t, l, m),
         \/ FilledCount(q) = 0
         \/ FilledCount(q) = FilledCount(r) /\ \A k \in Nat : FilledIn(q, k) = FilledIn(r, k)
  PROVE  Flow(q, t, l, m)
  <1>1. CASE FilledCount(q) = 0
    <2>1. \A k \in Nat : ~(k < 0)
      OBVIOUS
    <2> QED BY <1>1, <2>1 DEF Flow
  <1>2. CASE FilledCount(q) = FilledCount(r) /\ \A k \in Nat : FilledIn(q, k) = FilledIn(r, k)
    <2>1. \A k \in Nat : FrameIn(q, k) = FrameIn(r, k)
      BY <1>2 DEF FrameIn
    <2> QED BY <1>2, <2>1 DEF Flow
  <1> QED BY <1>1, <1>2

(* The driver takes the oldest frame: what is left is behind it.           *)
Takes(r, q, e) ==
  e = FilledIn(r, 0) /\ q = [r EXCEPT !.seen = (@ + 1) % IdxMod, !.mine = @ \cup {e.desc}]
LastSeen(l, e) == IF e.frame \in Net!Reply THEN l ELSE e.frame[2]

LEMMA FlowTaken ==
  ASSUME NEW m \in Nat, NEW l \in 0 .. m, NEW r \in RxType, NEW t, Conserved(r), Flow(r, t, l, m),
         r.seen # r.used, NEW e, NEW q, Takes(r, q, e)
  PROVE  /\ q \in RxType /\ Conserved(q) /\ LastSeen(l, e) \in 0 .. m
         /\ Flow(q, t, LastSeen(l, e), m)
  <1> DEFINE F == FilledCount(r)
             last == LastSeen(l, e)
  <1>0. last = IF e.frame \in Net!Reply THEN l ELSE e.frame[2]
    BY DEF LastSeen
  <1> HIDE DEF last
  <1>1. /\ q \in RxType /\ Conserved(q) /\ F > 0 /\ FilledCount(q) = F - 1
        /\ \A k \in Nat : FilledIn(q, k) = FilledIn(r, k + 1)
    BY TakeMoves DEF Takes
  <1>2. F \in Nat
    BY Counts
  <1>3. e.frame = FrameIn(r, 0)
    BY DEF FrameIn, Takes
  <1>4. \A k \in Nat : FrameIn(q, k) = FrameIn(r, k + 1)
    BY <1>1 DEF FrameIn
  <1> HIDE DEF F
  <1>5. /\ t \in Seq(Frame(m)) /\ InOrder(t)
        /\ \A j \in 1 .. Len(t) : l < t[j][2]
        /\ \A k \in Nat : k < F => FrameIn(r, k) \in Net!Reply \cup Frame(m)
        /\ \A k \in Nat : k < F /\ FrameIn(r, k) \notin Net!Reply =>
             /\ l < FrameIn(r, k)[2]
             /\ \A j \in 1 .. Len(t) : FrameIn(r, k)[2] < t[j][2]
        /\ \A k, i \in Nat : k < i /\ i < F
                             /\ FrameIn(r, k) \notin Net!Reply /\ FrameIn(r, i) \notin Net!Reply
             => FrameIn(r, k)[2] < FrameIn(r, i)[2]
    BY DEF Flow, F
  <1>6. 0 \in Nat /\ 0 < F
    BY <1>1, <1>2
  <1>7. last \in 0 .. m
    <2>1. CASE e.frame \in Net!Reply
      BY <1>0, <2>1
    <2>2. CASE e.frame \notin Net!Reply
      <3>1. FrameIn(r, 0) \in Frame(m)
        BY <1>3, <1>5, <1>6, <2>2
      <3>2. FrameIn(r, 0)[2] \in 1 .. m
        BY <3>1, FrameFacts
      <3> QED BY <1>0, <1>3, <2>2, <3>2
    <2> QED BY <2>1, <2>2
  <1>8. \A j \in 1 .. Len(t) : last < t[j][2]
    BY <1>0, <1>3, <1>5, <1>6
  <1>9. \A k \in Nat : k < F - 1 => k + 1 \in Nat /\ k + 1 < F /\ 0 < k + 1
    BY <1>2
  <1>10. ASSUME NEW k \in Nat, k < F - 1
         PROVE  FrameIn(q, k) \in Net!Reply \cup Frame(m)
    BY <1>4, <1>5, <1>9, <1>10
  <1>11. ASSUME NEW k \in Nat, k < F - 1, FrameIn(q, k) \notin Net!Reply
         PROVE  /\ last < FrameIn(q, k)[2]
                /\ \A j \in 1 .. Len(t) : FrameIn(q, k)[2] < t[j][2]
    <2>1. k + 1 \in Nat /\ k + 1 < F /\ 0 < k + 1 /\ FrameIn(q, k) = FrameIn(r, k + 1)
      BY <1>4, <1>9, <1>11
    <2>2. \A j \in 1 .. Len(t) : FrameIn(r, k + 1)[2] < t[j][2]
      BY <1>5, <1>11, <2>1
    <2>3. l < FrameIn(r, k + 1)[2]
      BY <1>5, <1>11, <2>1
    <2>4. e.frame \notin Net!Reply => FrameIn(r, 0)[2] < FrameIn(r, k + 1)[2]
      BY <1>3, <1>5, <1>6, <1>11, <2>1
    <2> QED BY <1>0, <1>3, <2>1, <2>2, <2>3, <2>4
  <1>12. ASSUME NEW k \in Nat, NEW i \in Nat, k < i, i < F - 1,
                FrameIn(q, k) \notin Net!Reply, FrameIn(q, i) \notin Net!Reply
         PROVE  FrameIn(q, k)[2] < FrameIn(q, i)[2]
    <2>1. /\ k + 1 \in Nat /\ i + 1 \in Nat /\ k + 1 < i + 1 /\ i + 1 < F
          /\ FrameIn(q, k) = FrameIn(r, k + 1) /\ FrameIn(q, i) = FrameIn(r, i + 1)
      BY <1>2, <1>4, <1>12
    <2> QED BY <1>5, <1>12, <2>1
  <1>13. Flow(q, t, last, m)
    BY <1>1, <1>5, <1>8, <1>10, <1>11, <1>12 DEF Flow
  <1> QED BY <1>1, <1>7, <1>13 DEF last

(* A frame arrives: it is behind all others.                               *)
LEMMA FlowArrived ==
  ASSUME NEW m \in Nat, NEW l \in 0 .. m, NEW r \in RxType, NEW t, Flow(r, t, l, m)
  PROVE  Flow(r, Append(t, Net!Tap(m + 1)), l, m + 1)
  <1> DEFINE f == Net!Tap(m + 1)
             s == Append(t, f)
             S == Frame(m + 1)
             F == FilledCount(r)
             N == Len(t)
  <1>1. Frame(m) \subseteq S /\ f \in S /\ f[2] = m + 1
    <2>1. \A k \in 1 .. m : k \in 1 .. m + 1
      OBVIOUS
    <2>2. m + 1 \in 1 .. m + 1
      OBVIOUS
    <2> QED BY <2>1, <2>2 DEF Frame, Net!Tap
  <1>2. t \in Seq(Frame(m)) /\ InOrder(t)
    BY DEF Flow
  <1>3. t \in Seq(S) /\ N \in Nat /\ \A j \in 1 .. N : t[j] \in Frame(m)
    <2>1. \A A, B : A \subseteq B => Seq(A) \subseteq Seq(B)
      OBVIOUS
    <2>2. Len(t) \in Nat /\ \A j \in 1 .. Len(t) : t[j] \in Frame(m)
      BY <1>2, LenProperties
    <2> HIDE DEF S
    <2> QED BY <1>1, <1>2, <2>1, <2>2
  <1>4. \A j \in 1 .. N : t[j][2] \in 1 .. m
    BY <1>3, FrameFacts
  <1> HIDE DEF f, S, N
  <1>5. /\ s \in Seq(S) /\ Len(s) = N + 1
        /\ \A j \in 1 .. N : s[j] = t[j]
        /\ s[N + 1] = f
    BY <1>1, <1>3, AppendProperties DEF N
  <1> HIDE DEF s, F
  <1>6. \A j \in 1 .. N + 1 : j \in 1 .. N \/ j = N + 1
    BY <1>3
  <1>7. InOrder(s)
    <2>1. ASSUME NEW i \in 1 .. N + 1, NEW j \in 1 .. N + 1, i < j
          PROVE  s[i][2] < s[j][2]
      <3>1. i \in 1 .. N
        BY <1>3, <2>1
      <3>2. CASE j \in 1 .. N
        BY <1>2, <1>5, <2>1, <3>1, <3>2 DEF InOrder, N
      <3>3. CASE j = N + 1
        <4>1. s[i][2] \in 1 .. m /\ s[j][2] = m + 1
          BY <1>1, <1>4, <1>5, <3>1, <3>3
        <4> QED BY <4>1
      <3> QED BY <1>6, <3>2, <3>3
    <2> QED BY <1>5, <2>1 DEF InOrder
  <1>8. \A j \in 1 .. N + 1 : l < s[j][2]
    <2>1. \A j \in 1 .. N : l < t[j][2]
      BY DEF Flow, N
    <2>2. l < m + 1
      OBVIOUS
    <2> QED BY <1>1, <1>5, <1>6, <2>1, <2>2
  <1>9. /\ \A k \in Nat : k < F => FrameIn(r, k) \in Net!Reply \cup Frame(m)
        /\ \A k \in Nat : k < F /\ FrameIn(r, k) \notin Net!Reply =>
             /\ l < FrameIn(r, k)[2]
             /\ \A j \in 1 .. N : FrameIn(r, k)[2] < t[j][2]
        /\ \A k, i \in Nat : k < i /\ i < F
                             /\ FrameIn(r, k) \notin Net!Reply /\ FrameIn(r, i) \notin Net!Reply
             => FrameIn(r, k)[2] < FrameIn(r, i)[2]
    BY DEF Flow, F, N
  <1>10. \A k \in Nat : k < F => FrameIn(r, k) \in Net!Reply \cup S
    BY <1>1, <1>9
  <1>11. ASSUME NEW k \in Nat, k < F, FrameIn(r, k) \notin Net!Reply
         PROVE  \A j \in 1 .. N + 1 : FrameIn(r, k)[2] < s[j][2]
    <2>1. FrameIn(r, k) \in Frame(m)
      BY <1>9, <1>11
    <2>2. FrameIn(r, k)[2] \in 1 .. m
      BY <2>1, FrameFacts
    <2>3. FrameIn(r, k)[2] < m + 1
      BY <2>2
    <2> QED BY <1>1, <1>5, <1>6, <1>9, <1>11, <2>3
  <1>12. Flow(r, s, l, m + 1)
    BY <1>5, <1>7, <1>8, <1>9, <1>10, <1>11 DEF Flow, F, S
  <1> QED BY <1>12 DEF s, f

-----------------------------------------------------------------------------
(* The inductive invariant of the device and its driver.                   *)
TxType == [avail : Net!Index, used : Net!Index, ring : [Net!Slot -> Net!Request]]
NetTyped ==
  /\ hasTap \in BOOLEAN /\ live \in BOOLEAN /\ isr \in BOOLEAN /\ irq \in BOOLEAN
  /\ napi \in BOOLEAN
  /\ pending = <<>>
  /\ rx \in RxType /\ tx \in TxType
  /\ arrived \in 0 .. Frames /\ latest \in 0 .. arrived
NetDue == (isr => irq) /\ (live /\ rx.used # rx.seen => isr \/ napi)
NetInv == NetTyped /\ Conserved(rx) /\ Flow(rx, tap, latest, arrived) /\ NetDue

LEMMA Arrivals ==
  ASSUME NEW m \in 0 .. Frames
  PROVE  Net!Reply \cup Frame(m) \subseteq Net!Received /\ m \in Nat
  <1>1. m \in Nat /\ \A k \in 1 .. m : k \in 1 .. Frames
    BY NetAssumed
  <1> QED BY <1>1 DEF Frame, Net!Received

(* try_rx, with the replies the caller has.                                *)
LEMMA Received ==
  ASSUME NetInv, live, NEW replies \in Seq(Net!Reply), Net!TryRx(replies),
         UNCHANGED <<hasTap, live, napi, arrived, latest>>, tx' \in TxType
  PROVE  NetInv'
  <1> DEFINE offered == replies \o Net!Wanted(tap)[Len(tap)]
             filled == SubSeq(offered, 1, Net!Least(Net!Room, Len(offered)))
             over == Net!Overrun(Net!Room - Net!Least(Net!Room, Len(replies)))
             t == IF over = 0 THEN <<>> ELSE SubSeq(tap, over + 1, Len(tap))
  <1>1. /\ rx' = Net!Fill(rx, filled)
        /\ isr' = (isr \/ filled # <<>>)
        /\ irq' = (irq \/ isr' # isr)
        /\ pending' = <<>>
        /\ tap' = t
    BY DEF Net!TryRx
  <1>2. Net!Room = OfferedCount(rx)
    BY DEF Net!Room, OfferedCount
  <1>3. Delivers(replies, OfferedCount(rx), filled, t)
    BY <1>2 DEF Delivers
  <1> HIDE DEF offered, filled, over, t
  <1>4. /\ rx \in RxType /\ Conserved(rx) /\ Flow(rx, tap, latest, arrived)
        /\ arrived \in 0 .. Frames /\ latest \in 0 .. arrived
    BY DEF NetInv, NetTyped
  <1>5. /\ Net!Reply \cup Frame(arrived) \subseteq Net!Received /\ arrived \in Nat /\ latest \in Nat
    BY <1>4, Arrivals
  <1>6. /\ Net!Fill(rx, filled) \in RxType /\ Conserved(Net!Fill(rx, filled))
        /\ Flow(Net!Fill(rx, filled), t, latest, arrived)
    BY <1>3, <1>4, <1>5, FlowDelivered
  <1>7. /\ rx' \in RxType /\ Conserved(rx)' /\ Flow(rx, tap, latest, arrived)'
    <2>1. latest' = latest /\ arrived' = arrived
      OBVIOUS
    <2> QED BY <1>1, <1>6, <2>1 DEF Conserved, Flow, OfferedIn, FilledIn, FrameIn, OfferedCount, FilledCount, InOrder
  <1>8. filled = <<>> => rx'.used = rx.used /\ rx'.seen = rx.seen
    <2>1. /\ Len(<<>>) = 0 /\ rx.used \in 0 .. IdxMod - 1 /\ rx.used = IdxMod * 0 + rx.used
          /\ rx.used \in Int /\ rx.used + 0 = rx.used
      BY <1>4, RxFields, NetAssumed DEF Net!Index
    <2>2. rx.used % IdxMod = rx.used
      BY <2>1, NetAssumed, Remainder
    <2>3. Net!Fill(rx, filled).seen = rx.seen /\ Net!Fill(rx, filled).used = (rx.used + Len(filled)) % IdxMod
      BY <1>4, RxFields DEF Net!Fill
    <2> QED BY <1>1, <2>1, <2>2, <2>3
  <1>9. NetDue'
    BY <1>1, <1>8 DEF NetInv, NetDue, NetTyped
  <1>10. NetTyped'
    BY <1>1, <1>7 DEF NetInv, NetTyped
  <1> QED BY <1>7, <1>9, <1>10 DEF NetInv

(* What the guest queued for transmission keeps its type.                  *)
LEMMA Sending ==
  ASSUME NEW r \in TxType
  PROVE  /\ [r EXCEPT !.used = r.avail] \in TxType
         /\ \A x \in Net!Request :
              [r EXCEPT !.ring[Net!SlotOf(r.avail)] = x, !.avail = (@ + 1) % IdxMod] \in TxType
  <1>1. /\ r.avail \in Net!Index /\ r.used \in Net!Index /\ r.ring \in [Net!Slot -> Net!Request]
        /\ r = [avail |-> r.avail, used |-> r.used, ring |-> r.ring]
    BY DEF TxType
  <1>2. [r EXCEPT !.used = r.avail] = [avail |-> r.avail, used |-> r.avail, ring |-> r.ring]
    BY <1>1
  <1>3. [r EXCEPT !.used = r.avail] \in TxType
    BY <1>1, <1>2 DEF TxType
  <1>4. ASSUME NEW x \in Net!Request
        PROVE  [r EXCEPT !.ring[Net!SlotOf(r.avail)] = x, !.avail = (@ + 1) % IdxMod] \in TxType
    <2> DEFINE s == Net!SlotOf(r.avail)
               a == (r.avail + 1) % IdxMod
               R == [r.ring EXCEPT ![s] = x]
               q == [r EXCEPT !.ring = R]
    <2>1. r.avail \in Nat
      BY <1>1, IndexNat
    <2>2. a \in Net!Index
      BY <2>1, WrapIn
    <2>3. R \in [Net!Slot -> Net!Request]
      BY <1>1
    <2>4. [r EXCEPT !.ring[s] = x, !.avail = (@ + 1) % IdxMod] = [q EXCEPT !.avail = a]
      <3>1. q.avail = r.avail
        BY <1>1
      <3> QED OBVIOUS
    <2> HIDE DEF R, a
    <2>5. q = [avail |-> r.avail, used |-> r.used, ring |-> R]
      BY <1>1
    <2> HIDE DEF q
    <2>6. [q EXCEPT !.avail = a] = [avail |-> a, used |-> r.used, ring |-> R]
      BY <2>5
    <2>7. [q EXCEPT !.avail = a] \in TxType
      BY <1>1, <2>2, <2>3, <2>6 DEF TxType
    <2> QED BY <2>4, <2>7
  <1> QED BY <1>3, <1>4

(* Fresh rings are well formed.                                            *)
LEMMA FreshTyped == Net!FreshTx \in TxType
  <1>1. 0 \in Net!Index /\ "data" \in Net!Request
    BY NetAssumed DEF Net!Index, Net!Request
  <1> QED BY <1>1 DEF TxType, Net!FreshTx

LEMMA NetInit ==
  ASSUME Net!Init
  PROVE  NetInv
  <1>1. /\ Net!FreshRx \in RxType /\ Conserved(Net!FreshRx) /\ FilledCount(Net!FreshRx) = 0
        /\ Net!FreshRx.used = Net!FreshRx.seen
    BY FreshRings
  <1>2. rx = Net!FreshRx /\ tap = <<>> /\ arrived = 0 /\ latest = 0 /\ isr = FALSE /\ live = FALSE
    BY DEF Net!Init
  <1>3. Flow(rx, <<>>, 0, 0)
    <2>1. <<>> \in Seq(Frame(0)) /\ Len(<<>>) = 0 /\ 1 .. 0 = {}
      OBVIOUS
    <2>2. \A k \in Nat : ~(k < 0)
      OBVIOUS
    <2> QED BY <1>1, <1>2, <2>1, <2>2 DEF Flow, InOrder
  <1>4. Flow(rx, tap, latest, arrived)
    BY <1>2, <1>3
  <1>5. NetTyped
    <2>1. 0 \in 0 .. Frames /\ 0 \in 0 .. 0
      BY NetAssumed
    <2> QED BY <1>1, <1>2, <2>1, FreshTyped DEF NetTyped, Net!Init
  <1> QED BY <1>1, <1>2, <1>4, <1>5 DEF NetInv, NetDue

LEMMA Answers == Net!Crafted \in Seq(Net!Reply)
  <1>1. \A x \in Net!Reply : <<x>> \in Seq(Net!Reply)
    OBVIOUS
  <1>2. <<>> \in Seq(Net!Reply)
    BY EmptySeq
  <1>3. Net!SynAck \in Net!Reply /\ Net!ArpReply \in Net!Reply
    BY DEF Net!Reply
  <1> DEFINE craft(reply, request) ==
               IF reply \in Net!ToSet(pending) \/ (~hasTap /\ request \in Net!Queued)
               THEN <<reply>> ELSE <<>>
             a == craft(Net!SynAck, "syn")
             b == craft(Net!ArpReply, "arp_request")
  <1>4. a \in Seq(Net!Reply) /\ b \in Seq(Net!Reply)
    BY <1>1, <1>2, <1>3, Zenon
  <1>5. Net!Crafted = a \o b
    BY DEF Net!Crafted
  <1> HIDE DEF a, b
  <1>6. a \o b \in Seq(Net!Reply)
    BY <1>4, ConcatProperties
  <1> QED BY <1>5, <1>6

LEMMA NetStep ==
  ASSUME NetInv, Net!Next
  PROVE  NetInv'
  <1>1. /\ rx \in RxType /\ tx \in TxType /\ Conserved(rx) /\ Flow(rx, tap, latest, arrived)
        /\ arrived \in 0 .. Frames /\ latest \in 0 .. arrived /\ arrived \in Nat /\ NetTyped /\ NetDue
        /\ pending = <<>>
    BY NetAssumed DEF NetInv, NetTyped
  <1>2. CASE Net!Poll
    <2>1. CASE live
      <3>1. pending \in Seq(Net!Reply)
        BY <1>1, EmptySeq
      <3>2. Net!TryRx(pending) /\ UNCHANGED <<hasTap, live, tx, arrived, napi, latest>>
        BY <1>2 DEF Net!Poll
      <3>3. tx' \in TxType
        BY <1>1, <3>2
      <3> QED BY <2>1, <3>1, <3>2, <3>3, Received
    <2>2. CASE ~live
      <3>1. UNCHANGED <<hasTap, live, isr, pending, rx, tx, tap, arrived, irq, napi, latest>>
        BY <1>2, <2>2 DEF Net!Poll, Net!TryRx
      <3> QED BY <3>1 DEF NetInv, NetTyped, NetDue, Conserved, Flow, OfferedIn, FilledIn, FrameIn,
                          OfferedCount, FilledCount, InOrder
    <2> QED BY <2>1, <2>2
  <1>3. CASE Net!KickTx
    <2>1. /\ live /\ tx' = [tx EXCEPT !.used = tx.avail] /\ Net!TryRx(Net!Crafted)
          /\ UNCHANGED <<hasTap, live, arrived, napi, latest>>
      BY <1>3 DEF Net!KickTx
    <2>2. tx' \in TxType
      BY <1>1, <2>1, Sending
    <2> QED BY <2>1, <2>2, Answers, Received
  <1>4. CASE Net!Reset
    <2>1. live' = FALSE /\ isr' = FALSE
          /\ UNCHANGED <<hasTap, pending, rx, tx, tap, arrived, irq, napi, latest>>
      BY <1>4 DEF Net!Reset
    <2>2. Conserved(rx)' /\ Flow(rx, tap, latest, arrived)'
      BY <1>1, <2>1 DEF Conserved, Flow, OfferedIn, FilledIn, FrameIn, OfferedCount, FilledCount, InOrder
    <2> QED BY <1>1, <2>1, <2>2 DEF NetInv, NetTyped, NetDue
  <1>5. CASE Net!Configure
    <2>1. /\ live' = TRUE /\ rx' = Net!FreshRx /\ tx' = Net!FreshTx /\ napi' = FALSE
          /\ UNCHANGED <<hasTap, isr, pending, tap, arrived, irq, latest>>
      BY <1>5 DEF Net!Configure
    <2>2. /\ Net!FreshRx \in RxType /\ Conserved(Net!FreshRx) /\ FilledCount(Net!FreshRx) = 0
          /\ Net!FreshRx.used = Net!FreshRx.seen /\ Net!FreshTx \in TxType
      BY FreshRings, FreshTyped
    <2>3. Flow(Net!FreshRx, tap, latest, arrived)
      BY <1>1, <2>2, FlowKept
    <2>4. Conserved(rx)' /\ Flow(rx, tap, latest, arrived)'
      BY <2>1, <2>2, <2>3
         DEF Conserved, Flow, OfferedIn, FilledIn, FrameIn, OfferedCount, FilledCount, InOrder
    <2> QED BY <1>1, <2>1, <2>2, <2>4 DEF NetInv, NetTyped, NetDue
  <1>6. CASE Net!Interrupt
    <2>1. /\ irq' = FALSE /\ isr' = FALSE /\ napi' = (napi \/ (live /\ isr))
          /\ UNCHANGED <<hasTap, live, pending, rx, tx, tap, arrived, latest>>
      BY <1>6 DEF Net!Interrupt
    <2>2. Conserved(rx)' /\ Flow(rx, tap, latest, arrived)'
      BY <1>1, <2>1 DEF Conserved, Flow, OfferedIn, FilledIn, FrameIn, OfferedCount, FilledCount, InOrder
    <2> QED BY <1>1, <2>1, <2>2 DEF NetInv, NetTyped, NetDue
  <1>7. CASE Net!Take
    <2>1. live /\ napi /\ UNCHANGED <<hasTap, live, isr, pending, tx, tap, arrived, irq>>
      BY <1>7 DEF Net!Take
    <2>2. CASE rx.seen = rx.used
      <3>1. napi' = FALSE /\ UNCHANGED <<rx, latest>>
        BY <1>7, <2>2 DEF Net!Take
      <3>2. Conserved(rx)' /\ Flow(rx, tap, latest, arrived)'
        BY <1>1, <2>1, <3>1
           DEF Conserved, Flow, OfferedIn, FilledIn, FrameIn, OfferedCount, FilledCount, InOrder
      <3> QED BY <1>1, <2>1, <2>2, <3>1, <3>2 DEF NetInv, NetTyped, NetDue
    <2>3. CASE rx.seen # rx.used
      <3> DEFINE e == rx.done[Net!SlotOf(rx.seen)]
      <3>1. /\ rx' = [rx EXCEPT !.seen = (@ + 1) % IdxMod, !.mine = @ \cup {e.desc}]
            /\ latest' = IF e.frame \in Net!Reply THEN latest ELSE e.frame[2]
            /\ napi' = napi
        BY <1>7, <2>3 DEF Net!Take
      <3>2. e = FilledIn(rx, 0)
        <4>1. rx.seen + 0 = rx.seen
          BY <1>1, RxFields, IndexNat
        <4> QED BY <4>1 DEF FilledIn
      <3> HIDE DEF e
      <3>3. rx' \in RxType /\ Conserved(rx') /\ latest' \in 0 .. arrived
            /\ Flow(rx', tap, latest', arrived)
        <4> DEFINE q == rx'
        <4>1. Takes(rx, q, e)
          BY <3>1, <3>2 DEF Takes
        <4>2. /\ rx \in RxType /\ Conserved(rx) /\ Flow(rx, tap, latest, arrived)
              /\ arrived \in Nat /\ latest \in 0 .. arrived
          BY <1>1
        <4> HIDE DEF q
        <4>3. /\ q \in RxType /\ Conserved(q) /\ LastSeen(latest, e) \in 0 .. arrived
              /\ Flow(q, tap, LastSeen(latest, e), arrived)
          BY <2>3, <4>1, <4>2, FlowTaken
        <4>4. latest' = LastSeen(latest, e)
          BY <3>1 DEF LastSeen
        <4> QED BY <4>3, <4>4 DEF q
      <3>4. Conserved(rx)' /\ Flow(rx, tap, latest, arrived)'
        BY <2>1, <3>3
           DEF Conserved, Flow, OfferedIn, FilledIn, FrameIn, OfferedCount, FilledCount, InOrder
      <3> QED BY <1>1, <2>1, <2>3, <3>1, <3>3, <3>4 DEF NetInv, NetTyped, NetDue
    <2> QED BY <2>2, <2>3
  <1>8. CASE Net!Arrive
    <2>1. /\ arrived < Frames /\ arrived' = arrived + 1 /\ tap' = Append(tap, Net!Tap(arrived + 1))
          /\ UNCHANGED <<hasTap, live, isr, pending, rx, tx, irq, napi, latest>>
      BY <1>8 DEF Net!Arrive
    <2>2. Flow(rx, Append(tap, Net!Tap(arrived + 1)), latest, arrived + 1)
      BY <1>1, FlowArrived
    <2>3. Conserved(rx)' /\ Flow(rx, tap, latest, arrived)'
      BY <1>1, <2>1, <2>2
         DEF Conserved, Flow, OfferedIn, FilledIn, FrameIn, OfferedCount, FilledCount, InOrder
    <2>4. arrived' \in 0 .. Frames /\ latest' \in 0 .. arrived'
      BY <1>1, <2>1, NetAssumed
    <2> QED BY <1>1, <2>1, <2>3, <2>4 DEF NetInv, NetTyped, NetDue
  <1>9. ASSUME NEW d \in Net!Desc, Net!Offer(d)
        PROVE  NetInv'
    <2>1. /\ d \in rx.mine
          /\ rx' = [rx EXCEPT !.ring[Net!SlotOf(rx.avail)] = d, !.avail = (@ + 1) % IdxMod,
                              !.mine = @ \ {d}]
          /\ UNCHANGED <<hasTap, live, isr, pending, tx, tap, arrived, irq, napi, latest>>
      BY <1>9 DEF Net!Offer
    <2>2. /\ rx' \in RxType /\ Conserved(rx') /\ FilledCount(rx') = FilledCount(rx)
          /\ rx'.used = rx.used /\ rx'.seen = rx.seen
          /\ \A k \in Nat : FilledIn(rx', k) = FilledIn(rx, k)
      BY <1>1, <2>1, OfferMoves
    <2>3. Flow(rx', tap, latest, arrived)
      BY <1>1, <2>2, FlowKept
    <2>4. Conserved(rx)' /\ Flow(rx, tap, latest, arrived)'
      BY <2>1, <2>2, <2>3
         DEF Conserved, Flow, OfferedIn, FilledIn, FrameIn, OfferedCount, FilledCount, InOrder
    <2> QED BY <1>1, <2>1, <2>2, <2>4 DEF NetInv, NetTyped, NetDue
  <1>10. ASSUME NEW x \in Net!Request, Net!Transmit(x)
         PROVE  NetInv'
    <2>1. /\ tx' = [tx EXCEPT !.ring[Net!SlotOf(tx.avail)] = x, !.avail = (@ + 1) % IdxMod]
          /\ UNCHANGED <<hasTap, live, isr, pending, rx, tap, arrived, irq, napi, latest>>
      BY <1>10 DEF Net!Transmit
    <2>2. tx' \in TxType
      BY <1>1, <2>1, Sending
    <2>3. Conserved(rx)' /\ Flow(rx, tap, latest, arrived)'
      BY <1>1, <2>1 DEF Conserved, Flow, OfferedIn, FilledIn, FrameIn, OfferedCount, FilledCount, InOrder
    <2> QED BY <1>1, <2>1, <2>2, <2>3 DEF NetInv, NetTyped, NetDue
  <1> QED BY <1>2, <1>3, <1>4, <1>5, <1>6, <1>7, <1>8, <1>9, <1>10 DEF Net!Next

LEMMA NetStutters ==
  ASSUME NetInv, UNCHANGED netVars
  PROVE  NetInv'
  <1>1. UNCHANGED <<hasTap, live, isr, pending, rx, tx, tap, arrived, irq, napi, latest>>
    BY DEF netVars
  <1> QED BY <1>1 DEF NetInv, NetTyped, NetDue, Conserved, Flow, OfferedIn, FilledIn, FrameIn,
                      OfferedCount, FilledCount, InOrder

(* The two sequences of the rings, and what is at each place of them.      *)
LEMMA RingSeqs ==
  ASSUME NetInv
  PROVE  /\ OfferedCount(rx) \in Nat /\ FilledCount(rx) \in Nat
         /\ Net!Offered = [k \in 1 .. OfferedCount(rx) |-> OfferedIn(rx, k - 1)]
         /\ Net!Filled = [k \in 1 .. FilledCount(rx) |-> FilledIn(rx, k - 1)]
         /\ \A k \in 1 .. OfferedCount(rx) : OfferedIn(rx, k - 1) \in Net!Desc
         /\ \A k \in 1 .. FilledCount(rx) : FilledIn(rx, k - 1).desc \in Net!Desc
  <1>1. rx \in RxType
    BY DEF NetInv, NetTyped
  <1>2. OfferedCount(rx) \in Nat /\ FilledCount(rx) \in Nat
    BY <1>1, Counts
  <1>3. ASSUME NEW k \in Nat
        PROVE  OfferedIn(rx, k) \in Net!Desc /\ FilledIn(rx, k).desc \in Net!Desc
    <2>1. OfferedIn(rx, k) \in Net!Desc /\ FilledIn(rx, k) \in Net!Completion
      BY <1>1, InRings
    <2> QED BY <2>1 DEF Net!Completion
  <1>4. \A n \in Nat : \A k \in 1 .. n : k - 1 \in Nat
    OBVIOUS
  <1>5. /\ Net!Offered = [k \in 1 .. OfferedCount(rx) |-> OfferedIn(rx, k - 1)]
        /\ Net!Filled = [k \in 1 .. FilledCount(rx) |-> FilledIn(rx, k - 1)]
    BY DEF Net!Offered, Net!Filled, Net!OfferedAt, Net!FilledAt, OfferedIn, FilledIn,
           OfferedCount, FilledCount
  <1>6. /\ \A k \in 1 .. OfferedCount(rx) : OfferedIn(rx, k - 1) \in Net!Desc
        /\ \A k \in 1 .. FilledCount(rx) : FilledIn(rx, k - 1).desc \in Net!Desc
    BY <1>2, <1>3, <1>4
  <1> QED BY <1>2, <1>5, <1>6

LEMMA BuffersSound == NetInv => Net!BuffersConserved
  <1> SUFFICES ASSUME NetInv PROVE Net!BuffersConserved
    OBVIOUS
  <1> DEFINE O == OfferedCount(rx)
             F == FilledCount(rx)
             a == [k \in 1 .. O |-> OfferedIn(rx, k - 1)]
             b == [k \in 1 .. F |-> FilledIn(rx, k - 1).desc]
             out == a \o b
  <1>1. /\ O \in Nat /\ F \in Nat /\ Net!Offered = a
        /\ Net!Filled = [k \in 1 .. F |-> FilledIn(rx, k - 1)]
        /\ \A k \in 1 .. O : OfferedIn(rx, k - 1) \in Net!Desc
        /\ \A k \in 1 .. F : FilledIn(rx, k - 1).desc \in Net!Desc
    BY RingSeqs
  <1>2. [k \in DOMAIN Net!Filled |-> Net!Filled[k].desc] = b
    <2> HIDE DEF F
    <2> QED BY <1>1
  <1>3. /\ a \in Seq(Net!Desc) /\ Len(a) = O /\ \A k \in 1 .. O : a[k] = OfferedIn(rx, k - 1)
        /\ b \in Seq(Net!Desc) /\ Len(b) = F /\ \A k \in 1 .. F : b[k] = FilledIn(rx, k - 1).desc
    <2> HIDE DEF O, F
    <2> QED BY <1>1
  <1> HIDE DEF a, b
  <1>4. out \in Seq(Net!Desc) /\ Len(out) = O + F
        /\ \A i \in 1 .. O + F : out[i] = IF i <= O THEN a[i] ELSE b[i - O]
    <2> HIDE DEF O, F
    <2> QED BY <1>3, ConcatProperties
  <1>5. DOMAIN out = 1 .. O + F
    BY <1>4, LenProperties
  <1> HIDE DEF O, F, out
  <1>6. ASSUME NEW i \in 1 .. O + F
        PROVE  \/ i <= O /\ i - 1 \in Nat /\ i - 1 < O /\ out[i] = OfferedIn(rx, i - 1)
               \/ /\ ~(i <= O) /\ (i - O) - 1 \in Nat /\ (i - O) - 1 < F
                  /\ out[i] = FilledIn(rx, (i - O) - 1).desc
    <2>1. CASE i <= O
      BY <1>1, <1>3, <1>4, <2>1
    <2>2. CASE ~(i <= O)
      <3>1. i - O \in 1 .. F
        BY <1>1, <2>2
      <3>2. out[i] = b[i - O]
        BY <1>4, <2>2
      <3> QED BY <1>1, <1>3, <2>2, <3>1, <3>2
    <2> QED BY <2>1, <2>2
  <1>7. /\ \A k, l \in Nat : k < O /\ l < O /\ OfferedIn(rx, k) = OfferedIn(rx, l) => k = l
        /\ \A k, l \in Nat : k < F /\ l < F /\ FilledIn(rx, k).desc = FilledIn(rx, l).desc => k = l
        /\ \A k, l \in Nat : k < O /\ l < F => OfferedIn(rx, k) # FilledIn(rx, l).desc
        /\ \A d \in Net!Desc : d \notin rx.mine =>
             \/ \E k \in Nat : k < O /\ d = OfferedIn(rx, k)
             \/ \E k \in Nat : k < F /\ d = FilledIn(rx, k).desc
        /\ \A k \in Nat : k < O => OfferedIn(rx, k) \notin rx.mine
        /\ \A k \in Nat : k < F => FilledIn(rx, k).desc \notin rx.mine
    BY DEF NetInv, Conserved, O, F
  <1>8. ASSUME NEW i \in 1 .. O + F, NEW j \in 1 .. O + F, out[i] = out[j]
        PROVE  i = j
    <2>1. CASE i <= O /\ j <= O
      <3>1. i - 1 = j - 1
        BY <1>6, <1>7, <1>8, <2>1
      <3> QED BY <1>1, <3>1
    <2>2. CASE ~(i <= O) /\ ~(j <= O)
      <3>1. (i - O) - 1 = (j - O) - 1
        BY <1>6, <1>7, <1>8, <2>2
      <3> QED BY <1>1, <3>1
    <2>3. CASE i <= O /\ ~(j <= O)
      BY <1>6, <1>7, <1>8, <2>3
    <2>4. CASE ~(i <= O) /\ j <= O
      BY <1>6, <1>7, <1>8, <2>4
    <2> QED BY <2>1, <2>2, <2>3, <2>4
  <1>9. \A i \in 1 .. O + F : out[i] \in Net!Desc /\ out[i] \notin rx.mine
    <2>1. \A i \in 1 .. O + F : out[i] \in Net!Desc
      BY <1>4, LenProperties
    <2> QED BY <1>6, <1>7, <2>1
  <1>10. ASSUME NEW d \in Net!Desc, d \notin rx.mine
         PROVE  \E i \in 1 .. O + F : out[i] = d
    <2>1. CASE \E k \in Nat : k < O /\ d = OfferedIn(rx, k)
      <3>1. PICK k \in Nat : k < O /\ d = OfferedIn(rx, k)
        BY <2>1
      <3>2. k + 1 \in 1 .. O + F /\ k + 1 <= O /\ (k + 1) - 1 = k
        BY <1>1, <3>1
      <3>3. out[k + 1] = OfferedIn(rx, (k + 1) - 1)
        BY <1>6, <3>2
      <3> QED BY <3>1, <3>2, <3>3
    <2>2. CASE \E k \in Nat : k < F /\ d = FilledIn(rx, k).desc
      <3>1. PICK k \in Nat : k < F /\ d = FilledIn(rx, k).desc
        BY <2>2
      <3>2. (O + k) + 1 \in 1 .. O + F /\ ~((O + k) + 1 <= O) /\ (((O + k) + 1) - O) - 1 = k
        BY <1>1, <3>1
      <3>3. out[(O + k) + 1] = FilledIn(rx, (((O + k) + 1) - O) - 1).desc
        BY <1>6, <3>2
      <3> QED BY <3>1, <3>2, <3>3
    <2> QED BY <1>7, <1>10, <2>1, <2>2
  <1>11. Net!IsInjective(out)
    BY <1>5, <1>8 DEF Net!IsInjective
  <1>12. Net!ToSet(out) = Net!Desc \ rx.mine
    BY <1>5, <1>9, <1>10 DEF Net!ToSet
  <1> QED BY <1>1, <1>2, <1>11, <1>12, Zenon DEF Net!BuffersConserved, out

LEMMA FramesSound == NetInv => Net!FlowInOrder
  <1> SUFFICES ASSUME NetInv PROVE Net!FlowInOrder
    OBVIOUS
  <1> DEFINE F == FilledCount(rx)
             N == Len(tap)
             S == Net!Reply \cup Frame(arrived) \cup {Net!Tap(latest)}
             a == <<Net!Tap(latest)>>
             b == [k \in 1 .. F |-> FrameIn(rx, k - 1)]
             ab == a \o b
             flow == ab \o tap
  <1>1. /\ F \in Nat
        /\ Net!Filled = [k \in 1 .. F |-> FilledIn(rx, k - 1)]
    BY RingSeqs
  <1>2. /\ tap \in Seq(Frame(arrived)) /\ InOrder(tap)
        /\ \A j \in 1 .. N : latest < tap[j][2]
        /\ \A k \in Nat : k < F => FrameIn(rx, k) \in Net!Reply \cup Frame(arrived)
        /\ \A k \in Nat : k < F /\ FrameIn(rx, k) \notin Net!Reply =>
             /\ latest < FrameIn(rx, k)[2]
             /\ \A j \in 1 .. N : FrameIn(rx, k)[2] < tap[j][2]
        /\ \A k, i \in Nat : k < i /\ i < F
                             /\ FrameIn(rx, k) \notin Net!Reply /\ FrameIn(rx, i) \notin Net!Reply
             => FrameIn(rx, k)[2] < FrameIn(rx, i)[2]
    BY DEF NetInv, Flow
  <1>3. [k \in DOMAIN Net!Filled |-> Net!Filled[k].frame] = b
    <2> HIDE DEF F
    <2> QED BY <1>1 DEF FrameIn
  <1>4. tap \in Seq(S) /\ N \in Nat
    <2>1. \A A, B : A \subseteq B => Seq(A) \subseteq Seq(B)
      OBVIOUS
    <2> QED BY <1>2, <2>1, LenProperties
  <1> HIDE DEF F, N
  <1>5. /\ b \in Seq(S) /\ Len(b) = F /\ \A k \in 1 .. F : b[k] = FrameIn(rx, k - 1)
    <2>1. \A k \in 1 .. F : FrameIn(rx, k - 1) \in S
      <3>1. \A k \in 1 .. F : k - 1 \in Nat /\ k - 1 < F
        BY <1>1
      <3> QED BY <1>2, <3>1
    <2> HIDE DEF S
    <2> QED BY <1>1, <2>1
  <1>6. a \in Seq(S) /\ Len(a) = 1 /\ a[1] = Net!Tap(latest)
    <2>1. Net!Tap(latest) \in S
      OBVIOUS
    <2> HIDE DEF S
    <2> QED BY <2>1
  <1> HIDE DEF a, b, S
  <1>7. /\ ab \in Seq(S) /\ Len(ab) = 1 + F
        /\ \A i \in 1 .. 1 + F : ab[i] = IF i <= 1 THEN a[i] ELSE b[i - 1]
    <2>1. a \in Seq(S) /\ b \in Seq(S)
      BY <1>5, <1>6
    <2>2. /\ a \o b \in Seq(S) /\ Len(a \o b) = Len(a) + Len(b)
          /\ \A i \in 1 .. Len(a) + Len(b) : (a \o b)[i] = IF i <= Len(a) THEN a[i] ELSE b[i - Len(a)]
      BY <2>1, ConcatProperties
    <2> QED BY <1>5, <1>6, <2>2
  <1> HIDE DEF ab
  <1>8. /\ flow \in Seq(S) /\ Len(flow) = (1 + F) + N
        /\ \A i \in 1 .. (1 + F) + N : flow[i] = IF i <= 1 + F THEN ab[i] ELSE tap[i - (1 + F)]
    <2>1. ab \in Seq(S) /\ tap \in Seq(S)
      BY <1>4, <1>7
    <2>2. /\ ab \o tap \in Seq(S) /\ Len(ab \o tap) = Len(ab) + Len(tap)
          /\ \A i \in 1 .. Len(ab) + Len(tap) :
               (ab \o tap)[i] = IF i <= Len(ab) THEN ab[i] ELSE tap[i - Len(ab)]
      BY <2>1, ConcatProperties
    <2>3. Len(ab) = 1 + F
      BY <1>7
    <2> HIDE DEF S
    <2> QED BY <2>2, <2>3 DEF N
  <1>9. DOMAIN flow = 1 .. (1 + F) + N
    BY <1>8, LenProperties
  <1> HIDE DEF flow
  <1>10. ASSUME NEW i \in DOMAIN flow
         PROVE  \/ i = 1 /\ flow[i][2] = latest
                \/ /\ i > 1 /\ i <= 1 + F /\ i - 2 \in Nat /\ i - 2 < F
                   /\ flow[i] = FrameIn(rx, i - 2)
                \/ i > 1 + F /\ i - (1 + F) \in 1 .. N /\ flow[i] = tap[i - (1 + F)]
    <2>1. CASE i = 1
      <3>1. flow[i] = ab[1] /\ ab[1] = a[1]
        BY <1>1, <1>4, <1>7, <1>8, <1>9, <2>1
      <3> QED BY <1>6, <2>1, <3>1 DEF Net!Tap
    <2>2. CASE i # 1 /\ i <= 1 + F
      <3>1. i \in 1 .. (1 + F) + N /\ i \in 1 .. 1 + F /\ ~(i <= 1) /\ i - 1 \in 1 .. F
            /\ (i - 1) - 1 = i - 2 /\ i > 1 /\ i - 2 \in Nat /\ i - 2 < F
        BY <1>1, <1>4, <1>9, <2>2
      <3>2. flow[i] = ab[i] /\ ab[i] = b[i - 1] /\ b[i - 1] = FrameIn(rx, (i - 1) - 1)
        BY <1>5, <1>7, <1>8, <2>2, <3>1
      <3> QED BY <2>2, <3>1, <3>2
    <2>3. CASE ~(i <= 1 + F)
      <3>1. i \in 1 .. (1 + F) + N /\ i > 1 + F /\ i - (1 + F) \in 1 .. N
        BY <1>1, <1>4, <1>9, <2>3
      <3>2. flow[i] = tap[i - (1 + F)]
        BY <1>8, <2>3, <3>1
      <3> QED BY <3>1, <3>2
    <2> QED BY <2>1, <2>2, <2>3
  <1>11. \A i \in DOMAIN flow : i \in Nat
    BY <1>1, <1>4, <1>9
  <1>12. ASSUME NEW i \in DOMAIN flow, NEW j \in DOMAIN flow, i < j,
                flow[i] \notin Net!Reply, flow[j] \notin Net!Reply
         PROVE  flow[i][2] < flow[j][2]
    <2>0. i \in Nat /\ j \in Nat
      BY <1>11
    <2>1. CASE i = 1
      <3>1. j # 1 /\ flow[i][2] = latest
        BY <1>1, <1>10, <1>12, <2>1
      <3>2. CASE j <= 1 + F
        <4>1. j - 2 \in Nat /\ j - 2 < F /\ flow[j] = FrameIn(rx, j - 2)
          BY <1>1, <1>10, <2>0, <3>1, <3>2
        <4> QED BY <1>2, <1>12, <3>1, <4>1
      <3>3. CASE ~(j <= 1 + F)
        <4>1. j - (1 + F) \in 1 .. N /\ flow[j] = tap[j - (1 + F)]
          BY <1>1, <1>10, <2>0, <3>1, <3>3
        <4> QED BY <1>2, <3>1, <4>1
      <3> QED BY <3>2, <3>3
    <2>2. CASE i # 1 /\ i <= 1 + F
      <3>1. i - 2 \in Nat /\ i - 2 < F /\ flow[i] = FrameIn(rx, i - 2)
        BY <1>1, <1>10, <2>0, <2>2
      <3>2. CASE j <= 1 + F
        <4>1. j - 2 \in Nat /\ j - 2 < F /\ flow[j] = FrameIn(rx, j - 2) /\ i - 2 < j - 2
          BY <1>1, <1>10, <1>12, <2>0, <2>2, <3>2
        <4> QED BY <1>2, <1>12, <3>1, <4>1
      <3>3. CASE ~(j <= 1 + F)
        <4>1. j - (1 + F) \in 1 .. N /\ flow[j] = tap[j - (1 + F)]
          BY <1>1, <1>10, <2>0, <3>3
        <4> QED BY <1>2, <1>12, <3>1, <4>1
      <3> QED BY <3>2, <3>3
    <2>3. CASE ~(i <= 1 + F)
      <3>1. i - (1 + F) \in 1 .. N /\ flow[i] = tap[i - (1 + F)]
        BY <1>1, <1>10, <2>0, <2>3
      <3>2. j - (1 + F) \in 1 .. N /\ flow[j] = tap[j - (1 + F)]
        BY <1>1, <1>10, <1>12, <2>0, <2>3
      <3>3. i - (1 + F) < j - (1 + F)
        BY <1>1, <1>12, <2>0
      <3> QED BY <1>2, <3>1, <3>2, <3>3 DEF InOrder, N
    <2> QED BY <1>1, <2>0, <2>1, <2>2, <2>3
  <1>13. flow = <<Net!Tap(latest)>> \o [k \in DOMAIN Net!Filled |-> Net!Filled[k].frame] \o tap
    BY <1>3 DEF flow, ab, a
  <1> QED BY <1>12, <1>13, Zenon DEF Net!FlowInOrder

LEMMA NetWellFormed == NetInv => Net!TypeOK
  <1> SUFFICES ASSUME NetInv PROVE Net!TypeOK
    OBVIOUS
  <1>1. NetTyped /\ tap \in Seq(Frame(arrived))
    BY DEF NetInv, Flow
  <1>2. Net!ToSet(pending) \subseteq Net!Reply /\ Net!IsInjective(pending)
    <2>1. pending = <<>> /\ DOMAIN <<>> = {}
      BY <1>1 DEF NetTyped
    <2> QED BY <2>1 DEF Net!ToSet, Net!IsInjective
  <1>3. Net!ToSet(tap) \subseteq {Net!Tap(n) : n \in 1 .. arrived}
    <2>1. DOMAIN tap = 1 .. Len(tap) /\ \A i \in 1 .. Len(tap) : tap[i] \in Frame(arrived)
      BY <1>1, LenProperties
    <2>2. Net!ToSet(tap) \subseteq Frame(arrived)
      BY <2>1 DEF Net!ToSet
    <2> QED BY <2>2 DEF Frame
  <1> QED BY <1>1, <1>2, <1>3 DEF NetTyped, Net!TypeOK, RxType, TxType

LEMMA DueSound == NetInv => Net!InterruptDue
  BY DEF NetInv, NetDue, Net!InterruptDue

-----------------------------------------------------------------------------
NetPart == part = "net" => NetInv

LEMMA NetPartInit == Init => NetPart
  BY NetInit DEF Init, NetPart

LEMMA NetPartStep == NetPart /\ [Next]_vars => NetPart'
  <1> SUFFICES ASSUME NetPart, [Next]_vars, part' = "net" PROVE NetInv'
    BY DEF NetPart
  <1>1. part = "net" /\ (Net!Next \/ UNCHANGED netVars)
    BY DEF Next, vars
  <1>2. NetInv
    BY <1>1 DEF NetPart
  <1> QED BY <1>1, <1>2, NetStep, NetStutters

THEOREM NetInvariance == Spec => []NetPart
  BY NetPartInit, NetPartStep, PTL DEF Spec

(* A receive buffer is with the driver, offered to the device or filled    *)
(* and not yet taken, and in one place only, however the indices wrap.     *)
THEOREM BuffersAreConserved == Spec => []BuffersConserved
  <1>1. NetPart => BuffersConserved
    BY BuffersSound DEF NetPart, BuffersConserved
  <1> QED BY <1>1, NetInvariance, PTL

(* TAP frames reach the driver in the order they came, each at most once.  *)
THEOREM FramesInOrder == Spec => []FlowInOrder
  <1>1. NetPart => FlowInOrder
    BY FramesSound DEF NetPart, FlowInOrder
  <1> QED BY <1>1, NetInvariance, PTL

(* A frame the driver has not seen never waits without an interrupt        *)
(* pending or a poll scheduled.                                            *)
THEOREM InterruptIsDue == Spec => []InterruptDue
  <1>1. NetPart => InterruptDue
    BY DueSound DEF NetPart, InterruptDue
  <1> QED BY <1>1, NetInvariance, PTL

-----------------------------------------------------------------------------

(* The three BARs.                                                         *)
LEMMA BarsAre ==
  /\ GpuBars \in Seq(Bar!Bar) /\ Len(GpuBars) = 3
  /\ \A n \in 1 .. 3 : GpuBars[n] \in Bar!Bar
  /\ \A b \in Bar!Bar : GpuSize[b] \in {1, 2, 4}
  /\ Bar!MaxLazy = 3
  <1>1. GpuBars = <<0, 1, 3>> /\ DOMAIN GpuBars = 1 .. 3 /\ Len(GpuBars) = 3
    BY DEF GpuBars
  <1>2. \A n \in 1 .. 3 : GpuBars[n] \in Bar!Bar
    BY <1>1 DEF Bar!Bar, Bar!ToSet
  <1>3. GpuBars \in Seq(Bar!Bar)
    <2>1. GpuBars \in [1 .. 3 -> Bar!Bar]
      BY <1>1, <1>2
    <2> QED BY <1>1, <1>2
  <1>4. GpuSize \in [Bar!Bar -> {1, 2, 4}]
    BY Assumptions DEF Bar!BarSlotsAssumption, Bar!Bar
  <1> QED BY <1>1, <1>2, <1>3, <1>4 DEF Bar!MaxLazy

LEMMA BarAssumed ==
  /\ Base32 \in Nat /\ Base64 \in Nat /\ Align64 \in {1, 2, 4} /\ Top \in Nat
  /\ End32 \in Nat /\ End32 > 0 /\ End32 % 4 = 0 /\ End32 <= Base64 /\ MaxMoves \in Nat
  <1>1. /\ Top \in Nat /\ Base32 \in 1 .. Top /\ Base64 \in 1 .. Top
        /\ Align64 \in {1, 2, 4} /\ End32 \in 1 .. Top /\ MaxMoves \in Nat
        /\ End32 % 4 = 0 /\ End32 <= Base64
    BY Assumptions DEF Bar!BarSlotsAssumption
  <1> QED BY <1>1

(* Where preassignment puts a BAR of size z that is aligned to a, at or    *)
(* after n.                                                                *)
LEMMA Rounded ==
  ASSUME NEW n \in Nat, NEW a \in {1, 2, 4}
  PROVE  /\ Bar!RoundUp(n, a) \in Nat /\ Bar!RoundUp(n, a) >= n
         /\ \A z \in {1, 2, 4} : z <= a => Bar!RoundUp(n, a) % z = 0
  <1>1. CASE a = 1
    BY <1>1 DEF Bar!RoundUp
  <1>2. CASE a = 2
    BY <1>2 DEF Bar!RoundUp
  <1>3. CASE a = 4
    BY <1>3 DEF Bar!RoundUp
  <1> QED BY <1>1, <1>2, <1>3

LEMMA Placed ==
  ASSUME NEW b \in Bar!Bar, next32 \in Nat, next64 \in Nat
  PROVE  /\ Bar!Place(b) \in Nat /\ Bar!Place(b) % GpuSize[b] = 0
         /\ Bar!Place(b) >= IF b \in {1, 3} THEN next64 ELSE next32
  <1> DEFINE align == IF b \in {1, 3} THEN Bar!AtLeast(GpuSize[b], Align64) ELSE GpuSize[b]
             from == IF b \in {1, 3} THEN next64 ELSE next32
             low == Bar!AtLeast(from, align)
  <1>1. GpuSize[b] \in {1, 2, 4} /\ Align64 \in {1, 2, 4}
    BY BarsAre, BarAssumed
  <1>2. align \in {1, 2, 4} /\ GpuSize[b] <= align
    BY <1>1 DEF Bar!AtLeast
  <1>3. from \in Nat
    OBVIOUS
  <1> HIDE DEF align, from
  <1>4. low \in Nat /\ low >= from
    BY <1>2, <1>3 DEF Bar!AtLeast
  <1> HIDE DEF low
  <1>5. Bar!Place(b) = Bar!RoundUp(low, align)
    BY DEF Bar!Place, low, from, align
  <1>6. /\ Bar!RoundUp(low, align) \in Nat /\ Bar!RoundUp(low, align) >= low
        /\ Bar!RoundUp(low, align) % GpuSize[b] = 0
    <2>1. /\ Bar!RoundUp(low, align) \in Nat /\ Bar!RoundUp(low, align) >= low
          /\ \A z \in {1, 2, 4} : z <= align => Bar!RoundUp(low, align) % z = 0
      BY <1>2, <1>4, Rounded
    <2>2. GpuSize[b] \in {1, 2, 4} /\ GpuSize[b] <= align
      BY <1>1, <1>2
    <2> QED BY <2>1, <2>2
  <1>7. Bar!Place(b) \in Nat /\ Bar!Place(b) >= from
    BY <1>3, <1>4, <1>5, <1>6
  <1> QED BY <1>5, <1>6, <1>7 DEF from

(* An aligned 32-bit BAR that begins below 4 GB ends there.                *)
LEMMA Fits32 ==
  ASSUME NEW at \in Nat, NEW z \in {1, 2, 4}, at % z = 0, at < End32
  PROVE  at + z <= End32
  <1>1. End32 \in Nat /\ End32 % 4 = 0
    BY BarAssumed
  <1>2. CASE z = 1
    BY <1>1, <1>2
  <1>3. CASE z = 2
    BY <1>1, <1>3
  <1>4. CASE z = 4
    BY <1>1, <1>4
  <1> QED BY <1>2, <1>3, <1>4

-----------------------------------------------------------------------------
(* What preassignment has handed out.                                      *)
Ends(b) == assigned[b] + GpuSize[b]
Preassigned ==
  /\ next32 \in Nat /\ next64 \in Nat /\ Base64 <= next64
  /\ assigned \in [Bar!Bar -> Nat]
  /\ \A b \in Bar!Bar : assigned[b] # 0 =>
       /\ assigned[b] % GpuSize[b] = 0
       /\ b \in {1, 3} => Base64 <= assigned[b] /\ Ends(b) <= next64
       /\ b \notin {1, 3} => Ends(b) <= next32 /\ Ends(b) <= End32
  /\ \A b, c \in Bar!Bar : b # c /\ assigned[b] # 0 /\ assigned[c] # 0 =>
       Ends(b) <= assigned[c] \/ Ends(c) <= assigned[b]

LEMMA PreassignedApart == Preassigned => Bar!AssignedApart
  <1> SUFFICES ASSUME Preassigned PROVE Bar!AssignedApart
    OBVIOUS
  <1>1. ASSUME NEW b \in Bar!Bar, NEW c \in Bar!Bar \ {b}, assigned[b] # 0, assigned[c] # 0
        PROVE  Bar!Cells(assigned[b], GpuSize[b]) \cap Bar!Cells(assigned[c], GpuSize[c]) = {}
    <2>1. assigned[b] \in Nat /\ assigned[c] \in Nat /\ GpuSize[b] \in Nat /\ GpuSize[c] \in Nat
      <3>1. assigned \in [Bar!Bar -> Nat]
        BY DEF Preassigned
      <3>2. \A d \in Bar!Bar : GpuSize[d] \in {1, 2, 4}
        BY BarsAre
      <3> QED BY <3>1, <3>2
    <2>2. Ends(b) <= assigned[c] \/ Ends(c) <= assigned[b]
      BY <1>1 DEF Preassigned
    <2> QED BY <2>1, <2>2 DEF Bar!Cells, Ends
  <1>2. ASSUME NEW b \in Bar!Bar, assigned[b] # 0
        PROVE  assigned[b] % GpuSize[b] = 0 /\ (b \notin {1, 3} => assigned[b] + GpuSize[b] <= End32)
    BY <1>2 DEF Preassigned, Ends
  <1> QED BY <1>1, <1>2, Zenon DEF Bar!AssignedApart

LEMMA Preassigns ==
  ASSUME Preassigned, NEW b \in Bar!Bar, NEW at, at = Bar!Place(b), b \in {1, 3} \/ at < End32,
         assigned' = [assigned EXCEPT ![b] = at], Bar!Advance(b, at)
  PROVE  Preassigned'
  <1>1. /\ next32 \in Nat /\ next64 \in Nat /\ Base64 <= next64 /\ Base64 \in Nat /\ End32 \in Nat
        /\ assigned \in [Bar!Bar -> Nat] /\ End32 <= Base64
        /\ \A c \in Bar!Bar : GpuSize[c] \in {1, 2, 4}
    BY BarsAre, BarAssumed DEF Preassigned
  <1>2. /\ at \in Nat /\ at % GpuSize[b] = 0
        /\ at >= IF b \in {1, 3} THEN next64 ELSE next32
    BY <1>1, Placed
  <1>3. /\ assigned' \in [Bar!Bar -> Nat] /\ assigned'[b] = at
        /\ \A c \in Bar!Bar : c # b => assigned'[c] = assigned[c]
    BY <1>1, <1>2
  <1>4. /\ next64' = IF b \in {1, 3} THEN at + GpuSize[b] ELSE next64
        /\ next32' = IF b \in {1, 3} THEN next32 ELSE at + GpuSize[b]
    BY DEF Bar!Advance
  <1>5. next32' \in Nat /\ next64' \in Nat /\ next32 <= next32' /\ next64 <= next64'
    BY <1>1, <1>2, <1>4
  <1>6. b \notin {1, 3} => at + GpuSize[b] <= End32
    BY <1>1, <1>2, Fits32
  <1>7. ASSUME NEW c \in Bar!Bar, c # b, assigned[c] # 0
        PROVE  Ends(c) <= at \/ at + GpuSize[b] <= assigned[c]
    <2>1. assigned[c] \in Nat /\ GpuSize[c] \in Nat /\ GpuSize[b] \in Nat
      BY <1>1
    <2>2. /\ c \in {1, 3} => Base64 <= assigned[c] /\ Ends(c) <= next64
          /\ c \notin {1, 3} => Ends(c) <= next32 /\ Ends(c) <= End32
      BY <1>7 DEF Preassigned
    <2>3. Ends(c) \in Nat
      BY <2>1 DEF Ends
    <2>4. CASE b \in {1, 3} /\ c \in {1, 3}
      BY <1>1, <1>2, <2>2, <2>3, <2>4
    <2>5. CASE b \notin {1, 3} /\ c \notin {1, 3}
      BY <1>1, <1>2, <2>2, <2>3, <2>5
    <2>6. CASE b \in {1, 3} /\ c \notin {1, 3}
      BY <1>1, <1>2, <2>2, <2>3, <2>6
    <2>7. CASE b \notin {1, 3} /\ c \in {1, 3}
      BY <1>1, <1>2, <1>6, <2>1, <2>2, <2>7
    <2> QED BY <2>4, <2>5, <2>6, <2>7
  <1>8. ASSUME NEW c \in Bar!Bar, assigned'[c] # 0
        PROVE  /\ assigned'[c] % GpuSize[c] = 0
               /\ c \in {1, 3} => Base64 <= assigned'[c] /\ assigned'[c] + GpuSize[c] <= next64'
               /\ c \notin {1, 3} => assigned'[c] + GpuSize[c] <= next32' /\ assigned'[c] + GpuSize[c] <= End32
    <2>1. CASE c = b
      BY <1>1, <1>2, <1>3, <1>4, <1>6, <2>1
    <2>2. CASE c # b
      <3>1. /\ assigned[c] % GpuSize[c] = 0 /\ assigned[c] \in Nat /\ GpuSize[c] \in Nat
            /\ c \in {1, 3} => Base64 <= assigned[c] /\ assigned[c] + GpuSize[c] <= next64
            /\ c \notin {1, 3} => assigned[c] + GpuSize[c] <= next32 /\ assigned[c] + GpuSize[c] <= End32
        BY <1>1, <1>3, <1>8, <2>2 DEF Preassigned, Ends
      <3>2. assigned'[c] = assigned[c]
        BY <1>3, <2>2
      <3> QED BY <1>1, <1>5, <3>1, <3>2
    <2> QED BY <2>1, <2>2
  <1>9. ASSUME NEW c \in Bar!Bar, NEW d \in Bar!Bar, c # d, assigned'[c] # 0, assigned'[d] # 0
        PROVE  assigned'[c] + GpuSize[c] <= assigned'[d] \/ assigned'[d] + GpuSize[d] <= assigned'[c]
    <2>1. CASE c # b /\ d # b
      <3>1. Ends(c) <= assigned[d] \/ Ends(d) <= assigned[c]
        BY <1>3, <1>9, <2>1 DEF Preassigned
      <3> QED BY <1>3, <2>1, <3>1 DEF Ends
    <2>2. CASE c = b
      <3>1. Ends(d) <= at \/ at + GpuSize[b] <= assigned[d]
        BY <1>3, <1>7, <1>9, <2>2
      <3> QED BY <1>3, <1>9, <2>2, <3>1 DEF Ends
    <2>3. CASE d = b
      <3>1. Ends(c) <= at \/ at + GpuSize[b] <= assigned[c]
        BY <1>3, <1>7, <1>9, <2>3
      <3> QED BY <1>3, <1>9, <2>3, <3>1 DEF Ends
    <2> QED BY <2>1, <2>2, <2>3
  <1>10. Base64 <= next64'
    BY <1>1, <1>5
  <1> QED BY <1>3, <1>5, <1>8, <1>9, <1>10 DEF Preassigned, Ends

LEMMA Unassigned ==
  ASSUME next32' = Base32, next64' = Base64, assigned' = [b \in Bar!Bar |-> 0]
  PROVE  Preassigned'
  <1>1. Base32 \in Nat /\ Base64 \in Nat /\ Base64 <= Base64
    BY BarAssumed
  <1>2. assigned' \in [Bar!Bar -> Nat] /\ \A b \in Bar!Bar : assigned'[b] = 0
    OBVIOUS
  <1> QED BY <1>1, <1>2 DEF Preassigned

LEMMA PreassignedKept ==
  ASSUME Preassigned, UNCHANGED <<next32, next64, assigned>>
  PROVE  Preassigned'
  BY DEF Preassigned, Ends

-----------------------------------------------------------------------------
(* The mappings the session booked.                                        *)
Booking == [at : Bar!Address, size : {1, 2, 4}, ptr : HostPtr]
Books ==
  /\ booked \in Seq(Booking)
  /\ Bar!BooksBalance
  /\ \A m, l \in mappings : m.ptr = l.ptr => m = l

LEMMA PointerOf ==
  ASSUME NEW p, p \notin Bar!Pointers
  PROVE  \A m \in mappings : m.ptr # p
  BY DEF Bar!Pointers

LEMMA BooksGrow ==
  ASSUME Books, NEW p \in HostPtr, p \notin Bar!Pointers, NEW b, NEW e \in Booking, e.ptr = p,
         mappings' = mappings \cup {Bar!Mapping(b, "early", p)}, booked' = Append(booked, e)
  PROVE  Books'
  <1> DEFINE n == Len(booked)
             new == Bar!Mapping(b, "early", p)
  <1>1. /\ n \in Nat /\ DOMAIN booked = 1 .. n
        /\ booked' \in Seq(Booking) /\ Len(booked') = n + 1 /\ DOMAIN booked' = 1 .. n + 1
        /\ \A k \in 1 .. n : booked'[k] = booked[k]
        /\ booked'[n + 1] = e
    <2>1. booked \in Seq(Booking)
      BY DEF Books
    <2>2. /\ n \in Nat /\ DOMAIN booked = 1 .. n
      BY <2>1, LenProperties
    <2>3. /\ Append(booked, e) \in Seq(Booking) /\ Len(Append(booked, e)) = n + 1
          /\ \A k \in 1 .. n : Append(booked, e)[k] = booked[k]
          /\ Append(booked, e)[n + 1] = e
      BY <2>1, AppendProperties
    <2>4. DOMAIN Append(booked, e) = 1 .. Len(Append(booked, e))
      BY <2>3, LenProperties
    <2> QED BY <2>2, <2>3, <2>4
  <1>2. new.ptr = p /\ new.by = "early"
    BY DEF Bar!Mapping
  <1> HIDE DEF n, new
  <1>3. \A k \in 1 .. n + 1 : k \in 1 .. n \/ k = n + 1
    BY <1>1
  <1>4. \A m \in mappings : m.ptr # p
    BY PointerOf
  <1>5. /\ \A m \in mappings : m.by = "early" => \E k \in 1 .. n : booked[k].ptr = m.ptr
        /\ \A k \in 1 .. n : \E m \in mappings : m.ptr = booked[k].ptr /\ m.by = "early"
        /\ \A k, l \in 1 .. n : k # l => booked[l].ptr # booked[k].ptr
    BY <1>1 DEF Books, Bar!BooksBalance
  <1>6. mappings' = mappings \cup {new}
    BY DEF new
  <1>7. n + 1 \in 1 .. n + 1 /\ \A k \in 1 .. n : k \in 1 .. n + 1
    BY <1>1
  <1>8. ASSUME NEW m \in mappings', m.by = "early"
        PROVE  \E k \in 1 .. n + 1 : booked'[k].ptr = m.ptr
    <2>1. CASE m = new
      BY <1>1, <1>2, <1>7, <2>1
    <2>2. CASE m \in mappings
      <3>1. PICK k \in 1 .. n : booked[k].ptr = m.ptr
        BY <1>5, <1>8, <2>2
      <3> QED BY <1>1, <1>7, <3>1
    <2> QED BY <1>6, <2>1, <2>2
  <1>9. ASSUME NEW k \in 1 .. n + 1
        PROVE  \E m \in mappings' : m.ptr = booked'[k].ptr /\ m.by = "early"
    <2>1. CASE k \in 1 .. n
      BY <1>1, <1>5, <1>6, <2>1
    <2>2. CASE k = n + 1
      BY <1>1, <1>2, <1>6, <2>2
    <2> QED BY <1>3, <2>1, <2>2
  <1>10. \A k \in 1 .. n : booked[k].ptr # p
    BY <1>4, <1>5
  <1>11. ASSUME NEW k \in 1 .. n + 1, NEW l \in 1 .. n + 1, k # l
         PROVE  booked'[l].ptr # booked'[k].ptr
    BY <1>1, <1>3, <1>5, <1>10, <1>11
  <1>12. Bar!BooksBalance'
    BY <1>1, <1>8, <1>9, <1>11 DEF Bar!BooksBalance
  <1>13. \A m, l \in mappings' : m.ptr = l.ptr => m = l
    BY <1>2, <1>4, <1>6 DEF Books
  <1> QED BY <1>1, <1>12, <1>13 DEF Books

LEMMA BooksAside ==
  ASSUME Books, NEW p, p \notin Bar!Pointers, NEW b, UNCHANGED booked,
         mappings' = mappings \cup {Bar!Mapping(b, "lazy", p)}
  PROVE  Books'
  <1> DEFINE new == Bar!Mapping(b, "lazy", p)
  <1>1. new.ptr = p /\ new.by = "lazy"
    BY DEF Bar!Mapping
  <1> HIDE DEF new
  <1>2. \A m \in mappings : m.ptr # p
    BY PointerOf
  <1>3. mappings' = mappings \cup {new}
    BY DEF new
  <1>4. new.by # "early"
    BY <1>1
  <1>5. Bar!BooksBalance'
    BY <1>3, <1>4 DEF Books, Bar!BooksBalance
  <1>6. \A m, l \in mappings' : m.ptr = l.ptr => m = l
    BY <1>1, <1>2, <1>3 DEF Books
  <1> QED BY <1>5, <1>6 DEF Books

LEMMA BooksClosed ==
  ASSUME Books, mappings' = Bar!Unmapped, booked' = <<>>
  PROVE  Books'
  <1>1. DOMAIN <<>> = {} /\ <<>> \in Seq(Booking)
    OBVIOUS
  <1>2. \A m \in mappings' : m \in mappings /\ \A e \in Bar!ToSet(booked) : m.ptr # e.ptr
    BY DEF Bar!Unmapped
  <1>3. ASSUME NEW m \in mappings'
        PROVE  m.by # "early"
    <2>1. SUFFICES ASSUME m.by = "early" PROVE FALSE
      OBVIOUS
    <2>2. PICK k \in DOMAIN booked : booked[k].ptr = m.ptr
      BY <1>2, <2>1 DEF Books, Bar!BooksBalance
    <2>3. booked[k] \in Bar!ToSet(booked)
      BY DEF Bar!ToSet
    <2> QED BY <1>2, <2>2, <2>3
  <1>4. Bar!BooksBalance'
    BY <1>1, <1>3 DEF Bar!BooksBalance
  <1> QED BY <1>1, <1>2, <1>4 DEF Books

LEMMA BooksKept ==
  ASSUME Books, UNCHANGED <<mappings, booked>>
  PROVE  Books'
  BY DEF Books, Bar!BooksBalance

-----------------------------------------------------------------------------
(* The slots made on demand.                                               *)
Holds(s, m, b) ==
  /\ m.bar = b /\ m.by = "lazy"
  /\ memslots[s] # Bar!NoSlot /\ memslots[s].ptr = m.ptr /\ memslots[s].size = GpuSize[b]
MaskMapped == \A b \in mask : \E s \in Bar!SlotId, m \in mappings : Holds(s, m, b)
SlotsTyped == memslots \in [Bar!SlotId -> Bar!SlotState]

LEMMA NewSlot ==
  ASSUME NEW at \in Bar!Address, NEW z \in {1, 2, 4}, NEW p \in HostPtr
  PROVE  /\ [at |-> at, size |-> z, ptr |-> p] \in Bar!SlotState
         /\ [at |-> at, size |-> z, ptr |-> p] # Bar!NoSlot
  <1>1. at # 0
    BY DEF Bar!Address
  <1>2. [at |-> at, size |-> z, ptr |-> p].at = at
    OBVIOUS
  <1>3. \A x : x = Bar!NoSlot => x.at = 0
    BY DEF Bar!NoSlot
  <1>4. [at |-> at, size |-> z, ptr |-> p] # Bar!NoSlot
    BY <1>1, <1>2, <1>3
  <1> QED BY <1>4 DEF Bar!SlotState

(* A slot that shows a mapping is not given to another one.                *)
LEMMA SlotKept ==
  ASSUME MaskMapped, SlotsTyped, NEW s, NEW at \in Bar!Address, NEW z \in {1, 2, 4}, NEW p \in HostPtr,
         p \notin Bar!Pointers, Bar!KvmAccepts(s, at, z, p), Bar!SetRegion(s, at, z, p),
         mappings \subseteq mappings'
  PROVE  /\ SlotsTyped'
         /\ \A b \in mask : \E t \in Bar!SlotId, m \in mappings' : Holds(t, m, b)'
  <1>1. memslots' = [memslots EXCEPT ![s] = [at |-> at, size |-> z, ptr |-> p]]
    BY DEF Bar!SetRegion
  <1>2. SlotsTyped'
    BY <1>1, NewSlot DEF SlotsTyped
  <1>3. ASSUME NEW b \in mask
        PROVE  \E t \in Bar!SlotId, m \in mappings' : Holds(t, m, b)'
    <2>1. PICK t \in Bar!SlotId, m \in mappings : Holds(t, m, b)
      BY DEF MaskMapped
    <2>2. m.ptr # p
      BY PointerOf
    <2>3. t # s
      BY <2>1, <2>2 DEF Holds, Bar!KvmAccepts
    <2>4. memslots'[t] = memslots[t]
      BY <1>1, <2>3 DEF SlotsTyped
    <2>5. Holds(t, m, b)'
      BY <2>1, <2>4 DEF Holds
    <2> QED BY <2>5
  <1> QED BY <1>2, <1>3

(* The BAR an access is about holds the address.                           *)
LEMMA TouchedHolds ==
  ASSUME NEW a, Bar!Touched(a) # 0
  PROVE  /\ Bar!Touched(a) \in 1 .. 3
         /\ reg[GpuBars[Bar!Touched(a)]] # 0
         /\ a \in Bar!Cells(reg[GpuBars[Bar!Touched(a)]], GpuSize[GpuBars[Bar!Touched(a)]])
  <1> DEFINE hit == {n \in DOMAIN GpuBars :
                       /\ reg[GpuBars[n]] # 0
                       /\ a \in Bar!Cells(reg[GpuBars[n]], GpuSize[GpuBars[n]])}
             k == Bar!Touched(a)
  <1>1. k = IF hit = {} THEN 0 ELSE CHOOSE n \in hit : \A l \in hit : n <= l
    BY DEF Bar!Touched
  <1>2. DOMAIN GpuBars = 1 .. 3
    BY BarsAre, LenProperties
  <1> HIDE DEF k
  <1>3. hit # {}
    BY <1>1 DEF k
  <1>4. \E n \in hit : \A l \in hit : n <= l
    <2>1. hit \subseteq Nat
      BY <1>2
    <2> HIDE DEF hit
    <2> QED BY <1>3, <2>1, Least
  <1>5. k \in hit
    <2> HIDE DEF hit
    <2> QED BY <1>1, <1>3, <1>4
  <1>6. k \in 1 .. 3 /\ reg[GpuBars[k]] # 0 /\ a \in Bar!Cells(reg[GpuBars[k]], GpuSize[GpuBars[k]])
    BY <1>2, <1>5
  <1> QED BY <1>6 DEF k

-----------------------------------------------------------------------------
(* The inductive invariant of the BARs.                                    *)
Mappings == [ptr : HostPtr, bar : Bar!Bar, by : {"early", "lazy"}]
BarTypes ==
  /\ stage \in Bar!Stage /\ bar \in 1 .. 4
  /\ reg \in [Bar!Bar -> Nat]
  /\ slot \in 0 .. 3 /\ (stage \in {"map", "remap"} => slot < bar)
  /\ mappings \subseteq Mappings
  /\ mask \subseteq Bar!Bar
  /\ lazySlots \in 0 .. 3
  /\ retry \in 0 .. Top /\ moves \in 0 .. MaxMoves
Demand ==
  /\ retry # 0 => stage \in {"boot", "run"}
  /\ MaskMapped
  /\ Bar!RetryLands
BarInv == BarTypes /\ SlotsTyped /\ Preassigned /\ Books /\ Demand

LEMMA Quiet ==
  ASSUME retry' = 0, MaskMapped'
  PROVE  Demand'
  BY DEF Demand, Bar!RetryLands

LEMMA MaskKept ==
  ASSUME MaskMapped, UNCHANGED <<mask, mappings, memslots>>
  PROVE  MaskMapped'
  BY DEF MaskMapped, Holds

LEMMA BarInit ==
  ASSUME Bar!Init
  PROVE  BarInv
  <1>1. /\ stage = "preassign" /\ bar = 1 /\ next32 = Base32 /\ next64 = Base64
        /\ assigned = [b \in Bar!Bar |-> 0] /\ reg = [b \in Bar!Bar |-> 0]
        /\ slot = 0 /\ memslots = [s \in Bar!SlotId |-> Bar!NoSlot] /\ mappings = {} /\ booked = <<>>
        /\ mask = {} /\ lazySlots = 0 /\ retry = 0 /\ moves = 0
    BY DEF Bar!Init
  <1>2. Preassigned
    <2>1. Base32 \in Nat /\ Base64 \in Nat /\ Base64 <= Base64
      BY BarAssumed
    <2>2. assigned \in [Bar!Bar -> Nat] /\ \A b \in Bar!Bar : assigned[b] = 0
      BY <1>1
    <2> QED BY <1>1, <2>1, <2>2 DEF Preassigned
  <1>3. Books
    <2>1. DOMAIN <<>> = {} /\ <<>> \in Seq(Booking)
      OBVIOUS
    <2> QED BY <1>1, <2>1 DEF Books, Bar!BooksBalance
  <1>4. SlotsTyped
    BY <1>1 DEF SlotsTyped, Bar!SlotState
  <1>5. BarTypes
    <2>1. 1 \in 1 .. 4 /\ 0 \in 0 .. 3 /\ 0 \in 0 .. Top /\ 0 \in 0 .. MaxMoves
      BY BarAssumed
    <2> QED BY <1>1, <2>1 DEF BarTypes, Bar!Stage
  <1>6. Demand
    BY <1>1 DEF Demand, MaskMapped, Bar!RetryLands
  <1> QED BY <1>2, <1>3, <1>4, <1>5, <1>6 DEF BarInv

LEMMA BarPreassigns ==
  ASSUME BarInv, Bar!PreassignNext
  PROVE  BarInv'
  <1> DEFINE b == GpuBars[bar]
             at == Bar!Place(b)
  <1>1. /\ stage \in {"preassign", "restore"} /\ bar <= 3 /\ bar' = bar + 1
        /\ UNCHANGED <<stage, slot, memslots, mappings, booked, mask, lazySlots, retry, moves>>
    BY BarsAre DEF Bar!PreassignNext, Bar!mappings, Bar!onDemand
  <1>2. /\ BarTypes /\ SlotsTyped /\ Preassigned /\ Books /\ Demand /\ bar \in 1 .. 3
        /\ retry = 0 /\ MaskMapped
    BY <1>1 DEF BarInv, BarTypes, Demand
  <1>3. b \in Bar!Bar /\ at \in Nat
    <2>1. b \in Bar!Bar
      BY <1>2, BarsAre
    <2>2. next32 \in Nat /\ next64 \in Nat
      BY <1>2 DEF Preassigned
    <2> HIDE DEF b
    <2> QED BY <2>1, <2>2, Placed
  <1>4. \/ /\ b \in {1, 3} \/ at < End32
           /\ reg' = [reg EXCEPT ![b] = at]
           /\ assigned' = [assigned EXCEPT ![b] = at]
           /\ Bar!Advance(b, at)
        \/ reg' = [reg EXCEPT ![b] = at % End32] /\ UNCHANGED <<next32, next64, assigned>>
        \/ UNCHANGED <<reg, next32, next64, assigned>>
    BY DEF Bar!PreassignNext, Bar!cursors
  <1>5. at % End32 \in Nat
    <2> HIDE DEF at
    <2> QED BY <1>3, BarAssumed
  <1>6. Preassigned'
    <2>1. CASE UNCHANGED <<next32, next64, assigned>>
      BY <1>2, <2>1, PreassignedKept
    <2>2. CASE /\ b \in {1, 3} \/ at < End32
               /\ assigned' = [assigned EXCEPT ![b] = at]
               /\ Bar!Advance(b, at)
      <3> HIDE DEF b
      <3> QED BY <1>2, <1>3, <2>2, Preassigns
    <2> QED BY <1>4, <2>1, <2>2
  <1> HIDE DEF at, b
  <1>7. reg' \in [Bar!Bar -> Nat]
    BY <1>2, <1>3, <1>4, <1>5 DEF BarTypes
  <1>8. BarTypes'
    BY <1>1, <1>2, <1>7 DEF BarTypes
  <1>9. Books' /\ SlotsTyped' /\ MaskMapped'
    BY <1>1, <1>2, BooksKept, MaskKept DEF SlotsTyped
  <1>10. Demand'
    BY <1>1, <1>2, <1>9, Quiet
  <1> QED BY <1>6, <1>8, <1>9, <1>10 DEF BarInv

LEMMA BarMaps ==
  ASSUME BarInv, Bar!MapNext
  PROVE  BarInv'
  <1> DEFINE b == GpuBars[bar]
             s == <<"early", slot + 1>>
  <1>1. /\ stage \in {"map", "remap"} /\ bar <= 3 /\ bar' = bar + 1
        /\ UNCHANGED <<stage, next32, next64, assigned, reg, mask, lazySlots, retry, moves>>
    BY BarsAre DEF Bar!MapNext, Bar!cursors, Bar!onDemand
  <1>2. /\ BarTypes /\ SlotsTyped /\ Preassigned /\ Books /\ Demand /\ bar \in 1 .. 3
        /\ retry = 0 /\ MaskMapped
    BY <1>1 DEF BarInv, BarTypes, Demand
  <1>3. b \in Bar!Bar /\ GpuSize[b] \in {1, 2, 4}
    BY <1>2, BarsAre
  <1>4. \/ UNCHANGED <<slot, memslots, mappings, booked>>
        \/ \E p \in HostPtr \ Bar!Pointers, at \in Bar!GuestAddr(b) \ {0} :
             /\ Bar!KvmAccepts(s, at, GpuSize[b], p)
             /\ Bar!SetRegion(s, at, GpuSize[b], p)
             /\ mappings' = mappings \cup {Bar!Mapping(b, "early", p)}
             /\ booked' = Append(booked, [at |-> at, size |-> GpuSize[b], ptr |-> p])
             /\ slot' = slot + 1
    BY DEF Bar!MapNext, Bar!mappings
  <1> HIDE DEF b
  <1>5. Preassigned'
    BY <1>1, <1>2, PreassignedKept
  <1>6. CASE UNCHANGED <<slot, memslots, mappings, booked>>
    <2>1. Books' /\ SlotsTyped' /\ MaskMapped'
      BY <1>1, <1>2, <1>6, BooksKept, MaskKept DEF SlotsTyped
    <2>2. BarTypes'
      BY <1>1, <1>2, <1>6 DEF BarTypes
    <2>3. Demand'
      BY <1>1, <1>2, <2>1, Quiet
    <2> QED BY <1>5, <2>1, <2>2, <2>3 DEF BarInv
  <1>7. CASE \E p \in HostPtr \ Bar!Pointers, at \in Bar!GuestAddr(b) \ {0} :
             /\ Bar!KvmAccepts(s, at, GpuSize[b], p)
             /\ Bar!SetRegion(s, at, GpuSize[b], p)
             /\ mappings' = mappings \cup {Bar!Mapping(b, "early", p)}
             /\ booked' = Append(booked, [at |-> at, size |-> GpuSize[b], ptr |-> p])
             /\ slot' = slot + 1
    <2>1. PICK p \in HostPtr \ Bar!Pointers, at \in Bar!GuestAddr(b) \ {0} :
             /\ Bar!KvmAccepts(s, at, GpuSize[b], p)
             /\ Bar!SetRegion(s, at, GpuSize[b], p)
             /\ mappings' = mappings \cup {Bar!Mapping(b, "early", p)}
             /\ booked' = Append(booked, [at |-> at, size |-> GpuSize[b], ptr |-> p])
             /\ slot' = slot + 1
      BY <1>7
    <2>2. at \in Bar!Address
      <3>1. reg[b] \in Nat /\ End32 \in Nat /\ End32 > 0
        BY <1>2, <1>3, BarAssumed DEF BarTypes
      <3>2. reg[b] % End32 \in Nat
        BY <3>1
      <3> QED BY <3>1, <3>2 DEF Bar!GuestAddr, Bar!Address
    <2> DEFINE e == [at |-> at, size |-> GpuSize[b], ptr |-> p]
    <2>3. e \in Booking /\ e.ptr = p
      BY <1>3, <2>2 DEF Booking
    <2> HIDE DEF s
    <2>4. SlotsTyped' /\ \A c \in mask : \E t \in Bar!SlotId, m \in mappings' : Holds(t, m, c)'
      <3>1. mappings \subseteq mappings' /\ p \in HostPtr /\ p \notin Bar!Pointers
        BY <2>1
      <3> QED BY <1>2, <1>3, <2>1, <2>2, <3>1, SlotKept
    <2>5. MaskMapped'
      BY <1>1, <2>4 DEF MaskMapped
    <2>6. Books'
      <3>1. booked' = Append(booked, e)
        BY <2>1
      <3>2. p \in HostPtr /\ p \notin Bar!Pointers /\ mappings' = mappings \cup {Bar!Mapping(b, "early", p)}
        BY <2>1
      <3> HIDE DEF e
      <3> QED BY <1>2, <2>3, <3>1, <3>2, BooksGrow
    <2>7. BarTypes'
      <3>1. Bar!Mapping(b, "early", p) \in Mappings
        BY <1>3 DEF Mappings, Bar!Mapping
      <3>2. mappings' \subseteq Mappings
        BY <1>2, <2>1, <3>1 DEF BarTypes
      <3>3. slot' \in 0 .. 3 /\ slot' < bar' /\ bar' \in 1 .. 4
        BY <1>1, <1>2, <2>1 DEF BarTypes
      <3> QED BY <1>1, <1>2, <3>2, <3>3 DEF BarTypes
    <2>8. Demand'
      BY <1>1, <1>2, <2>5, Quiet
    <2> QED BY <1>5, <2>4, <2>6, <2>7, <2>8 DEF BarInv
  <1> QED BY <1>4, <1>6, <1>7

LEMMA BarFaults ==
  ASSUME BarInv, NEW a \in Bar!Cell, Bar!MmioExit(a)
  PROVE  BarInv'
  <1> DEFINE b == GpuBars[Bar!Touched(a)]
  <1>1. /\ stage \in {"boot", "run"} /\ retry = 0 /\ ~Bar!Covered(a) /\ Bar!Touched(a) # 0
        /\ Bar!LazyMap(b, a)
        /\ UNCHANGED <<stage, bar, next32, next64, assigned, reg, slot, booked, moves>>
    BY DEF Bar!MmioExit, Bar!loop, Bar!cursors
  <1>2. BarTypes /\ SlotsTyped /\ Preassigned /\ Books /\ Demand /\ MaskMapped
    BY DEF BarInv, Demand
  <1>3. /\ b \in Bar!Bar /\ GpuSize[b] \in {1, 2, 4} /\ reg[b] # 0
        /\ a \in Bar!Cells(reg[b], GpuSize[b])
    BY <1>1, TouchedHolds, BarsAre
  <1>4. a \in 0 .. Top /\ a # 0
    BY BarAssumed DEF Bar!Cell
  <1>5. Preassigned'
    BY <1>1, <1>2, PreassignedKept
  <1>6. Bar!Touched(retry)' = Bar!Touched(retry')
    BY <1>1 DEF Bar!Touched
  <1>7. CASE b \in mask /\ retry' = a /\ UNCHANGED <<memslots, mappings, mask, lazySlots>>
    <2>1. PICK s \in Bar!SlotId, m \in mappings : Holds(s, m, b)
      BY <1>2, <1>7 DEF MaskMapped
    <2>2. memslots[s].at # reg[b]
      <3> SUFFICES ASSUME memslots[s].at = reg[b] PROVE FALSE
        OBVIOUS
      <3>1. Bar!Shows(s, a)
        BY <1>3, <2>1 DEF Bar!Shows, Holds
      <3> QED BY <1>1, <3>1 DEF Bar!Covered
    <2>3. Bar!RetryLands'
      <3>1. /\ s \in Bar!SlotId /\ m \in mappings' /\ m.bar = b /\ m.by = "lazy"
            /\ memslots'[s].ptr = m.ptr /\ memslots'[s].at # reg'[m.bar]
        BY <1>1, <1>7, <2>1, <2>2 DEF Holds
      <3>2. GpuBars[Bar!Touched(retry)'] = b
        BY <1>6, <1>7
      <3> HIDE DEF b
      <3> QED BY <3>1, <3>2 DEF Bar!RetryLands
    <2>4. MaskMapped' /\ SlotsTyped' /\ Books'
      BY <1>1, <1>2, <1>7, MaskKept, BooksKept DEF SlotsTyped
    <2>5. Demand'
      BY <1>1, <2>3, <2>4 DEF Demand
    <2>6. BarTypes'
      BY <1>1, <1>2, <1>4, <1>7 DEF BarTypes
    <2> QED BY <1>5, <2>4, <2>5, <2>6 DEF BarInv
  <1>8. ASSUME NEW p \in HostPtr \ Bar!Pointers, NEW s, s = <<"lazy", lazySlots + 1>>,
               b \notin mask, lazySlots < Bar!MaxLazy,
               Bar!KvmAccepts(s, reg[b], GpuSize[b], p), Bar!SetRegion(s, reg[b], GpuSize[b], p),
               mappings' = mappings \cup {Bar!Mapping(b, "lazy", p)}, mask' = mask \cup {b},
               lazySlots' = lazySlots + 1, retry' = a
        PROVE  BarInv'
    <2>1. lazySlots \in 0 .. 3 /\ lazySlots < 3 /\ reg[b] \in Bar!Address /\ reg[b] \in Nat
      BY <1>2, <1>3, <1>8, BarsAre DEF BarTypes, Bar!Address
    <2>2. s \in Bar!SlotId
      BY <1>8, <2>1, BarsAre DEF Bar!SlotId
    <2> HIDE DEF b
    <2> DEFINE m == Bar!Mapping(b, "lazy", p)
               new == [at |-> reg[b], size |-> GpuSize[b], ptr |-> p]
    <2>3. /\ m.bar = b /\ m.by = "lazy" /\ m.ptr = p /\ m \in Mappings /\ m \in mappings'
          /\ mappings \subseteq mappings'
      BY <1>3, <1>8 DEF Bar!Mapping, Mappings
    <2>4. /\ SlotsTyped'
          /\ \A c \in mask : \E t \in Bar!SlotId, l \in mappings' : Holds(t, l, c)'
      <3>1. p \in HostPtr /\ p \notin Bar!Pointers
        OBVIOUS
      <3> QED BY <1>2, <1>3, <1>8, <2>1, <2>3, <3>1, SlotKept
    <2>5. memslots'[s] = new /\ new # Bar!NoSlot
      <3>1. new # Bar!NoSlot
        BY <1>3, <2>1, NewSlot
      <3>2. memslots' = [memslots EXCEPT ![s] = new]
        BY <1>8 DEF Bar!SetRegion
      <3> HIDE DEF new
      <3> QED BY <1>2, <2>2, <3>1, <3>2 DEF SlotsTyped
    <2>6. /\ memslots'[s] # Bar!NoSlot /\ memslots'[s].at = reg[b]
          /\ memslots'[s].size = GpuSize[b] /\ memslots'[s].ptr = p
      BY <2>5
    <2> HIDE DEF m, new
    <2>7. ASSUME NEW c, c = b
          PROVE  \E t \in Bar!SlotId, l \in mappings' : Holds(t, l, c)'
      <3>1. PICK l \in mappings' : l = m
        BY <2>3
      <3>2. /\ l.bar = c /\ l.by = "lazy" /\ memslots'[s] # Bar!NoSlot
            /\ memslots'[s].ptr = l.ptr /\ memslots'[s].size = GpuSize[c]
        BY <2>3, <2>6, <2>7, <3>1
      <3>3. Holds(s, l, c)'
        BY <3>2 DEF Holds
      <3> QED BY <2>2, <3>3
    <2>8. MaskMapped'
      <3>1. ASSUME NEW c \in mask'
            PROVE  \E t \in Bar!SlotId, l \in mappings' : Holds(t, l, c)'
        <4>1. c \in mask \/ c = b
          BY <1>8
        <4> QED BY <2>4, <2>7, <4>1
      <3> QED BY <3>1 DEF MaskMapped
    <2>9. Bar!RetryLands'
      <3>1. Bar!Shows(s, retry)'
        BY <1>3, <1>8, <2>6 DEF Bar!Shows
      <3>2. Bar!Covered(retry)'
        BY <2>2, <3>1 DEF Bar!Covered
      <3> QED BY <3>2 DEF Bar!RetryLands
    <2>10. Demand'
      BY <1>1, <2>8, <2>9 DEF Demand
    <2>11. Books'
      BY <1>1, <1>2, <1>8, BooksAside
    <2>12. BarTypes'
      <3>1. mappings' \subseteq Mappings
        BY <1>2, <1>8, <2>3 DEF BarTypes, m
      <3>2. lazySlots' \in 0 .. 3
        BY <1>8, <2>1
      <3> QED BY <1>1, <1>2, <1>3, <1>4, <1>8, <3>1, <3>2 DEF BarTypes
    <2> QED BY <1>5, <2>4, <2>10, <2>11, <2>12 DEF BarInv
  <1>9. CASE \E p \in HostPtr \ Bar!Pointers :
               /\ b \notin mask /\ lazySlots < Bar!MaxLazy
               /\ Bar!KvmAccepts(<<"lazy", lazySlots + 1>>, reg[b], GpuSize[b], p)
               /\ Bar!SetRegion(<<"lazy", lazySlots + 1>>, reg[b], GpuSize[b], p)
               /\ mappings' = mappings \cup {Bar!Mapping(b, "lazy", p)} /\ mask' = mask \cup {b}
               /\ lazySlots' = lazySlots + 1 /\ retry' = a
    <2> HIDE DEF b
    <2> QED BY <1>8, <1>9
  <1> HIDE DEF b
  <1> QED BY <1>1, <1>7, <1>9 DEF Bar!LazyMap

(* The remaining steps leave no access to be retried.                      *)
LEMMA BarQuietSteps ==
  ASSUME BarInv,
         \/ Bar!PreassignDone \/ Bar!MapDone \/ Bar!PostEnds \/ Bar!Retry \/ Bar!Clear
         \/ Bar!Destroy \/ Bar!Attach
         \/ \E b \in Bar!Bar, a \in Bar!Cell : Bar!Move(b, a)
         \/ \E a \in Bar!Cell : Bar!RunFails(a)
  PROVE  BarInv'
  <1> USE DEF Bar!loop, Bar!cursors, Bar!mappings, Bar!onDemand
  <1>1. BarTypes /\ SlotsTyped /\ Preassigned /\ Books /\ Demand /\ MaskMapped
    BY DEF BarInv, Demand
  <1>2. retry # 0 => stage \in {"boot", "run"}
    BY <1>1 DEF Demand
  <1>3. CASE Bar!PreassignDone
    <2>1. Preassigned'
      BY <1>3, Unassigned DEF Bar!PreassignDone, Bar!Rewind
    <2>2. Books' /\ SlotsTyped' /\ MaskMapped'
      BY <1>1, <1>3, BooksKept, MaskKept DEF Bar!PreassignDone, SlotsTyped
    <2>3. Demand'
      BY <1>2, <1>3, <2>2, Quiet DEF Bar!PreassignDone
    <2>4. BarTypes'
      BY <1>1, <1>3 DEF Bar!PreassignDone, BarTypes, Bar!Stage
    <2> QED BY <2>1, <2>2, <2>3, <2>4 DEF BarInv
  <1>4. CASE Bar!MapDone \/ Bar!PostEnds \/ Bar!Retry \/ \E a \in Bar!Cell : Bar!RunFails(a)
    <2>0. UNCHANGED <<next32, next64, assigned, reg, slot, memslots, mappings, booked, mask, moves>>
      BY <1>4 DEF Bar!MapDone, Bar!PostEnds, Bar!Retry, Bar!RunFails
    <2>1. Preassigned' /\ Books' /\ SlotsTyped' /\ MaskMapped'
      BY <1>1, <2>0, PreassignedKept, BooksKept, MaskKept DEF SlotsTyped
    <2>2. retry' = 0
      BY <1>2, <1>4 DEF Bar!MapDone, Bar!PostEnds, Bar!Retry, Bar!RunFails
    <2>3. Demand'
      BY <2>1, <2>2, Quiet
    <2>4. /\ bar' \in 1 .. 4 /\ stage' \in Bar!Stage /\ lazySlots' \in 0 .. 3
          /\ (stage' \in {"map", "remap"} => stage' = stage /\ bar' = bar)
      <3>1. CASE Bar!MapDone \/ Bar!PostEnds
        BY <1>1, <3>1 DEF Bar!MapDone, Bar!PostEnds, BarTypes, Bar!Stage
      <3>2. CASE Bar!Retry
        BY <1>1, <3>2 DEF Bar!Retry, BarTypes, Bar!Stage
      <3>3. CASE \E a \in Bar!Cell : Bar!RunFails(a)
        BY <1>1, <3>3, BarsAre DEF Bar!RunFails, BarTypes, Bar!Stage
      <3> QED BY <1>4, <3>1, <3>2, <3>3
    <2>5. BarTypes'
      BY <1>1, <2>0, <2>2, <2>4, BarAssumed DEF BarTypes
    <2> QED BY <2>1, <2>3, <2>5 DEF BarInv
  <1>5. CASE Bar!Clear
    <2>1. Preassigned' /\ Books'
      BY <1>1, <1>5, PreassignedKept, BooksClosed DEF Bar!Clear
    <2>2. mappings' \subseteq mappings /\ \A m \in mappings : m \in mappings' \/ m.by # "lazy"
      <3>1. mappings' = Bar!Unmapped
        BY <1>5 DEF Bar!Clear
      <3>2. ASSUME NEW m \in mappings, m.by = "lazy"
            PROVE  m \in Bar!Unmapped
        <4>1. \A k \in DOMAIN booked : booked[k].ptr # m.ptr
          <5> SUFFICES ASSUME NEW k \in DOMAIN booked, booked[k].ptr = m.ptr PROVE FALSE
            OBVIOUS
          <5>1. PICK l \in mappings : l.ptr = booked[k].ptr /\ l.by = "early"
            BY <1>1 DEF Books, Bar!BooksBalance
          <5>2. l = m
            BY <1>1, <5>1 DEF Books
          <5> QED BY <3>2, <5>1, <5>2
        <4> QED BY <4>1 DEF Bar!Unmapped, Bar!ToSet
      <3> QED BY <3>1, <3>2 DEF Bar!Unmapped
    <2>3. SlotsTyped' /\ MaskMapped'
      BY <1>1, <1>5, <2>2 DEF Bar!Clear, SlotsTyped, MaskMapped, Holds
    <2>4. Demand'
      BY <1>5, <2>3, Quiet DEF Bar!Clear
    <2>5. BarTypes'
      BY <1>1, <1>5, <2>2 DEF Bar!Clear, BarTypes, Bar!Stage
    <2> QED BY <2>1, <2>3, <2>4, <2>5 DEF BarInv
  <1>6. CASE Bar!Destroy
    <2>1. Preassigned' /\ Books'
      BY <1>1, <1>6, PreassignedKept, BooksClosed DEF Bar!Destroy
    <2>2. SlotsTyped' /\ MaskMapped'
      BY <1>6 DEF Bar!Destroy, SlotsTyped, MaskMapped, Bar!SlotState
    <2>3. Demand'
      BY <1>6, <2>2, Quiet DEF Bar!Destroy
    <2>4. mappings' \subseteq mappings
      BY <1>6 DEF Bar!Destroy, Bar!Unmapped
    <2>5. BarTypes'
      BY <1>1, <1>6, <2>4 DEF Bar!Destroy, BarTypes, Bar!Stage
    <2> QED BY <2>1, <2>2, <2>3, <2>5 DEF BarInv
  <1>7. CASE Bar!Attach
    <2>1. Preassigned' /\ Books' /\ SlotsTyped' /\ MaskMapped'
      BY <1>1, <1>7, PreassignedKept, BooksKept, MaskKept DEF Bar!Attach, SlotsTyped
    <2>2. Demand'
      BY <1>2, <1>7, <2>1, Quiet DEF Bar!Attach
    <2>3. BarTypes'
      BY <1>1, <1>7, BarAssumed DEF Bar!Attach, BarTypes, Bar!Stage
    <2> QED BY <2>1, <2>2, <2>3 DEF BarInv
  <1>8. ASSUME NEW b \in Bar!Bar, NEW a \in Bar!Cell, Bar!Move(b, a)
        PROVE  BarInv'
    <2>1. Preassigned' /\ Books' /\ SlotsTyped' /\ MaskMapped'
      BY <1>1, <1>8, PreassignedKept, BooksKept, MaskKept DEF Bar!Move, SlotsTyped
    <2>2. Demand'
      BY <1>8, <2>1, Quiet DEF Bar!Move
    <2>3. a \in Nat
      BY BarAssumed DEF Bar!Cell
    <2>4. reg' \in [Bar!Bar -> Nat]
      BY <1>1, <1>8, <2>3 DEF Bar!Move, BarTypes
    <2>5. BarTypes'
      BY <1>1, <1>8, <2>4, BarAssumed DEF Bar!Move, BarTypes
    <2> QED BY <2>1, <2>2, <2>5 DEF BarInv
  <1> QED BY <1>3, <1>4, <1>5, <1>6, <1>7, <1>8

LEMMA BarNext == BarInv /\ Bar!Next => BarInv'
  BY BarPreassigns, BarMaps, BarFaults, BarQuietSteps DEF Bar!Next

LEMMA BarStutters == BarInv /\ UNCHANGED barVars => BarInv'
  <1> SUFFICES ASSUME BarInv, UNCHANGED barVars PROVE BarInv'
    OBVIOUS
  <1>1. UNCHANGED <<stage, bar, next32, next64, assigned, reg, slot, memslots, mappings,
                    booked, mask, lazySlots, retry, moves>>
    BY DEF barVars
  <1>2. Preassigned' /\ Books' /\ SlotsTyped' /\ MaskMapped' /\ BarTypes'
    BY <1>1, PreassignedKept, BooksKept, MaskKept DEF BarInv, Demand, SlotsTyped, BarTypes
  <1>3. Bar!RetryLands'
    BY <1>1 DEF BarInv, Demand, Bar!RetryLands, Bar!Covered, Bar!Shows, Bar!Touched
  <1> QED BY <1>1, <1>2, <1>3 DEF BarInv, Demand

LEMMA BarSoundness == BarInv => Bar!AssignedApart /\ Bar!BooksBalance /\ Bar!RetryLands
  BY PreassignedApart DEF BarInv, Books, Demand

LEMMA BarWellFormed == BarInv => Bar!TypeOK
  <1> SUFFICES ASSUME BarInv PROVE Bar!TypeOK
    OBVIOUS
  <1>1. Len(GpuBars) = 3 /\ Bar!MaxLazy = 3 /\ Len(GpuBars) + 1 = 4
    BY BarsAre
  <1>2. \A e \in Bar!ToSet(booked) : e \in Booking
    <2>1. booked \in Seq(Booking)
      BY DEF BarInv, Books
    <2>2. DOMAIN booked = 1 .. Len(booked) /\ \A k \in 1 .. Len(booked) : booked[k] \in Booking
      BY <2>1, LenProperties
    <2> QED BY <2>2 DEF Bar!ToSet
  <1> QED BY <1>1, <1>2 DEF BarInv, BarTypes, SlotsTyped, Preassigned, Bar!TypeOK, Booking, Mappings

BarPart == part = "bar" => BarInv

LEMMA BarPartInit == Init => BarPart
  BY BarInit DEF Init, BarPart

LEMMA BarPartStep == BarPart /\ [Next]_vars => BarPart'
  <1> SUFFICES ASSUME BarPart, [Next]_vars, part' = "bar" PROVE BarInv'
    BY DEF BarPart
  <1>1. part = "bar" /\ (Bar!Next \/ UNCHANGED barVars)
    BY DEF Next, vars
  <1>2. BarInv
    BY <1>1 DEF BarPart
  <1> QED BY <1>1, <1>2, BarNext, BarStutters

THEOREM BarInvariance == Spec => []BarPart
  BY BarPartInit, BarPartStep, PTL DEF Spec

(* Preassigned BARs are apart, aligned and in the window they can name;    *)
(* every mapping of the session is booked once; an access that is retried  *)
(* after mapping on demand lands in a slot, or the BAR it touches had been *)
(* mapped on demand before, at another address.                            *)
THEOREM BarsAreSound == Spec => []BarsSound
  <1>1. BarPart => BarsSound
    BY BarSoundness DEF BarPart, BarsSound
  <1> QED BY <1>1, BarInvariance, PTL

-----------------------------------------------------------------------------
(* All five parts                                                          *)

LEMMA SessionWellFormed == SessionInv => Gpu!TypeOK
  BY DEF SessionInv, SessionTypes, ConfigTypes, DevType, KvmType, Gsis, Opening, Gpu!TypeOK

LEMMA EngineWellFormed == Engine!IInv => Fork!TypeOK
  BY DEF Engine!IInv, Engine!TypeOK, Fork!TypeOK, Engine!Stages, Fork!Stages, Engine!Slot,
     Fork!Slot, Engine!Snapshot, Fork!Snapshot, Engine!Host, Fork!Host

(* The states of the devices, the bus, the BARs, the session and the       *)
(* engine are well formed, whatever the guest writes and the host refuses. *)
THEOREM TypesHold == Spec => []TypeOK
  <1>1. NetPart /\ BusPart /\ BarPart /\ SessionPart /\ EngineInv => TypeOK
    BY NetWellFormed, BarWellFormed, SessionWellFormed, EngineWellFormed
    DEF NetPart, BusPart, BusInv, BarPart, SessionPart, EngineInv, TypeOK
  <1> QED BY <1>1, NetInvariance, BusInvariance, BarInvariance, SessionInvariance,
             EngineInvariance, PTL
=============================================================================
