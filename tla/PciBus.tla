------------------------------- MODULE PciBus -------------------------------
(* What a guest's port accesses do in the two loops that run a cold VM: the  *)
(* option ROM's (vbios_handle_io_exit and its pci_config_read_inline,        *)
(* pci_config_write_inline) and the kernel's (run_until_ready with           *)
(* pci_config_read, pci_config_write), both in arch/x86_64/boot.rs.  They    *)
(* reach the synthetic root port (pci_root_port.rs), the virtio-net          *)
(* function's BAR, the GPU's real config space and the UART (port.rs).       *)
(* Config space is bytes, of which those below are modelled; a value is a    *)
(* sequence of bytes, least significant first.                               *)
EXTENDS Naturals, Sequences, SequencesExt

CONSTANTS Dwords,    \* registers looked at, multiples of 4 below 64
          Byte,      \* values the guest writes, a subset of 0 .. 255
          MaxWrites, \* bound: config and UART writes
          MaxCapture \* Uart16550::max_capture

PciBusAssumption ==
    /\ Dwords \subseteq {4 * n : n \in 0 .. 15}
    /\ Byte \subseteq 0 .. 255
    /\ MaxWrites \in Nat /\ MaxCapture \in Nat

Offsets == UNION {r .. r + 3 : r \in Dwords}
Function == {"host", "port", "net", "gpu", "none"}  \* 00:00.0, 00:01.0, 00:02.0, 01:00.0
Access == {<<0, 1>>, <<1, 1>>, <<2, 1>>, <<3, 1>>, <<0, 2>>, <<2, 2>>, <<0, 4>>}
          \* (port and 3, size)

VARIABLES loop,   \* whose loop runs the guest: the ROM's or the kernel's
          enabled, target, \* the loop's own copy of port 0xCF8: bit 31, function and register
          port,   \* PcieRootPort::config
          buses,  \* its cached primary, secondary and subordinate bus numbers
          bar0,   \* VirtioNetPci::bar0_shadow
          gpu,    \* config space of the device
          dlab, divisor, ier, \* UART: LCR bit 7, DLL and DLM, IER
          captured, serial,   \* Uart16550::output_buf, serial_output
          sent,   \* bytes the guest has sent to the console
          writes  \* writes so far

address == <<enabled, target>>
config == <<port, buses, bar0, gpu>>
uart == <<dlab, divisor, ier, captured, serial, sent>>
vars == <<loop, address, config, uart, writes>>

-----------------------------------------------------------------------------
(* The root port                                                             *)

(* init_config, the Type 1 header *)
Template ==
    [o \in 0 .. 63 |->
        CASE o = 0 -> 54 [] o = 1 -> 27 [] o = 2 -> 12  \* 1b36:000c
          [] o = 4 -> 7 [] o = 6 -> 16                  \* command, status
          [] o = 9 -> 4 [] o = 10 -> 6                  \* class code
          [] o = 12 -> 16 [] o = 14 -> 1                \* cache line, header type
          [] o \in {25, 26} -> 1                        \* secondary, subordinate
          [] o \in {29, 34} -> 240 [] o = 32 -> 224     \* windows
          [] o = 36 -> 1 [] o = 40 -> 16 [] o = 44 -> 32
          [] o = 52 -> 64                               \* capabilities
          [] OTHER -> 0]

BusNumbers == {24, 25, 26}

(* config_write's table, by the first byte written *)
Writable == {4, 5, 12} \cup (27 .. 51) \cup (56 .. 60) \cup {62, 63}

PortRead(o, size) ==
    [n \in 1 .. size |-> IF o + n - 1 \in DOMAIN port THEN port[o + n - 1] ELSE 0]

Poke(cells, o, v) ==
    [x \in DOMAIN cells |-> IF x \in o .. o + Len(v) - 1 THEN v[x - o + 1] ELSE cells[x]]

(* Mutated: the cached bus numbers are not updated.                         *)
PortWrite_Uncached(o, v) ==
    /\ port' = IF o \in Writable \cup BusNumbers THEN Poke(port, o, v) ELSE port
    /\ UNCHANGED buses

(* A write that begins at a bus number sets that one only; one that begins   *)
(* at a writable byte sets all of its bytes; any other is ignored.           *)
PortWrite(o, v) ==
    CASE o \in BusNumbers ->
            /\ port' = [port EXCEPT ![o] = v[1]]
            /\ buses' = [buses EXCEPT ![o] = v[1]]
      [] o \in Writable ->
            /\ port' = Poke(port, o, v)
            /\ UNCHANGED buses
      [] OTHER -> UNCHANGED <<port, buses>>

-----------------------------------------------------------------------------
(* Reads                                                                     *)

Ones(size) == [n \in 1 .. size |-> 255]
Dword(v, lane, size) ==
    [n \in 1 .. size |-> IF lane + n <= 4 THEN v[lane + n] ELSE 0]

(* Registers of the functions that are constants *)
Fixed(f, reg) ==
    CASE f = "host" /\ reg = 0 -> <<134, 128, 0, 112>>   \* 8086:7000
      [] f = "net" /\ reg = 0 -> <<244, 26, 0, 16>>      \* 1af4:1000
      [] f = "host" /\ reg = 4 -> <<7, 0, 16, 0>>
      [] f = "net" /\ reg = 4 -> <<3, 0, 16, 0>>
      [] f = "host" /\ reg = 8 -> <<0, 0, 6, 0>>
      [] f = "net" /\ reg = 8 -> <<0, 0, 2, 0>>
      [] f = "net" /\ reg = 16 -> bar0
      [] f = "host" /\ reg = 44 -> <<134, 128, 0, 0>>
      [] f = "net" /\ reg = 44 -> <<244, 26, 1, 0>>
      [] f = "net" /\ reg = 60 -> <<11, 1, 0, 0>>        \* irq_line, pin A
      [] OTHER -> <<0, 0, 0, 0>>

(* pci_config_read: byte lanes are selected by the low bits of the port. *)
KernelRead(f, reg, lane, size) ==
    CASE f = "gpu" -> [n \in 1 .. size |-> gpu[reg + lane + n - 1]]
      [] f = "port" -> PortRead(reg + lane, size)
      [] f = "none" -> Ones(size)
      [] OTHER -> Dword(Fixed(f, reg), lane, size)

(* pci_config_read_inline: no lanes, and no virtio-net function. *)
RomRead(f, reg, size) ==
    CASE f = "gpu" -> [n \in 1 .. size |-> gpu[reg + n - 1]]
      [] f = "port" -> PortRead(reg, size)
      [] f = "host" /\ reg \in {0, 4, 8, 12} -> Dword(Fixed(f, reg), 0, size)
      [] f = "host" -> [n \in 1 .. size |-> 0]
      [] OTHER -> Ones(size)

ConfigRead(f, reg, lane, size) ==
    IF loop = "rom" THEN RomRead(f, reg, size) ELSE KernelRead(f, reg, lane, size)

(* IN from 0xCFC .. 0xCFF *)
In(lane, size) ==
    IF enabled THEN ConfigRead(target.f, target.reg, lane, size) ELSE Ones(size)

-----------------------------------------------------------------------------
(* The guest                                                                 *)

(* init attaches the devices, then run_vbios_post, then run_until_ready.     *)
Init ==
    /\ loop \in {"rom", "kernel"}  \* without a ROM there is no POST
    /\ enabled = FALSE /\ target = [f |-> "host", reg |-> 0]
    /\ port = Template
    /\ buses = [o \in BusNumbers |-> Template[o]]
    /\ bar0 = <<0, 0, 191, 254>>  \* 0xFEBF0000
    /\ gpu = [o \in 0 .. 63 |-> o]  \* any content, told apart by place
    /\ dlab = FALSE /\ divisor = <<1, 0>> /\ ier = 0
    /\ captured = <<>> /\ serial = <<>> /\ sent = <<>>
    /\ writes = 0

(* OUT to 0xCF8; bus 1 beyond 01:00.0 and empty devices are "none". *)
SelectRegister(f, reg, on) ==
    /\ enabled' = on /\ target' = [f |-> f, reg |-> reg]
    /\ UNCHANGED <<loop, config, uart, writes>>

Write ==
    /\ writes < MaxWrites
    /\ writes' = writes + 1

(* The BAR keeps bits 31 to 12 of a whole register; smaller writes are lost. *)
NetWrite(reg, v) ==
    bar0' = IF reg = 16 /\ Len(v) = 4
            THEN <<bar0[1], ((v[2] \div 16) * 16) + (bar0[2] % 16), v[3], v[4]>>
            ELSE bar0

KernelWrite(f, reg, lane, v) ==
    /\ IF f = "gpu" THEN gpu' = Poke(gpu, reg + lane, v) ELSE UNCHANGED gpu
    /\ IF f = "port" THEN PortWrite(reg + lane, v) ELSE UNCHANGED <<port, buses>>
    /\ IF f = "net" THEN NetWrite(reg, v) ELSE UNCHANGED bar0

RomWrite(f, reg, v) ==
    /\ IF f = "gpu" THEN gpu' = Poke(gpu, reg, v) ELSE UNCHANGED gpu
    /\ IF f = "port" THEN PortWrite(reg, v) ELSE UNCHANGED <<port, buses>>
    /\ UNCHANGED bar0

(* OUT to 0xCFC .. 0xCFF *)
Out(lane, v) ==
    /\ Write
    /\ enabled
    /\ IF loop = "rom" THEN RomWrite(target.f, target.reg, v)
       ELSE KernelWrite(target.f, target.reg, lane, v)
    /\ UNCHANGED <<loop, address, uart>>

(* LCR: bit 7 opens the divisor latch. *)
SetDlab(on) ==
    /\ loop = "kernel" /\ Write
    /\ dlab' = on
    /\ UNCHANGED <<loop, address, config, divisor, ier, captured, serial, sent>>

(* Offset 0: THR, captured as long as there is room, or the low divisor. *)
Transmit(b) ==
    IF dlab
    THEN /\ divisor' = [divisor EXCEPT ![1] = b]
         /\ UNCHANGED <<ier, captured, serial, sent>>
    ELSE /\ captured' = IF Len(captured) < MaxCapture THEN Append(captured, b) ELSE captured
         /\ serial' = Append(serial, b)
         /\ sent' = Append(sent, b)
         /\ UNCHANGED <<divisor, ier>>

UartData(b) ==
    /\ loop = "kernel" /\ Write
    /\ Transmit(b)
    /\ UNCHANGED <<loop, address, config, dlab>>

(* Offset 1 *)
UartIer(b) ==
    /\ loop = "kernel" /\ Write
    /\ IF dlab THEN divisor' = [divisor EXCEPT ![2] = b] /\ UNCHANGED ier
       ELSE ier' = b /\ UNCHANGED divisor
    /\ UNCHANGED <<loop, address, config, dlab, captured, serial, sent>>

(* During POST the console swallows everything.  The kernel's loop, and each *)
(* later run_code, starts with an address register and a UART of its own.    *)
NextLoop ==
    /\ loop' = "kernel"
    /\ enabled' = FALSE /\ target' = [f |-> "host", reg |-> 0]
    /\ dlab' = FALSE /\ divisor' = <<1, 0>> /\ ier' = 0
    /\ captured' = <<>> /\ serial' = <<>> /\ sent' = <<>>
    /\ UNCHANGED <<config, writes>>

Next ==
    \/ \E f \in Function, reg \in Dwords, on \in BOOLEAN : SelectRegister(f, reg, on)
    \/ \E a \in Access, b \in Byte : Out(a[1], [n \in 1 .. a[2] |-> b])
    \/ \E on \in BOOLEAN : SetDlab(on)
    \/ \E b \in Byte : UartData(b) \/ UartIer(b)
    \/ NextLoop

Spec == Init /\ [][Next]_vars

-----------------------------------------------------------------------------
(* Registers hold bytes; the number of writes is within its bound.           *)
TypeOK ==
    /\ loop \in {"rom", "kernel"}
    /\ enabled \in BOOLEAN /\ target \in [f : Function, reg : Dwords \cup {0}]
    /\ port \in [0 .. 63 -> 0 .. 255] /\ buses \in [BusNumbers -> 0 .. 255]
    /\ bar0 \in [1 .. 4 -> 0 .. 255] /\ gpu \in [0 .. 63 -> 0 .. 255]
    /\ dlab \in BOOLEAN /\ divisor \in [1 .. 2 -> 0 .. 255] /\ ier \in 0 .. 255
    /\ writes \in 0 .. MaxWrites

(* The kernel reads header type, bus numbers and class with byte and word    *)
(* accesses: whatever was written before, they are the bytes of the dword.   *)
LanesAgree ==
    loop = "kernel" =>
        \A f \in Function, reg \in Dwords, a \in Access :
            KernelRead(f, reg, a[1], a[2])
            = SubSeq(KernelRead(f, reg, 0, 4), a[1] + 1, a[1] + a[2])

(* The bus numbers the root port caches are those its config space shows,    *)
(* however they were written.                                                *)
BusNumbersAgree == \A o \in BusNumbers : buses[o] = port[o]

(* The captured console is what the guest sent, cut at the limit: divisors   *)
(* never get into it, and serial_output has all of it.                       *)
ConsoleFaithful ==
    /\ serial = sent
    /\ captured = SubSeq(sent, 1, IF Len(sent) < MaxCapture THEN Len(sent) ELSE MaxCapture)

(* "Writes to RO registers are silently ignored." *)
ReadOnlyKept ==
    \A o \in DOMAIN port \ (Writable \cup BusNumbers) : port[o] = Template[o]
=============================================================================
