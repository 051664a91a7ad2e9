SPECIFICATION FairSpec
CONSTANTS
  Part = {"boot", "cpu", "qemu", "worker", "lazy"}
  Off = Off
  None = None
  Memory <- MCMemory
  Kernel <- MCKernel
  Initrd <- MCInitrd
  Bars <- MCBars
  Rom <- MCRom
  Host = {0, 1, 2, 5, 9}
  NMsrs = 2
  MaxFaults = 1
  Programs <- MCPrograms
  PipeMax = 2
  Proc = {p1, p2}
  NoProc = NoProc
  Variant = {nv, lua}
  Supported = {nv}
  NoVariant = NoVariant
  MaxCall = 3
  v1 = v1
  v2 = v2
  i1 = i1
  i2 = i2
  i3 = i3
  Engine = {e1, e2}
  NoEngine = NoEngine
  VM = {x1, x2}
  MaxAsk = 1
  MaxBatch = 2
INVARIANTS TypeOK BootImageRight CpuRestored QemuSound WorkerSound EveryVmBack InOrderUnlessFailed
PROPERTIES IrqsArrive 
