CONSTANTS
  MaxNumber = 5
  CacheCpu = {p0, p1}
  Slab = {s1, s2, s3}
  SlabSize = 2
  MagazineSlots = 1
  Reservation = 3
  Cap = 6
  GtThread = {t1, t2}
  OneLock = TRUE
  GtPassive = {}
  PerFrame = 2
  Reserved = 1
  MaximumFrameCount = 2
  Attempts = 2
  Page = {1}
  MaxResumes = 1
  Pfn <- BalloonPfns
  ArraySize = 2
  Mapper = {m1, m2}
  HoleCount = 4
  MapCount = 3
  MaxUpdates = 2
  Climber = {t1, t2}
  Tops <- AllTops
  TouchFails = FALSE
  Bus = {"pci", "ide"}
  Device = {"disk", "net", "cd"}
  BusOf <- TheBus
  Emulated = {"disk"}
  ActiveID = {"net"}
  Precedence <- NoPrecedence
  SafeMode = FALSE
  MaxRequests = 1
  RingSize = 2
  Width = 4
  MaxBytes = 5
  MaxMigrations = 1
  PvDriver = {"vbd1", "vbd2", "vif"}
  Wants <- Types
  Forced = {"nics"}
  MaxBoots = 3
  Reporter = {"r1", "r2", "r3"}
  MaxAddress = 6
  VcpuCpu = {c0, c1}
  PhysicalPage = {"p1", "p2", "p3", "p4"}
  VcpuPages = 2
  MaxReloads = 4
  MaxSuspends = 1
SPECIFICATION Spec
INVARIANTS CacheInv GnttabInv BalloonExact HoleExact TimeConsistent  FilterInv ConsoleInv DebugInv  ModuleInv VcpuInv
PROPERTIES ImplementsNumberSet 
CHECK_DEADLOCK FALSE
