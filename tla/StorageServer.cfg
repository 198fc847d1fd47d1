SPECIFICATION Spec
CONSTANTS
  TaskId = {t1, t2}
  Model = {m1}
  Content = {c1, c2}
  Ext = {x1}
  BootOrder <- DocumentedBoot
  MaxCrashes = 1
  MaxFaults = 1
  MaxRuntime = 2
SYMMETRY Symmetry
INVARIANTS
  TypeOK
  RecordsAgree
  ServesAgreedUnlessDamaged
PROPERTY StoredDataStable
