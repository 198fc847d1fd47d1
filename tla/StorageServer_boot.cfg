SPECIFICATION Spec
CONSTANTS
  TaskId = {t1, t2}
  Model = {m1}
  Content = {c1, c2}
  Ext = {x1}
  BootOrder <- MainBoot
  MaxCrashes = 1
  MaxFaults = 1
  MaxRuntime = 2
PROPERTY StartsInitialised
