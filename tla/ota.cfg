SPECIFICATION RetriedSpec
CONSTANTS
  Procs = {p1, p2}
  MaxVersion = 2
  MaxCrashes = 1
INVARIANTS
  InstalledWhole
  LockReleased
PROPERTIES
  ImplementsInstaller
  ResumeCompletes
