SPECIFICATION Spec
CONSTANTS
  Threads = {t1, t2}
  Fds = {3, 4}
  MaxCalls = 5
  MaxForks = 1
INVARIANTS ReferenceKept  LockHeld
PROPERTY CallsReturn
