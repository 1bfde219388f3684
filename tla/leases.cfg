\* Two instances that resume without end, with crashes, expiry and releases, and
\* the same without expiry and releases.
SPECIFICATION LeaseFairSpec
CONSTANTS
  NoLease = NoLease
  Procs = {a, b}
  Tokens = {t1, t2, t3}
  MaxCrashes = 2
INVARIANTS
  OneLiveHolder
PROPERTIES
  NoLockout
