\* A run in memory and a durable one, two photographs, one death, one failing step.
SPECIFICATION ConsoleSpec
CONSTANTS
  Nothing = Nothing
  Absent = Absent
  A = A
  B = B
  position = position
  count = count
  Requirements = {position, count}
  Injections = {w1, w2}
  Durable = {w2}
  Verifies = {v1, v2}
  Fixtures <- ClientFixtures
  MaxCrashes = 1
  MaxFaults = 1
INVARIANTS
  ChangeIsTheDifference
  PausedRunsOnce
PROPERTIES
  PassIsProven
\* A complete run with its photographs used up has nothing left to do.
CHECK_DEADLOCK FALSE
