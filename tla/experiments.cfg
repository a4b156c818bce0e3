SPECIFICATION Spec
CONSTANTS
  Sessions = {s1, s2, s3}
  Names = {e1, e2}
  Labels = {lA, lB, lC}
  Worlds = {w1, w2}
  ArmCounts = {1, 2, 3, 4}
  Sizes = {1, 2, 3}
  Budget = 5
  MaxArms = 3
  MaxSessions = 3
SYMMETRY Symmetric
CHECK_DEADLOCK FALSE
INVARIANTS
  ReservedIffRunning
  RoomForEveryArm
  ArmsMatched
