\* Three saves that may overlap, two restarts; saves are interchangeable.
CONSTANTS
  Saves = {s1, s2, s3}
  Submitted <- MCSubmitted
  Defaults <- MCDefaults
  MaxBoots = 3
SYMMETRY Symmetry
SPECIFICATION Spec
INVARIANTS
  VTypeOK
  RestartKeeps
\* the process may stay down
CHECK_DEADLOCK FALSE
