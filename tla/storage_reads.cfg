\* Three keys, so that two erased finalized keys in a row need two NextOf
\* rounds and a prefix can hold keys of both origins; two values, so that
\* a value the diff overwrote differs from the finalized one.
CONSTANTS
  NumKeys = 3
  Values = {1, 2}
  None = None
  Absent = Absent
SPECIFICATION LiveSpec
INVARIANTS
  TypeOK
  ReadsSeeBestStorage
PROPERTY
  SuspendedReadAnswered
