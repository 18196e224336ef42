SPECIFICATION Spec
CONSTANTS
  Calls = {1, 2}
  Files = {f}
  Absent = Absent
  Texts <- MCTexts
  Requests <- MCRequests
  MaxLines = 2
  MaxBytes = 4
INVARIANTS
  TextsAccountedFor
  LocksAreReleased
PROPERTIES
  KeepsFileContract
