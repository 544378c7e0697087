SPECIFICATION Spec
CONSTANTS
  Length = 3
  Loops = {"write_all"}
INVARIANT WritesAll
