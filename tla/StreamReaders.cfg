SPECIFICATION StreamSpec
CONSTANTS
  Readers = {r1, r2, r3}
  MaxEvents = 4
INVARIANTS NoneStalled
