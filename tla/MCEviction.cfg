\* Two requests over four blocks, every policy.
SPECIFICATION Spec
CONSTANTS
  Blocks = {b1, b2, b3, b4}
  Requests = {r1, r2}
  MaxHits = 2
  MaxTime = 2
  Prompts <- MCPrompts
SYMMETRY BlocksAlike
INVARIANTS
  ListIsPool
  ChainsKeptFromTheRoot
CHECK_DEADLOCK FALSE
