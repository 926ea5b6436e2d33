SPECIFICATION ReplaceSpec
CONSTANTS
    Holders = {h1, h2}
    Old = {r0, x}
    New = {r1, x}
    OldRoot = r0
    Enough = 1
CHECK_DEADLOCK FALSE
INVARIANTS
    NewVersionExists
