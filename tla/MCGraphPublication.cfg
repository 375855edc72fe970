\* Two compile processes on two command lines, and a reader; two of the
\* processes die.  Refinement of the abstract cache.
SPECIFICATION Spec
CONSTANTS
    c1 = c1  c2 = c2  r1 = r1  a1 = a1  a2 = a2
    top = top  header_h = header_h  i1 = i1  i2 = i2  i3 = i3  i4 = i4
    Compilers = {c1, c2}
    Readers = {r1}
    Args = {a1, a2}
    Files = {top}
    Listed = {top}
    Inodes = {i1, i2, i3, i4}
    Envelope <- SameEnvelope
    None = None  Partial = Partial  Foreign = Foreign
    MaxRuns = 2
    MaxEdits = 1
    MaxKills = 2
\* The bounds on runs end every behaviour.
CHECK_DEADLOCK FALSE
SYMMETRY Symmetry
INVARIANTS  WritersExclude StageIsOwn StagingConfined NoPartialDb
  
