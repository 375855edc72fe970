\* A file that is not listed is edited; the next --incremental compile hits.
SPECIFICATION FreshSpec
CONSTANTS
    c1 = c1  c2 = c2  r1 = r1  a1 = a1  a2 = a2
    top = top  header_h = header_h  i1 = i1  i2 = i2  i3 = i3  i4 = i4
    Compilers = {c1, c2}
    Readers = {}
    Args = {a1}
    Files = {top, header_h}
    Listed = {top}
    Inodes = {i1, i2, i3, i4}
    Envelope <- SameEnvelope
    None = None  Partial = Partial  Foreign = Foreign
    MaxRuns = 1
    MaxEdits = 1
    MaxKills = 0
\* The bounds on runs end every behaviour.
CHECK_DEADLOCK FALSE
PROPERTIES HitCoversEveryFile
