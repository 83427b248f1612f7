SPECIFICATION Spec
CONSTANTS
    b1 = b1  b2 = b2  r1 = r1  m1 = m1  m2 = m2  m3 = m3
    c1 = c1  c2 = c2  n1 = n1  n2 = n2  n3 = n3
    Chunks = {c1, c2}
    Backups = {b1, b2}
    Readers = {}
    Deletes = {m1}
    Prunes = {m2}
    Compacts = {}
    Founder = f
    Names = {n1, n2, n3}
    None = None
    MaxCrashes = 1
    Undisturbed = TRUE
    Scenarios <- Writers
SYMMETRY Symmetry
INVARIANTS
  SnapshotsResolve
  IndexSound
  UniqueNames
