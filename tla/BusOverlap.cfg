CONSTANTS
  r1 = r1
  r2 = r2
  w = w
  NoUser = NoUser
  Readers <- MCReaders
  Writer <- MCWriter
  Interval = 4
  Timeout = 2
  Wrap = 16

SYMMETRY ReaderSymmetry

SPECIFICATION Spec

INVARIANT OneStartsAtATime
