CONSTANTS
  r1 = r1
  r2 = r2
  w = w
  NoUser = NoUser
  Readers <- MCReaders
  Writer <- MCWriter
  Interval = 4
  Timeout = 2
  Wrap = 8
SPECIFICATION FairSpec
INVARIANT TypeOK
INVARIANT BusyWillEnd
INVARIANT EndHasUser
PROPERTY BusRecovers
