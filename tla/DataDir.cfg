CONSTANTS
  r = r
  h = h
  w = w
  t = t
  None = None
  Users = {r, h, w, t}
  Kind <- MCKind
  LenField = 2
  FrameOverhead = 3
  Sizes = {3, 5}
  MaxFrames = 3
  MaxFaults = 2
SPECIFICATION Spec
INVARIANTS
  ScanIsCurrent
  ScanMatchesFrames
  AckedAreFound
  ReleasedWhenReturned
