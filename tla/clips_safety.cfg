SPECIFICATION Spec
CONSTANTS
  MaxFrames = 5
  MaxFrameSize = 2
  Coded <- MCCoded
  Fps = 1
  BeforeSec = 1
  AfterSec = 1
  MaxBack = 1
  Events = {e1, e2}
  Late = 0
  MaxTime = 6
  NoUrl = NoUrl
SYMMETRY Symmetry
INVARIANTS BytesExact ClipCoversEvent ClipDecodable NamesSavedClip
PROPERTIES KeepsRecentFrames
CHECK_DEADLOCK FALSE
