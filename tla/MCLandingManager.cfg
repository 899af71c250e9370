SPECIFICATION FairSpec
CONSTANTS
  Second = 4
  MaxNull = 1
  MaxOld = 3
  CountMax = 5
INVARIANTS FrozenImageRejected LiveCameraAccepted InputInv
PROPERTIES FrozenCameraNoticed
