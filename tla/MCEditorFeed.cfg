SPECIFICATION Spec
CONSTANTS
  Own = own
  Peers = {peer}
  Contexts <- MCContexts
  Bounds <- MCBounds
INVARIANTS ViewCurrent RegistryCurrent EditsLandOnFocus FramesFit
PROPERTY FeedConverges
CHECK_DEADLOCK FALSE
