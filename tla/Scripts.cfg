SPECIFICATION MCSpec
CONSTANTS
  SharedCache <- MCShared
  FunctionCache <- MCFunctions
  RegBounds <- MCReg
  XhrBounds <- MCXhr
  RtcBounds <- MCRtc
  ScopeBounds <- MCScopes
  WatchBounds <- MCWatch
  FormatBounds <- MCFormats
  CanvasBounds <- MCCanvas
INVARIANTS CachesSound OverlaySound AttrsAgree ObserversTold ObjectsApart RequestsApart KeptIsFresh
CHECK_DEADLOCK FALSE
