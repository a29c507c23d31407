SPECIFICATION MCSpec
CONSTANTS
  SharedCache <- MCShared
  FunctionCache <- MCFunctions
  RegBounds <- MCReg
  XhrBounds <- MCXhr
  RtcBounds <- MCRtc
  ScopeBounds <- MCScopes
  WatchBounds <- MCWatch
  FormatBounds <- MCFormats
  CanvasBounds <- MCCanvas
INVARIANTS ReadsBack
CHECK_DEADLOCK FALSE
