\* Two attempts share a request id and the input, with room for one input.
SPECIFICATION FairSpec
CONSTANTS
  a1 = a1
  a2 = a2
  a3 = a3
  d1 = d1
  ra = ra
  rb = rb
  x = x
  y = y
  None = None
  Gone = Gone
  Attempts = {a1, a2, a3}
  Disposers = {d1}
  RequestIds = {ra, rb}
  Content <- MCContent
  Req <- MCReq
  MaxFiles = 1
  MaxFaults = 1
CHECK_DEADLOCK FALSE
INVARIANTS InputsKept
PROPERTIES DisposedIsReleased DiscardsReturn
