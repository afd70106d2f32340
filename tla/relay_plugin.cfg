SPECIFICATION HooksSpec
CONSTANTS
  c1 = c1  c2 = c2  c3 = c3  c4 = c4  a1 = a1
  search = search  fetch = fetch  gw = gw
  None = None
  Calls <- FourCalls
  Keys <- Tools
  Key <- Tool
  Id <- Digest
  Cap = 2
  MaxOpen = 2
  ApiCalls <- OneRequest
  Request <- Messages
  Response <- Answers
  Supplied <- Provided
  Gateways <- MaybeUrl
  MaxLost = 1
CHECK_DEADLOCK FALSE
INVARIANTS
  EchoedOnce
  SpansPaired
