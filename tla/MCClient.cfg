SPECIFICATION FairSpec
CONSTANTS
  c1 = c1  c2 = c2  a = a  b = b  x = x  ma = ma  mb = mb  mx = mx
  Calls = {c1, c2}  Urls = {a, b, x}  Registered = {a, b}  Blacklisted = {}
  NoUrl = noUrl  Preferred <- PreferredTwo  ManagerOf <- ManagerOfUrl
  SliceSize = 2  RelayTimeoutGrace = 1  RequestValidSeconds = 1  MaxRelayNonceGap = 1
  BlocksForLookup = 0  StartTime = 1  MaxTime = 2  MaxEvents = 2
CHECK_DEADLOCK FALSE
INVARIANTS ExecutedOnce NeverSameRelayTwice ReturnedIsMinable ExecutedReportedSuccessful
PROPERTIES EveryCallEnds
