SPECIFICATION Spec
CONSTANTS
  HttpFaults = {"alloc"}
  Builds = {TRUE, FALSE}
  Urls <- MCUrls
  Answers <- MCAnswers
  AppMethods = {"POST", "invalid"}
  AppKeys <- MCAppKeys
  AppValues <- MCAppValues
  AppBodies <- MCAppBodies
  MaxCalls = 2
INVARIANTS UrlUnderstood RequestNamesUrl RoundTrip HeadersSound PastEndExactly
  AcceptSound TextsFreedOnce
PROPERTY ParsingEnds
\* a handshake ends
CHECK_DEADLOCK FALSE
