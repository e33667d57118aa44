SPECIFICATION Spec
CONSTANTS
  MaxTokens = 5
  MaxBytes = 5
  Bytes <- SomeBytes
CHECK_DEADLOCK FALSE
INVARIANT ParsesJson
INVARIANT RoundTrip
INVARIANT BuffersFit
INVARIANT MinifyKeepsItem
INVARIANT Base64Correct
INVARIANT SameEncoding
INVARIANT UrlRoundTrip
INVARIANT CutEscape
