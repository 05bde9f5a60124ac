CONSTANTS
  MaxLen = 5
  Room = 9
  Symbol <- Bytes
  Added <- AddedArrays
  Calls <- AllCalls
  Encoding <- EncodingOf
  Views <- AllViews
  Requests <- AllRequests
SPECIFICATION RoundTripSpec
INVARIANTS LeftmostLongest Covered SinkOK Decoded Restored
PROPERTIES Terminates
CHECK_DEADLOCK FALSE
