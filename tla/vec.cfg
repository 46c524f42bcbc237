CONSTANTS
  Keys <- MCKeys
  Elems = {1, 2}
  MaxLen = 2
  Results <- MCResults
  ArgsHash <- MCArgsHash
  IdHash <- MCIdHash
  MaxCalls = 2
SPECIFICATION HashSpec
INVARIANT LogicalSetShared
CHECK_DEADLOCK FALSE
