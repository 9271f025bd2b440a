CONSTANTS
  find_value = find_value
  ping = ping
  store = store
  Calls <- MCCalls
  FindValueCalls <- MCFindValueCalls
  CancellableCalls <- MCCancellableCalls
  ChannelCapacity = 1
  MAX_RETRIES = 2
SPECIFICATION Spec
INVARIANTS
  TypeOK
  OnlyErrorsLeaveEntries
PROPERTIES
  CallsImplementAbstract
  HandedOverIsReturned
CHECK_DEADLOCK FALSE
