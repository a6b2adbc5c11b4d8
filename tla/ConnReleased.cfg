SPECIFICATION Spec
CONSTANTS
  uart = uart
  poll = poll
  Callers = {uart, poll}
  CoopCallers = {uart, poll}
  Pairers = {uart}
  NoOne = NoOne
INVARIANT LinkReleasedAfterOperation
