SPECIFICATION Spec
CONSTANTS
  uart = uart
  poll = poll
  shell = shell
  Callers = {uart, poll, shell}
  CoopCallers = {uart, poll}
  Pairers = {uart, shell}
  NoOne = NoOne
INVARIANTS TypeOK RefsBalanced SlotAccounting SuccessIsReal NoNullDisconnect
PROPERTIES PairingStoresTheLock ResultNotClobbered
