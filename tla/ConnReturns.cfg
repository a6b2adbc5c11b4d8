SPECIFICATION FairSpec
CONSTANTS
  uart = uart
  shell = shell
  Callers = {uart, shell}
  CoopCallers = {uart}
  Pairers = {shell}
  NoOne = NoOne
PROPERTIES OperationReturns ImplementsServer
