SPECIFICATION Spec
CONSTANTS
  uart = uart
  shell = shell
  Callers = {uart, shell}
  CoopCallers = {uart}
  Pairers = {uart, shell}
  NoOne = NoOne
INVARIANT PairedAddressIsTheLocks
