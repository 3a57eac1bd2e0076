SPECIFICATION Spec
CONSTANTS
  cpu = cpu
  gpu1 = gpu1
  gpu2 = gpu2
  Stream = {cpu, gpu1, gpu2}
  Gpu = {gpu1, gpu2}
  MaxWidth = 2
  MaxOps = 2
  Programs <- Split
PROPERTIES
  WaitReturns
CHECK_DEADLOCK FALSE
