SPECIFICATION FairSpec
CONSTANTS
  Cpu = {c1}
  Keyboard = kbd
  Pid = {p1, p2, p3, p4}
  InitPid = p1
  KernelPid = kernel
  KillPids = {p1, p2, p3, p4}
  NoPid = none
  Fs = {f0}
  Fs0 = f0
INVARIANTS TablesSound EndedForGood
PROPERTIES NoStarvation WaitReturns
