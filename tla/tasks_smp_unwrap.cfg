SPECIFICATION Spec
CONSTANTS
  Cpu = {c1, c2}
  Keyboard = kbd
  Pid = {p1, p2}
  InitPid = p1
  KernelPid = kernel
  KillPids = {p1, p2}
  NoPid = none
  Fs = {f0}
  Fs0 = f0
INVARIANTS NoDeadThreadQueued
CHECK_DEADLOCK FALSE
