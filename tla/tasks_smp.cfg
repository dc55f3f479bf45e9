SPECIFICATION Spec
CONSTANTS
  Cpu = {c1, c2}
  Keyboard = kbd
  Pid = {p1, p2, p3}
  InitPid = p1
  KernelPid = kernel
  KillPids = {p1, p2, p3}
  NoPid = none
  Fs = {f0, f1}
  Fs0 = f0
INVARIANTS ThreadsSound ContextSound
PROPERTIES RunQueueSpec
CHECK_DEADLOCK FALSE
