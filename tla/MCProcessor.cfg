CONSTANTS
  Main = Main
  Shell = Shell
  Programs = {p1, p2}
  IrqBoot = {main}
  IrqIdle = shell
  IrqPrograms = {p3}
  IrqLines = {0, 1, 11}
  IrqDepth = 2
  LockThreads = {t1, t2, t3}
  LockIdle = idle
  LockQueues = {waiting}
  BootVectors = {0, 8, 14, 17, 31, 32, 128, 200}
  BootQuotes <- MCQuotes
  BootNested = 2
SPECIFICATION MCSpec
INVARIANTS TypesOK NoDangling NoneLost NeverStranded InServiceIsHandled MutexSound BootSound
PROPERTIES ProcessorSpec ReadyRuns TimerServed
