SPECIFICATION FairSpec
CONSTANTS
  Program <- KernelCalls
  RATE = 2
  TickMod = 64
  MAX_LOOP_COUNT = 2
  MallocFails = TRUE
  Latency = 1
  MaxTick = 4
INVARIANTS
  CountsAgree
  HaltOnlyWhenIdle
  NoUseAfterFree
  NoLeak
PROPERTIES
  NeverEarly
  TasksFinish
  WakeupsFire
