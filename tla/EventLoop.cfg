CONSTANTS
  Callers = {t1, t2}
  Channels = {sock}
  WakeupChannel = wakeup_ch
  Functors = {f1, f2, f3}
  kEventsNum = 1
SPECIFICATION FairSpec
INVARIANTS NoLostWakeup QuitNotSlept
PROPERTIES EveryFunctorRuns QuitStopsLoop ImplementsQueue
