CONSTANTS
  TaskNum = 4
  MaxThreads = 3
  ThreadArgs <- SomeThreadArgs
  CpuNums <- SomeCpuNums
  None = None
SPECIFICATION FairSpec
INVARIANTS TypeOK TaskOwnership JoinedMeansDone StoppedIsEmpty FewLateTasks
PROPERTIES TasksLiveOnce Terminates
CHECK_DEADLOCK FALSE
