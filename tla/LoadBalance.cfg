\* Two workers, two machines, three requests; every answer is possible.
SPECIFICATION FairSpec
CONSTANTS
  Worker = {w1, w2}
  Machine = {m1, m2}
  Main = Main
  None = None
  LOAD_MAX = 3
  MaxRequests = 3
  MaxRecoveries = 1
INVARIANTS
  TypeOK
  EveryMachineInOneList
  LoadCountsRequests
  ScanSeesOneList
PROPERTY JudgeEnds
