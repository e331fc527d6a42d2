CONSTANTS
  Main = Main
  Shell = Shell
  Programs = {p1}
SPECIFICATION FairSpec
PROPERTY ScheduleReturns
