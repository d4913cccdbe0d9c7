SPECIFICATION HostSpec
CONSTANTS
  Procs = {p1, p2}
  Values <- MCValues
  Missing = Missing
  Torn = Torn
  CanFail = {"write", "syncParent"}
  MaxTimeout = 1
  DefaultTimeout = 0
  HandWritten <- MCHandWritten
  Requests <- MCRequests
  MaxLines = 2
SYMMETRY Processes
INVARIANTS TypeOK ParserMeetsFormat AllOrDefault OnlyAskedChanges ReportedIsKept
INVARIANTS NeverTorn TemporaryIsGone
PROPERTY ImplementsCell
