SPECIFICATION Spec
CONSTANTS
  Pages = {"services", "overview", "activity", "logs", "map", "trace", "dock", "chart", "form", "shell", "pure"}
  Inputs <- MCInputs
  None = None
  NaN = NaN
  s1 = s1
  s2 = s2
  Services = {s1, s2}
  Ranges = {"hour", "day"}
  Traces = {t1, t2}
  LogTraces = {t1}
  Spans = {s1, s2}
  ServiceNames <- MCServiceNames
  OpNames <- MCOpNames
  Texts <- MCTexts
  Keys = {"one", "two"}
  Charts <- MCCharts
  Panes = {240, 700}
  Fits = {150, 420}
  Ys = {0, 150, 152, 450}
  Values <- MCValues
  FeedLimit = 2
  LogLimit = 2
  TableRows = 2
  MaxServiceWins = 2
  MaxDash = 2
  MaxOverviewWins = 4
  MaxTraces = 3
  MaxFeedWins = 2
  MaxLogs = 3
  MaxSearches = 2
  MaxLoads = 4
  MaxOpens = 2
  MaxGestures = 4
  MaxData = 4
  MaxFormWins = 2
  MaxEpochs = 1
  MaxWindow = 12
  Slack = 2
  Day = 4
CHECK_DEADLOCK FALSE
INVARIANTS
  PagesShowTheSelection
  PagesNeverStuck
  LiveListsLoseNothing
  MapIsReadable
  SearchesKeepTheirWindow
  DashboardsAgree
  ChoicesAreKept
