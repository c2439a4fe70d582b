SPECIFICATION OfficeSpec
CONSTANTS
  None = None
  Callers = {a, b}
  Registers = {"leave", "ticket", "legal", "vendor", "order", "campaign", "message", "task", "broker", "commission", "quotation", "sales"}
  Reentrant = {"ticket"}
  MaxRequests = 2
  MaxHour = 1
  Unsettled = {"integration_call"}
  Asked = {"update_lead_status"}
  MaxStages = 4
  Ages <- MCAges
  Percents = {0, 9, 10, 24, 25, 100}
  Prices = {1, 99, 1001, 100000}
  Discounts = {0, 7, 99}
  Escalations = {0, 1}
  Terms = {1, 13, 36}
  StartDays = {1, 28, 31}
  Lapsing = {"company"}
  Grants <- MCGrants
  People <- MCPeople
  MaxLeads = 2
  Stages = {"fresh", "contacted"}
  FirstStage = "fresh"
  Teams <- MCTeams
  MaxLapses = 1
  Paid = 2
  MaxRuns = 2
  MaxActs = 2
  MaxAttempts = 3
  MaxReports = 2
  Targets = {"lead", "inventory_unit", "payment", "document"}
  Files <- MCFiles
  Projects = {"old"}
  Owed = 3
  MaxConfirms = 2
  MaxReviews = 1
  BrokerCompanies = {"x", "y"}
  MaxRegistrations = 2
  Hooks = {"one", "two"}
  Interval = 2
  MaxMinute = 2
SYMMETRY CallerSymmetry
CONSTRAINT Unmuddled
INVARIANTS
  ChangesHeard
  Earned
  DecidedOnce
  AsksOnceAnHour
  AsksForHelp
  ScheduleExact
  ListedIsAllowed
  ViewersOnlyLook
  OnePerPerson
  PenalizedOnce
  GatedOnce
  NeverAssumes
  CallbacksAgree
  ImportKeeps
  BrokerCredit
  TriggersKept
CHECK_DEADLOCK FALSE
