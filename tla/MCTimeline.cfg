CONSTANTS
  EventData <- MCEventData
  Times = {0, 999, 1000, 59999, 60000, 119999}
  MaxLabel = 2
  MaxText = 2
  MaxEvents = 3
SPECIFICATION Spec
INVARIANTS
  ItemTimesAgree ClickNamesTarget ReportAgrees
 
CHECK_DEADLOCK FALSE
