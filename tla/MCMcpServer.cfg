SPECIFICATION McpSpec
CONSTANTS
  p1 = p1  v1 = v1
  Predicates <- MCPredicates
  Values <- MCValues
  NotFound = NotFound
  Nothing = Nothing
  MaxLines = 3
  MaxSessions = 2
INVARIANTS
  AnsweredInOrder
  RecallSeesLinesBefore
PROPERTIES
  SessionSurvives
  RequestsAnswered
CHECK_DEADLOCK FALSE
