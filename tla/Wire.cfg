SPECIFICATION OneStreamSpec
CONSTANTS
  Characters <- MCCharacters
  Requests <- MCRequests
  Width = 3
  Verdicts <- MCVerdicts
  MaxLines = 2
CHECK_DEADLOCK FALSE
INVARIANTS RequestsReadBack AnswersReadBack AnswersInStep RequestsInStep
