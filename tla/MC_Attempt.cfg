\* Two requests and, in turn, each mix of answers, steering texts, failing
\* database calls and dying tasks.
SPECIFICATION FairSpec
CONSTANTS
  Requests = {q1, q2}
  NoRequest = NoRequest
  MaxQueued = 1
  Budgets <- Mixes
INVARIANTS
  AnswersAreTruthful
  SelectionMatchesDatabase
  OutcomeClosesRequests
  ControlsSettleBeforeOutcome
  AnswerWakesRoot
PROPERTIES
  StoppedAttemptEnds
