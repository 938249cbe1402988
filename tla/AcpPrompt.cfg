\* One session, two prompts, or one and a message from elsewhere, one undelivered update.
SPECIFICATION FairSpec
CONSTANTS
  Prompts = 2
  Wake = Wake
  Nobody = Nobody
  Pending = Pending
  MaxArrivals = 2
  MaxOut = 1
INVARIANTS AnsweredIsOver NoVainWait
PROPERTIES AnsweredAtRest CancelHeard Answers
CHECK_DEADLOCK FALSE
