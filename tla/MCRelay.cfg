CONSTANTS
    Attempt = {a1, a2}
    MaxSid = 4
    MaxRetry = 1
    MaxOwnerJoins = 1
    Flaky = {a1}
    NoAttempt = NoAttempt
SPECIFICATION FairSpec
CHECK_DEADLOCK FALSE
INVARIANTS TypeOK AcceptedIsOwn
PROPERTIES TerminationSparesRejoin 
