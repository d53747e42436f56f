\* One run, possibly from before ownership columns existed, two incarnations,
\* one stall or store failure.
\* Every process may be down for good, so the system may stop.
SPECIFICATION FairSpec
CONSTANTS
    Instances = {i1, i2}
    Runs = {r1}
    LegacyRuns = {r1}
    Commands = {c1}
    Conversations = {chat1}
    ConversationOf <- OneConversation
    ClaimIds = {1, 2}
    NoRun = NoRun
    NoCommand = NoCommand
    NoOwner = NoOwner
    MaxMishaps = 1
PROPERTIES FormerOwnerIsFenced OutcomeIsFinal AbandonedRunSettles StoppedTaskEnds
CHECK_DEADLOCK FALSE
