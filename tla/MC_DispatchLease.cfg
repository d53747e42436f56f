\* Two messages to one conversation, submitted through two incarnations,
\* with their fallbacks, crashes and recoveries; the first row may be one from
\* before ownership columns existed.
\* Every process may be down for good, so the system may stop.
SPECIFICATION Spec
CONSTANTS
    Instances = {i1, i2}
    Runs = {r1, r2}
    LegacyRuns = {r1}
    Commands = {c1, c2}
    Conversations = {chat1}
    ConversationOf <- OneConversation
    ClaimIds = {1, 2}
    NoRun = NoRun
    NoCommand = NoCommand
    NoOwner = NoOwner
    MaxMishaps = 0
SYMMETRY Symmetry
INVARIANTS DispatchIsSafe
PROPERTIES ImplementsLedger
CHECK_DEADLOCK FALSE
