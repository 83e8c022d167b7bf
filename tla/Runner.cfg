\* Three of everything a loop of run walks over, two attached bundles.
CONSTANTS
    PretaskCount = 3
    PrimaryCount = 3
    AttachCount = 2
    AgentCount = 3
    TaskCount = 3
SPECIFICATION FairSpec
INVARIANTS
    TypeOK
    StartGate
    HashOfPrimary
    NoAgentOutlivesRun
    SuccessIsComplete
PROPERTIES
    KeepsContract
    RunEnds
\* run returns, or the process exits: nothing follows.
CHECK_DEADLOCK FALSE
