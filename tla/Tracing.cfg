SPECIFICATION Spec
CONSTANTS
    Chains = {c1, c2}
    Keys = {user}
    root = root
    agent = agent
    Loggers = {root, agent}
    None = None
    MaxBlocks = 3
    MaxRecords = 3
    Setups <- SteadySetups
    Calls <- SomeCalls
    Runs = {chain, call}
    Chained = {chain}
    PartOf <- PartOfChain
SYMMETRY Symmetric
INVARIANTS
    TracingTypeOK
    ParentIsEnclosing
    TreeIsLogged
\* Requests may stop coming.
CHECK_DEADLOCK FALSE
