SPECIFICATION FairSpec
CONSTANTS
    Slaves = {1, 2}
    Addresses = {1, 2}
    Functions <- MCFunctions
    MaxHeard = 2
INVARIANTS TypeOK OnlyRequests NoneSwallowed
PROPERTIES Heals
