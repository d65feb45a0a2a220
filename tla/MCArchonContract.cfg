SPECIFICATION Spec
CONSTANTS
    None = None
    Address = {a1, a2}
    Deployer = a1
    NodeID = {n1, n2}
    Username = {x, y}
    Params <- MCParams
    Scalars = {0}
    Amounts = {0, 1, 2}
    ShardSize = {1, 3}
    Months = {1}
    MaxSPs = 2
    MegaByte = 2
    RegisterCost = 1
    InitialScalar = 1
    Wealth = 2
    MaxUint = 3
SYMMETRY NameSymmetry
CONSTRAINT OwnersApart
INVARIANTS
    TypeOK
    NodeIDsMatch
    UsernamesMatch
    ProvidersBacked
    Solvent
PROPERTIES
    StorageIsPaidFor
