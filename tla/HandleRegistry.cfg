SPECIFICATION Spec
CONSTANTS
    Address = {a1, a2, a3, a4, a5, a6, a7}
    Role = {ard}
    AppRole = {ard}
    Null = Null
SYMMETRY AddressSymmetry
INVARIANTS
    TypeOK
    RegistryExact
    ParentsAlive
    EffectiveDescriptorSound
    DescriptorsOwned
PROPERTY
    UserDescriptorsOutliveStatements
