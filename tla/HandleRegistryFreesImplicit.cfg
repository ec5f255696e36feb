SPECIFICATION Spec
CONSTANTS
    Address = {a1, a2, a3, a4, a5, a6}
    Role = {ard}
    AppRole = {ard}
    Null = Null
SYMMETRY AddressSymmetry
PROPERTY
    AutoDescriptorsNotFreed
