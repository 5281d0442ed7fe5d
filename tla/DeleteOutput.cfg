SPECIFICATION Spec
CONSTANTS
    Names <- MCNames
    Values = {v}
    Absent = Absent
    NestedKeys <- MCNested
    MirroredKeys <- MCMirrored
    AddressType = modbusDataAddressType
INVARIANTS
    DeleteOutputDeletes
