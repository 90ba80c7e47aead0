\* A launcher that starts with no instance, or with no group file.
CONSTANTS
    Groups = {g1, g2}
    NoGroup = NoGroup
    LastId = 2
    ListEvents = 0
    Stagings = {s1}
SPECIFICATION InstanceSpec
PROPERTIES JoinsItsGroup
SYMMETRY Symmetry
CHECK_DEADLOCK FALSE
