\* The check of an offline launch.
CONSTANTS
    Metadata <- TheMetadata
    Minecraft = "game"
    Follows = {"mapping"}
    UidOrder <- TheOrder
    Default <- TheDefault
    PackFiles <- TheFiles
    Patches = {{}}
    MaxSteps = 14
    MaxChecks = 1
    MaxRestarts = 0
SPECIFICATION ComponentsSpec
PROPERTIES CheckIsTruthful
CHECK_DEADLOCK FALSE
