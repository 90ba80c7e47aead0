\* One account, one launch.
CONSTANTS
    Ids = {"ann"}
    MSA = {"ann"}
    Files <- TheAccounts
    Controllers = {"l1"}
    MaxHost = 0
SPECIFICATION ListSpec
INVARIANTS UndisturbedGame
CHECK_DEADLOCK FALSE
