SPECIFICATION FairSpec
CONSTANTS
    Readers = {p1, p2}
    Editable = {"grants", "rate", "market", "listing"}
    Naming = {TRUE}
    MaxPasses = 2
    MaxEdits = 1
INVARIANTS RerunLeaves NeverUntaxed
PROPERTIES StaleReads CacheFollows
CHECK_DEADLOCK FALSE
