SPECIFICATION FairSpec
CONSTANT Dev = {d1, d2}
PROPERTIES RunRebinds
CHECK_DEADLOCK FALSE
