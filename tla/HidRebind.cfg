SPECIFICATION FairSpec
CONSTANT Dev = {d1, d2}
PROPERTIES DoneIsRebound QuitLeavesDriver UnbindSucceeds Rebinds
CHECK_DEADLOCK FALSE
