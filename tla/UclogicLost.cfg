SPECIFICATION Spec
INVARIANT NothingLost
