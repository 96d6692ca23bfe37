SPECIFICATION FairSpec
INVARIANTS InRangeIsWatched TimerStopsFirst
PROPERTY PenLeaves
