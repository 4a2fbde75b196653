SPECIFICATION FairSpec
INVARIANTS ReadErrorStops LoggedInFull
PROPERTIES CallEnds
