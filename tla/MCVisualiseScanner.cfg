SPECIFICATION FairSpec
CONSTANT MaxLen = 5
CHECK_DEADLOCK FALSE
INVARIANTS TypeOK TakesExactlyOurs StrippedIsOurs
PROPERTIES Decides
