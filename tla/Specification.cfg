SPECIFICATION Spec
CONSTANTS
    Contents <- MCContents
    Draft <- MCDraft
    Artifacts = {"file"}
    MaxOptions = 2
    Architectures = {0, 1}
    MatchCounts <- MCMatchCounts
INVARIANTS
    FactoryTypeOK
    AcceptedIsOfSealedContent
    IntegrityNotices
    ChecksNotice
    HighestFloorWins
CHECK_DEADLOCK FALSE
