\* Up to three segments in three threads, of which one fails.
SPECIFICATION Spec
CONSTANTS
    Length = 4
    Paragraphs = 3
    MaxFailures = 1
    Texts <- MCTexts
INVARIANTS
    NoLineVanishes
    OrderDoesNotMatter
    GrossLossIsSeen
CHECK_DEADLOCK FALSE
