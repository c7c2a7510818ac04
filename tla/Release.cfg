CONSTANTS
    GitRepeats = TRUE
    Versions = {1, 2}
    Kinds = {"cited", "loose"}
    Crates <- MCCrates
    MaxCommits = 4
    MaxPushes = 2
    MaxFailures = 1
SPECIFICATION Spec
CHECK_DEADLOCK FALSE
INVARIANTS
    TagsReportTheirEntries
    FoldsConform
    CratesComeTogether
    EvidenceAddsUp
