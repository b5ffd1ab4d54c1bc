\* Two paths, edited up to three times, in up to three commits.
SPECIFICATION Spec
CONSTANTS
    sources = sources
    notes = notes
    good = good
    bad = bad
    Files <- MCFiles
    Contents <- MCContents
    Sound <- MCSound
    Bound <- MCBound
    Evidence <- MCEvidence
    Inherited <- MCInherited
    Governed <- MCGoverned
    Activated <- MCActivated
    Matrix <- MCMatrix
    MaxCommits = 3
    MaxEdits = 3
INVARIANT OnThisBranch
PROPERTY HashesStayAccepted
CHECK_DEADLOCK FALSE
