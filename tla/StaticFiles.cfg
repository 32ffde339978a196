\* A cache of two bytes; contents that fill half of it, all of it or exceed it.
CONSTANTS
    Workers = {w1, w2}
    Files <- MCFiles
    Dirs <- MCDirs
    Keys <- MCKeys
    Contents <- MCContents
    Requests <- MCRequests
    index_file = "i"
    before_nul <- MCBeforeNul
    max_size_bytes_ = 2
    ttl_seconds_ = 0
    TicksPerSecond = 1
    Absent = Absent
    None = None
SPECIFICATION Spec
INVARIANTS
    Consistent
    AnswersTheRequest
PROPERTIES
    EvictsWhatItMust
    StaleNeverForever
