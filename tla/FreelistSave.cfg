\* Transactions of up to five operations, nested twice, with spills, from
\* two committed versions, and their commits.
CONSTANTS
    MaxPg = 25
    MaxDirty = 4
    SpillBatch = 2
    Need = 1
    MaxLevel = 2
    MaxOps = 5
    NodeIds = 1
    MaxFree1pg = 3
    IoErrors = TRUE
    Cursors = {c1, c2}
    Writers = {c1}
    Bases <- MCBases
SPECIFICATION Spec
INVARIANTS TypeOK ListsSearchable ReadsOwnWrites CursorsFresh RoomIsExact PagesPartitioned CommittedIntact CommitWritesAll FreeListSaved
PROPERTY SaveEnds
