CONSTANTS
    h1 = h1
    h2 = h2
    e1 = e1
    e2 = e2
    e3 = e3
    Heads <- MCHeads
    Entries <- MCEntries
    Null = Null
    Stale = Stale
    LIST_POISON1 = LIST_POISON1
    LIST_POISON2 = LIST_POISON2
SPECIFICATION Spec
SYMMETRY Symmetry
INVARIANTS
    TypeOK
    PointersSpellList
    LoopOnCourse
