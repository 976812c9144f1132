SPECIFICATION FairSpec
CONSTANTS
    d1 = d1
    d2 = d2
    r1 = r1
    r2 = r2
    t1 = t1
    s1 = s1
    s2 = s2
    Use = Use
    None = None
    Places = {d1, d2}
    Columns <- TwoDatabases
    Rows = {r1}
    Saves = {s1}
    MaxElsewhere = 1
    Faults = {"load", "save", "lost"}
INVARIANTS
    ShowsWhatIsInEffect
PROPERTIES
    TablesChangeAsStaged
    SavedMeansSaved
    SavingEnds
