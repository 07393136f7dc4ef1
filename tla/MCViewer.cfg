SPECIFICATION Spec
CONSTANTS
    letter = letter
    budget = budget
    leaflet = leaflet
    odd = odd
    None = None
    Files = {letter, budget, leaflet, odd}
    Kind <- MCKind
    NoteCount <- MCNotes
    Tables <- MCTables
    Hybrid = {leaflet}
    Secret = {budget, leaflet}
    Illustrated = {letter}
    Thumbnailed = {letter, odd}
    TableCommands = 1
    Disks <- MCDisks
    Perishable = {leaflet, budget}
INVARIANTS BoxShowsCurrentNote LegibleWhenUnlocked ShowsTheOpenFile BackToOrigin NoArchiveLeft
PROPERTIES ThumbnailArrives
