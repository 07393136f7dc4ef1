------------------------------ MODULE MCViewer ------------------------------
EXTENDS Viewer, TLC
CONSTANTS letter, budget, leaflet, odd

MCKind == letter :> "text" @@ budget :> "sheet" @@ leaflet :> "text" @@ odd :> "unknown"
MCNotes == letter :> 2 @@ budget :> 0 @@ leaflet :> 0 @@ odd :> 0
MCTables == budget :> <<"Jan", "Feb">> @@ [f \in {letter, leaflet, odd} |-> <<>>]

\* A letter, a leaflet and a sheet, or the two files with thumbnails.
MCDisks == {Files \ {odd}, {letter, odd}}
=============================================================================
