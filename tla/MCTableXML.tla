----------------------------- MODULE MCTableXML -----------------------------
(***************************************************************************)
(* Small spreadsheets for TableXML.                                        *)
(***************************************************************************)
EXTENDS TableXML, TLC

\* The names of tables are interchangeable.
Alike == Permutations(Table)

Kind(style, value, repeated, spanned, rows) ==
  [style |-> style, value |-> value, repeated |-> repeated, spanned |-> spanned, rows |-> rows]

\* A bare cell, a coloured one repeated three times, one that spans two columns, one of type string that
\* spans two rows.
Kinds == {Kind("none", "none", 1, 1, 1), Kind("coloured", "none", 3, 1, 1),
          Kind("plain", "none", 1, 2, 1), Kind("coloured", "string", 1, 1, 2)}
=============================================================================
