---------------------------- MODULE ArchiveSpec -----------------------------
(***************************************************************************)
(* What the writer and the reader of archives promise together, CCreateZip *)
(* and CCZip: members are listed, and whoever opens the archive sees what  *)
(* was listed when it was written, all of it, or no archive.               *)
(***************************************************************************)
EXTENDS Naturals, Sequences, SequencesExt

CONSTANT NoArchive

VARIABLES
  listed,   \* the members of the archive to be written, in their order
  seen      \* what the file on the disk gives: a set of members, or NoArchive

vars == <<listed, seen>>

Init == listed = <<>> /\ seen = NoArchive

\* A member is added at the end, or one is taken out, or all are.
List ==
  /\ \/ listed' # <<>> /\ Front(listed') = listed
     \/ \E i \in 1 .. Len(listed) : listed' = RemoveAt(listed, i)
     \/ listed' = <<>>
  /\ UNCHANGED seen

\* One is taken out and another added, in the place of the last.
Exchange ==
  /\ \E i \in 1 .. Len(listed) : Front(listed') = RemoveAt(listed, i)
  /\ Len(listed') = Len(listed)
  /\ UNCHANGED seen

Publish == seen' = ToSet(listed) /\ UNCHANGED listed

\* The file was deleted before the new one could be written.
Lose == seen' = NoArchive /\ UNCHANGED listed

Next == List \/ Exchange \/ Publish \/ Lose

Spec == Init /\ [][Next]_vars
=============================================================================
