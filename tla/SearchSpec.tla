----------------------------- MODULE SearchSpec -----------------------------
(***************************************************************************)
(* What a caller of CSheetModel::FindFirstL / FindNextL relies on: a sweep *)
(* names every cell that matches, each once, and then says that there is   *)
(* no other; the next call starts over.  An edit between two calls voids   *)
(* the promise until the next sweep begins.                                *)
(***************************************************************************)
EXTENDS Sequences

CONSTANTS
  Position,   \* where a cell may be
  None,       \* the answer EFalse
  Failed      \* the answer of a call that left

VARIABLES
  matches,    \* the positions of the cells that match the request
  reported,   \* what this sweep has named, in order
  fresh,      \* no edit since the sweep began
  answer      \* what the last call answered

vars == <<matches, reported, fresh, answer>>

Named == {reported[i] : i \in DOMAIN reported}

Init == matches = {} /\ reported = <<>> /\ fresh = TRUE /\ answer = None

Hit(p)   == p \in matches' /\ answer' = p
Exhausted == answer' = None /\ reported' = <<>> /\ fresh' = TRUE
Refused   == answer' = Failed /\ reported' = <<>> /\ fresh' \in BOOLEAN

\* A new request: the first match, or nothing when there is none.
Start ==
  /\ matches' \subseteq Position
  /\ \/ \E p \in Position : Hit(p) /\ reported' = <<p>> /\ fresh' = TRUE
     \/ matches' = {} /\ answer' = None /\ reported' = <<>> /\ fresh' \in BOOLEAN
     \/ Refused

Continue ==
  /\ UNCHANGED matches
  /\ \/ fresh /\ \E p \in Position \ Named :
                   Hit(p) /\ reported' = Append(reported, p) /\ UNCHANGED fresh
     \/ fresh /\ Named = matches /\ Exhausted
     \/ ~ fresh /\ Exhausted
     \/ ~ fresh /\ \E p \in Position : Hit(p) /\ reported' = <<>> /\ fresh' = FALSE
     \/ Refused

\* The cells change.  A sweep that has not begun is none the worse.
Edit ==
  /\ matches' \subseteq Position
  /\ fresh' \in {FALSE, fresh /\ reported = <<>>}
  /\ reported' = <<>>
  /\ UNCHANGED answer

Next == Start \/ Continue \/ Edit

Spec == Init /\ [][Next]_vars
=============================================================================
