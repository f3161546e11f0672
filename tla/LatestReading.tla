--------------------------- MODULE LatestReading ---------------------------
(***************************************************************************)
(* What the refresh machinery of the device promises, with no thread, lock *)
(* or timer in sight: readings of the machine are taken one after another, *)
(* and while refreshing is on any reading newer than the last published    *)
(* one may be published.  Readings may be skipped; none is published twice,*)
(* out of order, before it was taken, or while refreshing is off.          *)
(***************************************************************************)
EXTENDS Naturals

VARIABLES
  taken,       \* number of readings taken so far; the n-th reading is n
  published,   \* the reading the address tree shows, 0 before the first
  refreshing   \* is refreshing on?

vars == <<taken, published, refreshing>>

TypeOK ==
  /\ taken \in Nat
  /\ published \in 0 .. taken
  /\ refreshing \in BOOLEAN

Init ==
  /\ taken = 0
  /\ published = 0
  /\ refreshing = FALSE

\* A reading is completed.
Sample ==
  /\ taken' = taken + 1
  /\ UNCHANGED <<published, refreshing>>

\* The tree shows a reading more recent than the one it showed.
Publish ==
  /\ refreshing
  /\ published' \in (published + 1) .. taken
  /\ UNCHANGED <<taken, refreshing>>

\* A new refresh rate, possibly 0.
SetRefreshing ==
  /\ refreshing' \in BOOLEAN
  /\ UNCHANGED <<taken, published>>

\* The device is gone; the next connection starts from scratch.
Release ==
  /\ taken' = 0
  /\ published' = 0
  /\ refreshing' = FALSE

Next == Sample \/ Publish \/ SetRefreshing \/ Release

Spec == Init /\ [][Next]_vars

=============================================================================
