--------------------------- MODULE IndexStoreMC ---------------------------
(* A small instance of IndexStore.  Units, and store tasks, may be          *)
(* exchanged.                                                               *)
EXTENDS IndexStore, TLC

Symmetry == Permutations(Units) \cup Permutations(Stores)

\* The units that this run indexes or an earlier one left rows of.
Touched == {u \in Units : id[u] # NoId \/ Known(u) \/ u \in DOMAIN defs}

\* Bound: any MaxEdits edits, at any moment, while there is one unit; with a second unit
\* at most one edit, of the header.
MCEdit(f) ==
  /\ Cardinality(Touched) <= 1 \/ (f = Header /\ EditsMade = 0)
  /\ Edit(f)

MCStartUnit(u) ==
  /\ Touched \subseteq {u} \/ (EditsMade <= 1 /\ \A v \in Units : edits[v] = 0)
  /\ StartUnit(u)

MCNext == \/ Prepare \/ Exit \/ Crash
          \/ Tick \/ \E f \in Files : MCEdit(f)
          \/ \E u \in Units : \/ SkipUnit(u) \/ MCStartUnit(u) \/ FailUnit(u)
                             \/ LocateCached(u) \/ LocateHeader(u)
                             \/ SendUnit(u)
          \/ \E s \in Stores : GetStmts(s) \/ Dml(s)

MCSpec == Init /\ [][MCNext]_vars
=============================================================================
