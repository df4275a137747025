------------------------------ MODULE MCRoster ------------------------------
(* Roster, instantiated for TLC.  Workdays, slots, people and Manager      *)
(* pages are interchangeable: no definition tells one from another.        *)
EXTENDS Roster, FiniteSets, TLC

Symmetry ==
  Permutations(Workdays) \cup Permutations(Slots) \cup
  Permutations(People) \cup Permutations(Managers)

\* Two pages open on a roster of one slot, or slots edited on one page, two of them for
\* shorter: the steps that relate two pages and those that relate two slots do not need
\* one another.
PagesOrSlots ==
  \A w \in Workdays :
    LET oneSlot == Cardinality(issued[w]) <= 1
        onePage == Cardinality({m \in Managers : page[m].stage # "IDLE"}) <= 1
    IN  \/ oneSlot /\ row[w].version <= 5
        \/ /\ onePage /\ (oneSlot \/ row[w].version <= 6)
           /\ \A n \in Revs : rev[w][n].facts = NoRevision.facts

\* A second Workday is the replacement of the first, and then the facts stay as they
\* are: days that do not replace one another share no state.
OneChain ==
  LET used == {w \in Workdays : row[w].life # "ABSENT"}
  IN  \/ /\ Cardinality({w \in used : row[w].replaces = NoDay}) <= 1
         /\ \A w \in used, n \in Revs : rev[w][n].facts = NoRevision.facts
      \/ Cardinality(used) <= 1
=============================================================================
