-------------------------- MODULE RosterAuthority --------------------------
(***************************************************************************)
(* What rostering promises to crew and Managers, without rows, versions,   *)
(* locks or pages.  A Workday has at most one visible roster and at most   *)
(* one proposal.  The visible roster changes in three ways only: a         *)
(* proposal replaces it as a whole, a person who declines leaves exactly   *)
(* one slot of the visible roster, or the roster of another day is moved   *)
(* to a new Workday.                                                       *)
(***************************************************************************)
CONSTANTS
  Workdays,
  Slots,
  Rosters,   \* functions from Slots to slot contents
  Freed      \* contents of a slot its person has left

VARIABLES
  visible,   \* the roster of each Workday that crew see, as a set of 0 or 1
  proposal   \* the Managers' shared proposal, as a set of 0 or 1

authorityVars == <<visible, proposal>>

Init ==
  /\ visible = [w \in Workdays |-> {}]
  /\ proposal = [w \in Workdays |-> {}]

\* Managers start, change or discard the proposal.
Propose(w) ==
  /\ \/ proposal' = [proposal EXCEPT ![w] = {}]
     \/ \E c \in Rosters : proposal' = [proposal EXCEPT ![w] = {c}]
  /\ UNCHANGED visible

Publish(w) ==
  /\ proposal[w] # {}
  /\ visible' = [visible EXCEPT ![w] = proposal[w]]
  /\ proposal' = [proposal EXCEPT ![w] = {}]

\* The proposal was made for a roster that is no longer the visible one.
Decline(w, s) ==
  \E c \in visible[w], cell \in Freed :
    /\ visible' = [visible EXCEPT ![w] = {[c EXCEPT ![s] = cell]}]
    /\ proposal' = [proposal EXCEPT ![w] = {}]

Move(w, v) ==
  /\ visible[w] # {}
  /\ visible[v] = {}
  /\ proposal[v] = {}
  /\ visible' = [visible EXCEPT ![v] = visible[w]]
  /\ proposal' = [proposal EXCEPT ![w] = {}]

Next ==
  \E w \in Workdays :
    \/ Propose(w)
    \/ Publish(w)
    \/ \E s \in Slots : Decline(w, s)
    \/ \E v \in Workdays : Move(w, v)

Spec == Init /\ [][Next]_authorityVars
=============================================================================
