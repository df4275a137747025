------------------------------ MODULE Positions ------------------------------
(***************************************************************************)
(* Who may be recommended for, or apply for, a Position: the catalogue of  *)
(* base positions, whose names share canonical identities; the signals of  *)
(* Managers, of the Person and of work; and the current publications that  *)
(* work is counted from (app/positions, the capability forms of app/crew   *)
(* and app/employee, the position forms of app/catalog and app/admin).     *)
(***************************************************************************)
EXTENDS Integers, FiniteSets

CONSTANTS
  People,
  Rows,         \* base_positions rows that may exist
  Identities,   \* canonical identities; a row's name stands for its identity
  Days,         \* Workdays
  Slots,        \* slots of a Workday
  Requests,     \* forms between their check and their commit
  NoRow, NoName, NoPerson,
  MaxForms      \* bound: forms submitted

ASSUME PositionsAssumption ==
  /\ NoRow \notin Rows /\ NoName \notin Identities /\ NoPerson \notin People
  /\ MaxForms \in Nat

VARIABLES
  position,    \* the base_positions table
  signals,     \* the position_capabilities table
  published,   \* the crew of each Workday's current publication
  scheduled,   \* Workdays whose status is SCHEDULED
  form,        \* what a request has checked and not committed
  forms,       \* forms submitted so far
  imported,    \* history: Workdays whose publication was imported
  restricted,  \* history: identities a Manager last restricted a Person for
  renamed,     \* history: identities that a row was renamed from or to
  doubled,     \* history: identities with duplicates from before or named by overlapping forms
  refused      \* history: a publication failed on its own signals

history == <<imported, restricted, renamed, doubled, refused>>
vars == <<position, signals, published, scheduled, form, forms, history>>

Manager == {"MANAGER_ALLOW", "MANAGER_BLOCK"}
Employee == {"EMPLOYEE_ALLOW", "EMPLOYEE_OPT_OUT"}

Position == [name : Identities \cup {NoName}, state : {"NONE", "ACTIVE", "ARCHIVED"}]
Signal == [person : People, of : Rows, says : Manager \cup Employee \cup {"WORKED"},
           sourced : BOOLEAN]
\* Each slot holds a Person at a row, or nobody.
Crew == [Slots -> (People \X Rows) \cup {<<NoPerson, NoRow>>}]
Nobody == [s \in Slots |-> <<NoPerson, NoRow>>]
NoForm == [kind |-> "NONE"]

TypeOK ==
  /\ position \in [Rows -> Position]
  /\ signals \subseteq Signal
  /\ published \in [Days -> Crew]
  /\ scheduled \subseteq Days
  /\ DOMAIN form = Requests
  /\ forms \in 0 .. MaxForms
  /\ imported \subseteq Days
  /\ restricted \subseteq People \X Identities
  /\ renamed \subseteq Identities /\ doubled \subseteq Identities
  /\ refused \in BOOLEAN

-----------------------------------------------------------------------------
(* Identities.                                                             *)

ActiveRows == {r \in Rows : position[r].state = "ACTIVE"}
ActiveOf(name) == {r \in ActiveRows : position[r].name = name}
Alike(r) == {x \in Rows : position[x].state # "NONE" /\ position[x].name = position[r].name}

\* validate_position_identity: no other active row has the identity.
ValidIdentity(name, r) == ActiveOf(name) \ {r} = {}

\* Rows from before the identities were checked may share one, and carry work
\* that was imported without a source.
Init ==
  /\ \E here \in SUBSET Rows, name \in [Rows -> Identities] :
       position = [r \in Rows |-> IF r \in here THEN [name |-> name[r], state |-> "ACTIVE"]
                                  ELSE [name |-> NoName, state |-> "NONE"]]
  /\ \E known \in SUBSET (People \X ActiveRows) :
       signals = {[person |-> k[1], of |-> k[2], says |-> "WORKED", sourced |-> FALSE]
                   : k \in known}
  /\ published = [d \in Days |-> Nobody]
  /\ scheduled = Days
  /\ form = [q \in Requests |-> NoForm]
  /\ forms = 0
  /\ imported = {} /\ restricted = {} /\ renamed = {} /\ refused = FALSE
  /\ doubled = {i \in Identities : Cardinality(ActiveOf(i)) > 1}

-----------------------------------------------------------------------------
(* Eligibility.                                                            *)

Said(person, r) == {s.says : s \in {t \in signals : t.person = person /\ t.of \in Alike(r)}}

\* Scheduled Workdays whose current publication has the Person at the identity.
WorkedDays(person, r) ==
  {d \in scheduled : \E s \in Slots : published[d][s] \in {person} \X Alike(r)}

LegacyWorked(person, r) ==
  \E s \in signals :
    s.person = person /\ s.of \in Alike(r) /\ s.says = "WORKED" /\ ~s.sourced

\* Eligible, the explicit permission first.
EligibleAllowFirst(person, r) ==
  LET said == Said(person, r)
  IN  \/ said \cap {"EMPLOYEE_ALLOW", "MANAGER_ALLOW"} # {}
      \/ /\ said \cap {"MANAGER_BLOCK", "EMPLOYEE_OPT_OUT"} = {}
         /\ "WORKED" \in said
         /\ LegacyWorked(person, r) \/ Cardinality(WorkedDays(person, r)) >= 2

Eligible(person, r) ==
  LET said == Said(person, r)
  IN  /\ said \cap {"MANAGER_BLOCK", "EMPLOYEE_OPT_OUT"} = {}
      /\ \/ said \cap {"EMPLOYEE_ALLOW", "MANAGER_ALLOW"} # {}
         \/ /\ "WORKED" \in said
            /\ LegacyWorked(person, r) \/ Cardinality(WorkedDays(person, r)) >= 2

-----------------------------------------------------------------------------
(* The catalogue: a form checks the identity, and then commits.            *)

Submitted == forms < MaxForms /\ forms' = forms + 1
Done(q) == form' = [form EXCEPT ![q] = NoForm]
Naming(name) == {q \in Requests : form[q].kind = "NAME" /\ form[q].name = name}

\* create_position (r = NoRow), or update_position to an active row.
NameRead(q, r, name) ==
  /\ form[q].kind = "NONE" /\ Submitted
  /\ r \in Rows => position[r].state # "NONE"
  /\ ValidIdentity(name, r)
  /\ form' = [form EXCEPT ![q] =
       [kind |-> "NAME", of |-> r, name |-> name,
        read |-> IF r = NoRow THEN [name |-> NoName, state |-> "NONE"] ELSE position[r]]]
  /\ doubled' = IF Naming(name) = {} THEN doubled ELSE doubled \cup {name}
  /\ UNCHANGED <<position, signals, published, scheduled, imported, restricted, renamed, refused>>

\* Attributes that the form leaves as it read them are not written.
Renamed(old, new) == IF old = new THEN renamed ELSE renamed \cup ({old, new} \ {NoName})

Create(q) ==
  /\ form[q].kind = "NAME" /\ form[q].of = NoRow
  /\ \E r \in Rows :
       /\ position[r].state = "NONE"
       /\ position' = [position EXCEPT ![r] = [name |-> form[q].name, state |-> "ACTIVE"]]
  /\ Done(q)
  /\ UNCHANGED <<signals, published, scheduled, forms, history>>

Update(q) ==
  LET r == form[q].of  read == form[q].read
      name == IF form[q].name = read.name THEN position[r].name ELSE form[q].name
  IN  /\ form[q].kind = "NAME" /\ r \in Rows
      /\ position' = [position EXCEPT ![r] =
           [name |-> name, state |-> IF read.state = "ACTIVE" THEN @.state ELSE "ACTIVE"]]
      /\ renamed' = Renamed(position[r].name, name)
      /\ doubled' = IF read = position[r] THEN doubled ELSE doubled \cup {name}
      /\ Done(q)
      /\ UNCHANGED <<signals, published, scheduled, forms, imported, restricted, refused>>

\* update_position to an archived row: its name is not checked.
Archive(r, name) ==
  /\ Submitted
  /\ position[r].state # "NONE"
  /\ position' = [position EXCEPT ![r] = [name |-> name, state |-> "ARCHIVED"]]
  /\ renamed' = Renamed(position[r].name, name)
  /\ UNCHANGED <<signals, published, scheduled, form, imported, restricted, doubled, refused>>

-----------------------------------------------------------------------------
(* Decisions.                                                              *)

\* Rows of the table that a form in flight has deleted, and so holds locked.
Locked == UNION {form[q].gone : q \in {x \in Requests : form[x].kind = "SIGNAL"}}

\* set_preference_signal up to the deletion of the family's rows.
SignalRead(q, person, r, family, says) ==
  LET gone == {s \in signals : s.person = person /\ s.of = r /\ s.says \in family}
  IN  /\ form[q].kind = "NONE" /\ Submitted
      /\ position[r].state = "ACTIVE"
      /\ says \in family \cup {"CLEAR"}
      /\ gone \cap Locked = {}
      /\ form' = [form EXCEPT ![q] =
           [kind |-> "SIGNAL", person |-> person, of |-> r, family |-> family, says |-> says,
            gone |-> gone]]
      /\ UNCHANGED <<position, signals, published, scheduled, history>>

Has(rows, person, r, says) == \E s \in rows : s.person = person /\ s.of = r /\ s.says = says

\* A row that another form has committed meanwhile: the transaction is rolled
\* back, and its deletion with it.
Collides(q) ==
  /\ form[q].says # "CLEAR"
  /\ Has(signals \ form[q].gone, form[q].person, form[q].of, form[q].says)

Decided(q) ==
  (signals \ form[q].gone) \cup
    IF form[q].says = "CLEAR" THEN {}
    ELSE {[person |-> form[q].person, of |-> form[q].of, says |-> form[q].says,
           sourced |-> FALSE]}

SignalCommit(q) ==
  LET about == <<form[q].person, position[form[q].of].name>>
  IN  /\ form[q].kind = "SIGNAL" /\ ~Collides(q)
      /\ signals' = Decided(q)
      /\ restricted' = IF form[q].family # Manager THEN restricted
                       ELSE IF form[q].says = "MANAGER_BLOCK" THEN restricted \cup {about}
                       ELSE restricted \ {about}
      /\ Done(q)
      /\ UNCHANGED <<position, published, scheduled, forms, imported, renamed, doubled, refused>>

SignalRefused(q) ==
  /\ form[q].kind = "SIGNAL" /\ Collides(q)
  /\ Done(q)
  /\ UNCHANGED <<position, signals, published, scheduled, forms, history>>

\* The capabilities of an imported bundle: nothing when the row is ambiguous.
ImportSignal(person, r, says) ==
  /\ Submitted
  /\ position[r].state = "ACTIVE" /\ ActiveOf(position[r].name) = {r}
  /\ ~Has(signals, person, r, says)
  /\ signals' = signals \cup {[person |-> person, of |-> r, says |-> says, sourced |-> FALSE]}
  /\ UNCHANGED <<position, published, scheduled, form, history>>

-----------------------------------------------------------------------------
(* Work.                                                                   *)

Held(crew) == {crew[s] : s \in {x \in Slots : crew[x] # <<NoPerson, NoRow>>}}
\* Unrecorded, for those without a record of any kind.
UnrecordedUnknown(crew) == {k \in Held(crew) : \A s \in signals : s.person # k[1]}
Unrecorded(crew) == {k \in Held(crew) : ~Has(signals, k[1], k[2], "WORKED")}

\* infer_worked_capability for each slot in turn, none of which sees the row
\* that another has added and not flushed.
AddedTwice(crew) ==
  \E s, t \in Slots : s # t /\ crew[s] = crew[t] /\ crew[s] \in Unrecorded(crew)

Exists(crew) == \A k \in Held(crew) : position[k[2]].state # "NONE"

Publish(d, crew) ==
  /\ Submitted
  /\ Exists(crew) /\ ~AddedTwice(crew)
  /\ published' = [published EXCEPT ![d] = crew]
  /\ signals' = signals \cup {[person |-> k[1], of |-> k[2], says |-> "WORKED", sourced |-> TRUE]
                               : k \in Unrecorded(crew)}
  /\ imported' = imported \ {d}
  /\ UNCHANGED <<position, scheduled, form, restricted, renamed, doubled, refused>>

\* The second row violates the table's key and the transaction is rolled back.
PublishRefused(crew) ==
  /\ Submitted
  /\ Exists(crew) /\ AddedTwice(crew)
  /\ refused' = TRUE
  /\ UNCHANGED <<position, signals, published, scheduled, form, imported, restricted, renamed,
                 doubled>>

\* The transition import publishes the days it creates by itself.
ImportDay(d, crew) ==
  /\ Submitted
  /\ Exists(crew) /\ Held(crew) # {} /\ published[d] = Nobody
  /\ published' = [published EXCEPT ![d] = crew]
  /\ imported' = imported \cup {d}
  /\ UNCHANGED <<position, signals, scheduled, form, restricted, renamed, doubled, refused>>

Decline(d, s) ==
  /\ published[d][s] # <<NoPerson, NoRow>> /\ d \in scheduled
  /\ published' = [published EXCEPT ![d][s] = <<NoPerson, NoRow>>]
  /\ UNCHANGED <<position, signals, scheduled, form, forms, history>>

ChangeStatus(d) ==
  /\ Submitted
  /\ scheduled' = IF d \in scheduled THEN scheduled \ {d} ELSE scheduled \cup {d}
  /\ UNCHANGED <<position, signals, published, form, history>>

-----------------------------------------------------------------------------
(* Convergence: of several active rows of one identity one is kept and the *)
(* others are archived; what was said of them moves to it, once.           *)

Ambiguous == {i \in Identities : Cardinality(ActiveOf(i)) > 1}
Archived(keep) == UNION {ActiveOf(i) \ {keep[i]} : i \in Ambiguous}

\* Candidates, where what was said of an archived row is dropped.
CandidatesOfKept(keep, i, person, says) ==
  {s \in signals : s.of = keep[i] /\ s.person = person /\ s.says = says}

\* The rows one of which says it after the convergence: the kept position's own
\* row, or any of those that are moved.
Candidates(keep, i, person, says) ==
  LET said == {s \in signals : s.of \in ActiveOf(i) /\ s.person = person /\ s.says = says}
      own == {s \in said : s.of = keep[i]}
  IN  IF own # {} THEN own ELSE said

Converge ==
  /\ Ambiguous # {}
  /\ UNCHANGED <<published, scheduled, form, forms, history>>
  /\ \E keep \in [Ambiguous -> ActiveRows] :
       /\ \A i \in Ambiguous : keep[i] \in ActiveOf(i)
       /\ \A s \in Locked : s.of \notin Archived(keep)
       /\ position' = [r \in Rows |-> IF r \in Archived(keep)
                         THEN [position[r] EXCEPT !.state = "ARCHIVED"] ELSE position[r]]
       /\ LET keys == {k \in Ambiguous \X People \X (Manager \cup Employee \cup {"WORKED"}) :
                         Candidates(keep, k[1], k[2], k[3]) # {}}
          IN  \E chosen \in [keys -> signals] :
                /\ \A k \in keys : chosen[k] \in Candidates(keep, k[1], k[2], k[3])
                /\ signals' = {s \in signals : position[s.of].state # "ACTIVE"
                                                 \/ position[s.of].name \notin Ambiguous}
                     \cup {[chosen[k] EXCEPT !.of = keep[k[1]]] : k \in keys}

-----------------------------------------------------------------------------
Next ==
  \/ \E q \in Requests :
       \/ \E r \in Rows \cup {NoRow}, name \in Identities : NameRead(q, r, name)
       \/ Create(q) \/ Update(q)
       \/ \E person \in People, r \in Rows, family \in {Manager, Employee} :
            \E says \in family \cup {"CLEAR"} : SignalRead(q, person, r, family, says)
       \/ SignalCommit(q) \/ SignalRefused(q)
  \/ \E r \in Rows, name \in Identities : Archive(r, name)
  \/ \E person \in People, r \in Rows, says \in Manager \cup Employee \cup {"WORKED"} :
       ImportSignal(person, r, says)
  \/ \E crew \in Crew : PublishRefused(crew) \/ \E d \in Days : Publish(d, crew) \/ ImportDay(d, crew)
  \/ \E d \in Days : ChangeStatus(d) \/ \E s \in Slots : Decline(d, s)
  \/ Converge

Spec == Init /\ [][Next]_vars

-----------------------------------------------------------------------------
(* Properties.                                                             *)

\* A Manager's restriction holds for every row of the identity until a Manager
\* decides about it again, whatever the Person prefers, works or is imported
\* with and however duplicates are converged; renamed positions aside, since
\* what was said follows the row and not the name.
BlockStands ==
  \A person \in People, r \in ActiveRows :
    <<person, position[r].name>> \in restricted /\ position[r].name \notin renamed =>
      ~Eligible(person, r)

\* Two Workdays that count, at least one of them published here and not
\* imported, make a Person eligible about whom nothing else was decided,
\* under whichever row of the identity and after whatever convergence.
TwoDaysQualify ==
  \A person \in People, r \in ActiveRows :
    LET days == WorkedDays(person, r)
    IN  Cardinality(days) >= 2 /\ ~(days \subseteq imported)
          /\ Said(person, r) \subseteq {"WORKED"} /\ position[r].name \notin renamed
          => Eligible(person, r)

\* Active rows share an identity only where they did from the start, or where
\* forms that name it, or that change its row, overlapped.
OneActiveRow ==
  \A name \in Identities : Cardinality(ActiveOf(name)) > 1 => name \in doubled

\* Convergence changes nobody's eligibility, unless it drops an imported record
\* of work in favour of a recorded one.
ConvergenceNeutral ==
  [][Converge => \A person \in People, r \in ActiveRows :
       position'[r].state = "ACTIVE" /\ Eligible(person, r) # Eligible(person, r)' =>
         LegacyWorked(person, r) /\ ~LegacyWorked(person, r)']_vars

\* docs/DOMAIN_RULES.md:24: several slots of one Workday count once.
SlotsCountOnce == ~refused

\* docs/DOMAIN_RULES.md:24: imported history remains preserved; only positions
\* converge in the step, no form touches it.
LegacyPreserved ==
  [][Converge => \A person \in People, r \in ActiveRows :
       LegacyWorked(person, r) => LegacyWorked(person, r)']_vars
=============================================================================
