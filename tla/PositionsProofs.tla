--------------------------- MODULE PositionsProofs ---------------------------
(***************************************************************************)
(* What module Positions guarantees for every number of People, catalogue  *)
(* rows, identities, Workdays, slots and forms in flight.                  *)
(***************************************************************************)
EXTENDS Positions, FiniteSetTheorems, TLAPS

-----------------------------------------------------------------------------
(* The type invariant is inductive only with the shape of what a form has  *)
(* checked, and with what the table's key and foreign keys give: a row     *)
(* that exists has an identity, and so do the rows that forms name.        *)

NameForm ==
  [kind : {"NAME"}, of : Rows \cup {NoRow}, name : Identities, read : Position]
SignalForm ==
  [kind : {"SIGNAL"}, person : People, of : Rows, family : {Manager, Employee},
   says : Manager \cup Employee \cup {"CLEAR"}, gone : SUBSET Signal]

FormsTyped == form \in [Requests -> {NoForm} \cup NameForm \cup SignalForm]

RowsNamed == \A r \in Rows : position[r].state # "NONE" => position[r].name \in Identities

FormSound(q) ==
  /\ form[q].kind = "NAME" /\ form[q].of \in Rows => position[form[q].of].state # "NONE"
  /\ form[q].kind = "SIGNAL" =>
       /\ position[form[q].of].state # "NONE"
       /\ form[q].says \in form[q].family \cup {"CLEAR"}
       /\ \A s \in form[q].gone : /\ s.person = form[q].person /\ s.of = form[q].of
                                  /\ s.says \in form[q].family

TypeInv == TypeOK /\ FormsTyped /\ RowsNamed /\ \A q \in Requests : FormSound(q)

-----------------------------------------------------------------------------
(* Forms and rows.                                                         *)

LEMMA FormKinds ==
  ASSUME FormsTyped, NEW q \in Requests
  PROVE  /\ form[q].kind = "NONE" <=> form[q] = NoForm
         /\ form[q].kind = "NAME" <=> form[q] \in NameForm
         /\ form[q].kind = "SIGNAL" <=> form[q] \in SignalForm
<1>1. form[q] \in {NoForm} \cup NameForm \cup SignalForm
  BY DEF FormsTyped
<1>2. CASE form[q] = NoForm
  BY <1>2 DEF NoForm, NameForm, SignalForm
<1>3. CASE form[q] \in NameForm
  BY <1>3 DEF NoForm, NameForm, SignalForm
<1>4. CASE form[q] \in SignalForm
  BY <1>4 DEF NoForm, NameForm, SignalForm
<1> QED
  BY <1>1, <1>2, <1>3, <1>4

LEMMA FormDone ==
  ASSUME FormsTyped, NEW q \in Requests, Done(q),
         \A r \in Rows : position[r].state # "NONE" => position'[r].state # "NONE",
         \A x \in Requests : FormSound(x)
  PROVE  FormsTyped' /\ \A x \in Requests : FormSound(x)'
<1>1. FormsTyped'
  BY DEF FormsTyped, Done
<1>2. ASSUME NEW x \in Requests
      PROVE  FormSound(x)'
  <2>1. CASE x = q
    BY <2>1 DEF FormsTyped, Done, NoForm, FormSound
  <2>2. CASE x # q
    <3>1. form'[x] = form[x]
      BY <2>2 DEF Done, FormsTyped
    <3>2. form[x].kind = "SIGNAL" => form[x].of \in Rows
      BY FormKinds DEF SignalForm
    <3> QED
      BY <3>1, <3>2 DEF FormSound
  <2> QED
    BY <2>1, <2>2
<1> QED
  BY <1>1, <1>2

LEMMA FormKept ==
  ASSUME FormsTyped, UNCHANGED form,
         \A r \in Rows : position[r].state # "NONE" => position'[r].state # "NONE",
         \A x \in Requests : FormSound(x)
  PROVE  FormsTyped' /\ \A x \in Requests : FormSound(x)'
<1>1. \A x \in Requests : form[x].kind = "SIGNAL" => form[x].of \in Rows
  BY FormKinds DEF SignalForm
<1> QED
  BY <1>1 DEF FormsTyped, FormSound

LEMMA FormRead ==
  ASSUME FormsTyped, NEW q \in Requests, NEW f \in NameForm \cup SignalForm,
         form' = [form EXCEPT ![q] = f], UNCHANGED position,
         f.kind = "NAME" /\ f.of \in Rows => position[f.of].state # "NONE",
         f.kind = "SIGNAL" =>
           /\ position[f.of].state # "NONE"
           /\ f.says \in f.family \cup {"CLEAR"}
           /\ \A s \in f.gone : s.person = f.person /\ s.of = f.of /\ s.says \in f.family,
         \A x \in Requests : FormSound(x)
  PROVE  FormsTyped' /\ \A x \in Requests : FormSound(x)'
<1>1. FormsTyped' /\ form'[q] = f /\ \A x \in Requests \ {q} : form'[x] = form[x]
  BY DEF FormsTyped
<1> QED
  BY <1>1 DEF FormSound

LEMMA SubmittedType ==
  ASSUME TypeOK, Submitted
  PROVE  forms' \in 0 .. MaxForms
BY PositionsAssumption DEF TypeOK, Submitted

LEMMA RowWritten ==
  ASSUME TypeOK, RowsNamed, NEW r \in Rows, NEW name \in Identities,
         NEW state \in {"ACTIVE", "ARCHIVED"},
         position' = [position EXCEPT ![r] = [name |-> name, state |-> state]]
  PROVE  /\ position' \in [Rows -> Position] /\ RowsNamed'
         /\ \A x \in Rows : position[x].state # "NONE" => position'[x].state # "NONE"
         /\ position'[r] = [name |-> name, state |-> state]
         /\ \A x \in Rows \ {r} : position'[x] = position[x]
BY DEF TypeOK, RowsNamed, Position

LEMMA RenamedType ==
  ASSUME TypeOK, NEW r \in Rows, NEW name \in Identities
  PROVE  /\ Renamed(position[r].name, name) \subseteq Identities
         /\ renamed \subseteq Renamed(position[r].name, name)
         /\ position[r].name # name /\ position[r].name # NoName =>
              position[r].name \in Renamed(position[r].name, name)
         /\ position[r].name # name => name \in Renamed(position[r].name, name)
BY PositionsAssumption DEF TypeOK, Renamed, Position

-----------------------------------------------------------------------------
(* The type invariant, one lemma for each action.                          *)

LEMMA SignalTyped ==
  ASSUME NEW person \in People, NEW r \in Rows,
         NEW says \in Manager \cup Employee \cup {"WORKED"}, NEW sourced \in BOOLEAN
  PROVE  [person |-> person, of |-> r, says |-> says, sourced |-> sourced] \in Signal
BY DEF Signal

LEMMA TypeInit ==
  ASSUME Init
  PROVE  TypeInv
<1>1. position \in [Rows -> Position] /\ RowsNamed
  BY PositionsAssumption DEF Init, Position, RowsNamed
<1>2. signals \subseteq Signal
  <2>1. PICK known \in SUBSET (People \X ActiveRows) :
          signals = {[person |-> k[1], of |-> k[2], says |-> "WORKED", sourced |-> FALSE]
                      : k \in known}
    BY DEF Init
  <2>2. \A k \in known : k[1] \in People /\ k[2] \in Rows
    BY DEF ActiveRows
  <2>3. \A k \in known :
          [person |-> k[1], of |-> k[2], says |-> "WORKED", sourced |-> FALSE] \in Signal
    BY <2>2, SignalTyped
  <2> QED
    BY <2>1, <2>3
<1>3. published \in [Days -> Crew]
  BY DEF Init, Crew, Nobody
<1>4. FormsTyped /\ \A q \in Requests : FormSound(q)
  BY DEF Init, FormsTyped, FormSound, NoForm
<1>5. refused \in BOOLEAN /\ scheduled \subseteq Days
  BY DEF Init
<1>8. forms \in 0 .. MaxForms
  BY PositionsAssumption DEF Init
<1>6. /\ imported \subseteq Days /\ restricted \subseteq People \X Identities
      /\ renamed \subseteq Identities /\ doubled \subseteq Identities
  BY DEF Init
<1>7. DOMAIN form = Requests
  BY DEF Init
<1> QED
  BY <1>1, <1>2, <1>3, <1>4, <1>5, <1>6, <1>7, <1>8 DEF TypeInv, TypeOK

LEMMA TypeNameRead ==
  ASSUME TypeInv, NEW q \in Requests, NEW r \in Rows \cup {NoRow}, NEW name \in Identities,
         NameRead(q, r, name)
  PROVE  TypeInv'
<1> DEFINE read == IF r = NoRow THEN [name |-> NoName, state |-> "NONE"] ELSE position[r]
           f == [kind |-> "NAME", of |-> r, name |-> name, read |-> read]
<1>1. read \in Position
  BY DEF TypeInv, TypeOK, Position
<1>2. f \in NameForm /\ f.kind = "NAME" /\ f.of = r
  BY <1>1 DEF NameForm
<1>3. r \in Rows => position[r].state # "NONE"
  BY DEF NameRead
<1>4. form' = [form EXCEPT ![q] = f] /\ UNCHANGED position
  BY DEF NameRead
<1> HIDE DEF f
<1>5. FormsTyped' /\ \A x \in Requests : FormSound(x)'
  BY <1>2, <1>3, <1>4, FormRead DEF TypeInv
<1>6. forms' \in 0 .. MaxForms
  BY SubmittedType DEF NameRead, TypeInv
<1>7. TypeOK'
  BY <1>5, <1>6 DEF NameRead, TypeInv, TypeOK, FormsTyped
<1>8. RowsNamed'
  BY <1>4 DEF TypeInv, RowsNamed
<1> QED
  BY <1>5, <1>7, <1>8 DEF TypeInv

LEMMA TypeCreate ==
  ASSUME TypeInv, NEW q \in Requests, Create(q)
  PROVE  TypeInv'
<1>1. form[q].name \in Identities
  BY FormKinds DEF TypeInv, Create, NameForm
<1>2. PICK r \in Rows :
        position' = [position EXCEPT ![r] = [name |-> form[q].name, state |-> "ACTIVE"]]
  BY DEF Create
<1>3. /\ position' \in [Rows -> Position] /\ RowsNamed'
      /\ \A x \in Rows : position[x].state # "NONE" => position'[x].state # "NONE"
  BY <1>1, <1>2, RowWritten DEF TypeInv
<1>4. FormsTyped' /\ \A x \in Requests : FormSound(x)'
  BY <1>3, FormDone DEF TypeInv, Create
<1>5. TypeOK'
  BY <1>3, <1>4 DEF Create, TypeInv, TypeOK, FormsTyped, history
<1> QED
  BY <1>3, <1>4, <1>5 DEF TypeInv

\* What update_position writes: a row that existed still does, and whatever name
\* the row loses or gains is on record.
LEMMA UpdateWrites ==
  ASSUME TypeInv, NEW q \in Requests, Update(q)
  PROVE  /\ position' \in [Rows -> Position] /\ RowsNamed'
         /\ \A x \in Rows : position[x].state # "NONE" => position'[x].state # "NONE"
         /\ \A x \in Rows : position'[x].name # position[x].name =>
              /\ position[x].state # "NONE"
              /\ {position[x].name, position'[x].name} \subseteq renamed'
         /\ renamed \subseteq renamed' /\ renamed' \subseteq Identities
         /\ doubled' \subseteq Identities
<1> DEFINE r == form[q].of
           name == IF form[q].name = form[q].read.name THEN position[r].name ELSE form[q].name
           state == IF form[q].read.state = "ACTIVE" THEN position[r].state ELSE "ACTIVE"
<1>1. r \in Rows /\ form[q].name \in Identities /\ form[q].kind = "NAME"
  BY FormKinds DEF TypeInv, Update, NameForm
<1>2. position[r].state \in {"ACTIVE", "ARCHIVED"} /\ position[r].name \in Identities
  BY <1>1 DEF TypeInv, TypeOK, Position, FormSound, RowsNamed
<1>3. name \in Identities /\ state \in {"ACTIVE", "ARCHIVED"}
  BY <1>1, <1>2
<1>4. position' = [position EXCEPT ![r] = [name |-> name, state |-> state]]
  BY DEF Update
<1>5. renamed' = Renamed(position[r].name, name)
  BY DEF Update
<1>6. doubled' = doubled \/ doubled' = doubled \cup {name}
  BY DEF Update
<1> HIDE DEF r, name, state
<1>7. /\ position' \in [Rows -> Position] /\ RowsNamed'
      /\ \A x \in Rows : position[x].state # "NONE" => position'[x].state # "NONE"
      /\ position'[r] = [name |-> name, state |-> state]
      /\ \A x \in Rows \ {r} : position'[x] = position[x]
  BY <1>1, <1>3, <1>4, RowWritten DEF TypeInv
<1>8. /\ Renamed(position[r].name, name) \subseteq Identities
      /\ renamed \subseteq Renamed(position[r].name, name)
      /\ position[r].name # name => {position[r].name, name} \subseteq Renamed(position[r].name, name)
  BY <1>1, <1>2, <1>3, RenamedType, PositionsAssumption DEF TypeInv
<1>9. doubled' \subseteq Identities
  BY <1>3, <1>6 DEF TypeInv, TypeOK
<1> QED
  BY <1>1, <1>2, <1>5, <1>7, <1>8, <1>9

LEMMA TypeUpdate ==
  ASSUME TypeInv, NEW q \in Requests, Update(q)
  PROVE  TypeInv'
<1>1. FormsTyped' /\ \A x \in Requests : FormSound(x)'
  BY UpdateWrites, FormDone DEF TypeInv, Update
<1>2. TypeOK'
  BY <1>1, UpdateWrites DEF Update, TypeInv, TypeOK, FormsTyped
<1> QED
  BY <1>1, <1>2, UpdateWrites DEF TypeInv

LEMMA ArchiveWrites ==
  ASSUME TypeInv, NEW r \in Rows, NEW name \in Identities, Archive(r, name)
  PROVE  /\ position' \in [Rows -> Position] /\ RowsNamed'
         /\ \A x \in Rows : position[x].state # "NONE" => position'[x].state # "NONE"
         /\ \A x \in Rows : position'[x].name # position[x].name =>
              /\ position[x].state # "NONE"
              /\ {position[x].name, position'[x].name} \subseteq renamed'
         /\ renamed \subseteq renamed' /\ renamed' \subseteq Identities
<1>1. position[r].name \in Identities /\ position[r].state # "NONE"
  BY DEF TypeInv, RowsNamed, Archive
<1>2. /\ position' \in [Rows -> Position] /\ RowsNamed'
      /\ \A x \in Rows : position[x].state # "NONE" => position'[x].state # "NONE"
      /\ position'[r] = [name |-> name, state |-> "ARCHIVED"]
      /\ \A x \in Rows \ {r} : position'[x] = position[x]
  BY RowWritten DEF TypeInv, Archive
<1>3. /\ renamed' \subseteq Identities /\ renamed \subseteq renamed'
      /\ position[r].name # name => {position[r].name, name} \subseteq renamed'
  BY <1>1, RenamedType, PositionsAssumption DEF TypeInv, Archive
<1> QED
  BY <1>1, <1>2, <1>3

LEMMA TypeArchive ==
  ASSUME TypeInv, NEW r \in Rows, NEW name \in Identities, Archive(r, name)
  PROVE  TypeInv'
<1>1. FormsTyped' /\ \A x \in Requests : FormSound(x)'
  BY ArchiveWrites, FormKept DEF TypeInv, Archive
<1>2. forms' \in 0 .. MaxForms
  BY SubmittedType DEF Archive, TypeInv
<1>3. TypeOK'
  BY <1>1, <1>2, ArchiveWrites DEF Archive, TypeInv, TypeOK, FormsTyped
<1> QED
  BY <1>1, <1>3, ArchiveWrites DEF TypeInv

LEMMA TypeSignalRead ==
  ASSUME TypeInv, NEW q \in Requests, NEW person \in People, NEW r \in Rows,
         NEW family \in {Manager, Employee}, NEW says \in family \cup {"CLEAR"},
         SignalRead(q, person, r, family, says)
  PROVE  TypeInv'
<1> DEFINE gone == {s \in signals : s.person = person /\ s.of = r /\ s.says \in family}
           f == [kind |-> "SIGNAL", person |-> person, of |-> r, family |-> family,
                 says |-> says, gone |-> gone]
<1>1. gone \subseteq Signal
  BY DEF TypeInv, TypeOK
<1>2. f \in SignalForm /\ f.kind = "SIGNAL" /\ f.of = r /\ f.says = says
        /\ f.family = family /\ f.person = person /\ f.gone = gone
  BY <1>1 DEF SignalForm
<1>3. position[r].state # "NONE"
  BY DEF SignalRead
<1>4. form' = [form EXCEPT ![q] = f] /\ UNCHANGED position
  BY DEF SignalRead
<1>5. \A s \in gone : s.person = person /\ s.of = r /\ s.says \in family
  OBVIOUS
<1> HIDE DEF f, gone
<1>6. FormsTyped' /\ \A x \in Requests : FormSound(x)'
  BY <1>2, <1>3, <1>4, <1>5, FormRead DEF TypeInv
<1>7. forms' \in 0 .. MaxForms
  BY SubmittedType DEF SignalRead, TypeInv
<1>8. TypeOK'
  BY <1>6, <1>7 DEF SignalRead, TypeInv, TypeOK, FormsTyped, history
<1>9. RowsNamed'
  BY <1>4 DEF TypeInv, RowsNamed
<1> QED
  BY <1>6, <1>8, <1>9 DEF TypeInv

LEMMA TypeSignalCommit ==
  ASSUME TypeInv, NEW q \in Requests, SignalCommit(q)
  PROVE  TypeInv'
<1>1. /\ form[q].person \in People /\ form[q].of \in Rows
      /\ form[q].says \in Manager \cup Employee \cup {"CLEAR"}
      /\ position[form[q].of].state # "NONE"
  BY FormKinds DEF TypeInv, SignalCommit, SignalForm, FormSound
<1>2. <<form[q].person, position[form[q].of].name>> \in People \X Identities
  BY <1>1 DEF TypeInv, RowsNamed
<1>3. signals' \subseteq Signal
  <2>1. form[q].says # "CLEAR" =>
          [person |-> form[q].person, of |-> form[q].of, says |-> form[q].says,
           sourced |-> FALSE] \in Signal
    BY <1>1, SignalTyped
  <2> QED
    BY <2>1 DEF SignalCommit, Decided, TypeInv, TypeOK
<1>4. restricted' \subseteq People \X Identities
  BY <1>2 DEF SignalCommit, TypeInv, TypeOK
<1>5. FormsTyped' /\ \A x \in Requests : FormSound(x)'
  BY FormDone DEF TypeInv, SignalCommit
<1>6. TypeOK'
  BY <1>3, <1>4, <1>5 DEF SignalCommit, TypeInv, TypeOK, FormsTyped
<1>7. RowsNamed'
  BY DEF TypeInv, RowsNamed, SignalCommit
<1> QED
  BY <1>5, <1>6, <1>7 DEF TypeInv

LEMMA TypeSignalRefused ==
  ASSUME TypeInv, NEW q \in Requests, SignalRefused(q)
  PROVE  TypeInv'
<1>1. FormsTyped' /\ \A x \in Requests : FormSound(x)'
  BY FormDone DEF TypeInv, SignalRefused
<1> QED
  BY <1>1 DEF SignalRefused, TypeInv, TypeOK, FormsTyped, RowsNamed, history

LEMMA TypeImportSignal ==
  ASSUME TypeInv, NEW person \in People, NEW r \in Rows,
         NEW says \in Manager \cup Employee \cup {"WORKED"}, ImportSignal(person, r, says)
  PROVE  TypeInv'
<1>1. FormsTyped' /\ \A x \in Requests : FormSound(x)'
  BY FormKept DEF TypeInv, ImportSignal
<1>2. forms' \in 0 .. MaxForms
  BY SubmittedType DEF ImportSignal, TypeInv
<1>3. signals' \subseteq Signal
  <2>1. [person |-> person, of |-> r, says |-> says, sourced |-> FALSE] \in Signal
    BY SignalTyped
  <2> QED
    BY <2>1 DEF ImportSignal, TypeInv, TypeOK
<1> QED
  BY <1>1, <1>2, <1>3 DEF ImportSignal, TypeInv, TypeOK, FormsTyped, RowsNamed, history

LEMMA HeldTyped ==
  ASSUME NEW crew \in Crew, NEW k \in Held(crew)
  PROVE  k \in People \X Rows
BY DEF Crew, Held

LEMMA TypePublish ==
  ASSUME TypeInv, NEW d \in Days, NEW crew \in Crew, Publish(d, crew)
  PROVE  TypeInv'
<1>1. FormsTyped' /\ \A x \in Requests : FormSound(x)'
  BY FormKept DEF TypeInv, Publish
<1>2. forms' \in 0 .. MaxForms
  BY SubmittedType DEF Publish, TypeInv
<1>3. signals' \subseteq Signal
  <2>1. \A k \in Unrecorded(crew) : k[1] \in People /\ k[2] \in Rows
    BY HeldTyped DEF Unrecorded
  <2>2. \A k \in Unrecorded(crew) :
          [person |-> k[1], of |-> k[2], says |-> "WORKED", sourced |-> TRUE] \in Signal
    BY <2>1, SignalTyped
  <2> QED
    BY <2>2 DEF Publish, TypeInv, TypeOK
<1>4. published' \in [Days -> Crew] /\ imported' \subseteq Days
  BY DEF Publish, TypeInv, TypeOK
<1> QED
  BY <1>1, <1>2, <1>3, <1>4 DEF Publish, TypeInv, TypeOK, FormsTyped, RowsNamed

LEMMA TypePublishRefused ==
  ASSUME TypeInv, NEW crew \in Crew, PublishRefused(crew)
  PROVE  TypeInv'
<1>1. FormsTyped' /\ \A x \in Requests : FormSound(x)'
  BY FormKept DEF TypeInv, PublishRefused
<1>2. forms' \in 0 .. MaxForms
  BY SubmittedType DEF PublishRefused, TypeInv
<1> QED
  BY <1>1, <1>2 DEF PublishRefused, TypeInv, TypeOK, FormsTyped, RowsNamed

LEMMA TypeImportDay ==
  ASSUME TypeInv, NEW d \in Days, NEW crew \in Crew, ImportDay(d, crew)
  PROVE  TypeInv'
<1>1. FormsTyped' /\ \A x \in Requests : FormSound(x)'
  BY FormKept DEF TypeInv, ImportDay
<1>2. forms' \in 0 .. MaxForms
  BY SubmittedType DEF ImportDay, TypeInv
<1>3. published' \in [Days -> Crew] /\ imported' \subseteq Days
  BY DEF ImportDay, TypeInv, TypeOK
<1> QED
  BY <1>1, <1>2, <1>3 DEF ImportDay, TypeInv, TypeOK, FormsTyped, RowsNamed

LEMMA TypeDecline ==
  ASSUME TypeInv, NEW d \in Days, NEW s \in Slots, Decline(d, s)
  PROVE  TypeInv'
<1>1. FormsTyped' /\ \A x \in Requests : FormSound(x)'
  BY FormKept DEF TypeInv, Decline
<1>2. published[d] \in Crew
  BY DEF TypeInv, TypeOK
<1>3. [published[d] EXCEPT ![s] = <<NoPerson, NoRow>>] \in Crew
  BY <1>2 DEF Crew
<1>4. published' \in [Days -> Crew]
  BY <1>3 DEF Decline, TypeInv, TypeOK
<1> QED
  BY <1>1, <1>4 DEF Decline, TypeInv, TypeOK, FormsTyped, RowsNamed, history

LEMMA TypeChangeStatus ==
  ASSUME TypeInv, NEW d \in Days, ChangeStatus(d)
  PROVE  TypeInv'
<1>1. FormsTyped' /\ \A x \in Requests : FormSound(x)'
  BY FormKept DEF TypeInv, ChangeStatus
<1>2. forms' \in 0 .. MaxForms
  BY SubmittedType DEF ChangeStatus, TypeInv
<1>3. scheduled' \subseteq Days
  BY DEF ChangeStatus, TypeInv, TypeOK
<1> QED
  BY <1>1, <1>2, <1>3 DEF ChangeStatus, TypeInv, TypeOK, FormsTyped, RowsNamed, history

\* What convergence leaves: every name, every row that exists, and every signal of
\* an identity at one of its rows; nothing is said that was not said before.
LEMMA ConvergeWrites ==
  ASSUME TypeInv, Converge
  PROVE  /\ position' \in [Rows -> Position]
         /\ \A r \in Rows : /\ position'[r].name = position[r].name
                            /\ position'[r].state = "NONE" <=> position[r].state = "NONE"
                            /\ position'[r].state = "ACTIVE" => position[r].state = "ACTIVE"
         /\ signals' \subseteq Signal
         /\ \A s \in signals' : \E t \in signals :
              /\ s.person = t.person /\ s.says = t.says /\ s.sourced = t.sourced
              /\ position[s.of].name = position[t.of].name
              /\ position[t.of].state = "NONE" <=> position[s.of].state = "NONE"
         /\ \A t \in signals : \E s \in signals' :
              /\ s.person = t.person /\ s.says = t.says
              /\ position[s.of].name = position[t.of].name
              /\ position[t.of].state = "NONE" <=> position[s.of].state = "NONE"
<1>1. PICK keep \in [Ambiguous -> ActiveRows] :
        /\ \A i \in Ambiguous : keep[i] \in ActiveOf(i)
        /\ position' = [r \in Rows |-> IF r \in Archived(keep)
                          THEN [position[r] EXCEPT !.state = "ARCHIVED"] ELSE position[r]]
        /\ LET keys == {k \in Ambiguous \X People \X (Manager \cup Employee \cup {"WORKED"}) :
                          Candidates(keep, k[1], k[2], k[3]) # {}}
           IN  \E chosen \in [keys -> signals] :
                 /\ \A k \in keys : chosen[k] \in Candidates(keep, k[1], k[2], k[3])
                 /\ signals' = {s \in signals : position[s.of].state # "ACTIVE"
                                                  \/ position[s.of].name \notin Ambiguous}
                      \cup {[chosen[k] EXCEPT !.of = keep[k[1]]] : k \in keys}
  BY DEF Converge
<1> DEFINE keys == {k \in Ambiguous \X People \X (Manager \cup Employee \cup {"WORKED"}) :
                      Candidates(keep, k[1], k[2], k[3]) # {}}
           stays == {s \in signals : position[s.of].state # "ACTIVE"
                                        \/ position[s.of].name \notin Ambiguous}
<1>2. PICK chosen \in [keys -> signals] :
        /\ \A k \in keys : chosen[k] \in Candidates(keep, k[1], k[2], k[3])
        /\ signals' = stays \cup {[chosen[k] EXCEPT !.of = keep[k[1]]] : k \in keys}
  BY <1>1
<1>3. position \in [Rows -> Position] /\ signals \subseteq Signal
  BY DEF TypeInv, TypeOK
<1>4. \A i \in Ambiguous : keep[i] \in Rows /\ position[keep[i]].state = "ACTIVE"
                           /\ position[keep[i]].name = i
  BY <1>1 DEF ActiveOf, ActiveRows
<1>5. \A r \in Archived(keep) : r \in Rows /\ position[r].state = "ACTIVE"
  BY DEF Archived, ActiveOf, ActiveRows
<1>6. \A k \in keys :
        /\ k[1] \in Ambiguous
        /\ chosen[k] \in signals /\ chosen[k] \in Signal
        /\ chosen[k].person = k[2] /\ chosen[k].says = k[3]
        /\ position[chosen[k].of].state = "ACTIVE" /\ position[chosen[k].of].name = k[1]
  BY <1>2, <1>3 DEF Candidates, ActiveOf, ActiveRows
<1>7. /\ position' \in [Rows -> Position]
      /\ \A r \in Rows : /\ position'[r].name = position[r].name
                         /\ position'[r].state = "NONE" <=> position[r].state = "NONE"
                         /\ position'[r].state = "ACTIVE" => position[r].state = "ACTIVE"
  <2>1. ASSUME NEW r \in Rows
        PROVE  /\ position'[r] \in Position
               /\ position'[r].name = position[r].name
               /\ position'[r].state = "NONE" <=> position[r].state = "NONE"
               /\ position'[r].state = "ACTIVE" => position[r].state = "ACTIVE"
    <3>1. position[r] \in Position
      BY <1>3
    <3>2. CASE r \in Archived(keep)
      <4>1. position'[r] = [position[r] EXCEPT !.state = "ARCHIVED"]
        BY <1>1, <3>2
      <4> QED
        BY <1>5, <3>1, <3>2, <4>1 DEF Position
    <3>3. CASE r \notin Archived(keep)
      <4>1. position'[r] = position[r]
        BY <1>1, <3>3
      <4> QED
        BY <3>1, <4>1
    <3> QED
      BY <3>2, <3>3
  <2>2. position' \in [Rows -> Position]
    BY <1>1, <2>1
  <2> QED
    BY <2>1, <2>2
<1>8. \A k \in keys : LET moved == [chosen[k] EXCEPT !.of = keep[k[1]]]
                     IN  /\ moved \in Signal
                         /\ moved.person = k[2] /\ moved.says = k[3]
                         /\ moved.sourced = chosen[k].sourced /\ moved.of = keep[k[1]]
  BY <1>4, <1>6 DEF Signal
<1> HIDE DEF keys
<1>9. signals' \subseteq Signal
  BY <1>2, <1>3, <1>8
<1>10. ASSUME NEW s \in signals'
       PROVE  \E t \in signals :
                /\ s.person = t.person /\ s.says = t.says /\ s.sourced = t.sourced
                /\ position[s.of].name = position[t.of].name
                /\ position[t.of].state = "NONE" <=> position[s.of].state = "NONE"
  <2>1. CASE s \in stays
    BY <2>1
  <2>2. CASE s \notin stays
    <3>1. PICK k \in keys : s = [chosen[k] EXCEPT !.of = keep[k[1]]]
      BY <1>2, <2>2
    <3>2. /\ s.person = chosen[k].person /\ s.says = chosen[k].says
          /\ s.sourced = chosen[k].sourced /\ s.of = keep[k[1]] /\ chosen[k] \in signals
      BY <1>6, <1>8, <3>1
    <3>3. /\ position[s.of].name = position[chosen[k].of].name
          /\ position[chosen[k].of].state = "NONE" <=> position[s.of].state = "NONE"
      BY <1>4, <1>6, <3>2
    <3> QED
      BY <3>2, <3>3
  <2> QED
    BY <2>1, <2>2
<1>11. ASSUME NEW t \in signals
       PROVE  \E s \in signals' :
                /\ s.person = t.person /\ s.says = t.says
                /\ position[s.of].name = position[t.of].name
                /\ position[t.of].state = "NONE" <=> position[s.of].state = "NONE"
  <2>1. CASE t \in stays
    BY <1>2, <2>1
  <2>2. CASE t \notin stays
    <3> DEFINE i == position[t.of].name
               k == <<i, t.person, t.says>>
    <3>1. i \in Ambiguous /\ position[t.of].state = "ACTIVE" /\ t \in Signal
      BY <1>3, <2>2
    <3>2. t.of \in ActiveOf(i)
      BY <3>1 DEF ActiveOf, ActiveRows, Signal
    <3>3. Candidates(keep, i, t.person, t.says) # {}
      BY <3>2 DEF Candidates
    <3>4. k \in keys /\ k[1] = i /\ k[2] = t.person /\ k[3] = t.says
      BY <3>1, <3>3 DEF keys, Signal
    <3>5. [chosen[k] EXCEPT !.of = keep[k[1]]] \in signals'
      BY <1>2, <3>4
    <3>6. PICK s \in signals' : s = [chosen[k] EXCEPT !.of = keep[k[1]]]
      BY <3>5
    <3>7. s.person = t.person /\ s.says = t.says /\ s.of = keep[i]
      BY <1>8, <3>4, <3>6
    <3> HIDE DEF k
    <3> QED
      BY <1>4, <3>1, <3>7
  <2> QED
    BY <2>1, <2>2
<1> QED
  BY <1>7, <1>9, <1>10, <1>11

LEMMA TypeConverge ==
  ASSUME TypeInv, Converge
  PROVE  TypeInv'
<1>1. FormsTyped' /\ \A x \in Requests : FormSound(x)'
  BY ConvergeWrites, FormKept DEF TypeInv, Converge
<1>2. TypeOK'
  BY <1>1, ConvergeWrites DEF Converge, TypeInv, TypeOK, FormsTyped, history
<1>3. \A r \in Rows : /\ position'[r].name = position[r].name
                      /\ position'[r].state = "NONE" <=> position[r].state = "NONE"
  BY ConvergeWrites
<1>4. RowsNamed'
  BY <1>3 DEF TypeInv, RowsNamed
<1> QED
  BY <1>1, <1>2, <1>4 DEF TypeInv

\* No form, no publication and no convergence leaves a value of another type.
LEMMA TypeStep ==
  ASSUME TypeInv, [Next]_vars
  PROVE  TypeInv'
<1>1. ASSUME NEW q \in Requests, NEW r \in Rows \cup {NoRow}, NEW name \in Identities,
             NameRead(q, r, name)
      PROVE  TypeInv'
  BY <1>1, TypeNameRead
<1>2. ASSUME NEW q \in Requests, Create(q) \/ Update(q) \/ SignalCommit(q) \/ SignalRefused(q)
      PROVE  TypeInv'
  BY <1>2, TypeCreate, TypeUpdate, TypeSignalCommit, TypeSignalRefused
<1>3. ASSUME NEW q \in Requests, NEW person \in People, NEW r \in Rows,
             NEW family \in {Manager, Employee}, NEW says \in family \cup {"CLEAR"},
             SignalRead(q, person, r, family, says)
      PROVE  TypeInv'
  BY <1>3, TypeSignalRead
<1>4. ASSUME NEW r \in Rows, NEW name \in Identities, Archive(r, name)
      PROVE  TypeInv'
  BY <1>4, TypeArchive
<1>5. ASSUME NEW person \in People, NEW r \in Rows,
             NEW says \in Manager \cup Employee \cup {"WORKED"}, ImportSignal(person, r, says)
      PROVE  TypeInv'
  BY <1>5, TypeImportSignal
<1>6. ASSUME NEW crew \in Crew, PublishRefused(crew)
      PROVE  TypeInv'
  BY <1>6, TypePublishRefused
<1>7. ASSUME NEW crew \in Crew, NEW d \in Days, Publish(d, crew) \/ ImportDay(d, crew)
      PROVE  TypeInv'
  BY <1>7, TypePublish, TypeImportDay
<1>8. ASSUME NEW d \in Days, ChangeStatus(d) \/ \E s \in Slots : Decline(d, s)
      PROVE  TypeInv'
  BY <1>8, TypeChangeStatus, TypeDecline
<1>9. CASE Converge
  BY <1>9, TypeConverge
<1>10. CASE UNCHANGED vars
  BY <1>10 DEF vars, history, TypeInv, TypeOK, FormsTyped, RowsNamed, FormSound
<1> QED
  BY <1>1, <1>2, <1>3, <1>4, <1>5, <1>6, <1>7, <1>8, <1>9, <1>10 DEF Next

\* The tables of the catalogue, the signals and the publications always hold
\* values of their columns' types.
THEOREM TypeCorrect == Spec => []TypeOK
<1>1. Init => TypeInv
  BY TypeInit
<1>2. TypeInv /\ [Next]_vars => TypeInv'
  BY TypeStep
<1>3. TypeInv => TypeOK
  BY DEF TypeInv
<1> QED
  BY <1>1, <1>2, <1>3, PTL DEF Spec

-----------------------------------------------------------------------------
(* What is said of a Person at an identity, whichever row says it.         *)

Known(person, name, says) ==
  \E s \in signals : /\ s.person = person /\ s.says = says
                     /\ position[s.of].state # "NONE" /\ position[s.of].name = name

\* The identities whose restriction stands, and the work that counts, are known:
\* what BlockStands and TwoDaysQualify need of every reachable state.
RestrictedKnown ==
  \A person \in People, name \in Identities :
    <<person, name>> \in restricted /\ name \notin renamed =>
      Known(person, name, "MANAGER_BLOCK")

SlotKnown(d, s) ==
  LET person == published[d][s][1]  r == published[d][s][2]
  IN  published[d][s] # <<NoPerson, NoRow>> =>
        /\ position[r].state # "NONE"
        /\ d \notin imported /\ position[r].name \notin renamed =>
             Known(person, position[r].name, "WORKED")

WorkKnown == \A d \in Days, s \in Slots : SlotKnown(d, s)

SaidInv == TypeInv /\ RestrictedKnown /\ WorkKnown

\* What no step does: a row that exists goes on existing, and one that is renamed
\* leaves both names on record.
RowsKept ==
  /\ renamed \subseteq renamed'
  /\ \A r \in Rows : position[r].state # "NONE" =>
       /\ position'[r].state # "NONE"
       /\ position'[r].name # position[r].name =>
            {position[r].name, position'[r].name} \subseteq renamed'

LEMMA RowsAlwaysKept ==
  ASSUME TypeInv, [Next]_vars
  PROVE  RowsKept
<1>1. ASSUME NEW q \in Requests, Create(q)
      PROVE  RowsKept
  BY <1>1 DEF Create, RowsKept, TypeInv, TypeOK, history
<1>2. ASSUME NEW q \in Requests, Update(q)
      PROVE  RowsKept
  BY <1>2, UpdateWrites DEF RowsKept
<1>3. ASSUME NEW r \in Rows, NEW name \in Identities, Archive(r, name)
      PROVE  RowsKept
  BY <1>3, ArchiveWrites DEF RowsKept
<1>4. CASE Converge
  <2>1. \A r \in Rows : /\ position'[r].name = position[r].name
                        /\ position'[r].state = "NONE" <=> position[r].state = "NONE"
    BY <1>4, ConvergeWrites
  <2> QED
    BY <1>4, <2>1 DEF Converge, RowsKept, history
<1>5. ASSUME UNCHANGED <<position, renamed>>
      PROVE  RowsKept
  BY <1>5 DEF RowsKept
<1>6. CASE UNCHANGED vars
  BY <1>5, <1>6 DEF vars, history
<1>7. ASSUME NEW q \in Requests,
             \/ \E r \in Rows \cup {NoRow}, name \in Identities : NameRead(q, r, name)
             \/ \E person \in People, r \in Rows, family \in {Manager, Employee} :
                  \E says \in family \cup {"CLEAR"} : SignalRead(q, person, r, family, says)
             \/ SignalCommit(q) \/ SignalRefused(q)
      PROVE  RowsKept
  BY <1>5, <1>7 DEF NameRead, SignalRead, SignalCommit, SignalRefused, history
<1>8. ASSUME NEW person \in People, NEW r \in Rows,
             NEW says \in Manager \cup Employee \cup {"WORKED"}, ImportSignal(person, r, says)
      PROVE  RowsKept
  BY <1>5, <1>8 DEF ImportSignal, history
<1>9. ASSUME NEW crew \in Crew,
             PublishRefused(crew) \/ \E d \in Days : Publish(d, crew) \/ ImportDay(d, crew)
      PROVE  RowsKept
  BY <1>5, <1>9 DEF PublishRefused, Publish, ImportDay
<1>10. ASSUME NEW d \in Days, ChangeStatus(d) \/ \E s \in Slots : Decline(d, s)
       PROVE  RowsKept
  BY <1>5, <1>10 DEF ChangeStatus, Decline, history
<1> QED
  BY <1>1, <1>2, <1>3, <1>4, <1>6, <1>7, <1>8, <1>9, <1>10 DEF Next

\* A signal that is not deleted goes on being known.
LEMMA KnownKept ==
  ASSUME TypeInv, RowsKept,
         NEW person \in People, NEW name \in Identities \ renamed', NEW says,
         Known(person, name, says),
         \A s \in signals : s.person = person /\ s.says = says /\ position[s.of].name = name =>
                            s \in signals'
  PROVE  Known(person, name, says)'
<1>1. PICK s \in signals : /\ s.person = person /\ s.says = says
                           /\ position[s.of].state # "NONE" /\ position[s.of].name = name
  BY DEF Known
<1>2. s.of \in Rows
  BY DEF TypeInv, TypeOK, Signal
<1>3. position'[s.of].state # "NONE" /\ position'[s.of].name = name
  BY <1>1, <1>2 DEF RowsKept
<1>4. s \in signals'
  BY <1>1
<1> QED
  BY <1>1, <1>3, <1>4 DEF Known

\* Convergence moves what is known and adds nothing to it.
LEMMA ConvergeKnown ==
  ASSUME TypeInv, Converge, NEW person \in People, NEW name \in Identities, NEW says
  PROVE  Known(person, name, says)' <=> Known(person, name, says)
<1>1. /\ signals \subseteq Signal /\ signals' \subseteq Signal
      /\ \A r \in Rows : /\ position'[r].name = position[r].name
                         /\ position'[r].state = "NONE" <=> position[r].state = "NONE"
  BY ConvergeWrites DEF TypeInv, TypeOK
<1>2. \A s \in Signal : s.of \in Rows
  BY DEF Signal
<1>3. ASSUME Known(person, name, says)
      PROVE  Known(person, name, says)'
  <2>1. PICK t \in signals : /\ t.person = person /\ t.says = says
                             /\ position[t.of].state # "NONE" /\ position[t.of].name = name
    BY <1>3 DEF Known
  <2>2. PICK s \in signals' : /\ s.person = t.person /\ s.says = t.says
                              /\ position[s.of].name = position[t.of].name
                              /\ position[t.of].state = "NONE" <=> position[s.of].state = "NONE"
    BY ConvergeWrites
  <2>3. s.of \in Rows
    BY <1>1, <1>2
  <2>4. position'[s.of].state # "NONE" /\ position'[s.of].name = name
    BY <1>1, <2>1, <2>2, <2>3
  <2> QED
    BY <2>1, <2>2, <2>4 DEF Known
<1>4. ASSUME Known(person, name, says)'
      PROVE  Known(person, name, says)
  <2>1. PICK s \in signals' : /\ s.person = person /\ s.says = says
                              /\ position'[s.of].state # "NONE" /\ position'[s.of].name = name
    BY <1>4 DEF Known
  <2>2. PICK t \in signals : /\ s.person = t.person /\ s.says = t.says
                             /\ position[s.of].name = position[t.of].name
                             /\ position[t.of].state = "NONE" <=> position[s.of].state = "NONE"
    BY ConvergeWrites
  <2>3. position[s.of].state # "NONE" /\ position[s.of].name = name
    BY <1>1, <1>2, <2>1
  <2> QED
    BY <2>1, <2>2, <2>3 DEF Known
<1> QED
  BY <1>3, <1>4

LEMMA RestrictedFrame ==
  ASSUME TypeInv, RestrictedKnown, RowsKept, restricted' \subseteq restricted,
         \A person \in People, name \in Identities \ renamed' :
           Known(person, name, "MANAGER_BLOCK") => Known(person, name, "MANAGER_BLOCK")'
  PROVE  RestrictedKnown'
BY DEF RestrictedKnown, RowsKept

\* A slot that was filled before the step: its row still exists, and its work is
\* still known.
LEMMA WorkFrame ==
  ASSUME TypeInv, RowsKept, NEW d \in Days, NEW s \in Slots, SlotKnown(d, s),
         published'[d][s] \in {published[d][s], <<NoPerson, NoRow>>},
         d \in imported => d \in imported',
         \A person \in People, name \in Identities \ renamed' :
           Known(person, name, "WORKED") => Known(person, name, "WORKED")'
  PROVE  SlotKnown(d, s)'
<1>1. CASE published'[d][s] = <<NoPerson, NoRow>>
  BY <1>1 DEF SlotKnown
<1>2. CASE published'[d][s] = published[d][s] /\ published[d][s] # <<NoPerson, NoRow>>
  <2>1. PICK person \in People, r \in Rows : published[d][s] = <<person, r>>
    BY <1>2 DEF TypeInv, TypeOK, Crew
  <2>2. published'[d][s][1] = person /\ published'[d][s][2] = r
    BY <1>2, <2>1
  <2>3. /\ position[r].state # "NONE" /\ position[r].name \in Identities
        /\ d \notin imported /\ position[r].name \notin renamed =>
             Known(person, position[r].name, "WORKED")
    BY <1>2, <2>1 DEF SlotKnown, TypeInv, RowsNamed
  <2>4. /\ position'[r].state # "NONE"
        /\ position'[r].name \notin renamed' => /\ position[r].name = position'[r].name
                                                /\ position[r].name \notin renamed
    BY <2>3 DEF RowsKept
  <2>5. PICK name \in Identities : name = position[r].name
    BY <2>3
  <2>6. position'[r].name \notin renamed' => /\ name = position'[r].name
                                             /\ name \in Identities \ renamed'
    BY <2>4, <2>5
  <2>7. d \notin imported' /\ position'[r].name \notin renamed' => Known(person, name, "WORKED")'
    BY <2>3, <2>4, <2>5, <2>6
  <2> QED
    BY <1>2, <2>2, <2>4, <2>6, <2>7 DEF SlotKnown
<1> QED
  BY <1>1, <1>2

-----------------------------------------------------------------------------
(* What is known stays known: the invariant of the two properties.         *)

\* Steps that delete no signal.
LEMMA SignalsGrow ==
  ASSUME TypeInv, RowsKept, signals \subseteq signals', NEW says
  PROVE  \A person \in People, name \in Identities \ renamed' :
           Known(person, name, says) => Known(person, name, says)'
BY KnownKept

\* set_preference_signal: the deleted rows are the family's own, of one Person at
\* one row, and no worked signal is of a family.
LEMMA SaidSignalCommit ==
  ASSUME SaidInv, NEW q \in Requests, SignalCommit(q), RowsKept
  PROVE  RestrictedKnown' /\ WorkKnown'
<1>1. /\ TypeInv /\ form[q].person \in People /\ form[q].of \in Rows
      /\ form[q].family \in {Manager, Employee} /\ form[q].says \in form[q].family \cup {"CLEAR"}
      /\ position[form[q].of].state # "NONE"
      /\ \A s \in form[q].gone : /\ s.person = form[q].person /\ s.of = form[q].of
                                 /\ s.says \in form[q].family
  BY FormKinds DEF SaidInv, TypeInv, SignalCommit, SignalForm, FormSound
<1>2. \A s \in signals : s \in form[q].gone \/ s \in signals'
  BY DEF SignalCommit, Decided
<1>3. \A person \in People, name \in Identities \ renamed' :
        Known(person, name, "WORKED") => Known(person, name, "WORKED")'
  <2>1. \A s \in signals : s.says = "WORKED" => s \in signals'
    BY <1>1, <1>2 DEF Manager, Employee
  <2> QED
    BY <1>1, <2>1, KnownKept
<1>4. WorkKnown'
  <2>1. ASSUME NEW d \in Days, NEW s \in Slots
        PROVE  SlotKnown(d, s)'
    <3>1. SlotKnown(d, s) /\ published' = published /\ imported' = imported
      BY DEF SaidInv, WorkKnown, SignalCommit
    <3> QED
      BY <1>1, <1>3, <3>1, WorkFrame
  <2> QED
    BY <2>1 DEF WorkKnown
<1>5. ASSUME NEW person \in People, NEW name \in Identities,
             <<person, name>> \in restricted', name \notin renamed'
      PROVE  Known(person, name, "MANAGER_BLOCK")'
  <2> DEFINE about == <<form[q].person, position[form[q].of].name>>
  <2>1. CASE form[q].says = "MANAGER_BLOCK" /\ <<person, name>> = about
    <3> DEFINE g == [person |-> form[q].person, of |-> form[q].of, says |-> form[q].says,
                     sourced |-> FALSE]
    <3>1. /\ g \in signals' /\ g.of = form[q].of
          /\ g.person = person /\ g.says = "MANAGER_BLOCK"
      BY <2>1 DEF SignalCommit, Decided
    <3>2. position' = position /\ position[form[q].of].name = name
      BY <2>1 DEF SignalCommit
    <3> QED
      BY <1>1, <3>1, <3>2 DEF Known
  <2>2. CASE ~(form[q].says = "MANAGER_BLOCK" /\ <<person, name>> = about)
    <3>1. <<person, name>> \in restricted /\ (form[q].family = Manager => <<person, name>> # about)
      BY <1>5, <2>2 DEF SignalCommit
    <3>2. name \in Identities \ renamed'
      BY <1>5
    <3>3. Known(person, name, "MANAGER_BLOCK")
      BY <1>5, <3>1 DEF SaidInv, RestrictedKnown, RowsKept
    <3>4. ASSUME NEW s \in signals, s.person = person, s.says = "MANAGER_BLOCK",
                 position[s.of].name = name
          PROVE  s \in signals'
      <4>1. CASE s \in form[q].gone
        <5>1. s.of = form[q].of /\ s.person = form[q].person /\ "MANAGER_BLOCK" \in form[q].family
          BY <1>1, <3>4, <4>1
        <5>2. form[q].family = Manager
          BY <1>1, <5>1 DEF Employee
        <5> QED
          BY <3>1, <3>4, <5>1, <5>2
      <4> QED
        BY <1>2, <4>1
    <3> QED
      BY <1>1, <3>2, <3>3, <3>4, KnownKept
  <2> QED
    BY <2>1, <2>2
<1> QED
  BY <1>4, <1>5 DEF RestrictedKnown

\* The publication of a Workday and the signals that infer_worked_capability adds.
LEMMA SaidPublish ==
  ASSUME SaidInv, NEW d \in Days, NEW crew \in Crew, Publish(d, crew), RowsKept
  PROVE  RestrictedKnown' /\ WorkKnown'
<1>1. TypeInv /\ signals \subseteq signals' /\ position' = position /\ restricted' = restricted
  BY DEF SaidInv, Publish
<1>2. RestrictedKnown'
  BY <1>1, SignalsGrow, RestrictedFrame DEF SaidInv
<1>3. ASSUME NEW x \in Days, NEW s \in Slots
      PROVE  SlotKnown(x, s)'
  <2>1. CASE x # d
    <3>1. SlotKnown(x, s) /\ published'[x] = published[x] /\ (x \in imported => x \in imported')
      BY <2>1 DEF SaidInv, WorkKnown, Publish, TypeInv, TypeOK
    <3> QED
      BY <1>1, <3>1, SignalsGrow, WorkFrame
  <2>2. CASE x = d /\ crew[s] = <<NoPerson, NoRow>>
    <3>1. published'[x][s] = <<NoPerson, NoRow>>
      BY <2>2 DEF SaidInv, Publish, TypeInv, TypeOK
    <3> QED
      BY <3>1 DEF SlotKnown
  <2>3. CASE x = d /\ crew[s] # <<NoPerson, NoRow>>
    <3>1. PICK person \in People, r \in Rows : crew[s] = <<person, r>>
      BY <2>3 DEF Crew
    <3>2. published'[x][s] = <<person, r>> /\ <<person, r>> \in Held(crew)
      BY <2>3, <3>1 DEF SaidInv, Publish, TypeInv, TypeOK, Held
    <3>3. position[r].state # "NONE"
      BY <3>2 DEF Publish, Exists
    <3>4. \E g \in signals' : g.person = person /\ g.of = r /\ g.says = "WORKED"
      <4>1. CASE <<person, r>> \in Unrecorded(crew)
        <5>1. [person |-> person, of |-> r, says |-> "WORKED", sourced |-> TRUE] \in signals'
          <6>1. \A k \in Unrecorded(crew) :
                  [person |-> k[1], of |-> k[2], says |-> "WORKED", sourced |-> TRUE] \in signals'
            BY DEF Publish
          <6> QED
            BY <4>1, <6>1
        <5> QED
          BY <5>1
      <4>2. CASE <<person, r>> \notin Unrecorded(crew)
        <5>1. Has(signals, person, r, "WORKED")
          BY <3>2, <4>2 DEF Unrecorded
        <5> QED
          BY <1>1, <5>1 DEF Has
      <4> QED
        BY <4>1, <4>2
    <3>5. PICK name : name = position[r].name
      OBVIOUS
    <3>6. Known(person, name, "WORKED")'
      BY <1>1, <3>3, <3>4, <3>5 DEF Known
    <3>7. published'[x][s][1] = person /\ published'[x][s][2] = r
      BY <3>2
    <3> QED
      BY <1>1, <3>3, <3>5, <3>6, <3>7 DEF SlotKnown
  <2> QED
    BY <2>1, <2>2, <2>3
<1> QED
  BY <1>2, <1>3 DEF WorkKnown

\* The transition import: the day it creates counts as imported.
LEMMA SaidImportDay ==
  ASSUME SaidInv, NEW d \in Days, NEW crew \in Crew, ImportDay(d, crew), RowsKept
  PROVE  RestrictedKnown' /\ WorkKnown'
<1>1. /\ TypeInv /\ signals \subseteq signals' /\ position' = position
      /\ restricted' = restricted /\ imported' = imported \cup {d}
  BY DEF SaidInv, ImportDay
<1>2. RestrictedKnown'
  BY <1>1, SignalsGrow, RestrictedFrame DEF SaidInv
<1>3. ASSUME NEW x \in Days, NEW s \in Slots
      PROVE  SlotKnown(x, s)'
  <2>1. CASE x # d
    <3>1. SlotKnown(x, s) /\ published'[x] = published[x]
      BY <2>1 DEF SaidInv, WorkKnown, ImportDay, TypeInv, TypeOK
    <3> QED
      BY <1>1, <3>1, SignalsGrow, WorkFrame
  <2>2. CASE x = d /\ crew[s] = <<NoPerson, NoRow>>
    <3>1. published'[x][s] = <<NoPerson, NoRow>>
      BY <2>2 DEF SaidInv, ImportDay, TypeInv, TypeOK
    <3> QED
      BY <3>1 DEF SlotKnown
  <2>3. CASE x = d /\ crew[s] # <<NoPerson, NoRow>>
    <3>1. PICK person \in People, r \in Rows : crew[s] = <<person, r>>
      BY <2>3 DEF Crew
    <3>2. published'[x][s] = <<person, r>> /\ <<person, r>> \in Held(crew)
      BY <2>3, <3>1 DEF SaidInv, ImportDay, TypeInv, TypeOK, Held
    <3>3. position[r].state # "NONE" /\ x \in imported'
      BY <1>1, <2>3, <3>2 DEF ImportDay, Exists
    <3>4. published'[x][s][1] = person /\ published'[x][s][2] = r
      BY <3>2
    <3> QED
      BY <1>1, <3>3, <3>4 DEF SlotKnown
  <2> QED
    BY <2>1, <2>2, <2>3
<1> QED
  BY <1>2, <1>3 DEF WorkKnown

\* Every other step: nothing known is lost, no Person is restricted and no slot is
\* filled.
LEMMA SaidFrame ==
  ASSUME SaidInv, RowsKept, UNCHANGED <<restricted, imported>>,
         \A d \in Days, s \in Slots : published'[d][s] \in {published[d][s], <<NoPerson, NoRow>>},
         \A says : \A person \in People, name \in Identities \ renamed' :
           Known(person, name, says) => Known(person, name, says)'
  PROVE  RestrictedKnown' /\ WorkKnown'
<1>1. TypeInv /\ RestrictedKnown /\ WorkKnown /\ restricted' = restricted /\ imported' = imported
  BY DEF SaidInv
<1>2. RestrictedKnown'
  <2>1. \A person \in People, name \in Identities \ renamed' :
          Known(person, name, "MANAGER_BLOCK") => Known(person, name, "MANAGER_BLOCK")'
    OBVIOUS
  <2> QED
    BY <1>1, <2>1, RestrictedFrame
<1>3. ASSUME NEW d \in Days, NEW s \in Slots
      PROVE  SlotKnown(d, s)'
  <2>1. \A person \in People, name \in Identities \ renamed' :
          Known(person, name, "WORKED") => Known(person, name, "WORKED")'
    OBVIOUS
  <2>2. SlotKnown(d, s)
    BY <1>1 DEF WorkKnown
  <2> QED
    BY <1>1, <2>1, <2>2, WorkFrame
<1> QED
  BY <1>2, <1>3 DEF WorkKnown

LEMMA SaidStep ==
  ASSUME SaidInv, [Next]_vars
  PROVE  SaidInv'
<1>1. TypeInv /\ TypeInv' /\ RowsKept
  BY TypeStep, RowsAlwaysKept DEF SaidInv
<1>2. ASSUME signals \subseteq signals', UNCHANGED <<restricted, imported>>,
             \A d \in Days, s \in Slots :
               published'[d][s] \in {published[d][s], <<NoPerson, NoRow>>}
      PROVE  SaidInv'
  BY <1>1, <1>2, SignalsGrow, SaidFrame DEF SaidInv
<1>3. ASSUME NEW q \in Requests,
             \/ \E r \in Rows \cup {NoRow}, name \in Identities : NameRead(q, r, name)
             \/ Create(q) \/ Update(q) \/ SignalRefused(q)
             \/ \E person \in People, r \in Rows, family \in {Manager, Employee} :
                  \E says \in family \cup {"CLEAR"} : SignalRead(q, person, r, family, says)
      PROVE  SaidInv'
  <2>1. UNCHANGED <<signals, published, restricted, imported>>
    BY <1>3 DEF NameRead, Create, Update, SignalRefused, SignalRead, history
  <2> QED
    BY <1>2, <2>1
<1>4. ASSUME NEW q \in Requests, SignalCommit(q)
      PROVE  SaidInv'
  BY <1>1, <1>4, SaidSignalCommit DEF SaidInv
<1>5. ASSUME NEW r \in Rows, NEW name \in Identities, Archive(r, name)
      PROVE  SaidInv'
  BY <1>2, <1>5 DEF Archive
<1>6. ASSUME NEW person \in People, NEW r \in Rows,
             NEW says \in Manager \cup Employee \cup {"WORKED"}, ImportSignal(person, r, says)
      PROVE  SaidInv'
  BY <1>2, <1>6 DEF ImportSignal, history
<1>7. ASSUME NEW crew \in Crew, PublishRefused(crew)
      PROVE  SaidInv'
  BY <1>2, <1>7 DEF PublishRefused
<1>8. ASSUME NEW crew \in Crew, NEW d \in Days, Publish(d, crew) \/ ImportDay(d, crew)
      PROVE  SaidInv'
  BY <1>1, <1>8, SaidPublish, SaidImportDay DEF SaidInv
<1>9. ASSUME NEW d \in Days, ChangeStatus(d)
      PROVE  SaidInv'
  BY <1>2, <1>9 DEF ChangeStatus, history
<1>10. ASSUME NEW d \in Days, NEW s \in Slots, Decline(d, s)
       PROVE  SaidInv'
  <2>1. \A x \in Days, y \in Slots :
          published'[x][y] \in {published[x][y], <<NoPerson, NoRow>>}
    BY <1>1, <1>10 DEF Decline, TypeInv, TypeOK, Crew
  <2> QED
    BY <1>2, <1>10, <2>1 DEF Decline, history
<1>11. CASE Converge
  <2>1. \A says : \A person \in People, name \in Identities \ renamed' :
          Known(person, name, says) => Known(person, name, says)'
    BY <1>1, <1>11, ConvergeKnown
  <2>2. UNCHANGED <<published, restricted, imported>>
    BY <1>11 DEF Converge, history
  <2> QED
    BY <1>1, <2>1, <2>2, SaidFrame DEF SaidInv
<1>12. CASE UNCHANGED vars
  BY <1>2, <1>12 DEF vars, history
<1> QED
  BY <1>3, <1>4, <1>5, <1>6, <1>7, <1>8, <1>9, <1>10, <1>11, <1>12 DEF Next

LEMMA SaidAlways == Spec => []SaidInv
<1>1. Init => SaidInv
  <2>1. ASSUME Init
        PROVE  SaidInv
    <3>1. restricted = {} /\ \A d \in Days, s \in Slots : published[d][s] = <<NoPerson, NoRow>>
      BY <2>1 DEF Init, Nobody
    <3> QED
      BY <2>1, <3>1, TypeInit DEF SaidInv, RestrictedKnown, WorkKnown, SlotKnown
  <2> QED
    BY <2>1
<1>2. SaidInv /\ [Next]_vars => SaidInv'
  BY SaidStep
<1> QED
  BY <1>1, <1>2, PTL DEF Spec

-----------------------------------------------------------------------------
(* The properties of eligibility.                                          *)

LEMMA SaidIsKnown ==
  ASSUME TypeInv, NEW person \in People, NEW r \in Rows, NEW says
  PROVE  says \in Said(person, r) <=> Known(person, position[r].name, says)
<1>1. \A s \in signals : s.of \in Rows
  BY DEF TypeInv, TypeOK, Signal
<1> QED
  BY <1>1 DEF Said, Known, Alike

\* A Manager's restriction stands under every row of the identity until a Manager
\* decides again, whatever else is said, published, imported or converged: for any
\* number of rows that share the identity (app/positions, app/crew).
THEOREM RestrictionsAlwaysStand == Spec => []BlockStands
<1>1. ASSUME SaidInv, NEW person \in People, NEW r \in ActiveRows,
             <<person, position[r].name>> \in restricted, position[r].name \notin renamed
      PROVE  ~Eligible(person, r)
  <2>1. r \in Rows /\ position[r].state = "ACTIVE" /\ TypeInv
    BY <1>1 DEF ActiveRows, SaidInv
  <2>2. position[r].name \in Identities
    BY <2>1 DEF TypeInv, RowsNamed
  <2>3. Known(person, position[r].name, "MANAGER_BLOCK")
    BY <1>1, <2>2 DEF SaidInv, RestrictedKnown
  <2>4. "MANAGER_BLOCK" \in Said(person, r)
    BY <2>1, <2>3, SaidIsKnown
  <2> QED
    BY <2>4 DEF Eligible
<1>2. SaidInv => BlockStands
  BY <1>1 DEF BlockStands
<1> QED
  BY <1>2, SaidAlways, PTL

\* Two scheduled Workdays that count, not all of them imported, are enough for a
\* Person about whom nothing else was decided, under whichever row of the identity:
\* the worked signal that the first publication wrote is never lost (app/positions,
\* rostering/service.py _publish).
THEOREM TwoDaysAlwaysQualify == Spec => []TwoDaysQualify
<1>1. ASSUME SaidInv, NEW person \in People, NEW r \in ActiveRows,
             Cardinality(WorkedDays(person, r)) >= 2, ~(WorkedDays(person, r) \subseteq imported),
             Said(person, r) \subseteq {"WORKED"}, position[r].name \notin renamed
      PROVE  Eligible(person, r)
  <2>1. r \in Rows /\ position[r].state = "ACTIVE" /\ TypeInv
    BY <1>1 DEF ActiveRows, SaidInv
  <2>2. PICK d \in WorkedDays(person, r) : d \notin imported
    BY <1>1
  <2>3. PICK s \in Slots : published[d][s] \in {person} \X Alike(r)
    BY <2>2 DEF WorkedDays
  <2>4. PICK x \in Alike(r) : published[d][s] = <<person, x>>
    BY <2>3
  <2>5. x \in Rows /\ position[x].name = position[r].name
    BY <2>4 DEF Alike
  <2>6. d \in Days
    BY <2>1, <2>2 DEF WorkedDays, TypeInv, TypeOK
  <2>7. published[d][s] # <<NoPerson, NoRow>>
    BY <2>4, PositionsAssumption
  <2>8. Known(person, position[r].name, "WORKED")
    BY <1>1, <2>2, <2>4, <2>5, <2>6, <2>7 DEF SaidInv, WorkKnown, SlotKnown
  <2>9. "WORKED" \in Said(person, r)
    BY <2>1, <2>8, SaidIsKnown
  <2> QED
    BY <1>1, <2>9 DEF Eligible
<1>2. SaidInv => TwoDaysQualify
  BY <1>1 DEF TwoDaysQualify
<1> QED
  BY <1>2, SaidAlways, PTL

LEMMA ConvergeKeeps ==
  ASSUME TypeInv, Converge, NEW person \in People, NEW r \in Rows
  PROVE  /\ Alike(r)' = Alike(r)
         /\ Said(person, r)' = Said(person, r)
         /\ WorkedDays(person, r)' = WorkedDays(person, r)
         /\ LegacyWorked(person, r)' => LegacyWorked(person, r)
<1>1. /\ \A x \in Rows : /\ position'[x].name = position[x].name
                         /\ position'[x].state = "NONE" <=> position[x].state = "NONE"
      /\ signals' \subseteq Signal
  BY ConvergeWrites
<1>2. Alike(r)' = Alike(r)
  BY <1>1 DEF Alike
<1>3. UNCHANGED <<published, scheduled>>
  BY DEF Converge
<1>4. WorkedDays(person, r)' = WorkedDays(person, r)
  BY <1>2, <1>3 DEF WorkedDays
<1>5. ASSUME NEW s \in signals', NEW t \in signals, s.of \in Alike(r)',
             position[s.of].name = position[t.of].name,
             position[t.of].state = "NONE" <=> position[s.of].state = "NONE"
      PROVE  t.of \in Alike(r)
  <2>1. t.of \in Rows
    BY DEF TypeInv, TypeOK, Signal
  <2> QED
    BY <1>2, <1>5, <2>1 DEF Alike
<1>6. ASSUME NEW t \in signals, NEW s \in signals', t.of \in Alike(r),
             position[s.of].name = position[t.of].name,
             position[t.of].state = "NONE" <=> position[s.of].state = "NONE"
      PROVE  s.of \in Alike(r)'
  <2>1. s.of \in Rows
    BY <1>1 DEF Signal
  <2> QED
    BY <1>2, <1>6, <2>1 DEF Alike
<1>7. Said(person, r)' \subseteq Said(person, r)
  <2>1. ASSUME NEW s \in signals', s.person = person, s.of \in Alike(r)'
        PROVE  \E t \in signals : t.person = person /\ t.of \in Alike(r) /\ t.says = s.says
    <3>1. PICK t \in signals : /\ s.person = t.person /\ s.says = t.says
                               /\ position[s.of].name = position[t.of].name
                               /\ position[t.of].state = "NONE" <=> position[s.of].state = "NONE"
      BY ConvergeWrites
    <3> QED
      BY <1>5, <2>1, <3>1
  <2> QED
    BY <2>1 DEF Said
<1>8. Said(person, r) \subseteq Said(person, r)'
  <2>1. ASSUME NEW t \in signals, t.person = person, t.of \in Alike(r)
        PROVE  \E s \in signals' : s.person = person /\ s.of \in Alike(r)' /\ s.says = t.says
    <3>1. PICK s \in signals' : /\ s.person = t.person /\ s.says = t.says
                                /\ position[s.of].name = position[t.of].name
                                /\ position[t.of].state = "NONE" <=> position[s.of].state = "NONE"
      BY ConvergeWrites
    <3> QED
      BY <1>6, <2>1, <3>1
  <2> QED
    BY <2>1 DEF Said
<1>9. LegacyWorked(person, r)' => LegacyWorked(person, r)
  <2>1. ASSUME NEW s \in signals', s.person = person, s.of \in Alike(r)', s.says = "WORKED",
               ~s.sourced
        PROVE  \E t \in signals : /\ t.person = person /\ t.of \in Alike(r)
                                  /\ t.says = "WORKED" /\ ~t.sourced
    <3>1. PICK t \in signals : /\ s.person = t.person /\ s.says = t.says /\ s.sourced = t.sourced
                               /\ position[s.of].name = position[t.of].name
                               /\ position[t.of].state = "NONE" <=> position[s.of].state = "NONE"
      BY ConvergeWrites
    <3> QED
      BY <1>5, <2>1, <3>1
  <2> QED
    BY <2>1 DEF LegacyWorked
<1> QED
  BY <1>2, <1>4, <1>7, <1>8, <1>9

\* Convergence changes nobody's eligibility at a row that stays active, except by
\* dropping an imported record of work for a recorded one: however many duplicates
\* an identity has (apply_position_convergence).
THEOREM ConvergenceAlwaysNeutral == Spec => ConvergenceNeutral
<1> DEFINE Neutral ==
      Converge => \A person \in People, r \in ActiveRows :
        position'[r].state = "ACTIVE" /\ Eligible(person, r) # Eligible(person, r)' =>
          LegacyWorked(person, r) /\ ~LegacyWorked(person, r)'
<1>1. ASSUME TypeInv, Converge, NEW person \in People, NEW r \in ActiveRows,
             ~(LegacyWorked(person, r) /\ ~LegacyWorked(person, r)')
      PROVE  Eligible(person, r) = Eligible(person, r)'
  <2>1. r \in Rows
    BY DEF ActiveRows
  <2>2. LegacyWorked(person, r)' <=> LegacyWorked(person, r)
    BY <1>1, <2>1, ConvergeKeeps
  <2> QED
    BY <1>1, <2>1, <2>2, ConvergeKeeps DEF Eligible
<1>2. TypeInv /\ [Next]_vars => [Neutral]_vars
  BY <1>1
<1>3. Spec => []TypeInv
  BY TypeInit, TypeStep, PTL DEF Spec
<1> QED
  BY <1>2, <1>3, PTL DEF Spec, ConvergenceNeutral

-----------------------------------------------------------------------------
(* One active row for each identity.                                       *)

\* What the check of a form leaves true until it commits, of an identity that no
\* overlapping forms have named: the form is alone, and no row but its own is active.
OneNamed(i) ==
  /\ \A a, b \in ActiveOf(i) : a = b
  /\ \A q, x \in Naming(i) : q = x
  /\ \A q \in Naming(i), a \in ActiveOf(i) : a = form[q].of

OneInv == TypeInv /\ \A i \in Identities \ doubled : OneNamed(i)

LEMMA OneKept ==
  ASSUME NEW i \in Identities \ doubled', OneInv, doubled \subseteq doubled',
         \A a \in Rows : position'[a].state = "ACTIVE" /\ position'[a].name = i =>
                          position[a].state = "ACTIVE" /\ position[a].name = i,
         \A q \in Requests : form'[q].kind = "NAME" /\ form'[q].name = i => form'[q] = form[q]
  PROVE  OneNamed(i)'
<1>1. OneNamed(i)
  BY DEF OneInv
<1>2. \A a \in ActiveOf(i)' : a \in ActiveOf(i)
  BY DEF ActiveOf, ActiveRows
<1>3. \A q \in Naming(i)' : q \in Naming(i) /\ form'[q] = form[q]
  BY DEF Naming
<1> QED
  BY <1>1, <1>2, <1>3 DEF OneNamed

LEMMA OneQuiet ==
  ASSUME OneInv, TypeInv', UNCHANGED <<position, doubled>>,
         \A q \in Requests : form'[q].kind = "NAME" => form'[q] = form[q]
  PROVE  OneInv'
BY OneKept DEF OneInv

LEMMA OneNameRead ==
  ASSUME OneInv, TypeInv', NEW q \in Requests, NEW r \in Rows \cup {NoRow},
         NEW name \in Identities, NameRead(q, r, name)
  PROVE  OneInv'
<1> DEFINE f == [kind |-> "NAME", of |-> r, name |-> name,
                 read |-> IF r = NoRow THEN [name |-> NoName, state |-> "NONE"] ELSE position[r]]
<1>1. form' = [form EXCEPT ![q] = f] /\ f.kind = "NAME" /\ f.name = name /\ f.of = r
  BY DEF NameRead
<1> HIDE DEF f
<1>2. form'[q] = f /\ \A x \in Requests \ {q} : form'[x] = form[x]
  BY <1>1 DEF OneInv, TypeInv, FormsTyped
<1>3. /\ UNCHANGED position /\ form[q].kind = "NONE" /\ ValidIdentity(name, r)
      /\ doubled' = IF Naming(name) = {} THEN doubled ELSE doubled \cup {name}
  BY DEF NameRead
<1>4. ASSUME NEW i \in Identities \ doubled', i # name
      PROVE  OneNamed(i)'
  BY <1>1, <1>2, <1>3, <1>4, OneKept
<1>5. CASE name \notin doubled'
  <2>1. Naming(name) = {} /\ name \notin doubled
    BY <1>3, <1>5
  <2>2. OneNamed(name)
    BY <2>1 DEF OneInv
  <2>3. \A x \in Naming(name)' : x = q
    BY <1>2, <2>1 DEF Naming
  <2>4. \A a \in ActiveOf(name)' : a = r
    BY <1>3 DEF ActiveOf, ActiveRows, ValidIdentity
  <2>5. form'[q].of = r
    BY <1>1, <1>2
  <2>6. OneNamed(name)'
    BY <2>3, <2>4, <2>5 DEF OneNamed
  <2> QED
    BY <1>4, <2>6 DEF OneInv
<1> QED
  BY <1>4, <1>5 DEF OneInv

LEMMA OneCreate ==
  ASSUME OneInv, TypeInv', NEW q \in Requests, Create(q)
  PROVE  OneInv'
<1>1. form[q] \in NameForm /\ form[q].kind = "NAME" /\ form[q].of = NoRow
  BY FormKinds DEF OneInv, TypeInv, Create
<1>2. PICK name \in Identities : name = form[q].name
  BY <1>1 DEF NameForm
<1>3. PICK r \in Rows :
        position' = [position EXCEPT ![r] = [name |-> name, state |-> "ACTIVE"]]
  BY <1>2 DEF Create
<1>4. /\ position'[r].name = name
      /\ \A a \in Rows \ {r} : position'[a] = position[a]
      /\ form'[q] = NoForm /\ \A x \in Requests \ {q} : form'[x] = form[x]
      /\ UNCHANGED doubled
  BY <1>3 DEF OneInv, TypeInv, TypeOK, FormsTyped, Create, Done, history
<1>5. ASSUME NEW i \in Identities \ doubled', i # name
      PROVE  OneNamed(i)'
  BY <1>4, <1>5, OneKept DEF NoForm
<1>6. CASE name \notin doubled
  <2>1. OneNamed(name) /\ q \in Naming(name)
    BY <1>1, <1>2, <1>6 DEF OneInv, Naming
  <2>2. ActiveOf(name) = {}
    BY <1>1, <2>1, PositionsAssumption DEF OneNamed, ActiveOf, ActiveRows
  <2>3. Naming(name)' = {}
    BY <1>4, <2>1 DEF OneNamed, Naming, NoForm
  <2>4. \A a \in ActiveOf(name)' : a = r
    BY <1>4, <2>2 DEF ActiveOf, ActiveRows
  <2> QED
    BY <1>4, <1>5, <2>3, <2>4 DEF OneNamed, OneInv
<1> QED
  BY <1>4, <1>5, <1>6 DEF OneInv

\* A form that finds its row as it read it writes the name that was checked; one
\* that does not is an overlap on the name it writes.
LEMMA OneUpdate ==
  ASSUME OneInv, TypeInv', NEW q \in Requests, Update(q)
  PROVE  OneInv'
<1>1. form[q].of \in Rows /\ form[q].name \in Identities /\ form[q].kind = "NAME"
  BY FormKinds DEF OneInv, TypeInv, Update, NameForm
<1>2. PICK r \in Rows : r = form[q].of
  BY <1>1
<1>3. PICK name \in Identities :
        name = IF form[q].name = form[q].read.name THEN position[r].name ELSE form[q].name
  BY <1>1, <1>2 DEF OneInv, TypeInv, RowsNamed, FormSound
<1>4. /\ doubled' = (IF form[q].read = position[r] THEN doubled ELSE doubled \cup {name})
      /\ form[q].read = position[r] => name = form[q].name
      /\ \E state : position' = [position EXCEPT ![r] = [name |-> name, state |-> state]]
  BY <1>2, <1>3 DEF Update
<1>5. /\ position'[r].name = name
      /\ \A a \in Rows \ {r} : position'[a] = position[a]
      /\ form'[q] = NoForm /\ \A x \in Requests \ {q} : form'[x] = form[x]
  BY <1>4 DEF OneInv, TypeInv, TypeOK, FormsTyped, Update, Done
<1>6. ASSUME NEW i \in Identities \ doubled', i # name
      PROVE  OneNamed(i)'
  <2>1. doubled \subseteq doubled'
    BY <1>4
  <2> QED
    BY <1>5, <1>6, <2>1, OneKept DEF NoForm
<1>7. CASE name \notin doubled'
  <2>1. name = form[q].name /\ name \notin doubled
    BY <1>4, <1>7
  <2>2. OneNamed(name) /\ q \in Naming(name)
    BY <1>1, <2>1 DEF OneInv, Naming
  <2>3. \A a \in ActiveOf(name) : a = r
    BY <1>2, <2>2 DEF OneNamed
  <2>4. Naming(name)' = {}
    BY <1>5, <2>2 DEF OneNamed, Naming, NoForm
  <2>5. \A a \in ActiveOf(name)' : a = r
    BY <1>5, <2>3 DEF ActiveOf, ActiveRows
  <2> QED
    BY <1>6, <2>4, <2>5 DEF OneNamed, OneInv
<1> QED
  BY <1>6, <1>7 DEF OneInv

LEMMA OneStep ==
  ASSUME OneInv, [Next]_vars
  PROVE  OneInv'
<1>0. TypeInv' /\ TypeInv
  BY TypeStep DEF OneInv
<1>1. ASSUME NEW q \in Requests, NEW r \in Rows \cup {NoRow}, NEW name \in Identities,
             NameRead(q, r, name)
      PROVE  OneInv'
  BY <1>0, <1>1, OneNameRead
<1>2. ASSUME NEW q \in Requests, Create(q) \/ Update(q)
      PROVE  OneInv'
  BY <1>0, <1>2, OneCreate, OneUpdate
<1>3. ASSUME NEW q \in Requests, SignalCommit(q) \/ SignalRefused(q)
      PROVE  OneInv'
  <2>1. /\ UNCHANGED <<position, doubled>>
        /\ form' = [form EXCEPT ![q] = NoForm]
    BY <1>3 DEF SignalCommit, SignalRefused, Done, history
  <2>2. \A x \in Requests : form'[x].kind = "NAME" => form'[x] = form[x]
    BY <1>0, <2>1 DEF TypeInv, FormsTyped, NoForm
  <2> QED
    BY <1>0, <2>1, <2>2, OneQuiet
<1>4. ASSUME NEW q \in Requests, NEW person \in People, NEW r \in Rows,
             NEW family \in {Manager, Employee}, NEW says \in family \cup {"CLEAR"},
             SignalRead(q, person, r, family, says)
      PROVE  OneInv'
  <2>1. PICK gone :
          form' = [form EXCEPT ![q] =
            [kind |-> "SIGNAL", person |-> person, of |-> r, family |-> family, says |-> says,
             gone |-> gone]]
    BY <1>4 DEF SignalRead
  <2>2. UNCHANGED <<position, doubled>>
    BY <1>4 DEF SignalRead, history
  <2>3. \A x \in Requests : form'[x].kind = "NAME" => form'[x] = form[x]
    BY <1>0, <2>1 DEF TypeInv, FormsTyped
  <2> QED
    BY <1>0, <2>2, <2>3, OneQuiet
<1>5. ASSUME NEW r \in Rows, NEW name \in Identities, Archive(r, name)
      PROVE  OneInv'
  <2>1. /\ position'[r].state = "ARCHIVED" /\ UNCHANGED <<doubled, form>>
        /\ \A a \in Rows \ {r} : position'[a] = position[a]
    BY <1>0, <1>5 DEF Archive, TypeInv, TypeOK
  <2>2. \A i \in Identities \ doubled' : OneNamed(i)'
    BY <2>1, OneKept
  <2> QED
    BY <1>0, <2>2 DEF OneInv
<1>6. CASE Converge
  <2>1. /\ UNCHANGED <<doubled, form>>
        /\ \A a \in Rows : /\ position'[a].name = position[a].name
                           /\ position'[a].state = "ACTIVE" => position[a].state = "ACTIVE"
    BY <1>0, <1>6, ConvergeWrites DEF Converge, history
  <2>2. ASSUME NEW i \in Identities \ doubled'
        PROVE  OneNamed(i)'
    <3>1. \A a \in Rows : position'[a].state = "ACTIVE" /\ position'[a].name = i =>
                           position[a].state = "ACTIVE" /\ position[a].name = i
      BY <2>1
    <3>2. /\ doubled \subseteq doubled'
          /\ \A q \in Requests : form'[q] = form[q]
      BY <2>1
    <3> QED
      BY <3>1, <3>2, OneKept
  <2> QED
    BY <1>0, <2>2 DEF OneInv
<1>7. ASSUME UNCHANGED <<position, doubled, form>>
      PROVE  OneInv'
  BY <1>0, <1>7, OneQuiet
<1>8. ASSUME NEW person \in People, NEW r \in Rows,
             NEW says \in Manager \cup Employee \cup {"WORKED"}, ImportSignal(person, r, says)
      PROVE  OneInv'
  BY <1>7, <1>8 DEF ImportSignal, history
<1>9. ASSUME NEW crew \in Crew,
             PublishRefused(crew) \/ \E d \in Days : Publish(d, crew) \/ ImportDay(d, crew)
      PROVE  OneInv'
  BY <1>7, <1>9 DEF PublishRefused, Publish, ImportDay
<1>10. ASSUME NEW d \in Days, ChangeStatus(d) \/ \E s \in Slots : Decline(d, s)
       PROVE  OneInv'
  BY <1>7, <1>10 DEF ChangeStatus, Decline, history
<1>11. CASE UNCHANGED vars
  BY <1>7, <1>11 DEF vars, history
<1> QED
  BY <1>1, <1>2, <1>3, <1>4, <1>5, <1>6, <1>8, <1>9, <1>10, <1>11 DEF Next

LEMMA AtMostOne ==
  ASSUME NEW S, IsFiniteSet(S)
  PROVE  Cardinality(S) > 1 <=> \E a, b \in S : a # b
<1>1. CASE S = {}
  BY <1>1, FS_EmptySet
<1>2. ASSUME NEW a \in S, \A b \in S : b = a
      PROVE  Cardinality(S) = 1
  <2>1. S = {a}
    BY <1>2
  <2> QED
    BY <2>1, FS_Singleton
<1>3. ASSUME NEW a \in S, NEW b \in S, a # b
      PROVE  Cardinality(S) > 1
  <2>1. Cardinality(S) \in Nat
    BY FS_CardinalityType
  <2>2. Cardinality(S) # 0
    BY <1>3, FS_EmptySet
  <2>3. Cardinality(S) # 1
    BY <1>3, FS_Singleton
  <2> QED
    BY <2>1, <2>2, <2>3
<1> QED
  BY <1>1, <1>2, <1>3

\* Two active rows never come to share an identity (validate_position_identity),
\* but by forms that overlap: of a catalogue of any size, an identity has two only if
\* it had them from the start, if a form was checked while another that names it was
\* open, or if a form wrote over a row that had changed since it was read.
THEOREM OneActiveRowAlways ==
  ASSUME IsFiniteSet(Rows)
  PROVE  Spec => []OneActiveRow
<1>1. \A i \in Identities : IsFiniteSet(ActiveOf(i))
  <2>1. \A i \in Identities : ActiveOf(i) \subseteq Rows
    BY DEF ActiveOf, ActiveRows
  <2> QED
    BY <2>1, FS_Subset
<1>2. Init => OneInv
  <2>1. ASSUME Init, NEW i \in Identities \ doubled
        PROVE  OneNamed(i)
    <3>1. ~(Cardinality(ActiveOf(i)) > 1)
      BY <2>1 DEF Init
    <3>2. Naming(i) = {}
      BY <2>1 DEF Init, Naming, NoForm
    <3> QED
      BY <1>1, <2>1, <3>1, <3>2, AtMostOne DEF OneNamed
  <2> QED
    BY <2>1, TypeInit DEF OneInv
<1>3. OneInv /\ [Next]_vars => OneInv'
  BY OneStep
<1>4. OneInv => OneActiveRow
  <2>1. ASSUME OneInv, NEW i \in Identities, Cardinality(ActiveOf(i)) > 1
        PROVE  i \in doubled
    BY <1>1, <2>1, AtMostOne DEF OneInv, OneNamed
  <2> QED
    BY <2>1 DEF OneActiveRow
<1> QED
  BY <1>2, <1>3, <1>4, PTL DEF Spec

=============================================================================
