---------------------------- MODULE AccessProofs ----------------------------
(***************************************************************************)
(* What modules Authority and People guarantee of accounts.  Authority, for*)
(* every set of accounts and roles, every inactivity period and every      *)
(* number of days.  People, for any number of People, accounts, emails,    *)
(* invitations and requests in flight, and however many exceptions have    *)
(* happened: linked emails agree (AgreeStep, which needs that whoever is   *)
(* linked, invited or being activated has a row), an email has one open    *)
(* invitation (OpenStep) and active People do not share an email           *)
(* (UniqueStep), each but for the cases its property names.                *)
(***************************************************************************)
EXTENDS Authority, People, FiniteSetTheorems, TLAPS

-----------------------------------------------------------------------------
(* Authority: the invariants.                                              *)

\* The rows have their types, days lie within the bounds, and a refresh that has
\* read a row can only turn ACTIVE into EXPIRED or back (the crew page decides later).
ReadingSound(reading) ==
  /\ reading.row.manual <= MaxDay /\ reading.result.manual <= MaxDay
  /\ reading.result.status # reading.row.status =>
       reading.result.status \in {"ACTIVE", "EXPIRED"} /\ reading.row.status \in {"ACTIVE", "EXPIRED"}

AuthorityTypeInv ==
  /\ AuthorityTypeOK
  /\ \A u \in Users : work[u] <= MaxDay + Horizon /\ account[u].manual <= MaxDay
  /\ \A s \in Readers, u \in Users : ReadingSound(refresh[s][u])

\* Only an account holds grants.
HoldersExist == \A u \in Users : Held(u) # {} => Exists(u)

\* Before the first Admin grant is active nothing exists, no disable has been
\* checked and no refresh has read anything.
Pristine ==
  /\ \A u \in Users : ~Exists(u) /\ Held(u) = {} /\ disabling[u] = {}
  /\ \A s \in Readers, u \in Users : refresh[s][u] = NoReading
SomeAdmin == \E u \in Users : "ADMIN" \in Effective(u)

\* A disable is checked only of an account.
DisablingSound == \A a, u \in Users : u \in disabling[a] => Exists(u)

AuthorityInv ==
  /\ AuthorityTypeInv
  /\ HoldersExist
  /\ DisablingSound
  /\ ContractorExclusive
  /\ SomeAdmin \/ Pristine
  /\ DisabledStays

-----------------------------------------------------------------------------
(* The policy of Contractor access, refreshed_expiry and refreshed_status.  *)

LEMMA MaxOfThree ==
  ASSUME NEW a \in Int, NEW b \in Int, NEW c \in Int,
         NEW X \in {{}, {b}}, NEW Y \in {{}, {c}}
  PROVE  \A T : T = {a} \cup X \cup Y => Max(T) \in T /\ Max(T) >= a
<1> DEFINE S == {a} \cup X \cup Y
<1>1. \E x \in S : \A y \in S : x >= y
  <2>1. CASE X = {} /\ Y = {}
    BY <2>1
  <2>2. CASE X = {b} /\ Y = {}
    BY <2>2
  <2>3. CASE X = {} /\ Y = {c}
    BY <2>3
  <2>4. CASE X = {b} /\ Y = {c}
    BY <2>4
  <2> QED
    BY <2>1, <2>2, <2>3, <2>4
<1> QED
  BY <1>1 DEF Max

LEMMA RefreshedType ==
  ASSUME NEW row \in Account, row.manual <= MaxDay, NEW contractor \in BOOLEAN,
         NEW extend \in BOOLEAN, NEW lastWork \in {Never} \cup Days,
         lastWork <= MaxDay + Horizon, today \in 1 .. MaxDay
  PROVE  /\ Refreshed(row, contractor, lastWork, extend) \in Account
         /\ Refreshed(row, contractor, lastWork, extend).manual <= MaxDay
         /\ Refreshed(row, contractor, lastWork, extend).expires >= row.expires
         /\ Refreshed(row, contractor, lastWork, extend).status # row.status =>
              /\ Refreshed(row, contractor, lastWork, extend).status \in {"ACTIVE", "EXPIRED"}
              /\ row.status \in {"ACTIVE", "EXPIRED"}
         /\ ~contractor => Refreshed(row, contractor, lastWork, extend) = row
<1> DEFINE new == Refreshed(row, contractor, lastWork, extend)
           manual == IF extend THEN today ELSE row.manual
           X == {lastWork + 1 + Inactivity : x \in {t \in {today} : lastWork >= t}}
           Y == {manual + Inactivity : x \in {m \in {manual} : m # Never}}
           expires == Max({row.expires} \cup X \cup Y)
           status == CASE row.status = "ACTIVE" /\ expires \in 1 .. today -> "EXPIRED"
                       [] row.status = "EXPIRED" /\ expires > today -> "ACTIVE"
                       [] OTHER -> row.status
<1>1. /\ MaxDay \in Nat /\ Horizon \in Nat /\ Inactivity \in Nat \ {0}
      /\ lastWork \in Nat /\ row.expires \in {Never} \cup Days /\ row.manual \in {Never} \cup Days
      /\ row.expires \in Nat /\ row.manual \in Nat
  BY AuthorityAssumption DEF Account, Days, Never
<1>2. manual \in Nat /\ manual <= MaxDay
  BY <1>1
<1>3. X \in {{}, {lastWork + 1 + Inactivity}}
  OBVIOUS
<1>4. Y \in {{}, {manual + Inactivity}}
  OBVIOUS
<1>5. expires \in {row.expires} \cup X \cup Y /\ expires >= row.expires
  <2>1. lastWork + 1 + Inactivity \in Int /\ manual + Inactivity \in Int /\ row.expires \in Int
    BY <1>1, <1>2
  <2>2. PICK a \in Int, b \in Int, c \in Int :
          /\ a = row.expires /\ b = lastWork + 1 + Inactivity /\ c = manual + Inactivity
    BY <2>1
  <2>3. X \in {{}, {b}} /\ Y \in {{}, {c}} /\ expires = Max({a} \cup X \cup Y)
    BY <1>3, <1>4, <2>2
  <2> HIDE DEF X, Y, manual, expires
  <2>4. PICK P \in {{}, {b}}, Q \in {{}, {c}} : P = X /\ Q = Y
    BY <2>3
  <2>5. \A T : T = {a} \cup P \cup Q => Max(T) \in T /\ Max(T) >= a
    BY MaxOfThree
  <2> QED
    BY <2>2, <2>3, <2>4, <2>5
<1>6. contractor => new = [status |-> status, expires |-> expires, manual |-> manual]
  BY DEF Refreshed
<1>7. ~contractor => new = row
  BY DEF Refreshed
<1>8. expires \in {Never} \cup Days
  <2>1. X \subseteq Days
    BY <1>1 DEF Days
  <2>2. Y \subseteq Days
    BY <1>1, <1>2 DEF Days, Never
  <2> HIDE DEF X, Y, expires
  <2> QED
    BY <1>1, <1>5, <2>1, <2>2
<1>9. /\ status \in {row.status, "ACTIVE", "EXPIRED"}
      /\ status # row.status => /\ status \in {"ACTIVE", "EXPIRED"}
                                /\ row.status \in {"ACTIVE", "EXPIRED"}
  <2> HIDE DEF expires
  <2> QED
    OBVIOUS
<1>10. manual \in {Never} \cup Days
  BY <1>1, <1>2 DEF Days
<1> HIDE DEF new, manual, expires, status
<1>11. CASE contractor
  <2>1. new.status = status /\ new.manual = manual /\ new.expires = expires
    BY <1>6, <1>11
  <2>2. status \in {"ABSENT", "ACTIVE", "DISABLED", "EXPIRED"}
    BY <1>9 DEF Account
  <2>3. new \in Account
    BY <1>6, <1>8, <1>10, <1>11, <2>2 DEF Account
  <2> QED
    BY <1>2, <1>5, <1>9, <1>11, <2>1, <2>3 DEF new
<1>12. CASE ~contractor
  BY <1>1, <1>7, <1>12 DEF new
<1> QED
  BY <1>11, <1>12

-----------------------------------------------------------------------------
(* The rows.                                                               *)

Grants == [Roles -> GrantStatus]

LEMMA RowTypes ==
  ASSUME AuthorityTypeInv
  PROVE  /\ account \in [Users -> Account] /\ grant \in [Users -> Grants]
         /\ \A u \in Users :
              /\ account[u] \in Account /\ account[u].manual <= MaxDay
              /\ grant[u] \in Grants
              /\ work[u] \in {Never} \cup Days /\ work[u] <= MaxDay + Horizon
              /\ IsContractor(u) \in BOOLEAN
         /\ \A s \in Readers, u \in Users :
              refresh[s][u] \in Reading /\ ReadingSound(refresh[s][u])
         /\ today \in 1 .. MaxDay /\ MaxDay \in Nat
         /\ NewAccount \in Account /\ NewAccount.manual <= MaxDay /\ NewAccount.status = "ACTIVE"
<1>1. MaxDay \in Nat
  BY AuthorityAssumption
<1>2. NoAccount \in Account
  BY DEF NoAccount, Account, Never
<1>3. NewAccount \in Account /\ NewAccount.manual <= MaxDay /\ NewAccount.status = "ACTIVE"
  <2>1. NewAccount = [status |-> "ACTIVE", expires |-> Never, manual |-> Never]
    BY DEF NewAccount, NoAccount
  <2> QED
    BY <1>1, <2>1 DEF Account, Never
<1> QED
  BY <1>1, <1>3 DEF AuthorityTypeInv, AuthorityTypeOK, Grants, IsContractor

LEMMA StatusWritten ==
  ASSUME NEW row \in Account, row.manual <= MaxDay, NEW s \in {"ACTIVE", "DISABLED"}
  PROVE  \E new \in Account : /\ new = [row EXCEPT !.status = s]
                              /\ new.status = s /\ new.manual <= MaxDay
<1> DEFINE new == [row EXCEPT !.status = s]
<1>1. new = [status |-> s, expires |-> row.expires, manual |-> row.manual]
  BY DEF Account
<1>2. new \in Account
  BY <1>1 DEF Account
<1>3. new.status = s /\ new.manual = row.manual
  BY <1>1
<1> QED
  BY <1>2, <1>3

\* A refreshed row of an account.
LEMMA RefreshedRow ==
  ASSUME AuthorityTypeInv, NEW u \in Users, NEW row \in Account, row.manual <= MaxDay,
         NEW contractor \in BOOLEAN, NEW extend \in BOOLEAN
  PROVE  /\ Refreshed(row, contractor, work[u], extend) \in Account
         /\ Refreshed(row, contractor, work[u], extend).manual <= MaxDay
         /\ Refreshed(row, contractor, work[u], extend).expires >= row.expires
         /\ Refreshed(row, contractor, work[u], extend).status # row.status =>
              /\ Refreshed(row, contractor, work[u], extend).status \in {"ACTIVE", "EXPIRED"}
              /\ row.status \in {"ACTIVE", "EXPIRED"}
         /\ ~contractor => Refreshed(row, contractor, work[u], extend) = row
<1>1. PICK lastWork \in {Never} \cup Days : lastWork = work[u] /\ lastWork <= MaxDay + Horizon
  BY RowTypes
<1>2. today \in 1 .. MaxDay
  BY RowTypes
<1> QED
  BY <1>1, <1>2, RefreshedType

LEMMA AccountWritten ==
  ASSUME AuthorityTypeInv, NEW u \in Users, NEW row \in Account, row.manual <= MaxDay,
         account' = [account EXCEPT ![u] = row]
  PROVE  /\ account' \in [Users -> Account] /\ account'[u] = row
         /\ \A x \in Users : account'[x].manual <= MaxDay
         /\ \A x \in Users \ {u} : account'[x] = account[x]
BY RowTypes

LEMMA TypeAssembled ==
  ASSUME AuthorityTypeInv, account' \in [Users -> Account], \A x \in Users : account'[x].manual <= MaxDay,
         grant' \in [Users -> Grants], UNCHANGED <<today, scope>>,
         work' \in [Users -> {Never} \cup Days], \A x \in Users : work'[x] <= MaxDay + Horizon,
         disabling' \in [Users -> SUBSET Users], halted' \subseteq Users, raced' \subseteq Users,
         refresh' \in [Readers -> [Users -> Reading]],
         \A s \in Readers, x \in Users : ReadingSound(refresh'[s][x])
  PROVE  AuthorityTypeInv'
<1>1. \A s \in Readers, x \in Users : ReadingSound(refresh[s][x])'
  BY DEF ReadingSound
<1> QED
  BY <1>1 DEF AuthorityTypeInv, AuthorityTypeOK, Grants

\* The tables an action leaves alone.
LEMMA TypeKept ==
  ASSUME AuthorityTypeInv
  PROVE  /\ UNCHANGED work => /\ work' \in [Users -> {Never} \cup Days]
                              /\ \A x \in Users : work'[x] <= MaxDay + Horizon
         /\ UNCHANGED refresh =>
              /\ refresh' \in [Readers -> [Users -> Reading]]
              /\ \A s \in Readers, x \in Users : ReadingSound(refresh'[s][x])
         /\ UNCHANGED account => /\ account' \in [Users -> Account]
                                 /\ \A x \in Users : account'[x].manual <= MaxDay
         /\ UNCHANGED grant => grant' \in [Users -> Grants]
         /\ UNCHANGED disabling => disabling' \in [Users -> SUBSET Users]
         /\ halted \subseteq Users /\ raced \subseteq Users
         /\ disabling \in [Users -> SUBSET Users]
         /\ work \in [Users -> {Never} \cup Days]
         /\ refresh \in [Readers -> [Users -> Reading]]
BY DEF AuthorityTypeInv, AuthorityTypeOK, Grants

\* What the forms make of the grants of one account.
LEMMA GrantWritten ==
  ASSUME AuthorityTypeInv, NEW u \in Users, NEW r \in Roles, NEW g \in GrantStatus,
         grant' = [grant EXCEPT ![u][r] = g]
  PROVE  /\ grant' \in [Users -> Grants]
         /\ grant'[u][r] = g /\ \A x \in Roles \ {r} : grant'[u][x] = grant[u][x]
         /\ \A x \in Users \ {u} : grant'[x] = grant[x]
BY RowTypes DEF Grants

LEMMA GrantsWritten ==
  ASSUME AuthorityTypeInv, NEW u \in Users, NEW row \in Grants, grant' = [grant EXCEPT ![u] = row]
  PROVE  /\ grant' \in [Users -> Grants] /\ grant'[u] = row
         /\ \A x \in Users \ {u} : grant'[x] = grant[x]
BY RowTypes

-----------------------------------------------------------------------------
(* What the steps keep.                                                    *)

GrantsSound(u) ==
  /\ Held(u) # {} => Exists(u)
  /\ "CONTRACTOR" \in Held(u) => Held(u) = {"CONTRACTOR"}

\* Whoever acts holds a grant, so somebody exists.
LEMMA ActorsExist ==
  ASSUME Pristine, NEW a \in Users
  PROVE  /\ \A r : ~Acts(a, r) /\ ~MayGrant(a, r)
         /\ \A u : ~MayAdminister(a, u)
<1>1. \A r : ~Acts(a, r)
  BY DEF Pristine, Acts, Usable, Effective, Held
<1> QED
  BY <1>1 DEF MayGrant, MayAdminister

LEMMA AdminsKept ==
  ASSUME \A u \in Users : "ADMIN" \in Effective(u) => ("ADMIN" \in Effective(u))'
  PROVE  SomeAdmin => SomeAdmin'
BY DEF SomeAdmin

LEMMA InvAssembled ==
  ASSUME AuthorityInv, AuthorityTypeInv', \A u \in Users : Exists(u) => Exists(u)',
         \A u \in Users : grant'[u] = grant[u] \/ GrantsSound(u)',
         \A a \in Users : \A u \in disabling'[a] : u \in disabling[a] \/ Exists(u),
         SomeAdmin => SomeAdmin', Pristine => Pristine' \/ SomeAdmin',
         raced \subseteq raced',
         \A u \in halted' :
           \/ account'[u].status = "DISABLED" \/ u \in raced'
           \/ u \in halted /\ account'[u].status = account[u].status
  PROVE  AuthorityInv'
<1>1. ASSUME NEW u \in Users
      PROVE  GrantsSound(u)'
  <2>1. CASE grant'[u] = grant[u]
    <3>1. Held(u)' = Held(u)
      BY <2>1 DEF Held
    <3> QED
      BY <3>1 DEF AuthorityInv, HoldersExist, ContractorExclusive, GrantsSound
  <2> QED
    BY <2>1
<1>2. HoldersExist' /\ ContractorExclusive'
  BY <1>1 DEF GrantsSound, HoldersExist, ContractorExclusive
<1>3. DisablingSound'
  BY DEF AuthorityInv, DisablingSound
<1>4. DisabledStays'
  BY DEF AuthorityInv, DisabledStays
<1>5. SomeAdmin' \/ Pristine'
  BY DEF AuthorityInv
<1> QED
  BY <1>2, <1>3, <1>4, <1>5 DEF AuthorityInv

\* Steps that write neither accounts nor grants and disable nobody.
LEMMA InvQuiet ==
  ASSUME AuthorityInv, AuthorityTypeInv', UNCHANGED <<account, grant, halted, raced>>,
         \A a \in Users : \A u \in disabling'[a] : u \in disabling[a] \/ Exists(u),
         ~Pristine \/ UNCHANGED <<disabling, refresh>>
  PROVE  AuthorityInv'
<1>1. \A u \in Users : Exists(u)' <=> Exists(u)
  BY DEF Exists
<1>2. \A u \in Users : (Held(u)' = Held(u)) /\ (Effective(u)' = Effective(u))
  BY DEF Held, Effective
<1>3. SomeAdmin => SomeAdmin'
  BY <1>2 DEF SomeAdmin
<1>4. Pristine => Pristine'
  BY <1>1, <1>2 DEF Pristine
<1> QED
  BY <1>1, <1>3, <1>4, InvAssembled

\* Steps that write the grants of one account.
LEMMA InvGrants ==
  ASSUME AuthorityInv, ~Pristine, NEW u \in Users, NEW row \in Grants,
         grant' = [grant EXCEPT ![u] = row],
         UNCHANGED <<account, work, today, disabling, refresh, scope, halted, raced>>,
         Exists(u), GrantsSound(u)', SomeAdmin => SomeAdmin'
  PROVE  AuthorityInv'
<1>0. AuthorityTypeInv
  BY DEF AuthorityInv
<1>1. grant' \in [Users -> Grants] /\ \A x \in Users \ {u} : grant'[x] = grant[x]
  BY <1>0, GrantsWritten
<1>2. AuthorityTypeInv'
  BY <1>0, <1>1, TypeKept, TypeAssembled
<1>3. \A x \in Users : Exists(x) => Exists(x)'
  BY DEF Exists
<1> QED
  BY <1>1, <1>2, <1>3, InvAssembled

\* Steps that write one account.
LEMMA InvAccount ==
  ASSUME AuthorityInv, NEW u \in Users, NEW row \in Account, row.manual <= MaxDay,
         account' = [account EXCEPT ![u] = row],
         UNCHANGED <<grant, today, scope>>,
         work' \in [Users -> {Never} \cup Days], \A x \in Users : work'[x] <= MaxDay + Horizon,
         disabling' \in [Users -> SUBSET Users],
         \A a \in Users : disabling'[a] \subseteq disabling[a],
         refresh' \in [Readers -> [Users -> Reading]],
         \A s \in Readers, x \in Users : ReadingSound(refresh'[s][x]),
         ~Pristine \/ (row = account[u] /\ UNCHANGED <<disabling, refresh>>),
         Exists(u) => row.status # "ABSENT",
         halted' \subseteq halted \cup {u},
         raced \subseteq raced', raced' \subseteq raced \cup {u},
         \/ row.status = "DISABLED" \/ u \in raced' \/ u \notin halted'
         \/ u \in halted /\ row.status = account[u].status
  PROVE  AuthorityInv'
<1>0. AuthorityTypeInv
  BY DEF AuthorityInv
<1>1. /\ account' \in [Users -> Account] /\ account'[u] = row
      /\ \A x \in Users : account'[x].manual <= MaxDay
      /\ \A x \in Users \ {u} : account'[x] = account[x]
  BY <1>0, AccountWritten
<1>2. AuthorityTypeInv'
  <2>1. halted' \subseteq Users /\ raced' \subseteq Users
    BY <1>0, TypeKept
  <2> QED
    BY <1>0, <1>1, <2>1, TypeKept, TypeAssembled
<1>3. \A x \in Users : Exists(x) => Exists(x)'
  BY <1>1 DEF Exists
<1>4. \A x \in Users : (Held(x)' = Held(x)) /\ (Effective(x)' = Effective(x))
  BY DEF Held, Effective
<1>5. SomeAdmin => SomeAdmin'
  BY <1>4 DEF SomeAdmin
<1>6. Pristine => Pristine'
  <2>1. ASSUME Pristine
        PROVE  \A x \in Users : ~Exists(x)'
    BY <1>1, <2>1 DEF Pristine, Exists
  <2> QED
    BY <1>4, <2>1 DEF Pristine
<1>7. halted \subseteq Users
  BY <1>0, TypeKept
<1>8. \A x \in halted' :
        \/ account'[x].status = "DISABLED" \/ x \in raced'
        \/ x \in halted /\ account'[x].status = account[x].status
  BY <1>1, <1>7
<1> QED
  BY <1>2, <1>3, <1>5, <1>6, <1>8, InvAssembled

-----------------------------------------------------------------------------
(* The steps.                                                              *)

LEMMA InvOpened ==
  ASSUME AuthorityInv, NEW u \in Users, NEW r \in Roles, Opened(u, r), r = "ADMIN" \/ ~Pristine
  PROVE  AuthorityInv'
<1>0. AuthorityTypeInv
  BY DEF AuthorityInv
<1>1. NewAccount \in Account /\ NewAccount.manual <= MaxDay /\ NewAccount.status = "ACTIVE"
  BY <1>0, RowTypes
<1>2. PICK c \in BOOLEAN : c = IsContractor(u)
  BY <1>0, RowTypes
<1>3. PICK row \in Account :
        /\ row = Refreshed(NewAccount, c, work[u], TRUE)
        /\ row.manual <= MaxDay
        /\ row.status # NewAccount.status => row.status \in {"ACTIVE", "EXPIRED"}
  <2>1. PICK extend \in BOOLEAN : extend = TRUE
    OBVIOUS
  <2>2. /\ Refreshed(NewAccount, c, work[u], extend) \in Account
        /\ Refreshed(NewAccount, c, work[u], extend).manual <= MaxDay
        /\ Refreshed(NewAccount, c, work[u], extend).status # NewAccount.status =>
             Refreshed(NewAccount, c, work[u], extend).status \in {"ACTIVE", "EXPIRED"}
    BY <1>0, <1>1, RefreshedRow
  <2> QED
    BY <2>1, <2>2
<1>4. /\ account' = [account EXCEPT ![u] = row] /\ ~Exists(u)
      /\ grant' = [grant EXCEPT ![u][r] = "ACTIVE"]
      /\ UNCHANGED <<work, today, disabling, refresh, scope, halted, raced>>
  BY <1>2, <1>3 DEF Opened
<1>5. /\ account' \in [Users -> Account] /\ account'[u] = row
      /\ \A x \in Users : account'[x].manual <= MaxDay
      /\ \A x \in Users \ {u} : account'[x] = account[x]
  BY <1>0, <1>3, <1>4, AccountWritten
<1>6. /\ grant' \in [Users -> Grants]
      /\ grant'[u][r] = "ACTIVE" /\ \A x \in Roles \ {r} : grant'[u][x] = grant[u][x]
      /\ \A x \in Users \ {u} : grant'[x] = grant[x]
  <2>1. "ACTIVE" \in GrantStatus
    BY DEF GrantStatus
  <2> QED
    BY <1>0, <1>4, <2>1, GrantWritten
<1>7. AuthorityTypeInv'
  BY <1>0, <1>4, <1>5, <1>6, TypeKept, TypeAssembled
<1>8. Held(u) = {}
  BY <1>4 DEF AuthorityInv, HoldersExist
<1>9. GrantsSound(u)'
  <2>1. Held(u)' = {r}
    BY <1>6, <1>8 DEF Held
  <2>2. Exists(u)'
    BY <1>1, <1>3, <1>5 DEF Exists
  <2> QED
    BY <2>1, <2>2 DEF GrantsSound
<1>10. \A x \in Users : Exists(x) => Exists(x)'
  BY <1>4, <1>5 DEF Exists
<1>11. SomeAdmin => SomeAdmin'
  <2>1. \A x \in Users : "ADMIN" \in Effective(x) => x # u
    BY <1>8 DEF Effective, Held
  <2> QED
    BY <1>6, <2>1 DEF SomeAdmin, Effective
<1>12. Pristine => SomeAdmin'
  BY <1>6 DEF SomeAdmin, Effective
<1>13. \A x \in halted' : account'[x].status = "DISABLED" \/ x \in raced'
  <2>1. halted \subseteq Users
    BY <1>0, TypeKept
  <2>2. \A x \in halted : account[x].status = "DISABLED" \/ x \in raced
    BY DEF AuthorityInv, DisabledStays
  <2> QED
    BY <1>4, <1>5, <2>1, <2>2 DEF Exists
<1> QED
  BY <1>4, <1>6, <1>7, <1>9, <1>10, <1>11, <1>12, <1>13, InvAssembled

LEMMA InvGrantRole ==
  ASSUME AuthorityInv, NEW a \in Users, NEW u \in Users, NEW r \in Roles, GrantRole(a, u, r)
  PROVE  AuthorityInv'
<1>0. AuthorityTypeInv /\ ~Pristine
  BY ActorsExist DEF AuthorityInv, GrantRole
<1>1. /\ Exists(u) /\ r \notin Held(u)
      /\ IF r = "CONTRACTOR" THEN Held(u) = {} ELSE "CONTRACTOR" \notin Held(u)
      /\ grant' = [grant EXCEPT ![u][r] = "PENDING"]
      /\ UNCHANGED <<account, work, today, disabling, refresh, scope, halted, raced>>
  BY DEF GrantRole
<1>2. PICK row \in Grants : row = [grant[u] EXCEPT ![r] = "PENDING"]
  BY <1>0, RowTypes DEF Grants, GrantStatus
<1>3. /\ grant' = [grant EXCEPT ![u] = row]
      /\ grant'[u] = row /\ \A x \in Users \ {u} : grant'[x] = grant[x]
  BY <1>0, <1>1, <1>2, GrantsWritten
<1>4. row[r] = "PENDING" /\ \A x \in Roles \ {r} : row[x] = grant[u][x]
  BY <1>0, <1>2, RowTypes DEF Grants
<1>5. GrantsSound(u)'
  <2>1. Held(u)' = Held(u) \cup {r} /\ Exists(u)'
    BY <1>1, <1>3, <1>4 DEF Held, Exists
  <2> QED
    BY <1>1, <2>1 DEF GrantsSound
<1>6. SomeAdmin => SomeAdmin'
  <2>1. grant[u][r] = "NONE"
    BY <1>1 DEF Held
  <2>2. \A x \in Users : "ADMIN" \in Effective(x) => ("ADMIN" \in Effective(x))'
    BY <1>3, <1>4, <2>1 DEF Effective
  <2> QED
    BY <2>2, AdminsKept
<1> QED
  BY <1>0, <1>1, <1>3, <1>5, <1>6, InvGrants

\* The count of active Admin grants, under the global lock, leaves another one.
LEMMA InvRevokeGrant ==
  ASSUME AuthorityInv, NEW a \in Users, NEW u \in Users, NEW r \in Roles, RevokeGrant(a, u, r)
  PROVE  AuthorityInv'
<1>0. AuthorityTypeInv /\ ~Pristine
  BY ActorsExist DEF AuthorityInv, RevokeGrant
<1>1. /\ r \in Held(u) /\ ~FinalAdmin(r, u)
      /\ grant' = [grant EXCEPT ![u][r] = "NONE"]
      /\ UNCHANGED <<account, work, today, disabling, refresh, scope, halted, raced>>
  BY DEF RevokeGrant
<1>2. PICK row \in Grants : row = [grant[u] EXCEPT ![r] = "NONE"]
  BY <1>0, RowTypes DEF Grants, GrantStatus
<1>3. /\ grant' = [grant EXCEPT ![u] = row]
      /\ grant'[u] = row /\ \A x \in Users \ {u} : grant'[x] = grant[x]
  BY <1>0, <1>1, <1>2, GrantsWritten
<1>4. row[r] = "NONE" /\ \A x \in Roles \ {r} : row[x] = grant[u][x]
  BY <1>0, <1>2, RowTypes DEF Grants
<1>5. Exists(u) /\ GrantsSound(u)'
  <2>1. Held(u)' = Held(u) \ {r} /\ (Exists(u)' <=> Exists(u))
    BY <1>1, <1>3, <1>4 DEF Held, Exists
  <2>2. Exists(u) /\ ("CONTRACTOR" \in Held(u) => Held(u) = {"CONTRACTOR"})
    BY <1>1 DEF AuthorityInv, HoldersExist, ContractorExclusive
  <2> QED
    BY <1>1, <2>1, <2>2 DEF GrantsSound
<1>6. SomeAdmin => SomeAdmin'
  <2>1. CASE r = "ADMIN" /\ grant[u][r] = "ACTIVE"
    <3> DEFINE admins == {x \in Users : "ADMIN" \in Effective(x)}
    <3>1. ~(Cardinality(admins) <= 1)
      BY <1>1, <2>1 DEF FinalAdmin
    <3>2. admins # {u}
      <4>1. Cardinality({u}) = 1
        BY FS_Singleton
      <4> HIDE DEF admins
      <4> QED
        BY <3>1, <4>1
    <3>3. u \in admins
      BY <2>1 DEF Effective
    <3>4. PICK x \in Users \ {u} : "ADMIN" \in Effective(x)
      BY <3>2, <3>3
    <3>5. ("ADMIN" \in Effective(x))'
      BY <1>3, <3>4 DEF Effective
    <3> QED
      BY <3>5 DEF SomeAdmin
  <2>2. CASE ~(r = "ADMIN" /\ grant[u][r] = "ACTIVE")
    <3>1. \A x \in Users : "ADMIN" \in Effective(x) => ("ADMIN" \in Effective(x))'
      BY <1>3, <1>4, <2>2 DEF Effective
    <3> QED
      BY <3>1, AdminsKept
  <2> QED
    BY <2>1, <2>2
<1> QED
  BY <1>0, <1>1, <1>3, <1>5, <1>6, InvGrants

LEMMA InvChangeEmployment ==
  ASSUME AuthorityInv, NEW a \in Users, NEW u \in Users, NEW r \in Roles,
         ChangeEmployment(a, u, r)
  PROVE  AuthorityInv'
<1>0. AuthorityTypeInv /\ ~Pristine
  BY ActorsExist DEF AuthorityInv, ChangeEmployment
<1> DEFINE changed == [x \in Roles |-> CASE x = r -> "PENDING"
                                        [] x \in {"EMPLOYEE", "CASUAL"} \ {r} -> "NONE"
                                        [] OTHER -> grant[u][x]]
<1>1. /\ Exists(u) /\ r \in {"EMPLOYEE", "CASUAL"} /\ "CONTRACTOR" \notin Held(u)
      /\ grant' = [grant EXCEPT ![u] = changed]
      /\ UNCHANGED <<account, work, today, disabling, refresh, scope, halted, raced>>
  BY DEF ChangeEmployment
<1>2. changed \in Grants
  BY <1>0, RowTypes DEF Grants, GrantStatus
<1>3. \A x \in Roles : x \notin {"EMPLOYEE", "CASUAL"} => changed[x] = grant[u][x]
  BY <1>1
<1> HIDE DEF changed
<1>4. grant'[u] = changed /\ \A x \in Users \ {u} : grant'[x] = grant[x]
  BY <1>0, <1>1, <1>2, GrantsWritten
<1>5. GrantsSound(u)'
  <2>1. "CONTRACTOR" \notin Held(u)' /\ Exists(u)'
    BY <1>1, <1>3, <1>4 DEF Held, Exists
  <2> QED
    BY <2>1 DEF GrantsSound
<1>6. SomeAdmin => SomeAdmin'
  <2>1. \A x \in Users : "ADMIN" \in Effective(x) => ("ADMIN" \in Effective(x))'
    BY <1>3, <1>4 DEF Effective
  <2> QED
    BY <2>1, AdminsKept
<1> QED
  BY <1>0, <1>1, <1>2, <1>5, <1>6, InvGrants

LEMMA InvSignIn ==
  ASSUME AuthorityInv, NEW u \in Users, NEW eligible \in BOOLEAN, SignInActivates(u, eligible)
  PROVE  AuthorityInv'
<1>0. AuthorityTypeInv
  BY DEF AuthorityInv
<1> DEFINE pending == {r \in Roles : grant[u][r] = "PENDING" /\ (r = "ADMIN" => eligible)}
           activated == [r \in Roles |-> IF r \in pending THEN "ACTIVE" ELSE grant[u][r]]
<1>1. /\ account[u].status = "ACTIVE"
      /\ grant' = [grant EXCEPT ![u] = activated]
      /\ account' = [account EXCEPT ![u] =
           Refreshed(@, "CONTRACTOR" \in pending /\ IsContractor(u), work[u], TRUE)]
      /\ UNCHANGED <<work, today, disabling, refresh, scope, halted, raced>>
  BY DEF SignInActivates
<1>2. PICK c \in BOOLEAN : c = ("CONTRACTOR" \in pending /\ IsContractor(u))
  OBVIOUS
<1>3. activated \in Grants
      /\ \A r \in Roles : /\ activated[r] = "NONE" <=> grant[u][r] = "NONE"
                          /\ grant[u][r] = "ACTIVE" => activated[r] = "ACTIVE"
  BY <1>0, RowTypes DEF Grants, GrantStatus
<1> HIDE DEF pending, activated
<1>4. PICK row \in Account :
        /\ row = Refreshed(account[u], c, work[u], TRUE) /\ row.manual <= MaxDay
        /\ row.status # account[u].status => row.status \in {"ACTIVE", "EXPIRED"}
  <2>1. PICK extend \in BOOLEAN, old \in Account :
          extend = TRUE /\ old = account[u] /\ old.manual <= MaxDay
    BY <1>0, RowTypes
  <2>2. /\ Refreshed(old, c, work[u], extend) \in Account
        /\ Refreshed(old, c, work[u], extend).manual <= MaxDay
        /\ Refreshed(old, c, work[u], extend).status # old.status =>
             Refreshed(old, c, work[u], extend).status \in {"ACTIVE", "EXPIRED"}
    BY <1>0, <2>1, RefreshedRow
  <2> QED
    BY <2>1, <2>2
<1>5. account' = [account EXCEPT ![u] = row]
  BY <1>1, <1>2, <1>4
<1>6. /\ account' \in [Users -> Account] /\ account'[u] = row
      /\ \A x \in Users : account'[x].manual <= MaxDay
      /\ \A x \in Users \ {u} : account'[x] = account[x]
  BY <1>0, <1>4, <1>5, AccountWritten
<1>7. /\ grant' \in [Users -> Grants] /\ grant'[u] = activated
      /\ \A x \in Users \ {u} : grant'[x] = grant[x]
  BY <1>0, <1>1, <1>3, GrantsWritten
<1>8. AuthorityTypeInv'
  BY <1>0, <1>1, <1>6, <1>7, TypeKept, TypeAssembled
<1>9. row.status # "ABSENT"
  BY <1>1, <1>4
<1>10. \A x \in Users : Exists(x) => Exists(x)'
  BY <1>6, <1>9 DEF Exists
<1>11. GrantsSound(u)'
  <2>1. Held(u)' = Held(u) /\ Exists(u)'
    BY <1>3, <1>6, <1>7, <1>9 DEF Held, Exists
  <2> QED
    BY <2>1 DEF GrantsSound, AuthorityInv, ContractorExclusive
<1>12. SomeAdmin => SomeAdmin'
  <2>1. \A x \in Users : "ADMIN" \in Effective(x) => ("ADMIN" \in Effective(x))'
    BY <1>3, <1>7 DEF Effective
  <2> QED
    BY <2>1, AdminsKept
<1>13. ~Pristine
  BY <1>1 DEF Pristine, Exists
<1>14. \A x \in halted' :
         \/ x \in raced'
         \/ x \in halted /\ account'[x].status = account[x].status
  <2>1. halted \subseteq Users
    BY <1>0, TypeKept
  <2>2. u \in halted => u \in raced
    BY <1>1 DEF AuthorityInv, DisabledStays
  <2> QED
    BY <1>1, <1>6, <2>1, <2>2
<1> QED
  BY <1>1, <1>7, <1>8, <1>10, <1>11, <1>12, <1>13, <1>14, InvAssembled

LEMMA InvDisable ==
  ASSUME AuthorityInv, NEW a \in Users, NEW u \in Users,
         DisableCheck(a, u) \/ DisableCommit(a, u)
  PROVE  AuthorityInv'
<1>0. AuthorityTypeInv
  BY DEF AuthorityInv
<1>1. CASE DisableCheck(a, u)
  <2>1. /\ Exists(u) /\ disabling' = [disabling EXCEPT ![a] = {u}]
        /\ UNCHANGED <<account, grant, work, today, refresh, scope, halted, raced>>
    BY <1>1 DEF DisableCheck
  <2>2. ~Pristine
    BY <2>1 DEF Pristine
  <2>3. /\ disabling' \in [Users -> SUBSET Users]
        /\ \A x \in Users : \A y \in disabling'[x] : y \in disabling[x] \/ Exists(y)
    BY <1>0, <2>1, TypeKept
  <2>4. AuthorityTypeInv'
    BY <1>0, <2>1, <2>3, TypeKept, TypeAssembled
  <2> QED
    BY <2>1, <2>2, <2>3, <2>4, InvQuiet
<1>2. CASE DisableCommit(a, u)
  <2>1. Exists(u)
    BY <1>2 DEF DisableCommit, AuthorityInv, DisablingSound
  <2>2. PICK row \in Account :
          row = [account[u] EXCEPT !.status = "DISABLED"] /\ row.status = "DISABLED"
            /\ row.manual <= MaxDay
    BY <1>0, RowTypes, StatusWritten
  <2>3. /\ account' = [account EXCEPT ![u] = row] /\ halted' = halted \cup {u}
        /\ UNCHANGED <<grant, work, today, refresh, scope, raced>>
    BY <1>0, <1>2, <2>2, RowTypes DEF DisableCommit
  <2>4. /\ disabling' \in [Users -> SUBSET Users]
        /\ \A x \in Users : disabling'[x] \subseteq disabling[x]
    BY <1>0, <1>2, TypeKept DEF DisableCommit
  <2>5. ~Pristine
    BY <2>1 DEF Pristine
  <2> QED
    BY <1>0, <2>2, <2>3, <2>4, <2>5, TypeKept, InvAccount
<1> QED
  BY <1>1, <1>2

LEMMA InvEnable ==
  ASSUME AuthorityInv, NEW a \in Users, NEW u \in Users, Enable(a, u)
  PROVE  AuthorityInv'
<1>0. AuthorityTypeInv
  BY DEF AuthorityInv
<1>1. PICK c \in BOOLEAN, extend \in BOOLEAN : c = IsContractor(u) /\ extend = TRUE
  BY <1>0, RowTypes
<1>2. PICK old \in Account :
        /\ old = [account[u] EXCEPT !.status = "ACTIVE"]
        /\ old.status = "ACTIVE" /\ old.manual <= MaxDay
  BY <1>0, RowTypes, StatusWritten
<1>3. PICK row \in Account :
        /\ row = Refreshed(old, c, work[u], extend) /\ row.manual <= MaxDay
        /\ row.status # old.status => row.status \in {"ACTIVE", "EXPIRED"}
  <2>1. old.manual <= MaxDay
    BY <1>2
  <2>2. /\ Refreshed(old, c, work[u], extend) \in Account
        /\ Refreshed(old, c, work[u], extend).manual <= MaxDay
        /\ Refreshed(old, c, work[u], extend).status # old.status =>
             /\ Refreshed(old, c, work[u], extend).status \in {"ACTIVE", "EXPIRED"}
             /\ old.status \in {"ACTIVE", "EXPIRED"}
        /\ ~c => Refreshed(old, c, work[u], extend) = old
    BY <1>0, <2>1, RefreshedRow
  <2> QED
    BY <2>2
<1>4. /\ account' = [account EXCEPT ![u] = row] /\ Exists(u) /\ halted' = halted \ {u}
      /\ UNCHANGED <<grant, work, today, disabling, refresh, scope, raced>>
  BY <1>1, <1>2, <1>3 DEF Enable, Enabled
<1>5. ~Pristine /\ row.status # "ABSENT" /\ \A x \in Users : disabling'[x] \subseteq disabling[x]
  BY <1>2, <1>3, <1>4 DEF Pristine
<1> QED
  BY <1>0, <1>3, <1>4, <1>5, TypeKept, InvAccount

\* What a refresh writes over a row it may not have seen.
LEMMA WrittenType ==
  ASSUME NEW now \in Account, NEW read \in Account, NEW result \in Account
  PROVE  /\ Written(now, read, result) \in Account
         /\ Written(now, read, result).status =
              IF result.status # read.status THEN result.status ELSE now.status
         /\ Written(now, read, result).manual \in {now.manual, result.manual}
         /\ Written(now, read, result).expires =
              IF result.expires # read.expires THEN result.expires ELSE now.expires
<1>1. DOMAIN now = {"status", "expires", "manual"}
  BY DEF Account
<1>2. Written(now, read, result) =
        [status |-> IF result.status # read.status THEN result.status ELSE now.status,
         expires |-> IF result.expires # read.expires THEN result.expires ELSE now.expires,
         manual |-> IF result.manual # read.manual THEN result.manual ELSE now.manual]
  BY <1>1 DEF Written
<1> QED
  BY <1>2 DEF Account

\* A reading is taken or cleared.
LEMMA ReadingWritten ==
  ASSUME AuthorityTypeInv, NEW s \in Readers, NEW u \in Users, NEW reading \in Reading,
         ReadingSound(reading), refresh' = [refresh EXCEPT ![s][u] = reading]
  PROVE  /\ refresh' \in [Readers -> [Users -> Reading]]
         /\ \A x \in Readers, y \in Users : ReadingSound(refresh'[x][y])
         /\ \A x \in Readers, y \in Users :
              refresh'[x][y] = refresh[x][y] \/ (y = u /\ refresh'[x][y] = reading)
<1>0. refresh \in [Readers -> [Users -> Reading]]
  BY TypeKept
<1>1. \A x \in Readers, y \in Users :
        refresh'[x][y] = refresh[x][y] \/ (y = u /\ refresh'[x][y] = reading)
  BY <1>0
<1>2. refresh' \in [Readers -> [Users -> Reading]]
  BY <1>0
<1>3. ASSUME NEW x \in Readers, NEW y \in Users
      PROVE  ReadingSound(refresh'[x][y])
  BY <1>1, RowTypes
<1> QED
  BY <1>1, <1>2, <1>3

LEMMA NothingRead == NoReading \in Reading /\ ReadingSound(NoReading)
BY AuthorityAssumption DEF NoReading, Reading, ReadingSound, NoAccount, Account, Never

LEMMA InvRefresh ==
  ASSUME AuthorityInv, NEW s \in Readers, NEW u \in Users,
         (\E extend \in BOOLEAN : Begin(s, u, extend)) \/ RefreshCommit(s, u)
  PROVE  AuthorityInv'
<1>0. AuthorityTypeInv
  BY DEF AuthorityInv
<1>1. ASSUME NEW reading \in Reading, ReadingSound(reading),
             refresh' = [refresh EXCEPT ![s][u] = reading]
      PROVE  /\ refresh' \in [Readers -> [Users -> Reading]]
             /\ \A x \in Readers, y \in Users : ReadingSound(refresh'[x][y])
  BY <1>0, <1>1, ReadingWritten
<1>2. ASSUME NEW extend \in BOOLEAN, Begin(s, u, extend)
      PROVE  AuthorityInv'
  <2>1. PICK c \in BOOLEAN, old \in Account :
          c = TRUE /\ old = account[u] /\ old.manual <= MaxDay
    BY <1>0, RowTypes
  <2>2. /\ Refreshed(old, c, work[u], extend) \in Account
        /\ Refreshed(old, c, work[u], extend).manual <= MaxDay
        /\ Refreshed(old, c, work[u], extend).status # old.status =>
             /\ Refreshed(old, c, work[u], extend).status \in {"ACTIVE", "EXPIRED"}
             /\ old.status \in {"ACTIVE", "EXPIRED"}
    BY <1>0, <2>1, RefreshedRow
  <2>3. PICK reading \in Reading :
          /\ reading = [row |-> old, result |-> Refreshed(old, c, work[u], extend)]
          /\ ReadingSound(reading)
    <3>1. PICK new \in Account :
            /\ new = Refreshed(old, c, work[u], extend) /\ new.manual <= MaxDay
            /\ new.status # old.status =>
                 new.status \in {"ACTIVE", "EXPIRED"} /\ old.status \in {"ACTIVE", "EXPIRED"}
      BY <2>2
    <3> DEFINE reading == [row |-> old, result |-> new]
    <3>2. reading \in Reading /\ reading.row = old /\ reading.result = new
      BY DEF Reading
    <3> HIDE DEF reading
    <3>3. ReadingSound(reading)
      BY <2>1, <3>1, <3>2 DEF ReadingSound
    <3> QED
      BY <3>1, <3>2, <3>3 DEF reading
  <2>4. /\ IsContractor(u) /\ refresh' = [refresh EXCEPT ![s][u] = reading]
        /\ UNCHANGED <<account, grant, work, today, disabling, scope, halted, raced>>
    BY <1>2, <2>1, <2>3 DEF Begin
  <2>5. ~Pristine
    BY <2>4 DEF Pristine, IsContractor, Held
  <2>6. AuthorityTypeInv'
    BY <1>0, <1>1, <2>3, <2>4, TypeKept, TypeAssembled
  <2> QED
    BY <2>4, <2>5, <2>6, InvQuiet
<1>3. CASE RefreshCommit(s, u)
  <2>1. PICK reading \in Reading :
          reading = refresh[s][u] /\ reading # NoReading /\ ReadingSound(reading)
    BY <1>0, <1>3, RowTypes DEF RefreshCommit
  <2>2. PICK read \in Account, result \in Account : read = reading.row /\ result = reading.result
    BY DEF Reading
  <2>3. PICK now \in Account : now = account[u] /\ now.manual <= MaxDay
    BY <1>0, RowTypes
  <2>4. PICK row \in Account :
          /\ row = Written(now, read, result)
          /\ row.status = IF result.status # read.status THEN result.status ELSE now.status
          /\ row.manual \in {now.manual, result.manual}
    BY WrittenType
  <2>5. row.manual <= MaxDay
    BY <2>1, <2>2, <2>3, <2>4 DEF ReadingSound
  <2>6. /\ account' = [account EXCEPT ![u] = row]
        /\ refresh' = [refresh EXCEPT ![s][u] = NoReading]
        /\ raced' = IF now = read THEN raced ELSE raced \cup {u}
        /\ UNCHANGED <<grant, work, today, disabling, scope, halted>>
    BY <1>3, <2>1, <2>2, <2>3, <2>4 DEF RefreshCommit
  <2>7. NoReading \in Reading /\ ReadingSound(NoReading)
    BY NothingRead
  <2>8. ~Pristine
    BY <2>1 DEF Pristine
  <2>9. row.status # now.status =>
          row.status \in {"ACTIVE", "EXPIRED"} /\ read.status \in {"ACTIVE", "EXPIRED"}
    BY <2>1, <2>2, <2>4 DEF ReadingSound
  <2>10. /\ Exists(u) => row.status # "ABSENT"
         /\ u \in raced' \/ u \notin halted' \/ (u \in halted /\ row.status = account[u].status)
    <3>1. u \in halted => account[u].status = "DISABLED" \/ u \in raced
      BY DEF AuthorityInv, DisabledStays
    <3> QED
      BY <2>3, <2>6, <2>9, <3>1 DEF Exists
  <2>11. \A x \in Users : disabling'[x] \subseteq disabling[x]
    BY <2>6
  <2> QED
    BY <1>0, <1>1, <2>5, <2>6, <2>7, <2>8, <2>10, <2>11, TypeKept, InvAccount
<1> QED
  BY <1>2, <1>3

\* What the status form of the crew page makes of the row it has read.
LEMMA AssistResult ==
  ASSUME AuthorityTypeInv, NEW u \in Users, AssistDisable(u) \/ AssistEnable(u)
  PROVE  \E read \in Account, result \in Account :
           /\ Assisted(u, read, result)
           /\ result.manual <= MaxDay /\ result.expires >= read.expires
           /\ \/ result.status = "DISABLED" /\ halted' = halted \cup {u}
              \/ result.status \in {"ACTIVE", "EXPIRED"} /\ halted' = halted \ {u}
<1>1. CrewPage \in Readers
  BY DEF Readers
<1>2. PICK reading \in Reading : reading = refresh[CrewPage][u] /\ ReadingSound(reading)
  BY <1>1, RowTypes
<1>3. PICK read \in Account : read = refresh[CrewPage][u].row /\ read.manual <= MaxDay
  BY <1>2 DEF Reading, ReadingSound
<1>4. PICK disabled \in Account :
        /\ disabled = [read EXCEPT !.status = "DISABLED"]
        /\ disabled.status = "DISABLED" /\ disabled.manual <= MaxDay
  BY <1>3, StatusWritten
<1>5. PICK active \in Account :
        /\ active = [read EXCEPT !.status = "ACTIVE"]
        /\ active.status = "ACTIVE" /\ active.manual <= MaxDay
  BY <1>3, StatusWritten
<1>6. disabled.expires = read.expires /\ active.expires = read.expires /\ read.expires \in Int
  BY <1>4, <1>5, AuthorityAssumption DEF Account, Days, Never
<1>7. CASE AssistDisable(u)
  <2>1. Assisted(u, read, disabled) /\ halted' = halted \cup {u}
    BY <1>3, <1>4, <1>7 DEF AssistDisable
  <2>2. disabled.expires >= read.expires /\ disabled.manual <= MaxDay /\ disabled.status = "DISABLED"
    BY <1>4, <1>6
  <2> QED
    BY <2>1, <2>2
<1>8. CASE AssistEnable(u)
  <2>1. PICK c \in BOOLEAN, extend \in BOOLEAN : c = IsContractor(u) /\ extend = TRUE
    BY RowTypes
  <2>2. PICK result \in Account :
          /\ result = Refreshed(active, c, work[u], extend)
          /\ result.manual <= MaxDay /\ result.expires >= active.expires
          /\ result.status # active.status => result.status \in {"ACTIVE", "EXPIRED"}
    <3>0. active.manual <= MaxDay
      BY <1>5
    <3>1. /\ Refreshed(active, c, work[u], extend) \in Account
          /\ Refreshed(active, c, work[u], extend).manual <= MaxDay
          /\ Refreshed(active, c, work[u], extend).expires >= active.expires
          /\ Refreshed(active, c, work[u], extend).status # active.status =>
               Refreshed(active, c, work[u], extend).status \in {"ACTIVE", "EXPIRED"}
      BY <3>0, RefreshedRow
    <3> QED
      BY <3>1
  <2>3. Assisted(u, read, result) /\ halted' = halted \ {u}
    BY <1>3, <1>5, <1>8, <2>1, <2>2 DEF AssistEnable, Enabled
  <2> QED
    BY <1>5, <1>6, <2>2, <2>3
<1> QED
  BY <1>7, <1>8

\* The row the crew page leaves.
LEMMA AssistedRow ==
  ASSUME AuthorityTypeInv, NEW u \in Users, NEW read \in Account, NEW result \in Account,
         Assisted(u, read, result), result.manual <= MaxDay, result.expires >= read.expires
  PROVE  \E row \in Account :
           /\ account' = [account EXCEPT ![u] = row] /\ row.manual <= MaxDay
           /\ row.status \in {result.status, account[u].status}
           /\ row.status = result.status \/ u \in raced'
           /\ row.expires >= account[u].expires \/ u \in raced'
<1>1. PICK now \in Account : now = account[u] /\ now.manual <= MaxDay
  BY RowTypes
<1>2. PICK row \in Account :
        /\ row = Written(now, read, result)
        /\ row.status = IF result.status # read.status THEN result.status ELSE now.status
        /\ row.manual \in {now.manual, result.manual}
        /\ row.expires = IF result.expires # read.expires THEN result.expires ELSE now.expires
  BY WrittenType
<1>3. /\ account' = [account EXCEPT ![u] = row]
      /\ raced' = IF now = read THEN raced ELSE raced \cup {u}
  BY <1>1, <1>2 DEF Assisted
<1>4. now.expires \in Int
  BY AuthorityAssumption DEF Account, Days, Never
<1>5. now = read \/ u \in raced'
  BY <1>3
<1>6. row.expires >= now.expires \/ u \in raced'
  BY <1>2, <1>4, <1>5
<1>7. row.status = result.status \/ u \in raced'
  BY <1>2, <1>5
<1> QED
  BY <1>1, <1>2, <1>3, <1>6, <1>7

LEMMA InvAssist ==
  ASSUME AuthorityInv, NEW u \in Users,
         (\E a \in Users : AssistRead(a, u)) \/ AssistDisable(u) \/ AssistEnable(u)
  PROVE  AuthorityInv'
<1>0. AuthorityTypeInv /\ CrewPage \in Readers
  BY DEF AuthorityInv, Readers
<1>1. ASSUME NEW a \in Users, AssistRead(a, u)
      PROVE  AuthorityInv'
  <2>1. PICK old \in Account : old = account[u] /\ old.manual <= MaxDay
    BY <1>0, RowTypes
  <2> DEFINE reading == [row |-> old, result |-> old]
  <2>2. reading \in Reading /\ reading.row = old /\ reading.result = old
    BY DEF Reading
  <2>3. /\ Exists(u) /\ refresh' = [refresh EXCEPT ![CrewPage][u] = reading]
        /\ UNCHANGED <<account, grant, work, today, disabling, scope, halted, raced>>
    BY <1>1, <2>1 DEF AssistRead
  <2> HIDE DEF reading
  <2>4. ReadingSound(reading)
    BY <2>1, <2>2 DEF ReadingSound
  <2>5. /\ refresh' \in [Readers -> [Users -> Reading]]
        /\ \A x \in Readers, y \in Users : ReadingSound(refresh'[x][y])
    BY <1>0, <2>2, <2>3, <2>4, ReadingWritten
  <2>6. AuthorityTypeInv'
    BY <1>0, <2>3, <2>5, TypeKept, TypeAssembled
  <2>7. ~Pristine
    BY <2>3 DEF Pristine
  <2> QED
    BY <2>3, <2>6, <2>7, InvQuiet
<1>2. CASE AssistDisable(u) \/ AssistEnable(u)
  <2>1. PICK read \in Account, result \in Account :
          /\ Assisted(u, read, result)
          /\ result.manual <= MaxDay /\ result.expires >= read.expires
          /\ \/ result.status = "DISABLED" /\ halted' = halted \cup {u}
             \/ result.status \in {"ACTIVE", "EXPIRED"} /\ halted' = halted \ {u}
    BY <1>0, <1>2, AssistResult
  <2>2. PICK row \in Account :
          /\ account' = [account EXCEPT ![u] = row] /\ row.manual <= MaxDay
          /\ row.status \in {result.status, account[u].status}
          /\ row.status = result.status \/ u \in raced'
    BY <1>0, <2>1, AssistedRow
  <2>3. /\ refresh[CrewPage][u] # NoReading
        /\ refresh' = [refresh EXCEPT ![CrewPage][u] = NoReading]
        /\ raced' = raced \/ raced' = raced \cup {u}
        /\ UNCHANGED <<grant, work, today, disabling, scope>>
    BY <2>1 DEF Assisted
  <2>4. /\ refresh' \in [Readers -> [Users -> Reading]]
        /\ \A x \in Readers, y \in Users : ReadingSound(refresh'[x][y])
    BY <1>0, <2>3, NothingRead, ReadingWritten
  <2>5. ~Pristine
    BY <1>0, <2>3 DEF Pristine
  <2>6. Exists(u) => row.status # "ABSENT"
    BY <2>1, <2>2 DEF Exists
  <2>7. row.status = "DISABLED" \/ u \in raced' \/ u \notin halted'
    BY <2>1, <2>2
  <2>8. /\ \A x \in Users : disabling'[x] \subseteq disabling[x]
        /\ halted' \subseteq halted \cup {u}
        /\ raced \subseteq raced' /\ raced' \subseteq raced \cup {u}
    BY <2>1, <2>3
  <2> QED
    BY <1>0, <2>2, <2>3, <2>4, <2>5, <2>6, <2>7, <2>8, TypeKept, InvAccount
<1> QED
  BY <1>1, <1>2

LEMMA InvWork ==
  ASSUME AuthorityInv, NEW u \in Users, LoseWork(u) \/ \E d \in Days : PublishWork(u, d)
  PROVE  AuthorityInv'
<1>0. AuthorityTypeInv
  BY DEF AuthorityInv
<1>1. MaxDay \in Nat /\ Horizon \in Nat
  BY AuthorityAssumption
<1>2. ASSUME NEW d \in {Never} \cup Days, d <= MaxDay + Horizon, work' = [work EXCEPT ![u] = d]
      PROVE  /\ work' \in [Users -> {Never} \cup Days]
             /\ \A x \in Users : work'[x] <= MaxDay + Horizon
  BY <1>0, <1>2, RowTypes, TypeKept
<1>3. CASE LoseWork(u)
  <2>1. /\ work' = [work EXCEPT ![u] = Never]
        /\ UNCHANGED <<account, grant, today, disabling, refresh, scope, halted, raced>>
    BY <1>3 DEF LoseWork
  <2>2. Never <= MaxDay + Horizon
    BY <1>1 DEF Never
  <2>3. AuthorityTypeInv'
    BY <1>0, <1>2, <2>1, <2>2, TypeKept, TypeAssembled
  <2> QED
    BY <2>1, <2>3, InvQuiet
<1>4. ASSUME NEW d \in Days, PublishWork(u, d)
      PROVE  AuthorityInv'
  <2>1. PICK c \in BOOLEAN, extend \in BOOLEAN, old \in Account :
          /\ c = IsContractor(u) /\ extend = FALSE
          /\ old = account[u] /\ old.manual <= MaxDay
    BY <1>0, RowTypes
  <2>2. PICK row \in Account :
          /\ row = Refreshed(old, c, work[u], extend) /\ row.manual <= MaxDay
          /\ row.status # old.status => /\ row.status \in {"ACTIVE", "EXPIRED"}
                                        /\ old.status \in {"ACTIVE", "EXPIRED"}
          /\ ~c => row = old
    <3>1. /\ Refreshed(old, c, work[u], extend) \in Account
          /\ Refreshed(old, c, work[u], extend).manual <= MaxDay
          /\ Refreshed(old, c, work[u], extend).status # old.status =>
               /\ Refreshed(old, c, work[u], extend).status \in {"ACTIVE", "EXPIRED"}
               /\ old.status \in {"ACTIVE", "EXPIRED"}
          /\ ~c => Refreshed(old, c, work[u], extend) = old
      BY <1>0, <2>1, RefreshedRow
    <3> QED
      BY <3>1
  <2>3. /\ d \in today .. today + Horizon /\ work' = [work EXCEPT ![u] = d]
        /\ account' = [account EXCEPT ![u] = row]
        /\ UNCHANGED <<grant, today, disabling, refresh, scope, halted, raced>>
    BY <1>4, <2>1, <2>2 DEF PublishWork
  <2>4. d <= MaxDay + Horizon
    <3>1. today \in 1 .. MaxDay
      BY <1>0, RowTypes
    <3> QED
      BY <1>1, <2>3, <3>1
  <2>5. ~Pristine \/ row = account[u]
    BY <2>1, <2>2 DEF Pristine, IsContractor, Held
  <2>6. u \in halted => account[u].status = "DISABLED" \/ u \in raced
    BY DEF AuthorityInv, DisabledStays
  <2>7. /\ Exists(u) => row.status # "ABSENT"
        /\ u \in raced' \/ u \notin halted' \/ (u \in halted /\ row.status = account[u].status)
    BY <2>1, <2>2, <2>3, <2>6 DEF Exists
  <2>8. \A x \in Users : disabling'[x] \subseteq disabling[x]
    BY <2>3
  <2> QED
    BY <1>0, <1>2, <2>2, <2>3, <2>4, <2>5, <2>7, <2>8, TypeKept, InvAccount
<1> QED
  BY <1>3, <1>4

LEMMA InvNextDay ==
  ASSUME AuthorityInv, NextDay
  PROVE  AuthorityInv'
<1>0. AuthorityTypeInv
  BY DEF AuthorityInv
<1>1. today' \in 1 .. MaxDay
  <2>1. scope \in Scopes /\ today \in 1 .. MaxDay
    BY <1>0 DEF AuthorityTypeInv, AuthorityTypeOK
  <2>2. scope.days \in 1 .. MaxDay /\ MaxDay \in Nat
    BY <2>1, AuthorityAssumption
  <2> QED
    BY <2>1, <2>2 DEF NextDay
<1>2. AuthorityTypeInv'
  BY <1>0, <1>1 DEF NextDay, AuthorityTypeInv, AuthorityTypeOK, ReadingSound
<1> QED
  BY <1>2, InvQuiet DEF NextDay

LEMMA InvInit ==
  ASSUME AuthorityInit
  PROVE  AuthorityInv
<1>1. NoAccount \in Account /\ NoAccount.manual = 0 /\ NoAccount.status = "ABSENT"
  BY DEF NoAccount, Account, Never
<1>2. NoReading \in Reading /\ NoReading.result = NoAccount /\ NoReading.row = NoAccount
  BY <1>1 DEF NoReading, Reading
<1>3. /\ scope \in Scopes /\ MaxDay \in Nat /\ Horizon \in Nat
      /\ scope.days \in 1 .. MaxDay
  BY AuthorityAssumption DEF AuthorityInit
<1>4. \A s \in Readers, u \in Users : refresh[s][u] = NoReading
  BY DEF AuthorityInit
<1>5. AuthorityTypeOK
  <2>1. NoGrants \in [Roles -> GrantStatus]
    BY DEF NoGrants, GrantStatus
  <2>2. today \in 1 .. MaxDay
    BY <1>3 DEF AuthorityInit
  <2> QED
    BY <1>1, <1>2, <1>3, <2>1, <2>2 DEF AuthorityInit, AuthorityTypeOK
<1>6. AuthorityTypeInv
  BY <1>1, <1>2, <1>3, <1>4, <1>5 DEF AuthorityInit, AuthorityTypeInv, ReadingSound, Never
<1>7. \A u \in Users : Held(u) = {} /\ ~Exists(u) /\ disabling[u] = {}
  BY <1>1 DEF AuthorityInit, Held, NoGrants, Exists
<1>8. Pristine
  BY <1>4, <1>7 DEF Pristine
<1> QED
  BY <1>6, <1>7, <1>8
    DEF AuthorityInv, HoldersExist, ContractorExclusive, DisablingSound, DisabledStays, AuthorityInit

\* No form, sign-in, refresh or passing day breaks the rules of grants and status.
LEMMA InvStep ==
  ASSUME AuthorityInv, [AuthorityNext]_authorityVars
  PROVE  AuthorityInv'
<1>1. CASE UNCHANGED authorityVars
  <2>1. AuthorityTypeInv'
    BY <1>1 DEF AuthorityInv, AuthorityTypeInv, AuthorityTypeOK, ReadingSound, authorityVars
  <2> QED
    BY <1>1, <2>1, InvQuiet DEF authorityVars
<1>2. ASSUME NEW u \in Users,
             \/ CreateAdmin(u) \/ SchedulerRefresh(u) \/ LoseWork(u)
             \/ AssistDisable(u) \/ AssistEnable(u)
             \/ \E r \in Roles : ActivateInvitation(u, r)
             \/ \E eligible \in BOOLEAN : SignInActivates(u, eligible)
             \/ \E d \in Days : PublishWork(u, d)
             \/ \E s \in Sources : RefreshCommit(s, u)
      PROVE  AuthorityInv'
  <2>1. CASE CreateAdmin(u)
    BY <2>1, InvOpened DEF CreateAdmin
  <2>2. CASE SchedulerRefresh(u)
    <3>1. PICK s \in Readers, extend \in BOOLEAN : Begin(s, u, extend)
      BY <2>2 DEF SchedulerRefresh, Sources, Readers
    <3> QED
      BY <3>1, InvRefresh
  <2>3. ASSUME NEW r \in Roles, ActivateInvitation(u, r)
        PROVE  AuthorityInv'
    <3>1. ~Pristine
      BY <2>3 DEF ActivateInvitation, Pristine
    <3> QED
      BY <2>3, <3>1, InvOpened DEF ActivateInvitation
  <2> QED
    BY <1>2, <2>1, <2>2, <2>3, InvSignIn, InvWork, InvAssist, InvRefresh DEF Readers
<1>3. ASSUME NEW u \in Users, NEW a \in Users,
             \/ \E r \in Roles : \/ CreateAccount(a, u, r) \/ GrantRole(a, u, r)
                                 \/ RevokeGrant(a, u, r) \/ ChangeEmployment(a, u, r)
             \/ SwitchSubManager(a, u) \/ DisableCheck(a, u) \/ DisableCommit(a, u)
             \/ Enable(a, u) \/ AssistRead(a, u) \/ ExtendAccess(a, u)
      PROVE  AuthorityInv'
  <2>1. ASSUME NEW r \in Roles, CreateAccount(a, u, r)
        PROVE  AuthorityInv'
    <3>1. ~Pristine
      BY <2>1, ActorsExist DEF CreateAccount
    <3> QED
      BY <2>1, <3>1, InvOpened DEF CreateAccount
  <2>2. CASE SwitchSubManager(a, u)
    BY <2>2, InvGrantRole, InvRevokeGrant DEF SwitchSubManager
  <2>3. CASE ExtendAccess(a, u)
    <3>1. PICK s \in Readers, extend \in BOOLEAN : Begin(s, u, extend)
      BY <2>3 DEF ExtendAccess, Sources, Readers
    <3> QED
      BY <3>1, InvRefresh
  <2> QED
    BY <1>3, <2>1, <2>2, <2>3, InvGrantRole, InvRevokeGrant, InvChangeEmployment, InvDisable, InvEnable,
       InvAssist
<1> QED
  BY <1>1, <1>2, <1>3, InvNextDay DEF AuthorityNext

LEMMA InvAlways == AuthoritySpec => []AuthorityInv
<1>1. AuthorityInit => AuthorityInv
  BY InvInit
<1>2. AuthorityInv /\ [AuthorityNext]_authorityVars => AuthorityInv'
  BY InvStep
<1> QED
  BY <1>1, <1>2, PTL DEF AuthoritySpec

\* The rows of accounts, grants and refreshes hold values of their types, and no day
\* that Contractor access is counted to runs past the calendar of the model.
THEOREM AuthorityTypeCorrect == AuthoritySpec => []AuthorityTypeOK
<1>1. AuthorityInv => AuthorityTypeOK
  BY DEF AuthorityInv, AuthorityTypeInv
<1> QED
  BY <1>1, InvAlways, PTL

\* Contractor access is an account's only role, whichever forms stage what and
\* whoever signs in meanwhile (grant_role, change_employment, activate_pending_grants).
THEOREM ContractorAlwaysExclusive == AuthoritySpec => []ContractorExclusive
<1>1. AuthorityInv => ContractorExclusive
  BY DEF AuthorityInv
<1> QED
  BY <1>1, InvAlways, PTL

\* Once there is an account there is an active Admin grant: the count under the global
\* lock (revoke_role_grant) leaves another, whatever is staged, signed in or disabled.
THEOREM AdminGrantAlwaysRemains == AuthoritySpec => []AdminGrantRemains
<1>1. AuthorityInv => AdminGrantRemains
  BY DEF AuthorityInv, AdminGrantRemains, Pristine, SomeAdmin
<1> QED
  BY <1>1, InvAlways, PTL

\* A disabled account stays disabled until an administrator enables it, whatever work
\* is published and whoever signs in, unless a refresh or the crew page writes from a row
\* that has changed since it was read (contractor_access.py:176, crew/routes.py:819).
THEOREM DisabledAlwaysStays == AuthoritySpec => []DisabledStays
<1>1. AuthorityInv => DisabledStays
  BY DEF AuthorityInv
<1> QED
  BY <1>1, InvAlways, PTL

-----------------------------------------------------------------------------
(* Contractor access is not shortened.                                     *)

\* What a refresh has computed ends no earlier than the row it read; where there is no
\* account nothing ends and nothing has been read.
LaterInv ==
  /\ AuthorityInv
  /\ \A u \in Users : ~Exists(u) => account[u].expires = Never
  /\ \A s \in Readers, u \in Users :
       /\ refresh[s][u].result.expires >= refresh[s][u].row.expires
       /\ refresh[s][u] # NoReading => Exists(u)

AccessKept(u) == account'[u].expires >= account[u].expires \/ u \in raced'

LEMMA AccountTypes ==
  ASSUME LaterInv
  PROVE  /\ AuthorityTypeInv /\ account \in [Users -> Account]
         /\ \A u \in Users : account[u] \in Account /\ account[u].expires \in Nat
         /\ NoReading.result.expires >= NoReading.row.expires
<1>1. AuthorityTypeInv /\ MaxDay \in Nat /\ Horizon \in Nat /\ Inactivity \in Nat
  BY AuthorityAssumption DEF LaterInv, AuthorityInv
<1>2. Days \subseteq Nat /\ Never \in Nat
  BY <1>1 DEF Days, Never
<1>3. NoReading.result.expires >= NoReading.row.expires
  BY DEF NoReading, NoAccount, Never
<1> QED
  BY <1>1, <1>2, <1>3, RowTypes DEF Account

LEMMA LaterQuiet ==
  ASSUME LaterInv, AuthorityInv', UNCHANGED <<account, refresh>>
  PROVE  LaterInv' /\ \A x \in Users : AccessKept(x)
<1>1. LaterInv'
  BY DEF LaterInv, Exists
<1>2. \A x \in Users : AccessKept(x)
  BY AccountTypes DEF AccessKept
<1> QED
  BY <1>1, <1>2

\* One row is written; a refresh may end with it.
LEMMA LaterWritten ==
  ASSUME LaterInv, AuthorityInv', NEW u \in Users, NEW row \in Account,
         account' = [account EXCEPT ![u] = row],
         row.status # "ABSENT" \/ row = account[u],
         row.expires >= account[u].expires \/ u \in raced',
         \A s \in Readers, x \in Users : refresh'[s][x] \in {refresh[s][x], NoReading}
  PROVE  LaterInv' /\ \A x \in Users : AccessKept(x)
<1>1. account'[u] = row /\ \A x \in Users \ {u} : account'[x] = account[x]
  BY AccountTypes
<1>2. \A x \in Users : AccessKept(x)
  BY <1>1, AccountTypes DEF AccessKept
<1>3. \A x \in Users : Exists(x) => Exists(x)'
  BY <1>1 DEF Exists
<1>4. ASSUME NEW x \in Users, ~Exists(x)'
      PROVE  account'[x].expires = Never
  BY <1>1, <1>4 DEF LaterInv, Exists
<1>5. ASSUME NEW s \in Readers, NEW x \in Users
      PROVE  /\ refresh'[s][x].result.expires >= refresh'[s][x].row.expires
             /\ refresh'[s][x] # NoReading => Exists(x)'
  BY <1>3, AccountTypes DEF LaterInv
<1>6. NoReading' = NoReading
  BY DEF NoReading, NoAccount
<1> QED
  BY <1>2, <1>4, <1>5, <1>6 DEF LaterInv

\* A row of an account is refreshed: the access it had, it keeps.
LEMMA LaterRefreshed ==
  ASSUME LaterInv, AuthorityInv', NEW u \in Users, NEW c \in BOOLEAN, NEW extend \in BOOLEAN,
         NEW old \in Account, old.manual <= MaxDay, old.expires = account[u].expires,
         account' = [account EXCEPT ![u] = Refreshed(old, c, work[u], extend)],
         old.status # "ABSENT" \/ (~c /\ old = account[u]),
         UNCHANGED refresh
  PROVE  LaterInv' /\ \A x \in Users : AccessKept(x)
<1>1. PICK row \in Account :
        /\ row = Refreshed(old, c, work[u], extend) /\ row.expires >= old.expires
        /\ row.status # old.status => row.status \in {"ACTIVE", "EXPIRED"}
        /\ ~c => row = old
  <2>1. /\ Refreshed(old, c, work[u], extend) \in Account
        /\ Refreshed(old, c, work[u], extend).expires >= old.expires
        /\ Refreshed(old, c, work[u], extend).status # old.status =>
             Refreshed(old, c, work[u], extend).status \in {"ACTIVE", "EXPIRED"}
        /\ ~c => Refreshed(old, c, work[u], extend) = old
    BY AccountTypes, RefreshedRow
  <2> QED
    BY <2>1
<1>2. /\ row.status # "ABSENT" \/ row = account[u]
      /\ row.expires >= account[u].expires
  BY <1>1
<1> QED
  BY <1>1, <1>2, LaterWritten

LEMMA LaterAccounts ==
  ASSUME LaterInv, AuthorityInv', NEW u \in Users,
         \/ \E r \in Roles : Opened(u, r)
         \/ \E eligible \in BOOLEAN : SignInActivates(u, eligible)
         \/ \E d \in Days : PublishWork(u, d)
         \/ \E a \in Users : Enable(a, u)
  PROVE  LaterInv' /\ \A x \in Users : AccessKept(x)
<1>0. /\ AuthorityTypeInv /\ IsContractor(u) \in BOOLEAN
      /\ account[u] \in Account /\ account[u].manual <= MaxDay
  BY AccountTypes, RowTypes
<1>1. PICK yes \in BOOLEAN, no \in BOOLEAN : yes = TRUE /\ no = FALSE
  OBVIOUS
<1>2. ASSUME NEW r \in Roles, Opened(u, r)
      PROVE  LaterInv' /\ \A x \in Users : AccessKept(x)
  <2>1. PICK old \in Account : old = NewAccount /\ old.manual <= MaxDay /\ old.status = "ACTIVE"
    BY <1>0, RowTypes
  <2>2. old.expires = account[u].expires
    BY <1>2, <2>1 DEF LaterInv, Opened, NewAccount, NoAccount
  <2>3. account' = [account EXCEPT ![u] = Refreshed(old, IsContractor(u), work[u], yes)]
    BY <1>1, <1>2, <2>1 DEF Opened
  <2>4. UNCHANGED refresh
    BY <1>2 DEF Opened
  <2> QED
    BY <1>0, <2>1, <2>2, <2>3, <2>4, LaterRefreshed
<1>3. ASSUME NEW eligible \in BOOLEAN, SignInActivates(u, eligible)
      PROVE  LaterInv' /\ \A x \in Users : AccessKept(x)
  <2>1. PICK c \in BOOLEAN :
          account' = [account EXCEPT ![u] = Refreshed(account[u], c, work[u], yes)]
    <3> DEFINE pending == {r \in Roles : grant[u][r] = "PENDING" /\ (r = "ADMIN" => eligible)}
    <3>1. account' = [account EXCEPT ![u] =
            Refreshed(account[u], "CONTRACTOR" \in pending /\ IsContractor(u), work[u], TRUE)]
      BY <1>3 DEF SignInActivates
    <3>2. ("CONTRACTOR" \in pending /\ IsContractor(u)) \in BOOLEAN
      OBVIOUS
    <3> HIDE DEF pending
    <3> QED
      BY <1>1, <3>1, <3>2
  <2>2. account[u].status # "ABSENT" /\ UNCHANGED refresh
    BY <1>3 DEF SignInActivates
  <2> QED
    BY <1>0, <2>1, <2>2, LaterRefreshed
<1>4. ASSUME NEW d \in Days, PublishWork(u, d)
      PROVE  LaterInv' /\ \A x \in Users : AccessKept(x)
  <2>1. account' = [account EXCEPT ![u] = Refreshed(account[u], IsContractor(u), work[u], no)]
    BY <1>1, <1>4 DEF PublishWork
  <2>2. IsContractor(u) => account[u].status # "ABSENT"
    BY DEF LaterInv, AuthorityInv, HoldersExist, Held, IsContractor, Exists
  <2>3. UNCHANGED refresh
    BY <1>4 DEF PublishWork
  <2> QED
    BY <1>0, <2>1, <2>2, <2>3, LaterRefreshed
<1>5. ASSUME NEW a \in Users, Enable(a, u)
      PROVE  LaterInv' /\ \A x \in Users : AccessKept(x)
  <2>1. PICK old \in Account :
          /\ old = [account[u] EXCEPT !.status = "ACTIVE"]
          /\ old.status = "ACTIVE" /\ old.manual <= MaxDay
    BY <1>0, StatusWritten
  <2>2. old.expires = account[u].expires
    BY <1>0, <2>1 DEF Account
  <2>3. /\ account' = [account EXCEPT ![u] = Refreshed(old, IsContractor(u), work[u], yes)]
        /\ UNCHANGED refresh
    BY <1>1, <1>5, <2>1 DEF Enable, Enabled
  <2> QED
    BY <1>0, <2>1, <2>2, <2>3, LaterRefreshed
<1> QED
  BY <1>2, <1>3, <1>4, <1>5

LEMMA LaterRefresh ==
  ASSUME LaterInv, AuthorityInv', NEW s \in Readers, NEW u \in Users,
         (\E extend \in BOOLEAN : Begin(s, u, extend)) \/ RefreshCommit(s, u)
  PROVE  LaterInv' /\ \A x \in Users : AccessKept(x)
<1>0. /\ AuthorityTypeInv /\ refresh \in [Readers -> [Users -> Reading]]
      /\ account[u] \in Account /\ account[u].manual <= MaxDay
  BY AccountTypes, RowTypes, TypeKept
<1>1. ASSUME NEW extend \in BOOLEAN, Begin(s, u, extend)
      PROVE  LaterInv' /\ \A x \in Users : AccessKept(x)
  <2>1. PICK c \in BOOLEAN, old \in Account : c = TRUE /\ old = account[u] /\ old.manual <= MaxDay
    BY <1>0
  <2>2. /\ Refreshed(old, c, work[u], extend) \in Account
        /\ Refreshed(old, c, work[u], extend).expires >= old.expires
    BY <1>0, <2>1, RefreshedRow
  <2>3. PICK new \in Account : /\ new = Refreshed(old, c, work[u], extend)
                               /\ new.expires >= old.expires
    BY <2>2
  <2>4. /\ IsContractor(u) /\ UNCHANGED account
        /\ refresh' = [refresh EXCEPT ![s][u] = [row |-> old, result |-> new]]
    BY <1>1, <2>1, <2>3 DEF Begin
  <2>5. Exists(u)
    BY <2>4 DEF LaterInv, AuthorityInv, HoldersExist, Held, IsContractor
  <2>6. ASSUME NEW t \in Readers, NEW x \in Users
        PROVE  \/ refresh'[t][x] = refresh[t][x]
               \/ x = u /\ refresh'[t][x] = [row |-> old, result |-> new]
    BY <1>0, <2>4
  <2>7. ASSUME NEW t \in Readers, NEW x \in Users
        PROVE  /\ refresh'[t][x].result.expires >= refresh'[t][x].row.expires
               /\ refresh'[t][x] # NoReading => Exists(x)
    <3>1. /\ refresh[t][x].result.expires >= refresh[t][x].row.expires
          /\ refresh[t][x] # NoReading => Exists(x)
      BY DEF LaterInv
    <3> QED
      BY <2>3, <2>5, <2>6, <3>1
  <2>8. LaterInv'
    BY <2>4, <2>7 DEF LaterInv, Exists, NoReading, NoAccount
  <2> QED
    BY <2>4, <2>8, AccountTypes DEF AccessKept
<1>2. CASE RefreshCommit(s, u)
  <2>1. PICK read \in Account, result \in Account :
          /\ read = refresh[s][u].row /\ result = refresh[s][u].result
          /\ result.expires >= read.expires /\ refresh[s][u] # NoReading
          /\ result.status # read.status => result.status \in {"ACTIVE", "EXPIRED"}
    BY <1>0, <1>2, RowTypes DEF LaterInv, RefreshCommit, Reading, ReadingSound
  <2>2. PICK now \in Account, row \in Account :
          /\ now = account[u] /\ row = Written(now, read, result)
          /\ row.status = IF result.status # read.status THEN result.status ELSE now.status
          /\ row.expires = IF result.expires # read.expires THEN result.expires ELSE now.expires
    BY <1>0, WrittenType
  <2>3. /\ account' = [account EXCEPT ![u] = row]
        /\ refresh' = [refresh EXCEPT ![s][u] = NoReading]
        /\ raced' = IF now = read THEN raced ELSE raced \cup {u}
    BY <1>2, <2>1, <2>2 DEF RefreshCommit
  <2>4. now.status # "ABSENT" /\ now.expires \in Nat
    BY <2>1, <2>2, AccountTypes DEF LaterInv, Exists
  <2>5. row.status # "ABSENT"
    BY <2>1, <2>2, <2>4
  <2>6. row.expires >= account[u].expires \/ u \in raced'
    BY <2>1, <2>2, <2>3, <2>4
  <2>7. \A t \in Readers, x \in Users : refresh'[t][x] \in {refresh[t][x], NoReading}
    BY <1>0, <2>3
  <2> QED
    BY <2>2, <2>3, <2>5, <2>6, <2>7, LaterWritten
<1> QED
  BY <1>1, <1>2

LEMMA LaterDisabled ==
  ASSUME LaterInv, AuthorityInv', NEW a \in Users, NEW u \in Users,
         DisableCommit(a, u)
  PROVE  LaterInv' /\ \A x \in Users : AccessKept(x)
<1>1. account[u] \in Account /\ account[u].manual <= MaxDay /\ account[u].expires \in Nat
  BY AccountTypes, RowTypes
<1>2. PICK row \in Account :
        row = [account[u] EXCEPT !.status = "DISABLED"] /\ row.status = "DISABLED"
  BY <1>1, StatusWritten
<1>3. row.expires = account[u].expires
  BY <1>1, <1>2 DEF Account
<1>4. account' = [account EXCEPT ![u] = row] /\ UNCHANGED refresh
  BY <1>2 DEF DisableCommit
<1>5. row.status # "ABSENT" /\ row.expires >= account[u].expires
  BY <1>1, <1>2, <1>3
<1> QED
  BY <1>4, <1>5, LaterWritten

LEMMA LaterAssist ==
  ASSUME LaterInv, AuthorityInv', NEW u \in Users,
         (\E a \in Users : AssistRead(a, u)) \/ AssistDisable(u) \/ AssistEnable(u)
  PROVE  LaterInv' /\ \A x \in Users : AccessKept(x)
<1>0. AuthorityTypeInv /\ CrewPage \in Readers /\ refresh \in [Readers -> [Users -> Reading]]
  BY AccountTypes, TypeKept DEF Readers
<1>1. ASSUME NEW a \in Users, AssistRead(a, u)
      PROVE  LaterInv' /\ \A x \in Users : AccessKept(x)
  <2>1. PICK old \in Account : old = account[u] /\ old.expires \in Nat
    BY AccountTypes
  <2>2. /\ Exists(u) /\ UNCHANGED account
        /\ refresh' = [refresh EXCEPT ![CrewPage][u] = [row |-> old, result |-> old]]
    BY <1>1, <2>1 DEF AssistRead
  <2>3. ASSUME NEW t \in Readers, NEW x \in Users
        PROVE  \/ refresh'[t][x] = refresh[t][x]
               \/ x = u /\ refresh'[t][x] = [row |-> old, result |-> old]
    BY <1>0, <2>2
  <2>4. ASSUME NEW t \in Readers, NEW x \in Users
        PROVE  /\ refresh'[t][x].result.expires >= refresh'[t][x].row.expires
               /\ refresh'[t][x] # NoReading => Exists(x)
    <3>1. /\ refresh[t][x].result.expires >= refresh[t][x].row.expires
          /\ refresh[t][x] # NoReading => Exists(x)
      BY DEF LaterInv
    <3> QED
      BY <2>1, <2>2, <2>3, <3>1
  <2>5. LaterInv'
    BY <2>2, <2>4 DEF LaterInv, Exists, NoReading, NoAccount
  <2> QED
    BY <2>2, <2>5, AccountTypes DEF AccessKept
<1>2. CASE AssistDisable(u) \/ AssistEnable(u)
  <2>1. PICK read \in Account, result \in Account :
          /\ Assisted(u, read, result)
          /\ result.manual <= MaxDay /\ result.expires >= read.expires
          /\ result.status \in {"DISABLED", "ACTIVE", "EXPIRED"}
    BY <1>0, <1>2, AssistResult
  <2>2. PICK row \in Account :
          /\ account' = [account EXCEPT ![u] = row]
          /\ row.status \in {result.status, account[u].status}
          /\ row.expires >= account[u].expires \/ u \in raced'
    BY <1>0, <2>1, AssistedRow
  <2>3. /\ refresh[CrewPage][u] # NoReading
        /\ refresh' = [refresh EXCEPT ![CrewPage][u] = NoReading]
    BY <2>1 DEF Assisted
  <2>4. row.status # "ABSENT"
    BY <1>0, <2>1, <2>2, <2>3 DEF LaterInv, Exists
  <2>5. \A t \in Readers, x \in Users : refresh'[t][x] \in {refresh[t][x], NoReading}
    BY <1>0, <2>3
  <2> QED
    BY <2>2, <2>4, <2>5, LaterWritten
<1> QED
  BY <1>1, <1>2

LEMMA LaterStep ==
  ASSUME LaterInv, [AuthorityNext]_authorityVars
  PROVE  LaterInv' /\ \A x \in Users : AccessKept(x)
<1>0. AuthorityInv'
  BY InvStep DEF LaterInv
<1>1. ASSUME UNCHANGED <<account, refresh>>
      PROVE  LaterInv' /\ \A x \in Users : AccessKept(x)
  BY <1>0, <1>1, LaterQuiet
<1>2. ASSUME NEW u \in Users,
             \/ CreateAdmin(u) \/ SchedulerRefresh(u) \/ LoseWork(u)
             \/ AssistDisable(u) \/ AssistEnable(u)
             \/ \E r \in Roles : ActivateInvitation(u, r)
             \/ \E eligible \in BOOLEAN : SignInActivates(u, eligible)
             \/ \E d \in Days : PublishWork(u, d)
             \/ \E s \in Sources : RefreshCommit(s, u)
      PROVE  LaterInv' /\ \A x \in Users : AccessKept(x)
  <2>1. CASE SchedulerRefresh(u)
    <3>1. PICK s \in Readers, extend \in BOOLEAN : Begin(s, u, extend)
      BY <2>1 DEF SchedulerRefresh, Sources, Readers
    <3> QED
      BY <1>0, <3>1, LaterRefresh
  <2>2. CASE LoseWork(u)
    BY <1>1, <2>2 DEF LoseWork
  <2>3. CASE CreateAdmin(u) \/ \E r \in Roles : ActivateInvitation(u, r)
    <3>1. \E r \in Roles : Opened(u, r)
      BY <2>3 DEF CreateAdmin, ActivateInvitation
    <3> QED
      BY <1>0, <3>1, LaterAccounts
  <2> QED
    BY <1>0, <1>2, <2>1, <2>2, <2>3, LaterAccounts, LaterAssist, LaterRefresh DEF Readers
<1>3. ASSUME NEW u \in Users, NEW a \in Users,
             \/ \E r \in Roles : \/ CreateAccount(a, u, r) \/ GrantRole(a, u, r)
                                 \/ RevokeGrant(a, u, r) \/ ChangeEmployment(a, u, r)
             \/ SwitchSubManager(a, u) \/ DisableCheck(a, u) \/ DisableCommit(a, u)
             \/ Enable(a, u) \/ AssistRead(a, u) \/ ExtendAccess(a, u)
      PROVE  LaterInv' /\ \A x \in Users : AccessKept(x)
  <2>1. CASE ExtendAccess(a, u)
    <3>1. PICK s \in Readers, extend \in BOOLEAN : Begin(s, u, extend)
      BY <2>1 DEF ExtendAccess, Sources, Readers
    <3> QED
      BY <1>0, <3>1, LaterRefresh
  <2>2. CASE \/ \E r \in Roles : \/ GrantRole(a, u, r) \/ RevokeGrant(a, u, r)
                                 \/ ChangeEmployment(a, u, r)
             \/ SwitchSubManager(a, u) \/ DisableCheck(a, u)
    BY <1>1, <2>2 DEF GrantRole, RevokeGrant, ChangeEmployment, SwitchSubManager, DisableCheck
  <2>3. CASE \E r \in Roles : CreateAccount(a, u, r)
    BY <1>0, <2>3, LaterAccounts DEF CreateAccount
  <2> QED
    BY <1>0, <1>3, <2>1, <2>2, <2>3, LaterAccounts, LaterAssist, LaterDisabled
<1>4. CASE NextDay
  BY <1>1, <1>4 DEF NextDay
<1>5. CASE UNCHANGED authorityVars
  BY <1>1, <1>5 DEF authorityVars
<1> QED
  BY <1>2, <1>3, <1>4, <1>5 DEF AuthorityNext

\* The end of a Contractor's access never moves back, whatever work is lost, whichever
\* forms extend, disable and enable the account and however refreshes and publications
\* interleave (refresh_contractor_access), except where a refresh or the crew page
\* writes over a row that has changed since it was read.
THEOREM AccessNeverShortened == AuthoritySpec => NeverShortened
<1>1. AuthorityInit => LaterInv
  <2>1. ASSUME AuthorityInit
        PROVE  LaterInv
    <3>1. \A s \in Readers, u \in Users : refresh[s][u] = NoReading
      BY <2>1 DEF AuthorityInit
    <3>2. \A u \in Users : account[u].expires = Never
      BY <2>1 DEF AuthorityInit, NoAccount
    <3>3. NoReading.result.expires >= NoReading.row.expires
      BY DEF NoReading, NoAccount, Never
    <3> QED
      BY <2>1, <3>1, <3>2, <3>3, InvInit DEF LaterInv
  <2> QED
    BY <2>1
<1>2. LaterInv /\ [AuthorityNext]_authorityVars => LaterInv'
  BY LaterStep
<1>3. LaterInv /\ [AuthorityNext]_authorityVars =>
        [\A u \in Users : account'[u].expires >= account[u].expires \/ u \in raced']_authorityVars
  BY LaterStep DEF AccessKept
<1> QED
  BY <1>1, <1>2, <1>3, PTL DEF AuthoritySpec, NeverShortened

-----------------------------------------------------------------------------
(* People: types.                                                          *)

InvitesNamed == \A i \in Invites : invite[i].state = "OPEN" => invite[i].email \in Emails

RequestNamed(r) ==
  /\ r.kind = "EDIT" => r.person \in People
  /\ r.kind = "INVITE" => r.email \in Emails
  /\ r.kind = "ACTIVATE" => r.invite \in Invites /\ r.email \in Emails
  /\ r.kind = "REJECT" => r.signup \in Signups
RequestsNamed == \A q \in Requests : RequestNamed(req[q])

PeopleTypeInv == PeopleTypeOK /\ InvitesNamed /\ RequestsNamed

LEMMA NoneTypes ==
  NoInvitation \in Invitation /\ NoRequest \in Request /\ NoRequest.kind = "NONE"
BY DEF NoInvitation, Invitation, NoRequest, Request, AnyEmail

\* A step that writes a row of people.
LEMMA PersonWritten ==
  ASSUME PeopleTypeInv, NEW p \in People, NEW x \in Person, person' = [person EXCEPT ![p] = x],
         UNCHANGED <<email, link, invite, signup, drifted>>,
         req' \in [Requests -> Request], RequestsNamed', revived' \subseteq People,
         skewed' \subseteq People \cup Emails
  PROVE  PeopleTypeInv'
BY DEF PeopleTypeInv, PeopleTypeOK, InvitesNamed, RequestsNamed

\* A step that gives an invitation.
InviteGiven(i, e) ==
  /\ e \in Emails /\ i \in Invites /\ invite[i] = NoInvitation
  /\ DOMAIN invite' = Invites /\ invite' = [j \in Invites |-> invite'[j]]
  /\ \E p \in People \cup {NoPerson} :
       invite'[i] = [state |-> "OPEN", email |-> e, person |-> p]
  /\ \A j \in Invites \ {i} : invite'[j] = invite[j] \/ invite'[j] = NoInvitation

LEMMA GivenType ==
  ASSUME PeopleTypeInv, NEW i, NEW e, InviteGiven(i, e)
  PROVE  invite' \in [Invites -> Invitation] /\ InvitesNamed'
<1>1. PICK p \in People \cup {NoPerson} :
        invite'[i] = [state |-> "OPEN", email |-> e, person |-> p]
  BY DEF InviteGiven
<1>2. invite'[i] \in Invitation /\ invite'[i].email \in Emails /\ i \in Invites
  BY <1>1 DEF InviteGiven, Invitation, AnyEmail
<1>3. \A j \in Invites \ {i} :
        invite'[j] \in Invitation /\ (invite'[j].state = "OPEN" => invite'[j].email \in Emails)
  BY NoneTypes DEF InviteGiven, PeopleTypeInv, PeopleTypeOK, InvitesNamed, NoInvitation
<1>4. \A j \in Invites : invite'[j] \in Invitation
  BY <1>2, <1>3
<1>5. invite' \in [Invites -> Invitation]
  BY <1>4 DEF InviteGiven
<1> QED
  BY <1>2, <1>3, <1>5 DEF InvitesNamed

LEMMA InvitedGives ==
  ASSUME PeopleTypeInv, NEW i \in Invites, FreeInvite(i), NEW e \in Emails,
         NEW p \in People \cup {NoPerson}, invite' = Invited(i, e, p)
  PROVE  InviteGiven(i, e)
BY DEF FreeInvite, Invited, InviteGiven, PeopleTypeInv, PeopleTypeOK

LEMMA InvitableEmail ==
  ASSUME PeopleTypeInv, NEW e \in AnyEmail, NEW p, Invitable(e, p)
  PROVE  e \in Emails /\ OpenFor(e) = {} /\ WithEmail(e) = {}
BY DEF Invitable, AnyEmail

LEMMA InvitePersonGives ==
  ASSUME PeopleTypeInv, NEW i \in Invites, NEW p \in People, InvitePerson(i, p)
  PROVE  \E e \in Emails : InviteGiven(i, e) /\ OpenFor(e) = {}
<1>1. PICK e \in AnyEmail : e = person[p].email
  BY DEF PeopleTypeInv, PeopleTypeOK, Person
<1>2. FreeInvite(i) /\ Invitable(e, p) /\ invite' = Invited(i, e, p)
  BY <1>1 DEF InvitePerson
<1> QED
  BY <1>2, InvitableEmail, InvitedGives

LEMMA SetupLinkGives ==
  ASSUME PeopleTypeInv, NEW i \in Invites, NEW p \in People, SetupLink(i, p)
  PROVE  \E e \in Emails : InviteGiven(i, e) /\ OpenFor(e) = {}
<1>1. PICK e \in AnyEmail : e = person[p].email
  BY DEF PeopleTypeInv, PeopleTypeOK, Person
<1>2. /\ FreeInvite(i) /\ Invitable(e, p)
      /\ invite' = [x \in Invites |->
           CASE x = i -> [state |-> "OPEN", email |-> e, person |-> p]
             [] x # i /\ invite[x].person = p /\ invite[x].state \in {"OPEN", "EXPIRED"} ->
                  NoInvitation
             [] OTHER -> invite[x]]
  BY <1>1 DEF SetupLink
<1>3. e \in Emails /\ OpenFor(e) = {}
  BY <1>2, InvitableEmail
<1>4. invite'[i] = [state |-> "OPEN", email |-> e, person |-> p]
  BY <1>2
<1>5. \A j \in Invites \ {i} : invite'[j] = invite[j] \/ invite'[j] = NoInvitation
  BY <1>2
<1>6. DOMAIN invite' = Invites /\ invite' = [j \in Invites |-> invite'[j]]
  BY <1>2
<1> QED
  BY <1>2, <1>3, <1>4, <1>5, <1>6 DEF InviteGiven, FreeInvite

LEMMA CreateGives ==
  ASSUME PeopleTypeInv, NEW i \in Invites, NEW p \in People, NEW e \in Emails,
         CreateAndInvite(i, p, e)
  PROVE  InviteGiven(i, e) /\ OpenFor(e) = {}
BY InvitedGives DEF CreateAndInvite

LEMMA ApproveGives ==
  ASSUME PeopleTypeInv, NEW s \in Signups, NEW i \in Invites, NEW p \in People,
         ApproveSignup(s, i, p)
  PROVE  \E e \in Emails : e = signup[s] /\ InviteGiven(i, e) /\ OpenFor(e) = {}
<1>1. PICK e \in Emails : e = signup[s]
  BY DEF ApproveSignup, PeopleTypeInv, PeopleTypeOK, AnyEmail
<1>2. OpenFor(e) = {} /\ FreeInvite(i) /\ invite' = Invited(i, e, p)
  BY <1>1 DEF ApproveSignup, Invitable
<1> QED
  BY <1>1, <1>2, InvitedGives

LEMMA InviteCommitGives ==
  ASSUME PeopleTypeInv, NEW q \in Requests, NEW i \in Invites, InviteCommit(q, i)
  PROVE  \E e \in Emails :
           InviteGiven(i, e) /\ (skewed' = skewed \cup {e} \/ (skewed' = skewed /\ OpenFor(e) = {}))
<1>1. PICK e \in Emails : e = req[q].email
  BY DEF InviteCommit, PeopleTypeInv, RequestsNamed, RequestNamed
<1>2. FreeInvite(i) /\ invite' = Invited(i, e, NoPerson)
  BY <1>1 DEF InviteCommit
<1>3. skewed' = skewed \cup {e} \/ (skewed' = skewed /\ OpenFor(e) = {})
  BY <1>1 DEF InviteCommit, Invitable
<1> QED
  BY <1>2, <1>3, InvitedGives

\* What a step does to the people.
LEMMA PersonGiven ==
  ASSUME PeopleTypeInv, NEW p \in People, NEW e \in AnyEmail,
         person' = [person EXCEPT ![p] = [lifecycle |-> "ACTIVE", email |-> e]]
  PROVE  person' \in [People -> Person]
BY DEF PeopleTypeInv, PeopleTypeOK, Person

LEMMA RequestWritten ==
  ASSUME PeopleTypeInv, NEW q \in Requests, NEW r \in Request, RequestNamed(r),
         req' = [req EXCEPT ![q] = r]
  PROVE  req' \in [Requests -> Request] /\ RequestsNamed'
BY DEF PeopleTypeInv, PeopleTypeOK, RequestsNamed

LEMMA RequestDone ==
  ASSUME PeopleTypeInv, NEW q \in Requests, req' = [req EXCEPT ![q] = NoRequest]
  PROVE  req' \in [Requests -> Request] /\ RequestsNamed'
BY NoneTypes, RequestWritten DEF RequestNamed

LEMMA PersonType ==
  ASSUME PeopleTypeInv, NEW p \in People,
         \/ UpdateLifecycle(p)
         \/ \E e \in AnyEmail : CreatePerson(p, e)
         \/ \E q \in Requests, e \in AnyEmail : EditRead(q, p, e)
         \/ \E u \in Users : LinkExistingPerson(u, p)
  PROVE  PeopleTypeInv'
<1>1. CASE UpdateLifecycle(p)
  <2>1. person' \in [People -> Person]
    BY <1>1 DEF UpdateLifecycle, PeopleTypeInv, PeopleTypeOK, Person
  <2>2. revived' \subseteq People
    BY <1>1 DEF UpdateLifecycle, PeopleTypeInv, PeopleTypeOK
  <2> QED
    BY <1>1, <2>1, <2>2 DEF UpdateLifecycle, PeopleTypeInv, PeopleTypeOK, InvitesNamed, RequestsNamed
<1>2. ASSUME NEW e \in AnyEmail, CreatePerson(p, e) PROVE PeopleTypeInv'
  BY <1>2, PersonGiven DEF CreatePerson, PeopleTypeInv, PeopleTypeOK, InvitesNamed, RequestsNamed
<1>3. ASSUME NEW q \in Requests, NEW e \in AnyEmail, EditRead(q, p, e) PROVE PeopleTypeInv'
  <2> DEFINE r == [NoRequest EXCEPT !.kind = "EDIT", !.person = p, !.email = e]
  <2>1. r \in Request /\ RequestNamed(r)
    BY DEF Request, NoRequest, RequestNamed, AnyEmail
  <2>2. req' = [req EXCEPT ![q] = r]
    BY <1>3 DEF EditRead
  <2> HIDE DEF r
  <2>3. req' \in [Requests -> Request] /\ RequestsNamed'
    BY <2>1, <2>2, RequestWritten
  <2> QED
    BY <1>3, <2>3 DEF EditRead, PeopleTypeInv, PeopleTypeOK, InvitesNamed
<1>4. ASSUME NEW u \in Users, LinkExistingPerson(u, p) PROVE PeopleTypeInv'
  BY <1>4 DEF LinkExistingPerson, PeopleTypeInv, PeopleTypeOK, InvitesNamed, RequestsNamed
<1> QED
  BY <1>1, <1>2, <1>3, <1>4

LEMMA InviteType ==
  ASSUME PeopleTypeInv, NEW p \in People, NEW i \in Invites,
         \/ InvitePerson(i, p) \/ SetupLink(i, p)
         \/ \E e \in Emails : CreateAndInvite(i, p, e)
         \/ \E s \in Signups : ApproveSignup(s, i, p)
  PROVE  PeopleTypeInv'
<1>1. CASE InvitePerson(i, p)
  BY <1>1, InvitePersonGives, GivenType
     DEF InvitePerson, PeopleTypeInv, PeopleTypeOK, RequestsNamed
<1>2. CASE SetupLink(i, p)
  BY <1>2, SetupLinkGives, GivenType
     DEF SetupLink, PeopleTypeInv, PeopleTypeOK, RequestsNamed
<1>3. ASSUME NEW e \in Emails, CreateAndInvite(i, p, e) PROVE PeopleTypeInv'
  <2>1. person' \in [People -> Person]
    BY <1>3, PersonGiven DEF CreateAndInvite, AnyEmail
  <2> QED
    BY <1>3, <2>1, CreateGives, GivenType
       DEF CreateAndInvite, PeopleTypeInv, PeopleTypeOK, RequestsNamed
<1>4. ASSUME NEW s \in Signups, ApproveSignup(s, i, p) PROVE PeopleTypeInv'
  <2>1. PICK e \in Emails : e = signup[s] /\ InviteGiven(i, e)
    BY <1>4, ApproveGives
  <2>2. person' \in [People -> Person]
    <3>1. e \in AnyEmail
      BY DEF AnyEmail
    <3> QED
      BY <1>4, <2>1, <3>1, PersonGiven DEF ApproveSignup, PeopleTypeInv, PeopleTypeOK
  <2>3. signup' \in [Signups -> AnyEmail]
    BY <1>4 DEF ApproveSignup, PeopleTypeInv, PeopleTypeOK, AnyEmail
  <2>4. invite' \in [Invites -> Invitation] /\ InvitesNamed'
    BY <2>1, GivenType
  <2> QED
    BY <1>4, <2>2, <2>3, <2>4 DEF ApproveSignup, PeopleTypeInv, PeopleTypeOK, RequestsNamed
<1> QED
  BY <1>1, <1>2, <1>3, <1>4

LEMMA AccountType ==
  ASSUME PeopleTypeInv, NEW u \in Users,
         \/ \E e \in Emails, p \in People \cup {NoPerson} : CreateUser(u, e, p)
         \/ \E q \in Requests : ActivateCommit(q, u)
  PROVE  PeopleTypeInv'
<1>1. ASSUME NEW e \in Emails, NEW p \in People \cup {NoPerson}, CreateUser(u, e, p)
      PROVE  PeopleTypeInv'
  BY <1>1 DEF CreateUser, PeopleTypeInv, PeopleTypeOK, InvitesNamed, RequestsNamed, AnyEmail
<1>2. ASSUME NEW q \in Requests, ActivateCommit(q, u) PROVE PeopleTypeInv'
  <2>1. PICK i \in Invites, e \in Emails, p \in People \cup {NoPerson} :
          i = req[q].invite /\ e = req[q].email /\ p = req[q].person
    BY <1>2 DEF ActivateCommit, PeopleTypeInv, PeopleTypeOK, Request, RequestsNamed, RequestNamed
  <2>2. /\ email' = [email EXCEPT ![u] = e] /\ link' = [link EXCEPT ![u] = p]
        /\ invite' = [invite EXCEPT ![i] = NoInvitation]
        /\ req' = [req EXCEPT ![q] = NoRequest] /\ drifted' \subseteq drifted \cup {u}
        /\ UNCHANGED <<person, signup, revived, skewed>>
    BY <1>2, <2>1 DEF ActivateCommit
  <2>3. req' \in [Requests -> Request] /\ RequestsNamed'
    BY <2>2, RequestDone
  <2>4. invite' \in [Invites -> Invitation] /\ InvitesNamed'
    BY <2>2, NoneTypes DEF PeopleTypeInv, PeopleTypeOK, InvitesNamed, NoInvitation
  <2> QED
    BY <2>2, <2>3, <2>4 DEF PeopleTypeInv, PeopleTypeOK, AnyEmail
<1> QED
  BY <1>1, <1>2

LEMMA RequestType ==
  ASSUME PeopleTypeInv, NEW q \in Requests,
         \/ EditCommit(q) \/ RejectCommit(q) \/ Abandon(q)
         \/ \E e \in Emails : InviteRead(q, e)
         \/ \E i \in Invites : InviteCommit(q, i) \/ ActivateRead(q, i)
         \/ \E s \in Signups : RejectRead(q, s)
  PROVE  PeopleTypeInv'
<1>1. CASE EditCommit(q)
  <2>1. PICK p \in People, e \in AnyEmail : p = req[q].person /\ e = req[q].email
    BY <1>1 DEF EditCommit, PeopleTypeInv, PeopleTypeOK, Request, RequestsNamed, RequestNamed
  <2>2. person' \in [People -> Person] /\ skewed' \subseteq People \cup Emails
    BY <1>1, <2>1 DEF EditCommit, PeopleTypeInv, PeopleTypeOK, Person
  <2>3. req' \in [Requests -> Request] /\ RequestsNamed'
    BY <1>1, RequestDone DEF EditCommit
  <2> QED
    BY <1>1, <2>2, <2>3 DEF EditCommit, PeopleTypeInv, PeopleTypeOK, InvitesNamed
<1>2. CASE RejectCommit(q)
  <2>1. req' \in [Requests -> Request] /\ RequestsNamed'
    BY <1>2, RequestDone DEF RejectCommit
  <2>2. signup' \in [Signups -> AnyEmail]
    BY <1>2 DEF RejectCommit, PeopleTypeInv, PeopleTypeOK, AnyEmail
  <2> QED
    BY <1>2, <2>1, <2>2 DEF RejectCommit, PeopleTypeInv, PeopleTypeOK, InvitesNamed
<1>3. CASE Abandon(q)
  BY <1>3, RequestDone DEF Abandon, PeopleTypeInv, PeopleTypeOK, InvitesNamed
<1>4. ASSUME NEW r \in Request, RequestNamed(r), req' = [req EXCEPT ![q] = r],
             UNCHANGED <<person, email, link, invite, signup, drifted, revived, skewed>>
      PROVE  PeopleTypeInv'
  BY <1>4, RequestWritten DEF PeopleTypeInv, PeopleTypeOK, InvitesNamed
<1>5. ASSUME NEW e \in Emails, InviteRead(q, e) PROVE PeopleTypeInv'
  <2> DEFINE r == [NoRequest EXCEPT !.kind = "INVITE", !.email = e]
  <2>1. r \in Request /\ RequestNamed(r)
    BY DEF Request, NoRequest, RequestNamed, AnyEmail
  <2> QED
    BY <1>4, <1>5, <2>1 DEF InviteRead
<1>6. ASSUME NEW i \in Invites, InviteCommit(q, i) PROVE PeopleTypeInv'
  <2>1. PICK e \in Emails : InviteGiven(i, e) /\ skewed' \subseteq skewed \cup {e}
    BY <1>6, InviteCommitGives
  <2>2. req' \in [Requests -> Request] /\ RequestsNamed'
    BY <1>6, RequestDone DEF InviteCommit
  <2> QED
    BY <1>6, <2>1, <2>2, GivenType DEF InviteCommit, PeopleTypeInv, PeopleTypeOK
<1>7. ASSUME NEW i \in Invites, ActivateRead(q, i) PROVE PeopleTypeInv'
  <2>1. PICK e \in Emails, p \in People \cup {NoPerson} :
          e = invite[i].email /\ p = invite[i].person
    BY <1>7 DEF ActivateRead, PeopleTypeInv, PeopleTypeOK, InvitesNamed, Invitation
  <2> DEFINE r == [NoRequest EXCEPT !.kind = "ACTIVATE", !.invite = i, !.email = e, !.person = p]
  <2>2. r \in Request /\ RequestNamed(r)
    BY DEF Request, NoRequest, RequestNamed, AnyEmail
  <2>3. req' = [req EXCEPT ![q] = r]
    BY <1>7, <2>1 DEF ActivateRead
  <2> HIDE DEF r
  <2> QED
    BY <1>4, <1>7, <2>2, <2>3 DEF ActivateRead
<1>8. ASSUME NEW s \in Signups, RejectRead(q, s) PROVE PeopleTypeInv'
  <2> DEFINE r == [NoRequest EXCEPT !.kind = "REJECT", !.signup = s]
  <2>1. r \in Request /\ RequestNamed(r)
    BY DEF Request, NoRequest, RequestNamed, AnyEmail
  <2> QED
    BY <1>4, <1>8, <2>1 DEF RejectRead
<1> QED
  BY <1>1, <1>2, <1>3, <1>5, <1>6, <1>7, <1>8

LEMMA RowType ==
  ASSUME PeopleTypeInv,
         \/ \E i \in Invites : RevokeInvitation(i) \/ InvitationExpires(i)
         \/ \E s \in Signups, e \in Emails : Signup(s, e)
  PROVE  PeopleTypeInv'
<1>1. ASSUME NEW i \in Invites, RevokeInvitation(i) PROVE PeopleTypeInv'
  BY <1>1, NoneTypes
     DEF RevokeInvitation, PeopleTypeInv, PeopleTypeOK, InvitesNamed, RequestsNamed, NoInvitation
<1>2. ASSUME NEW i \in Invites, InvitationExpires(i) PROVE PeopleTypeInv'
  <2>1. PICK x \in Invitation : x.state # "OPEN" /\ invite' = [invite EXCEPT ![i] = x]
    <3>1. invite[i].person \in People \cup {NoPerson}
      BY DEF PeopleTypeInv, PeopleTypeOK, Invitation
    <3>2. [state |-> "EXPIRED", email |-> NoEmail, person |-> invite[i].person] \in Invitation
      BY <3>1 DEF Invitation, AnyEmail
    <3> QED
      BY <1>2, <3>2, NoneTypes DEF InvitationExpires, NoInvitation
  <2> QED
    BY <1>2, <2>1 DEF InvitationExpires, PeopleTypeInv, PeopleTypeOK, InvitesNamed, RequestsNamed
<1>3. ASSUME NEW s \in Signups, NEW e \in Emails, Signup(s, e) PROVE PeopleTypeInv'
  BY <1>3 DEF Signup, PeopleTypeInv, PeopleTypeOK, InvitesNamed, RequestsNamed, AnyEmail
<1> QED
  BY <1>1, <1>2, <1>3

LEMMA TypeInit == PeopleInit => PeopleTypeInv
BY NoneTypes
   DEF PeopleInit, PeopleTypeInv, PeopleTypeOK, InvitesNamed, RequestsNamed, RequestNamed, Person,
       AnyEmail, NoInvitation

LEMMA TypeStep == PeopleTypeInv /\ [PeopleNext]_peopleVars => PeopleTypeInv'
<1>1. ASSUME PeopleTypeInv, PeopleStep PROVE PeopleTypeInv'
  BY <1>1, PersonType, InviteType, AccountType, RequestType, RowType
     DEF PeopleStep, BatchEditRead, InviteBatch
<1>2. ASSUME PeopleTypeInv, UNCHANGED peopleVars PROVE PeopleTypeInv'
  BY <1>2 DEF peopleVars, PeopleTypeInv, PeopleTypeOK, InvitesNamed, RequestsNamed
<1> QED
  BY <1>1, <1>2 DEF PeopleNext

\* The tables of People, accounts, invitations and sign-ups hold values of their
\* columns' types; an open invitation always has an email to send to.
THEOREM PeopleTypeCorrect == PeopleSpec => []PeopleTypeOK
<1>1. PeopleTypeInv => PeopleTypeOK
  BY DEF PeopleTypeInv
<1> QED
  BY <1>1, TypeInit, TypeStep, PTL DEF PeopleSpec

-----------------------------------------------------------------------------
(* Who is linked, invited or being activated has a row.                    *)

Known(p) == person[p].lifecycle # "NONE"
LinksKnown == \A u \in Users, p \in People : link[u] = p => Known(p)
InvitesKnown == \A i \in Invites, p \in People : invite[i].person = p => Known(p)
RequestsKnown ==
  \A q \in Requests, p \in People : req[q].kind = "ACTIVATE" /\ req[q].person = p => Known(p)
AllKnown == LinksKnown /\ InvitesKnown /\ RequestsKnown

PersonsKept == \A p \in People : Known(p) => Known(p)'

LEMMA KnownStays ==
  ASSUME PeopleTypeInv, AllKnown, PersonsKept,
         \A u \in Users, p \in People : link'[u] = p => link[u] = p \/ Known(p)',
         \A i \in Invites, p \in People : invite'[i].person = p => invite[i].person = p \/ Known(p)',
         \A q \in Requests : req'[q] = req[q] \/ req'[q].kind # "ACTIVATE"
                             \/ \A p \in People : req'[q].person = p => Known(p)'
  PROVE  AllKnown'
BY DEF AllKnown, LinksKnown, InvitesKnown, RequestsKnown, PersonsKept

-----------------------------------------------------------------------------
(* Linked pairs.                                                           *)

HistoriesKept == drifted \subseteq drifted' /\ revived \subseteq revived' /\ skewed \subseteq skewed'

AgreeInv == PeopleTypeInv /\ AllKnown /\ LinkedEmailsAgree

\* The links stay, and the emails of those who are linked.
LEMMA AgreeStays ==
  ASSUME AgreeInv, PeopleTypeInv', HistoriesKept, UNCHANGED <<email, link>>,
         \A p \in People, u \in Users : link[u] = p =>
           person'[p].email = person[p].email \/ person'[p].email = email[u] \/ p \in skewed'
  PROVE  LinkedEmailsAgree'
BY DEF AgreeInv, PeopleTypeInv, PeopleTypeOK, HistoriesKept, LinkedEmailsAgree

\* A link is made.
LEMMA AgreeLinked ==
  ASSUME AgreeInv, PeopleTypeInv', HistoriesKept, UNCHANGED person, NEW u \in Users,
         \A v \in Users \ {u} : email'[v] = email[v] /\ link'[v] = link[v],
         link'[u] # NoPerson => email'[u] = person[link'[u]].email \/ u \in drifted'
  PROVE  LinkedEmailsAgree'
BY DEF AgreeInv, PeopleTypeInv, PeopleTypeOK, HistoriesKept, LinkedEmailsAgree

LEMMA PersonAgrees ==
  ASSUME AgreeInv, PeopleTypeInv', NEW p \in People,
         \/ UpdateLifecycle(p)
         \/ \E e \in AnyEmail : CreatePerson(p, e)
         \/ \E q \in Requests, e \in AnyEmail : EditRead(q, p, e)
         \/ \E u \in Users : LinkExistingPerson(u, p)
  PROVE  AllKnown' /\ LinkedEmailsAgree'
<1>0. PeopleTypeInv /\ AllKnown /\ person \in [People -> Person]
  BY DEF AgreeInv, PeopleTypeInv, PeopleTypeOK
<1>1. CASE UpdateLifecycle(p)
  <2>1. \A x \in People : person'[x].email = person[x].email
    BY <1>0, <1>1 DEF UpdateLifecycle, Person
  <2>2. PersonsKept /\ HistoriesKept
    BY <1>0, <1>1 DEF UpdateLifecycle, PersonsKept, Known, HistoriesKept, Person
  <2> QED
    BY <1>0, <1>1, <2>1, <2>2, KnownStays, AgreeStays DEF UpdateLifecycle
<1>2. ASSUME NEW e \in AnyEmail, CreatePerson(p, e) PROVE AllKnown' /\ LinkedEmailsAgree'
  <2>1. \A x \in People : x = p \/ person'[x] = person[x]
    BY <1>0, <1>2 DEF CreatePerson
  <2>2. PersonsKept /\ HistoriesKept
    BY <1>0, <1>2 DEF CreatePerson, PersonsKept, Known, HistoriesKept
  <2>3. \A u \in Users : link[u] # p
    BY <1>0, <1>2 DEF CreatePerson, AllKnown, LinksKnown, Known
  <2> QED
    BY <1>0, <1>2, <2>1, <2>2, <2>3, KnownStays, AgreeStays DEF CreatePerson
<1>3. ASSUME NEW q \in Requests, NEW e \in AnyEmail, EditRead(q, p, e)
      PROVE  AllKnown' /\ LinkedEmailsAgree'
  <2>1. \A k \in Requests : req'[k] = req[k] \/ req'[k].kind # "ACTIVATE"
    BY <1>0, <1>3 DEF EditRead, PeopleTypeInv, PeopleTypeOK, NoRequest
  <2> QED
    BY <1>0, <1>3, <2>1, KnownStays, AgreeStays DEF EditRead, PersonsKept, Known, HistoriesKept
<1>4. ASSUME NEW u \in Users, LinkExistingPerson(u, p) PROVE AllKnown' /\ LinkedEmailsAgree'
  <2>1. link'[u] = p /\ \A v \in Users \ {u} : link'[v] = link[v]
    BY <1>0, <1>4 DEF LinkExistingPerson, PeopleTypeInv, PeopleTypeOK
  <2>2. PersonsKept /\ Known(p)' /\ HistoriesKept
    BY <1>4 DEF LinkExistingPerson, PersonsKept, Known, Active, HistoriesKept
  <2>3. AllKnown'
    BY <1>0, <1>4, <2>1, <2>2, KnownStays DEF LinkExistingPerson
  <2>4. LinkedEmailsAgree'
    BY <1>4, <2>1, <2>2, AgreeLinked DEF LinkExistingPerson
  <2> QED
    BY <2>3, <2>4
<1> QED
  BY <1>1, <1>2, <1>3, <1>4

LEMMA InviteAgrees ==
  ASSUME AgreeInv, PeopleTypeInv', NEW p \in People, NEW i \in Invites,
         \/ InvitePerson(i, p) \/ SetupLink(i, p)
         \/ \E e \in Emails : CreateAndInvite(i, p, e)
         \/ \E s \in Signups : ApproveSignup(s, i, p)
  PROVE  AllKnown' /\ LinkedEmailsAgree'
<1>0. PeopleTypeInv /\ AllKnown /\ person \in [People -> Person]
  BY DEF AgreeInv, PeopleTypeInv, PeopleTypeOK
\* Whom the new invitation names has a row.
<1>1. ASSUME UNCHANGED <<email, link, req, drifted, revived, skewed>>,
             invite'[i].person = p, Known(p)',
             \A j \in Invites \ {i} : invite'[j] = invite[j] \/ invite'[j] = NoInvitation,
             \/ UNCHANGED person
             \/ ~Known(p) /\ \E x \in Person : person' = [person EXCEPT ![p] = x]
      PROVE  AllKnown' /\ LinkedEmailsAgree'
  <2>1. \A x \in People \ {p} : person'[x] = person[x]
    BY <1>0, <1>1
  <2>2. PersonsKept /\ HistoriesKept
    BY <1>1, <2>1 DEF PersonsKept, Known, HistoriesKept
  <2>3. \A u \in Users : link[u] = p => person' = person
    BY <1>0, <1>1 DEF AllKnown, LinksKnown
  <2>4. \A j \in Invites, x \in People : invite'[j].person = x => invite[j].person = x \/ Known(x)'
    BY <1>1, PeopleAssumption DEF NoInvitation
  <2>5. AllKnown'
    BY <1>0, <1>1, <2>2, <2>4, KnownStays
  <2>6. LinkedEmailsAgree'
    BY <1>1, <2>1, <2>2, <2>3, AgreeStays
  <2> QED
    BY <2>5, <2>6
<1>2. CASE InvitePerson(i, p)
  <2>1. PICK e \in AnyEmail : e = person[p].email
    BY <1>0 DEF Person
  <2>2. Known(p)' /\ invite' = Invited(i, e, p)
    BY <1>2, <2>1, PeopleAssumption DEF InvitePerson, Invitable, Known, Active
  <2>3. invite'[i].person = p /\ \A j \in Invites \ {i} : invite'[j] = invite[j]
    BY <1>0, <2>2 DEF Invited, PeopleTypeInv, PeopleTypeOK
  <2> QED
    BY <1>1, <1>2, <2>2, <2>3 DEF InvitePerson
<1>3. CASE SetupLink(i, p)
  <2>1. Known(p)'
    BY <1>3, PeopleAssumption DEF SetupLink, Invitable, Known, Active
  <2>2. invite'[i].person = p
    BY <1>3 DEF SetupLink
  <2>3. \A j \in Invites \ {i} : invite'[j] = invite[j] \/ invite'[j] = NoInvitation
    BY <1>3 DEF SetupLink
  <2> QED
    BY <1>1, <1>3, <2>1, <2>2, <2>3 DEF SetupLink
<1>4. ASSUME NEW e \in AnyEmail, person' = [person EXCEPT ![p] = [lifecycle |-> "ACTIVE", email |-> e]]
      PROVE  Known(p)' /\ \E x \in Person : person' = [person EXCEPT ![p] = x]
  <2>1. [lifecycle |-> "ACTIVE", email |-> e] \in Person
    BY DEF Person
  <2> QED
    BY <1>0, <1>4, <2>1 DEF Known
<1>5. ASSUME NEW e, invite' = Invited(i, e, p)
      PROVE  invite'[i].person = p /\ \A j \in Invites \ {i} : invite'[j] = invite[j]
  BY <1>0, <1>5 DEF Invited, PeopleTypeInv, PeopleTypeOK
<1>6. ASSUME NEW e \in Emails, CreateAndInvite(i, p, e) PROVE AllKnown' /\ LinkedEmailsAgree'
  BY <1>1, <1>4, <1>5, <1>6 DEF CreateAndInvite, Known, AnyEmail
<1>7. ASSUME NEW s \in Signups, ApproveSignup(s, i, p) PROVE AllKnown' /\ LinkedEmailsAgree'
  <2>1. PICK e \in AnyEmail : e = signup[s] /\ invite' = Invited(i, e, p)
    BY <1>0, <1>7 DEF ApproveSignup, PeopleTypeInv, PeopleTypeOK
  <2>2. CASE ~Known(p) /\ person' = [person EXCEPT ![p] = [lifecycle |-> "ACTIVE", email |-> e]]
    BY <1>1, <1>4, <1>5, <1>7, <2>1, <2>2 DEF ApproveSignup
  <2>3. CASE Active(p) /\ person' = person
    <3>1. Known(p)'
      BY <2>3 DEF Known, Active
    <3> QED
      BY <1>1, <1>5, <1>7, <2>1, <2>3, <3>1 DEF ApproveSignup
  <2> QED
    BY <1>7, <2>1, <2>2, <2>3 DEF ApproveSignup, Known
<1> QED
  BY <1>2, <1>3, <1>6, <1>7

LEMMA AccountAgrees ==
  ASSUME AgreeInv, PeopleTypeInv', NEW u \in Users,
         \/ \E e \in Emails, p \in People \cup {NoPerson} : CreateUser(u, e, p)
         \/ \E q \in Requests : ActivateCommit(q, u)
  PROVE  AllKnown' /\ LinkedEmailsAgree'
<1>0. PeopleTypeInv /\ AllKnown
  BY DEF AgreeInv
<1>1. ASSUME NEW e \in Emails, NEW p \in People \cup {NoPerson}, CreateUser(u, e, p)
      PROVE  AllKnown' /\ LinkedEmailsAgree'
  <2>1. /\ link'[u] = p /\ email'[u] = e
        /\ \A v \in Users \ {u} : link'[v] = link[v] /\ email'[v] = email[v]
    BY <1>0, <1>1 DEF CreateUser, PeopleTypeInv, PeopleTypeOK
  <2>2. PersonsKept /\ HistoriesKept /\ (p \in People => Known(p)')
    BY <1>1, PeopleAssumption DEF CreateUser, PersonsKept, Known, Active, HistoriesKept
  <2>3. p # NoPerson => e = person[p].email \/ u \in drifted'
    BY <1>1 DEF CreateUser
  <2>4. AllKnown'
    BY <1>0, <1>1, <2>1, <2>2, KnownStays DEF CreateUser
  <2>5. LinkedEmailsAgree'
    BY <1>1, <2>1, <2>2, <2>3, AgreeLinked DEF CreateUser
  <2> QED
    BY <2>4, <2>5
<1>2. ASSUME NEW q \in Requests, ActivateCommit(q, u) PROVE AllKnown' /\ LinkedEmailsAgree'
  <2>1. PICK i \in Invites, e \in Emails, p \in People \cup {NoPerson} :
          i = req[q].invite /\ e = req[q].email /\ p = req[q].person
    BY <1>0, <1>2 DEF ActivateCommit, PeopleTypeInv, PeopleTypeOK, Request, RequestsNamed, RequestNamed
  <2>2. /\ link'[u] = p /\ email'[u] = e
        /\ \A v \in Users \ {u} : link'[v] = link[v] /\ email'[v] = email[v]
    BY <1>0, <1>2, <2>1 DEF ActivateCommit, PeopleTypeInv, PeopleTypeOK
  <2>3. PersonsKept /\ HistoriesKept /\ person' = person
    BY <1>2 DEF ActivateCommit, PersonsKept, Known, HistoriesKept
  <2>4. p \in People => Known(p)'
    BY <1>0, <1>2, <2>1, <2>3 DEF ActivateCommit, AllKnown, RequestsKnown, Known
  <2>5. p # NoPerson => e = person[p].email \/ u \in drifted'
    BY <1>2, <2>1 DEF ActivateCommit
  <2>6. \A j \in Invites, x \in People : invite'[j].person = x => invite[j].person = x
    BY <1>0, <1>2, <2>1, PeopleAssumption DEF ActivateCommit, NoInvitation, PeopleTypeInv, PeopleTypeOK
  <2>7. \A k \in Requests : req'[k] = req[k] \/ req'[k].kind # "ACTIVATE"
    BY <1>0, <1>2, NoneTypes DEF ActivateCommit, PeopleTypeInv, PeopleTypeOK
  <2>8. AllKnown'
    BY <1>0, <2>2, <2>3, <2>4, <2>6, <2>7, KnownStays
  <2>9. LinkedEmailsAgree'
    BY <2>2, <2>3, <2>5, AgreeLinked
  <2> QED
    BY <2>8, <2>9
<1> QED
  BY <1>1, <1>2

LEMMA RequestAgrees ==
  ASSUME AgreeInv, PeopleTypeInv', NEW q \in Requests,
         \/ EditCommit(q) \/ RejectCommit(q) \/ Abandon(q)
         \/ \E e \in Emails : InviteRead(q, e)
         \/ \E i \in Invites : InviteCommit(q, i) \/ ActivateRead(q, i)
         \/ \E s \in Signups : RejectRead(q, s)
  PROVE  AllKnown' /\ LinkedEmailsAgree'
<1>0. PeopleTypeInv /\ AllKnown /\ person \in [People -> Person]
  BY DEF AgreeInv, PeopleTypeInv, PeopleTypeOK
<1>1. ASSUME NEW r, req' = [req EXCEPT ![q] = r], HistoriesKept, UNCHANGED <<person, email, link>>,
             r.kind # "ACTIVATE" \/ \A p \in People : r.person = p => Known(p)',
             \A i \in Invites, p \in People : invite'[i].person = p => invite[i].person = p
      PROVE  AllKnown' /\ LinkedEmailsAgree'
  <2>1. \A k \in Requests : req'[k] = req[k] \/ req'[k].kind # "ACTIVATE"
                            \/ \A p \in People : req'[k].person = p => Known(p)'
    BY <1>0, <1>1 DEF PeopleTypeInv, PeopleTypeOK
  <2>2. PersonsKept
    BY <1>1 DEF PersonsKept, Known
  <2> QED
    BY <1>0, <1>1, <2>1, <2>2, KnownStays, AgreeStays
<1>2. CASE EditCommit(q)
  <2>1. PICK p \in People, e \in AnyEmail : p = req[q].person /\ e = req[q].email
    BY <1>0, <1>2 DEF EditCommit, PeopleTypeInv, PeopleTypeOK, Request, RequestsNamed, RequestNamed
  <2>2. /\ person' = [person EXCEPT ![p].email = e]
        /\ skewed' = IF ValidWorkEmail(p, e) THEN skewed ELSE skewed \cup {p}
    BY <1>2, <2>1 DEF EditCommit
  <2>3. /\ person'[p].email = e /\ \A x \in People \ {p} : person'[x] = person[x]
        /\ person'[p].lifecycle = person[p].lifecycle
    BY <1>0, <2>2 DEF Person
  <2>4. PersonsKept /\ HistoriesKept
    BY <1>2, <2>2, <2>3 DEF PersonsKept, Known, HistoriesKept, EditCommit
  <2>5. \A u \in Users : link[u] = p => e = email[u] \/ p \in skewed'
    BY <2>2 DEF ValidWorkEmail, AccountOf
  <2>6. LinkedEmailsAgree'
    BY <1>2, <2>3, <2>4, <2>5, AgreeStays DEF EditCommit
  <2>7. \A k \in Requests : req'[k] = req[k] \/ req'[k].kind # "ACTIVATE"
    BY <1>0, <1>2, NoneTypes DEF EditCommit, PeopleTypeInv, PeopleTypeOK
  <2>8. AllKnown'
    BY <1>0, <1>2, <2>4, <2>7, KnownStays DEF EditCommit
  <2> QED
    BY <2>6, <2>8
<1>3. CASE RejectCommit(q) \/ Abandon(q)
  BY <1>1, <1>3, NoneTypes DEF RejectCommit, Abandon, HistoriesKept
<1>4. ASSUME NEW e \in Emails, InviteRead(q, e) PROVE AllKnown' /\ LinkedEmailsAgree'
  <2> DEFINE r == [NoRequest EXCEPT !.kind = "INVITE", !.email = e]
  <2>1. r.kind = "INVITE" /\ req' = [req EXCEPT ![q] = r]
    BY <1>4 DEF InviteRead, NoRequest
  <2> HIDE DEF r
  <2> QED
    BY <1>1, <1>4, <2>1 DEF InviteRead, HistoriesKept
<1>5. ASSUME NEW i \in Invites, InviteCommit(q, i) PROVE AllKnown' /\ LinkedEmailsAgree'
  <2>1. HistoriesKept
    BY <1>5 DEF InviteCommit, HistoriesKept
  <2>2. PICK e \in AnyEmail : e = req[q].email
    BY <1>0 DEF PeopleTypeInv, PeopleTypeOK, Request
  <2>3. invite' = Invited(i, e, NoPerson)
    BY <1>5, <2>2 DEF InviteCommit
  <2>4. \A j \in Invites, p \in People : invite'[j].person = p => invite[j].person = p
    BY <1>0, <2>3, PeopleAssumption DEF Invited, PeopleTypeInv, PeopleTypeOK
  <2> QED
    BY <1>1, <1>5, <2>1, <2>4, NoneTypes DEF InviteCommit
<1>6. ASSUME NEW i \in Invites, ActivateRead(q, i) PROVE AllKnown' /\ LinkedEmailsAgree'
  <2>1. PICK e \in AnyEmail, p \in People \cup {NoPerson} :
          e = invite[i].email /\ p = invite[i].person
    BY <1>0 DEF PeopleTypeInv, PeopleTypeOK, Invitation
  <2> DEFINE r == [NoRequest EXCEPT !.kind = "ACTIVATE", !.invite = i, !.email = e, !.person = p]
  <2>2. r.person = p /\ req' = [req EXCEPT ![q] = r]
    BY <1>6, <2>1 DEF ActivateRead, NoRequest
  <2>3. p \in People => Known(p)'
    BY <1>0, <1>6, <2>1 DEF ActivateRead, AllKnown, InvitesKnown, Known
  <2> HIDE DEF r
  <2> QED
    BY <1>1, <1>6, <2>2, <2>3 DEF ActivateRead, HistoriesKept
<1>7. ASSUME NEW s \in Signups, RejectRead(q, s) PROVE AllKnown' /\ LinkedEmailsAgree'
  <2> DEFINE r == [NoRequest EXCEPT !.kind = "REJECT", !.signup = s]
  <2>1. r.kind = "REJECT" /\ req' = [req EXCEPT ![q] = r]
    BY <1>7 DEF RejectRead, NoRequest
  <2> HIDE DEF r
  <2> QED
    BY <1>1, <1>7, <2>1 DEF RejectRead, HistoriesKept
<1> QED
  BY <1>2, <1>3, <1>4, <1>5, <1>6, <1>7

LEMMA RowAgrees ==
  ASSUME AgreeInv, PeopleTypeInv',
         \/ \E i \in Invites : RevokeInvitation(i) \/ InvitationExpires(i)
         \/ \E s \in Signups, e \in Emails : Signup(s, e)
         \/ UNCHANGED peopleVars
  PROVE  AllKnown' /\ LinkedEmailsAgree'
<1>0. PeopleTypeInv /\ AllKnown
  BY DEF AgreeInv
<1>1. ASSUME UNCHANGED <<person, email, link, req, drifted, revived, skewed>>,
             \A i \in Invites, p \in People : invite'[i].person = p => invite[i].person = p
      PROVE  AllKnown' /\ LinkedEmailsAgree'
  BY <1>0, <1>1, KnownStays, AgreeStays DEF PersonsKept, Known, HistoriesKept
<1>2. ASSUME NEW i \in Invites, RevokeInvitation(i) PROVE AllKnown' /\ LinkedEmailsAgree'
  BY <1>0, <1>1, <1>2, PeopleAssumption
     DEF RevokeInvitation, NoInvitation, PeopleTypeInv, PeopleTypeOK
<1>3. ASSUME NEW i \in Invites, InvitationExpires(i) PROVE AllKnown' /\ LinkedEmailsAgree'
  <2>1. \A j \in Invites, p \in People : invite'[j].person = p => invite[j].person = p
    BY <1>0, <1>3, PeopleAssumption DEF InvitationExpires, NoInvitation, PeopleTypeInv, PeopleTypeOK
  <2> QED
    BY <1>1, <1>3, <2>1 DEF InvitationExpires
<1> QED
  BY <1>1, <1>2, <1>3 DEF Signup, peopleVars

LEMMA AgreeStep == AgreeInv /\ [PeopleNext]_peopleVars => AgreeInv'
<1> SUFFICES ASSUME AgreeInv, [PeopleNext]_peopleVars PROVE AgreeInv'
  OBVIOUS
<1>1. PeopleTypeInv'
  BY TypeStep DEF AgreeInv
<1>2. AllKnown' /\ LinkedEmailsAgree'
  <2>1. CASE PeopleStep
    BY <1>1, <2>1, PersonAgrees, InviteAgrees, AccountAgrees, RequestAgrees, RowAgrees
       DEF PeopleStep, BatchEditRead, InviteBatch
  <2>2. CASE UNCHANGED peopleVars
    BY <1>1, <2>2, RowAgrees
  <2> QED
    BY <2>1, <2>2 DEF PeopleNext
<1> QED
  BY <1>1, <1>2 DEF AgreeInv

\* A Person and the account linked to it have the same email, through edits,
\* activations, direct creation and links in every order, but for the three cases the
\* property names (validate_person_work_email, activate_invitation, create_user).
THEOREM LinkedEmailsAlwaysAgree == PeopleSpec => []LinkedEmailsAgree
<1>1. PeopleInit => AgreeInv
  BY TypeInit, PeopleAssumption
     DEF PeopleInit, AgreeInv, AllKnown, LinksKnown, InvitesKnown, RequestsKnown,
         LinkedEmailsAgree, NoInvitation, NoRequest
<1>2. AgreeInv => LinkedEmailsAgree
  BY DEF AgreeInv
<1> QED
  BY <1>1, <1>2, AgreeStep, PTL DEF PeopleSpec

-----------------------------------------------------------------------------
(* Open invitations.                                                       *)

OpenAs(i, e) == invite[i].state = "OPEN" /\ invite[i].email = e
OneOpen ==
  \A e \in Emails \ skewed, i \in Invites, j \in Invites : OpenAs(i, e) /\ OpenAs(j, e) => i = j
OpenInv == PeopleTypeInv /\ OneOpen

LEMMA OpenGiven ==
  ASSUME OpenInv, NEW i, NEW e, InviteGiven(i, e), skewed \subseteq skewed',
         OpenFor(e) = {} \/ e \in skewed'
  PROVE  OneOpen'
<1>1. \A j \in Invites : OpenAs(j, e) => e \in skewed'
  BY DEF OpenFor, OpenAs
<1>2. \A j \in Invites \ {i}, x \in Emails : OpenAs(j, x)' => OpenAs(j, x)
  BY DEF InviteGiven, OpenAs, NoInvitation
<1>3. \A x \in Emails : OpenAs(i, x)' => x = e
  BY DEF InviteGiven, OpenAs
<1> QED
  BY <1>1, <1>2, <1>3 DEF OpenInv, OneOpen

LEMMA OpenFewer ==
  ASSUME OpenInv, skewed \subseteq skewed',
         \A i \in Invites : invite'[i] = invite[i] \/ invite'[i].state # "OPEN"
  PROVE  OneOpen'
BY DEF OpenInv, OneOpen, OpenAs

LEMMA OpenStep == OpenInv /\ [PeopleNext]_peopleVars => OpenInv'
<1> SUFFICES ASSUME OpenInv, [PeopleNext]_peopleVars PROVE OpenInv'
  OBVIOUS
<1>0. PeopleTypeInv /\ PeopleTypeInv'
  BY TypeStep DEF OpenInv
<1>1. ASSUME UNCHANGED invite, skewed \subseteq skewed' PROVE OneOpen'
  BY <1>1, OpenFewer
<1>2. ASSUME NEW p \in People, NEW i \in Invites,
             \/ InvitePerson(i, p) \/ SetupLink(i, p)
             \/ \E e \in Emails : CreateAndInvite(i, p, e)
             \/ \E s \in Signups : ApproveSignup(s, i, p)
      PROVE  OneOpen'
  <2>1. skewed' = skewed
    BY <1>2 DEF InvitePerson, SetupLink, CreateAndInvite, ApproveSignup
  <2>2. \E e \in Emails : InviteGiven(i, e) /\ OpenFor(e) = {}
    BY <1>0, <1>2, InvitePersonGives, SetupLinkGives, CreateGives, ApproveGives
  <2> QED
    BY <2>1, <2>2, OpenGiven
<1>3. ASSUME NEW q \in Requests, NEW i \in Invites, InviteCommit(q, i) PROVE OneOpen'
  BY <1>0, <1>3, InviteCommitGives, OpenGiven
<1>4. ASSUME NEW q \in Requests, NEW u \in Users, ActivateCommit(q, u) PROVE OneOpen'
  <2>1. \A i \in Invites : invite'[i] = invite[i] \/ invite'[i].state # "OPEN"
    BY <1>0, <1>4 DEF ActivateCommit, NoInvitation, PeopleTypeInv, PeopleTypeOK
  <2> QED
    BY <1>4, <2>1, OpenFewer DEF ActivateCommit
<1>5. ASSUME NEW i \in Invites, RevokeInvitation(i) PROVE OneOpen'
  <2>1. \A j \in Invites : invite'[j] = invite[j] \/ invite'[j].state # "OPEN"
    BY <1>0, <1>5 DEF RevokeInvitation, NoInvitation, PeopleTypeInv, PeopleTypeOK
  <2> QED
    BY <1>5, <2>1, OpenFewer DEF RevokeInvitation
<1>6. ASSUME NEW i \in Invites, InvitationExpires(i) PROVE OneOpen'
  <2>1. \A j \in Invites : invite'[j] = invite[j] \/ invite'[j].state # "OPEN"
    BY <1>0, <1>6 DEF InvitationExpires, NoInvitation, PeopleTypeInv, PeopleTypeOK
  <2> QED
    BY <1>6, <2>1, OpenFewer DEF InvitationExpires
<1>7. ASSUME NEW q \in Requests, EditCommit(q) PROVE OneOpen'
  BY <1>1, <1>7 DEF EditCommit
<1>8. ASSUME PeopleStep PROVE OneOpen'
  BY <1>1, <1>2, <1>3, <1>4, <1>5, <1>6, <1>7, <1>8
     DEF PeopleStep, BatchEditRead, InviteBatch, UpdateLifecycle, CreatePerson, EditRead,
         LinkExistingPerson, CreateUser, Signup, RejectCommit, Abandon, InviteRead, ActivateRead,
         RejectRead
<1>9. ASSUME UNCHANGED peopleVars PROVE OneOpen'
  BY <1>1, <1>9 DEF peopleVars
<1> QED
  BY <1>0, <1>8, <1>9 DEF PeopleNext, OpenInv

\* An email has at most one open invitation, whichever form, approval or setup link
\* gave it, unless one without a Person was given on a check that no longer held.
THEOREM OneOpenInvitationAlways == PeopleSpec => []OneOpenInvitation
<1>1. PeopleInit => OpenInv
  BY TypeInit DEF PeopleInit, OpenInv, OneOpen, OpenAs, NoInvitation
<1>2. ASSUME OpenInv, NEW e \in Emails, e \notin skewed PROVE Cardinality(OpenFor(e)) <= 1
  <2>1. CASE OpenFor(e) = {}
    <3>1. Cardinality(OpenFor(e)) = 0
      BY <2>1, FS_EmptySet
    <3> QED
      BY <3>1
  <2>2. CASE OpenFor(e) # {}
    <3>1. PICK i \in Invites : OpenAs(i, e)
      BY <2>2 DEF OpenFor, OpenAs
    <3>2. OpenFor(e) = {i}
      BY <1>2, <3>1 DEF OpenInv, OneOpen, OpenAs, OpenFor
    <3>3. Cardinality(OpenFor(e)) = 1
      BY <3>2, FS_Singleton
    <3> QED
      BY <3>3
  <2> QED
    BY <2>1, <2>2
<1>3. OpenInv => OneOpenInvitation
  BY <1>2 DEF OneOpenInvitation
<1> QED
  BY <1>1, <1>3, OpenStep, PTL DEF PeopleSpec

-----------------------------------------------------------------------------
(* Active People.                                                          *)

UniqueInv == PeopleTypeInv /\ ActiveEmailsUnique

\* One Person gets an email that it may have, or is excepted.
LEMMA UniqueAfter ==
  ASSUME UniqueInv, NEW p \in People, NEW x \in Person, person' = [person EXCEPT ![p] = x],
         revived \subseteq revived', skewed \subseteq skewed',
         \/ x.lifecycle # "ACTIVE" \/ x.email = NoEmail \/ p \in revived' \cup skewed'
         \/ \A y \in People \ {p} : Active(y) => person[y].email # x.email
  PROVE  ActiveEmailsUnique'
<1>1. person'[p] = x /\ \A y \in People \ {p} : person'[y] = person[y]
  BY DEF UniqueInv, PeopleTypeInv, PeopleTypeOK
<1> QED
  BY <1>1 DEF UniqueInv, ActiveEmailsUnique, Active

LEMMA UniqueSame ==
  ASSUME UniqueInv, UNCHANGED person, revived \subseteq revived', skewed \subseteq skewed'
  PROVE  ActiveEmailsUnique'
BY DEF UniqueInv, ActiveEmailsUnique, Active

LEMMA UniqueStep == UniqueInv /\ [PeopleNext]_peopleVars => UniqueInv'
<1> SUFFICES ASSUME UniqueInv, [PeopleNext]_peopleVars PROVE UniqueInv'
  OBVIOUS
<1>0. PeopleTypeInv /\ PeopleTypeInv' /\ person \in [People -> Person]
  BY TypeStep DEF UniqueInv, PeopleTypeInv, PeopleTypeOK
\* A row is created or written under an email that is valid.
<1>1. ASSUME NEW p \in People, NEW e \in AnyEmail, ValidWorkEmail(p, e),
             person' = [person EXCEPT ![p] = [lifecycle |-> "ACTIVE", email |-> e]],
             revived \subseteq revived', skewed \subseteq skewed'
      PROVE  ActiveEmailsUnique'
  <2> DEFINE x == [lifecycle |-> "ACTIVE", email |-> e]
  <2>1. x \in Person /\ x.email = e
    BY DEF Person
  <2>2. e = NoEmail \/ \A y \in People \ {p} : Active(y) => person[y].email # e
    BY <1>1 DEF ValidWorkEmail
  <2> HIDE DEF x
  <2> QED
    BY <1>1, <2>1, <2>2, UniqueAfter DEF x
<1>2. ASSUME NEW p \in People, NEW e \in AnyEmail, CreatePerson(p, e) PROVE ActiveEmailsUnique'
  BY <1>1, <1>2 DEF CreatePerson
<1>3. ASSUME NEW p \in People, UpdateLifecycle(p) PROVE ActiveEmailsUnique'
  <2> DEFINE x == [person[p] EXCEPT !.lifecycle = IF Active(p) THEN "ARCHIVED" ELSE "ACTIVE"]
  <2>1. person[p] \in Person
    BY <1>0
  <2>2. /\ x \in Person /\ x.email = person[p].email
        /\ Active(p) => x.lifecycle # "ACTIVE"
    BY <2>1 DEF Person
  <2>3. person' = [person EXCEPT ![p] = x]
    BY <1>3 DEF UpdateLifecycle
  <2>4. /\ revived \subseteq revived' /\ skewed \subseteq skewed'
        /\ Active(p) \/ person[p].email = NoEmail \/ p \in revived'
           \/ \A y \in People : Active(y) => person[y].email # person[p].email
    BY <1>3 DEF UpdateLifecycle
  <2> HIDE DEF x
  <2> QED
    BY <2>2, <2>3, <2>4, UniqueAfter
<1>4. ASSUME NEW q \in Requests, EditCommit(q) PROVE ActiveEmailsUnique'
  <2>1. PICK p \in People, e \in AnyEmail : p = req[q].person /\ e = req[q].email
    BY <1>0, <1>4 DEF EditCommit, PeopleTypeInv, PeopleTypeOK, Request, RequestsNamed, RequestNamed
  <2> DEFINE x == [person[p] EXCEPT !.email = e]
  <2>2. x \in Person /\ x.email = e
    BY <1>0 DEF Person
  <2>3. person' = [person EXCEPT ![p] = x]
    BY <1>4, <2>1 DEF EditCommit
  <2>4. /\ revived \subseteq revived' /\ skewed \subseteq skewed'
        /\ ValidWorkEmail(p, e) \/ p \in skewed'
    BY <1>4, <2>1 DEF EditCommit
  <2>5. e = NoEmail \/ p \in skewed' \/ \A y \in People \ {p} : Active(y) => person[y].email # e
    BY <2>4 DEF ValidWorkEmail
  <2> HIDE DEF x
  <2> QED
    BY <2>2, <2>3, <2>4, <2>5, UniqueAfter
<1>5. ASSUME NEW i \in Invites, NEW p \in People, NEW e \in Emails, CreateAndInvite(i, p, e)
      PROVE  ActiveEmailsUnique'
  BY <1>1, <1>5 DEF CreateAndInvite, AnyEmail
<1>6. ASSUME NEW s \in Signups, NEW i \in Invites, NEW p \in People, ApproveSignup(s, i, p)
      PROVE  ActiveEmailsUnique'
  <2>1. PICK e \in AnyEmail : e = signup[s]
    BY <1>0 DEF PeopleTypeInv, PeopleTypeOK
  <2> QED
    BY <1>1, <1>6, <2>1, UniqueSame DEF ApproveSignup
<1>7. ASSUME UNCHANGED <<person, revived>>, skewed \subseteq skewed' PROVE ActiveEmailsUnique'
  BY <1>7, UniqueSame
<1>8. ASSUME NEW q \in Requests, NEW i \in Invites, InviteCommit(q, i) PROVE ActiveEmailsUnique'
  BY <1>7, <1>8 DEF InviteCommit
<1>9. ASSUME PeopleStep PROVE ActiveEmailsUnique'
  <2>1. ASSUME NEW p \in People, NEW q \in Requests, NEW e \in AnyEmail,
               EditRead(q, p, e) \/ BatchEditRead(q, p, e)
        PROVE  ActiveEmailsUnique'
    BY <1>7, <2>1 DEF EditRead, BatchEditRead
  <2>2. ASSUME NEW p \in People, NEW i \in Invites,
               InvitePerson(i, p) \/ InviteBatch(i, p) \/ SetupLink(i, p)
        PROVE  ActiveEmailsUnique'
    BY <1>7, <2>2 DEF InvitePerson, InviteBatch, SetupLink
  <2>3. ASSUME NEW u \in Users,
               \/ \E p \in People : LinkExistingPerson(u, p)
               \/ \E e \in Emails, p \in People \cup {NoPerson} : CreateUser(u, e, p)
               \/ \E q \in Requests : ActivateCommit(q, u)
        PROVE  ActiveEmailsUnique'
    BY <1>7, <2>3 DEF LinkExistingPerson, CreateUser, ActivateCommit
  <2>4. ASSUME \/ \E i \in Invites : RevokeInvitation(i) \/ InvitationExpires(i)
               \/ \E s \in Signups, e \in Emails : Signup(s, e)
        PROVE  ActiveEmailsUnique'
    BY <1>7, <2>4 DEF RevokeInvitation, InvitationExpires, Signup
  <2>5. ASSUME NEW q \in Requests,
               \/ RejectCommit(q) \/ Abandon(q)
               \/ \E e \in Emails : InviteRead(q, e)
               \/ \E i \in Invites : ActivateRead(q, i)
               \/ \E s \in Signups : RejectRead(q, s)
        PROVE  ActiveEmailsUnique'
    BY <1>7, <2>5 DEF RejectCommit, Abandon, InviteRead, ActivateRead, RejectRead
  <2> QED
    BY <1>2, <1>3, <1>4, <1>5, <1>6, <1>8, <1>9, <2>1, <2>2, <2>3, <2>4, <2>5 DEF PeopleStep
<1>10. ASSUME UNCHANGED peopleVars PROVE ActiveEmailsUnique'
  BY <1>7, <1>10 DEF peopleVars
<1> QED
  BY <1>0, <1>9, <1>10 DEF PeopleNext, UniqueInv

\* No two active People share a work email, except through the archive, whose way back
\* validates nothing, or an edit that another edit overlapped.
THEOREM ActiveEmailsAlwaysUnique == PeopleSpec => []ActiveEmailsUnique
<1>1. PeopleInit => UniqueInv
  BY TypeInit DEF PeopleInit, UniqueInv, ActiveEmailsUnique, Active
<1>2. UniqueInv => ActiveEmailsUnique
  BY DEF UniqueInv
<1> QED
  BY <1>1, <1>2, UniqueStep, PTL DEF PeopleSpec
=============================================================================
