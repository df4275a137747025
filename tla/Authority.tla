------------------------------ MODULE Authority ------------------------------
(***************************************************************************)
(* Who may use the application and for how long: account status, role      *)
(* grants from staging to revocation, and the temporary access of          *)
(* Contractors (app/auth/service.py, app/identity/contractor_access.py,    *)
(* the account controls of app/admin, app/accounts and app/crew).          *)
(*                                                                         *)
(* One Region, whose Managers may administer every linked account.  Time   *)
(* is counted in days.  Sessions do not flush before queries, so a refresh *)
(* of Contractor access made inside a larger transaction sees the rows as  *)
(* they were before it.                                                    *)
(***************************************************************************)
EXTENDS Accounts, Integers, FiniteSets, FiniteSetsExt

CONSTANTS
  Linked,      \* accounts whose crew identity is linked
  Roles,       \* the roles in play
  Scopes,      \* bound: which account may be given which role, in how many days,
               \* and who reads rows it writes later
  Inactivity,  \* contractor_inactivity_days
  MaxDay,      \* bound: the days that pass
  Horizon      \* bound: how far ahead work is published

ASSUME AuthorityAssumption ==
  /\ Linked \subseteq Users
  /\ Roles \subseteq {"EMPLOYEE", "CASUAL", "CONTRACTOR", "SUB_MANAGER", "MANAGER",
                     "ADMIN"}
  /\ \A s \in Scopes : /\ s.grants \subseteq Users \X Roles /\ s.days \in 1 .. MaxDay
                      /\ "SCHEDULER" \in s.readers
  /\ Inactivity \in Nat \ {0} /\ MaxDay \in Nat /\ Horizon \in Nat

VARIABLES
  account,   \* the users rows
  grant,     \* the role_grants table, one row per account and role
  work,      \* last published day each account's Person is rostered on, 0 if none
  today,     \* the date
  disabling, \* administrators between the check and the commit of a disable
  refresh,   \* rows read by a recomputation of Contractor access, or by the status
             \* form of the crew page, before the transaction that writes them ends
  scope,     \* the bound this behaviour explores, never changed
  halted,    \* history: accounts an administrator has disabled and not enabled
  raced      \* history: accounts written from a row that had changed since it was read

authorityVars == <<account, grant, work, today, disabling, refresh, scope, halted,
                   raced>>

Never == 0
Days == 1 .. MaxDay + Horizon + Inactivity + 1
Account == [status : {"ABSENT", "ACTIVE", "DISABLED", "EXPIRED"},
            expires : {Never} \cup Days, manual : {Never} \cup Days]
NoAccount == [status |-> "ABSENT", expires |-> Never, manual |-> Never]
NewAccount == [NoAccount EXCEPT !.status = "ACTIVE"]
Sources == {"SCHEDULER", "EXTENSION"}
CrewPage == "CREW_PAGE"
Readers == Sources \cup {CrewPage}
GrantStatus == {"NONE", "PENDING", "ACTIVE"}
NoGrants == [r \in Roles |-> "NONE"]
Reading == [row : Account, result : Account]
NoReading == [row |-> NoAccount, result |-> NoAccount]

AuthorityTypeOK ==
  /\ account \in [Users -> Account]
  /\ grant \in [Users -> [Roles -> GrantStatus]]
  /\ work \in [Users -> {Never} \cup Days]
  /\ today \in 1 .. MaxDay
  /\ disabling \in [Users -> SUBSET Users]
  /\ scope \in Scopes
  /\ refresh \in [Readers -> [Users -> Reading]]
  /\ halted \in SUBSET Users
  /\ raced \in SUBSET Users

AuthorityInit ==
  /\ account = [u \in Users |-> NoAccount]
  /\ grant = [u \in Users |-> NoGrants]
  /\ work = [u \in Users |-> Never]
  /\ today = 1
  /\ disabling = [u \in Users |-> {}]
  /\ scope \in Scopes
  /\ refresh = [s \in Readers |-> [u \in Users |-> NoReading]]
  /\ halted = {}
  /\ raced = {}

-----------------------------------------------------------------------------
(* Policy.                                                                 *)

Exists(u) == account[u].status # "ABSENT"
Held(u) == {r \in Roles : grant[u][r] # "NONE"}
Effective(u) == {r \in Roles : grant[u][r] = "ACTIVE"}

\* actor_for: the roles a signed-in account acts with.  Contractor authority
\* is exclusive even when other grants coexist.
ActsWith(u) == IF "CONTRACTOR" \in Effective(u) THEN {"CONTRACTOR"} ELSE Effective(u)

Due(u) == account[u].expires # Never /\ account[u].expires <= today

\* An account that may sign in and act.
Usable(u) == account[u].status = "ACTIVE" /\ ~Due(u) /\ Effective(u) # {}
Acts(u, r) == Usable(u) /\ r \in ActsWith(u)

Protected(u) == Held(u) \cap {"MANAGER", "ADMIN"} # {}

\* A Manager of the Region administers ordinary accounts that belong to it.
MayAdminister(a, u) ==
  \/ Acts(a, "ADMIN")
  \/ Acts(a, "MANAGER") /\ ~Protected(u) /\ (u \in Linked \/ Held(u) # {})
MayGrant(a, r) ==
  \/ Acts(a, "ADMIN")
  \/ Acts(a, "MANAGER") /\ r \in {"EMPLOYEE", "CASUAL", "CONTRACTOR", "SUB_MANAGER"}

\* The row lock an administrator's disable holds from its check to its commit.
Unlocked(u) == \A a \in Users : u \notin disabling[a]

-----------------------------------------------------------------------------
(* Contractor access.                                                      *)

IsContractor(u) == "CONTRACTOR" \in Roles /\ grant[u]["CONTRACTOR"] = "ACTIVE"

\* Refreshed, bringing back whatever is not active.
RefreshedAll(row, contractor, lastWork, extend) ==
  IF contractor /\ lastWork >= today THEN [row EXCEPT !.status = "ACTIVE"] ELSE row

\* Refreshed, for which expiry is final.
RefreshedForGood(row, contractor, lastWork, extend) ==
  LET expires == Max({row.expires}
        \cup {lastWork + 1 + Inactivity : x \in {t \in {today} : lastWork >= t}}
        \cup {today + Inactivity : x \in {t \in {TRUE} : extend}})
  IN IF contractor
     THEN [row EXCEPT !.expires = expires,
                      !.status = IF expires \in 1 .. today THEN "EXPIRED" ELSE @]
     ELSE row

\* The later of the end of the last day of future work and the manual
\* extension, plus the inactivity period, but never earlier than before; the
\* status follows.  Nothing happens to an account that is not a Contractor's.
Refreshed(row, contractor, lastWork, extend) ==
  LET manual == IF extend THEN today ELSE row.manual
      expires == Max({row.expires}
        \cup {lastWork + 1 + Inactivity : x \in {t \in {today} : lastWork >= t}}
        \cup {manual + Inactivity : x \in {m \in {manual} : m # Never}})
      status == CASE row.status = "ACTIVE" /\ expires \in 1 .. today -> "EXPIRED"
                  [] row.status = "EXPIRED" /\ expires > today -> "ACTIVE"
                  [] OTHER -> row.status
  IN IF contractor THEN [status |-> status, expires |-> expires, manual |-> manual]
     ELSE row

-----------------------------------------------------------------------------
(* Accounts and grants.                                                    *)

\* The rows of a new account: its grant is active, and the refresh that should
\* give a Contractor an expiry runs before the grant is flushed.
Opened(u, r) ==
  /\ ~Exists(u) /\ <<u, r>> \in scope.grants
  /\ r = "CONTRACTOR" => u \in Linked
  /\ account' = [account EXCEPT ![u] = Refreshed(NewAccount, IsContractor(u), work[u], TRUE)]
  /\ grant' = [grant EXCEPT ![u][r] = "ACTIVE"]
  /\ UNCHANGED <<work, today, disabling, refresh, scope, halted, raced>>

CreateAdmin(u) == "ADMIN" \in Roles /\ Opened(u, "ADMIN")
CreateAccount(a, u, r) == Acts(a, "ADMIN") /\ Opened(u, r)
ActivateInvitation(u, r) ==
  /\ \E a \in Users : Exists(a)
  /\ r # "ADMIN"
  /\ Opened(u, r)

\* GrantRole, looking at effective roles only.
GrantRoleEffective(a, u, r) ==
  /\ Exists(u) /\ Unlocked(u) /\ <<u, r>> \in scope.grants
  /\ MayGrant(a, r) /\ MayAdminister(a, u)
  /\ r \notin Held(u)
  /\ IF r = "CONTRACTOR" THEN Effective(u) = {} /\ u \in Linked
     ELSE "CONTRACTOR" \notin Effective(u)
  /\ grant' = [grant EXCEPT ![u][r] = "PENDING"]
  /\ UNCHANGED <<account, work, today, disabling, refresh, scope, halted, raced>>

\* A grant is staged.  Contractor access is an account's only role, and its
\* Person must be an active one of the Region.
GrantRole(a, u, r) ==
  /\ Exists(u) /\ Unlocked(u) /\ <<u, r>> \in scope.grants
  /\ MayGrant(a, r) /\ MayAdminister(a, u)
  /\ IF r = "CONTRACTOR" THEN Held(u) = {} /\ u \in Linked
     ELSE "CONTRACTOR" \notin Held(u)
  /\ r \notin Held(u)
  /\ grant' = [grant EXCEPT ![u][r] = "PENDING"]
  /\ UNCHANGED <<account, work, today, disabling, refresh, scope, halted, raced>>

FinalAdmin(r, u) ==
  r = "ADMIN" /\ grant[u][r] = "ACTIVE"
    /\ Cardinality({x \in Users : "ADMIN" \in Effective(x)}) <= 1

\* RevokeGrant without the count of active Admin grants.
RevokeGrantUncounted(a, u, r) ==
  /\ r \in Held(u) /\ Unlocked(u)
  /\ MayGrant(a, r) /\ MayAdminister(a, u)
  /\ grant' = [grant EXCEPT ![u][r] = "NONE"]
  /\ UNCHANGED <<account, work, today, disabling, refresh, scope, halted, raced>>

\* A grant is revoked, under a global lock when it is an Admin's.
RevokeGrant(a, u, r) ==
  /\ r \in Held(u) /\ Unlocked(u)
  /\ MayGrant(a, r) /\ MayAdminister(a, u)
  /\ ~FinalAdmin(r, u)
  /\ grant' = [grant EXCEPT ![u][r] = "NONE"]
  /\ UNCHANGED <<account, work, today, disabling, refresh, scope, halted, raced>>

\* The switch of the crew page.
SwitchSubManager(a, u) ==
  /\ u \in Linked /\ "SUB_MANAGER" \in Roles
  /\ GrantRole(a, u, "SUB_MANAGER") \/ RevokeGrant(a, u, "SUB_MANAGER")

\* Employee and Casual replace each other through staging.
ChangeEmployment(a, u, r) ==
  /\ u \in Linked /\ Exists(u) /\ Unlocked(u)
  /\ r \in {"EMPLOYEE", "CASUAL"} /\ <<u, r>> \in scope.grants
  /\ MayAdminister(a, u) /\ MayGrant(a, r)
  /\ "CONTRACTOR" \notin Held(u) /\ r \notin Held(u)
  /\ grant' = [grant EXCEPT ![u] = [x \in Roles |->
       CASE x = r -> "PENDING"
         [] x \in {"EMPLOYEE", "CASUAL"} \ {r} -> "NONE"
         [] OTHER -> grant[u][x]]]
  /\ UNCHANGED <<account, work, today, disabling, refresh, scope, halted, raced>>

\* A sign-in with the primary credential activates what is staged; an Admin
\* grant only when the credential meets the Admin policy.
SignInActivates(u, eligible) ==
  LET pending == {r \in Roles : grant[u][r] = "PENDING" /\ (r = "ADMIN" => eligible)}
  IN /\ account[u].status = "ACTIVE" /\ ~Due(u) /\ Unlocked(u)
     /\ pending # {}
     /\ grant' = [grant EXCEPT ![u] = [r \in Roles |->
          IF r \in pending THEN "ACTIVE" ELSE grant[u][r]]]
     /\ account' = [account EXCEPT ![u] =
          Refreshed(@, "CONTRACTOR" \in pending /\ IsContractor(u), work[u], TRUE)]
     /\ UNCHANGED <<work, today, disabling, refresh, scope, halted, raced>>

-----------------------------------------------------------------------------
(* Account status.                                                         *)

\* The check looks for another active Admin, whose row it does not lock.
DisableCheck(a, u) ==
  /\ Acts(a, "ADMIN") /\ a # u /\ Exists(u)
  /\ disabling[a] = {} /\ Unlocked(u)
  /\ "ADMIN" \in Effective(u) =>
       \E x \in Users \ {u} : "ADMIN" \in Effective(x) /\ account[x].status = "ACTIVE"
  /\ disabling' = [disabling EXCEPT ![a] = {u}]
  /\ UNCHANGED <<account, grant, work, today, refresh, scope, halted, raced>>

DisableCommit(a, u) ==
  /\ u \in disabling[a]
  /\ account' = [account EXCEPT ![u].status = "DISABLED"]
  /\ disabling' = [disabling EXCEPT ![a] = {}]
  /\ halted' = halted \cup {u}
  /\ UNCHANGED <<grant, work, today, refresh, scope, raced>>

\* Enabling a Contractor also extends the access.
Enabled(row, u) ==
  Refreshed([row EXCEPT !.status = "ACTIVE"], IsContractor(u), work[u], TRUE)

\* The accounts page of the administrators locks the row before it reads it.
Enable(a, u) ==
  /\ Acts(a, "ADMIN")
  /\ a # u /\ Exists(u) /\ Unlocked(u)
  /\ account' = [account EXCEPT ![u] = Enabled(@, u)]
  /\ halted' = halted \ {u}
  /\ UNCHANGED <<grant, work, today, disabling, refresh, scope, raced>>

\* The UPDATE carries the columns that differ from the ones read.
Written(now, read, result) ==
  [f \in DOMAIN now |-> IF result[f] # read[f] THEN result[f] ELSE now[f]]

\* The status form of the crew page, which Sub-Managers may use for ordinary
\* accounts: it loads the row to see who it belongs to, and the lock it takes
\* next does not load it again.
AssistRead(a, u) ==
  /\ CrewPage \in scope.readers
  /\ u \in Linked /\ a # u /\ Exists(u)
  /\ MayAdminister(a, u) \/ (Acts(a, "SUB_MANAGER") /\ ~Protected(u))
  /\ refresh' = [refresh EXCEPT ![CrewPage][u] = [row |-> account[u], result |-> account[u]]]
  /\ UNCHANGED <<account, grant, work, today, disabling, scope, halted, raced>>

Assisted(u, row, result) ==
  /\ refresh[CrewPage][u] # NoReading /\ Unlocked(u)
  /\ account' = [account EXCEPT ![u] = Written(@, row, result)]
  /\ refresh' = [refresh EXCEPT ![CrewPage][u] = NoReading]
  /\ raced' = IF account[u] = row THEN raced ELSE raced \cup {u}
  /\ UNCHANGED <<grant, work, today, disabling, scope>>

\* It disables without looking for another Admin.
AssistDisable(u) ==
  LET row == refresh[CrewPage][u].row
  IN /\ Assisted(u, row, [row EXCEPT !.status = "DISABLED"])
     /\ halted' = halted \cup {u}

AssistEnable(u) ==
  LET row == refresh[CrewPage][u].row
  IN /\ Assisted(u, row, Enabled(row, u))
     /\ halted' = halted \ {u}

-----------------------------------------------------------------------------
(* Refreshing Contractor access: read, then commit the columns that changed. *)

Begin(s, u, extend) ==
  /\ s \in scope.readers
  /\ IsContractor(u) /\ refresh[s][u] = NoReading
  /\ Refreshed(account[u], TRUE, work[u], extend) # account[u]
  /\ refresh' = [refresh EXCEPT ![s][u] = [row |-> account[u],
       result |-> Refreshed(account[u], TRUE, work[u], extend)]]
  /\ UNCHANGED <<account, grant, work, today, disabling, scope, halted, raced>>

SchedulerRefresh(u) == Begin("SCHEDULER", u, FALSE)
ExtendAccess(a, u) ==
  /\ u \in Linked /\ (Acts(a, "ADMIN") \/ Acts(a, "MANAGER"))
  /\ Begin("EXTENSION", u, TRUE)

RefreshCommit(s, u) ==
  LET read == refresh[s][u]
  IN /\ read # NoReading /\ Unlocked(u)
     /\ account' = [account EXCEPT ![u] = Written(@, read.row, read.result)]
     /\ refresh' = [refresh EXCEPT ![s][u] = NoReading]
     /\ raced' = IF account[u] = read.row THEN raced ELSE raced \cup {u}
     /\ UNCHANGED <<grant, work, today, disabling, scope, halted>>

\* A publication rosters the Person; its refresh still sees the roster before.
PublishWork(u, d) ==
  /\ u \in Linked /\ d \in today .. today + Horizon
  /\ work' = [work EXCEPT ![u] = d]
  /\ account' = [account EXCEPT ![u] = Refreshed(@, IsContractor(u), work[u], FALSE)]
  /\ UNCHANGED <<grant, today, disabling, refresh, scope, halted, raced>>

\* A decline, a cancellation or another edit takes the work away.
LoseWork(u) ==
  /\ work[u] # Never
  /\ work' = [work EXCEPT ![u] = Never]
  /\ UNCHANGED <<account, grant, today, disabling, refresh, scope, halted, raced>>

NextDay ==
  /\ today < scope.days
  /\ today' = today + 1
  /\ UNCHANGED <<account, grant, work, disabling, refresh, scope, halted, raced>>

-----------------------------------------------------------------------------
AuthorityNext ==
  \/ NextDay
  \/ \E u \in Users :
       \/ CreateAdmin(u)
       \/ SchedulerRefresh(u)
       \/ LoseWork(u)
       \/ AssistDisable(u) \/ AssistEnable(u)
       \/ \E r \in Roles : ActivateInvitation(u, r)
       \/ \E eligible \in BOOLEAN : SignInActivates(u, eligible)
       \/ \E d \in Days : PublishWork(u, d)
       \/ \E s \in Sources : RefreshCommit(s, u)
       \/ \E a \in Users :
            \/ \E r \in Roles :
                 \/ CreateAccount(a, u, r)
                 \/ GrantRole(a, u, r)
                 \/ RevokeGrant(a, u, r)
                 \/ ChangeEmployment(a, u, r)
            \/ SwitchSubManager(a, u)
            \/ DisableCheck(a, u) \/ DisableCommit(a, u)
            \/ Enable(a, u) \/ AssistRead(a, u)
            \/ ExtendAccess(a, u)

\* The scheduler refreshes every Contractor at every tick; a commit that has
\* begun ends.
AuthorityFairness ==
  \A u \in Users :
    /\ WF_authorityVars(SchedulerRefresh(u))
    /\ WF_authorityVars(\E s \in Sources : RefreshCommit(s, u))
    /\ WF_authorityVars(\E a \in Users : DisableCommit(a, u))

AuthoritySpec == AuthorityInit /\ [][AuthorityNext]_authorityVars /\ AuthorityFairness

-----------------------------------------------------------------------------
(* Properties.                                                             *)

\* Contractor access, staged or active, is an account's only role, whichever
\* forms staged what and whoever signed in meanwhile.
ContractorExclusive ==
  \A u \in Users : "CONTRACTOR" \in Held(u) => Held(u) = {"CONTRACTOR"}

\* Once there are accounts there is an active Admin grant: revocations cannot
\* remove the last one between them.
AdminGrantRemains ==
  (\E u \in Users : Exists(u)) => \E u \in Users : "ADMIN" \in Effective(u)

\* An account an administrator has disabled is active again only when one
\* enables it; not when a refresh finds work for it.  What read the row before
\* another transaction changed it may write over the disable
\* (identity/contractor_access.py:176) or find nothing to write
\* (crew/routes.py:819).
DisabledStays ==
  \A u \in halted : account[u].status = "DISABLED" \/ u \in raced

\* Contractor access is never shortened, except by a form or a refresh that
\* writes over one it has not seen.
NeverShortened ==
  [][\A u \in Users : account'[u].expires >= account[u].expires
                       \/ u \in raced']_authorityVars

\* A Contractor whose access has run out and who is rostered again is let in.
WorkReopensAccess ==
  \A u \in Users :
    (IsContractor(u) /\ account[u].status = "EXPIRED" /\ work[u] >= today)
      ~> (~IsContractor(u) \/ account[u].status # "EXPIRED" \/ work[u] < today)

\* Documentation: the final active Admin account cannot be lost through the
\* application (docs/SECURITY.md:27).
AdminRemains ==
  (\E u \in Users : Exists(u)) =>
    \E u \in Users : "ADMIN" \in Effective(u) /\ account[u].status = "ACTIVE"

\* Documentation and a test: activating a Contractor sets when access ends
\* (docs/ARCHITECTURE.md:51, tests/test_contractor_lifecycle.py:217).
ContractorAccessEnds ==
  \A u \in Users : IsContractor(u) => account[u].expires # Never

\* Documentation: expiry is non-destructive, management may reactivate access
\* (docs/DOMAIN_RULES.md:65); an enabled account with an effective role that
\* is not Contractor's can sign in.
EnabledMayEnter ==
  \A u \in Users :
    account[u].status = "ACTIVE" /\ Effective(u) # {} /\ ~IsContractor(u) => ~Due(u)

=============================================================================
