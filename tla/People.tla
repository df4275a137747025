------------------------------- MODULE People -------------------------------
(***************************************************************************)
(* Roster identities and account identities, and the one string that ties  *)
(* them together: the normalised work email (app/identity/email.py), with  *)
(* the forms that write it (app/crew, app/admin, app/accounts), setup      *)
(* invitations from creation to activation, and sign-up requests           *)
(* (app/auth).                                                             *)
(*                                                                         *)
(* validate_person_work_email holds a lock on the email it is GIVEN until  *)
(* the transaction ends, so operations on one email follow one another,    *)
(* while an edit that takes a Person from one email to another overlaps    *)
(* what is done under the old one.  An edit, an activation, an invitation  *)
(* without a Person and a decision on a sign-up are therefore read and     *)
(* commit actions; the rest is one step under the email's lock.            *)
(***************************************************************************)
EXTENDS Accounts, Integers, FiniteSets

CONSTANTS
  People, Emails, Invites, Signups,  \* rows that may be created
  Requests,                                 \* requests in flight
  NoEmail, NoPerson, NoInvite, NoSignup,
  MaxExceptions  \* bound: exceptions to the properties after which nothing goes on

ASSUME PeopleAssumption ==
  /\ NoEmail \notin Emails /\ NoPerson \notin People
  /\ NoInvite \notin Invites /\ NoSignup \notin Signups
  /\ MaxExceptions \in Nat

VARIABLES
  person,   \* the people table
  email,    \* the users table: the login email of each account
  link,     \* the user_person_links table
  invite,   \* the invitations table
  signup,   \* the pending rows of signup_requests: the email, or none
  req,      \* requests between their read and their commit
  drifted,  \* history: accounts opened for a Person with another email
  revived,  \* history: People reactivated while another has their email
  skewed    \* history: People edited and emails invited on checks that no
            \* longer held

peopleVars == <<person, email, link, invite, signup, req, drifted, revived, skewed>>

AnyEmail == Emails \cup {NoEmail}
Person == [lifecycle : {"NONE", "ACTIVE", "ARCHIVED"}, email : AnyEmail]
Invitation == [state : {"NONE", "OPEN", "EXPIRED"},
               email : AnyEmail, person : People \cup {NoPerson}]
\* Rows that are consumed, revoked, approved or rejected are never read again
\* except by a request that has them: such a row counts as free.
NoInvitation == [state |-> "NONE", email |-> NoEmail, person |-> NoPerson]
Request == [kind : {"NONE", "EDIT", "INVITE", "ACTIVATE", "REJECT"}, email : AnyEmail,
            person : People \cup {NoPerson}, invite : Invites \cup {NoInvite},
            signup : Signups \cup {NoSignup}]
NoRequest == [kind |-> "NONE", email |-> NoEmail, person |-> NoPerson,
              invite |-> NoInvite, signup |-> NoSignup]

PeopleTypeOK ==
  /\ person \in [People -> Person]
  /\ email \in [Users -> AnyEmail]
  /\ link \in [Users -> People \cup {NoPerson}]
  /\ invite \in [Invites -> Invitation]
  /\ signup \in [Signups -> AnyEmail]
  /\ req \in [Requests -> Request]
  /\ drifted \subseteq Users
  /\ revived \subseteq People
  /\ skewed \subseteq People \cup Emails

\* The worksheets and the database give a Person without an account.
PeopleInit ==
  /\ person = [p \in People |-> [lifecycle |-> "NONE", email |-> NoEmail]]
  /\ email = [u \in Users |-> NoEmail]
  /\ link = [u \in Users |-> NoPerson]
  /\ invite = [i \in Invites |-> NoInvitation]
  /\ signup = [s \in Signups |-> NoEmail]
  /\ req = [q \in Requests |-> NoRequest]
  /\ drifted = {} /\ revived = {} /\ skewed = {}

FreeInvite(i) == invite[i] = NoInvitation /\ \A q \in Requests : req[q].invite # i
FreeSignup(s) == signup[s] = NoEmail /\ \A q \in Requests : req[q].signup # s

-----------------------------------------------------------------------------
(* Email identity.                                                         *)

Active(p) == person[p].lifecycle = "ACTIVE"
AccountOf(p) == {u \in Users : link[u] = p}
WithEmail(e) == {u \in Users : email[u] = e}

\* The advisory lock of an edit in flight.
EmailFree(e) == \A q \in Requests : req[q].kind = "EDIT" => req[q].email # e

\* ValidWorkEmail without looking at the Person's own account.
ValidWorkEmailUnlinked(p, e) ==
  \/ e = NoEmail
  \/ /\ \A x \in People \ {p} : Active(x) => person[x].email # e
     /\ \A u \in WithEmail(e) : link[u] \in {NoPerson, p}

\* validate_person_work_email: no other active Person has it, the Person's own
\* account has exactly it, and it is not the email of another Person's account.
\* A Person with an account keeps an email.
ValidWorkEmail(p, e) ==
  IF e = NoEmail THEN AccountOf(p) = {}
  ELSE /\ \A x \in People \ {p} : Active(x) => person[x].email # e
       /\ \A u \in AccountOf(p) : email[u] = e
       /\ \A u \in WithEmail(e) : link[u] \in {NoPerson, p}

\* person_email_issues: what the crew pages report of an existing Person.
EmailIssues(p) ==
  {issue \in {"UNMATCHED", "SHARED", "DIFFERENT", "ELSEWHERE"} :
     CASE issue = "UNMATCHED" -> person[p].email = NoEmail /\ AccountOf(p) # {}
       [] issue = "SHARED" -> /\ person[p].email # NoEmail /\ Active(p)
                              /\ \E x \in People \ {p} :
                                   Active(x) /\ person[x].email = person[p].email
       [] issue = "DIFFERENT" -> /\ person[p].email # NoEmail
                                 /\ \E u \in AccountOf(p) : email[u] # person[p].email
       [] issue = "ELSEWHERE" -> /\ person[p].email # NoEmail
                                 /\ \E u \in WithEmail(person[p].email) :
                                      link[u] \notin {NoPerson, p}}

OpenFor(e) == {i \in Invites : invite[i].state = "OPEN" /\ invite[i].email = e}

\* onboarding_state, for People with a Primary Region.
OnboardingState(p) ==
  LET pending == {i \in Invites : invite[i].person = p /\ invite[i].state \in {"OPEN", "EXPIRED"}}
  IN CASE ~Active(p) -> "ARCHIVED"
       [] Active(p) /\ AccountOf(p) # {} -> "ACCOUNT_LINKED"
       [] Active(p) /\ AccountOf(p) = {} /\ person[p].email = NoEmail -> "NEEDS_EMAIL"
       [] OTHER -> CASE pending = {} -> "READY_TO_INVITE"
                     [] \E i \in pending : invite[i].state = "OPEN" -> "INVITATION_PENDING"
                     [] OTHER -> "INVITATION_EXPIRED"

-----------------------------------------------------------------------------
(* People.                                                                 *)

CreatePerson(p, e) ==
  /\ person[p].lifecycle = "NONE"
  /\ ValidWorkEmail(p, e) /\ EmailFree(e)
  /\ person' = [person EXCEPT ![p] = [lifecycle |-> "ACTIVE", email |-> e]]
  /\ UNCHANGED <<email, link, invite, signup, req, drifted, revived, skewed>>

\* A profile form: the checks, under the lock of the new email.
EditRead(q, p, e) ==
  /\ req[q] = NoRequest
  /\ person[p].lifecycle # "NONE" /\ person[p].email # e
  /\ ValidWorkEmail(p, e) /\ EmailFree(e)
  /\ req' = [req EXCEPT ![q] = [NoRequest EXCEPT !.kind = "EDIT", !.person = p,
                                                 !.email = e]]
  /\ UNCHANGED <<person, email, link, invite, signup, drifted, revived, skewed>>

\* The batch forms edit active People without an account.
BatchEditRead(q, p, e) == Active(p) /\ AccountOf(p) = {} /\ EditRead(q, p, e)

EditCommit(q) ==
  LET p == req[q].person
      e == req[q].email
  IN /\ req[q].kind = "EDIT"
     /\ person' = [person EXCEPT ![p].email = e]
     /\ req' = [req EXCEPT ![q] = NoRequest]
     /\ skewed' = IF ValidWorkEmail(p, e) THEN skewed ELSE skewed \cup {p}
     /\ UNCHANGED <<email, link, invite, signup, drifted, revived>>

\* Archiving and reactivating: nothing is validated.
UpdateLifecycle(p) ==
  /\ person[p].lifecycle # "NONE"
  /\ person' = [person EXCEPT ![p].lifecycle = IF Active(p) THEN "ARCHIVED" ELSE "ACTIVE"]
  /\ revived' = IF ~Active(p) /\ person[p].email # NoEmail
                    /\ \E x \in People : Active(x) /\ person[x].email = person[p].email
                THEN revived \cup {p} ELSE revived
  /\ UNCHANGED <<email, link, invite, signup, req, drifted, skewed>>

-----------------------------------------------------------------------------
(* Accounts.                                                               *)

\* Direct creation, alone or with a Person whose email it must have.
CreateUser(u, e, p) ==
  /\ email[u] = NoEmail /\ WithEmail(e) = {}
  /\ p # NoPerson => /\ Active(p) /\ person[p].email \in {e, NoEmail}
                     /\ AccountOf(p) = {}
                     /\ ValidWorkEmail(p, person[p].email) /\ EmailFree(person[p].email)
  /\ email' = [email EXCEPT ![u] = e]
  /\ link' = [link EXCEPT ![u] = p]
  /\ drifted' = IF p # NoPerson /\ person[p].email = NoEmail THEN drifted \cup {u} ELSE drifted
  /\ UNCHANGED <<person, invite, signup, req, revived, skewed>>

LinkExistingPerson(u, p) ==
  /\ email[u] # NoEmail /\ link[u] = NoPerson
  /\ Active(p) /\ AccountOf(p) = {}
  /\ person[p].email = email[u]
  /\ ValidWorkEmail(p, person[p].email) /\ EmailFree(person[p].email)
  /\ link' = [link EXCEPT ![u] = p]
  /\ UNCHANGED <<person, email, invite, signup, req, drifted, revived, skewed>>

-----------------------------------------------------------------------------
(* Invitations.                                                            *)

\* Invitable without the look for a pending invitation.
InvitableAgain(e, p) ==
  /\ e # NoEmail /\ WithEmail(e) = {}
  /\ p # NoPerson => /\ Active(p) /\ AccountOf(p) = {} /\ person[p].email = e
                     /\ ValidWorkEmail(p, e) /\ EmailFree(e)

\* The checks of create_invitation.
Invitable(e, p) ==
  /\ e # NoEmail /\ WithEmail(e) = {}
  /\ p # NoPerson => /\ Active(p) /\ AccountOf(p) = {} /\ person[p].email = e
                     /\ ValidWorkEmail(p, e) /\ EmailFree(e)
  /\ OpenFor(e) = {}

\* The new row.
Invited(i, e, p) == [invite EXCEPT ![i] = [state |-> "OPEN", email |-> e, person |-> p]]

\* For a Person (accounts, admin and crew forms): under the email's lock.
InvitePerson(i, p) ==
  /\ FreeInvite(i)
  /\ Invitable(person[p].email, p)
  /\ invite' = Invited(i, person[p].email, p)
  /\ UNCHANGED <<person, email, link, signup, req, drifted, revived, skewed>>

\* A new Person and its invitation in one transaction.
CreateAndInvite(i, p, e) ==
  /\ person[p].lifecycle = "NONE" /\ FreeInvite(i)
  /\ ValidWorkEmail(p, e) /\ EmailFree(e)
  /\ e # NoEmail /\ WithEmail(e) = {} /\ OpenFor(e) = {}
  /\ person' = [person EXCEPT ![p] = [lifecycle |-> "ACTIVE", email |-> e]]
  /\ invite' = Invited(i, e, p)
  /\ UNCHANGED <<email, link, signup, req, drifted, revived, skewed>>

\* The batch form invites whoever is ready.
InviteBatch(i, p) == OnboardingState(p) = "READY_TO_INVITE" /\ InvitePerson(i, p)

\* A new setup link revokes the expired ones; one that is still open refuses it,
\* because the revocation is not flushed when the new one is checked.
SetupLink(i, p) ==
  /\ FreeInvite(i)
  /\ Invitable(person[p].email, p)
  /\ invite' = [x \in Invites |->
       CASE x = i -> [state |-> "OPEN", email |-> person[p].email, person |-> p]
         [] x # i /\ invite[x].person = p /\ invite[x].state \in {"OPEN", "EXPIRED"} ->
              NoInvitation
         [] OTHER -> invite[x]]
  /\ UNCHANGED <<person, email, link, signup, req, drifted, revived, skewed>>

\* Without a Person there is no lock.
InviteRead(q, e) ==
  /\ req[q] = NoRequest
  /\ Invitable(e, NoPerson)
  /\ req' = [req EXCEPT ![q] = [NoRequest EXCEPT !.kind = "INVITE", !.email = e]]
  /\ UNCHANGED <<person, email, link, invite, signup, drifted, revived, skewed>>

InviteCommit(q, i) ==
  LET e == req[q].email
  IN /\ req[q].kind = "INVITE" /\ FreeInvite(i)
     /\ invite' = Invited(i, e, NoPerson)
     /\ req' = [req EXCEPT ![q] = NoRequest]
     /\ skewed' = IF Invitable(e, NoPerson) THEN skewed ELSE skewed \cup {e}
     /\ UNCHANGED <<person, email, link, signup, drifted, revived>>

RevokeInvitation(i) ==
  /\ invite[i].state \in {"OPEN", "EXPIRED"}
  /\ invite' = [invite EXCEPT ![i] = NoInvitation]
  /\ UNCHANGED <<person, email, link, signup, req, drifted, revived, skewed>>

InvitationExpires(i) ==
  /\ invite[i].state = "OPEN"
  /\ invite' = [invite EXCEPT ![i] =
       IF invite[i].person = NoPerson THEN NoInvitation
       ELSE [state |-> "EXPIRED", email |-> NoEmail, person |-> invite[i].person]]
  /\ UNCHANGED <<person, email, link, signup, req, drifted, revived, skewed>>

\* The activation page reads the invitation; the row the activation locks is
\* the one already read.
ActivateRead(q, i) ==
  /\ req[q] = NoRequest /\ invite[i].state = "OPEN"
  /\ req' = [req EXCEPT ![q] = [NoRequest EXCEPT !.kind = "ACTIVATE", !.invite = i,
                                !.email = invite[i].email, !.person = invite[i].person]]
  /\ UNCHANGED <<person, email, link, invite, signup, drifted, revived, skewed>>

\* Only the email of the account and the Person's link are looked at again.
ActivateCommit(q, u) ==
  LET i == req[q].invite
      e == req[q].email
      p == req[q].person
  IN /\ req[q].kind = "ACTIVATE"
     /\ email[u] = NoEmail /\ WithEmail(e) = {}
     /\ p # NoPerson => AccountOf(p) = {}
     /\ email' = [email EXCEPT ![u] = e]
     /\ link' = [link EXCEPT ![u] = p]
     /\ invite' = [invite EXCEPT ![i] = NoInvitation]
     /\ req' = [req EXCEPT ![q] = NoRequest]
     /\ drifted' = IF p # NoPerson /\ person[p].email # e THEN drifted \cup {u} ELSE drifted
     /\ UNCHANGED <<person, signup, revived, skewed>>

Abandon(q) ==
  /\ req[q].kind # "NONE"
  /\ req' = [req EXCEPT ![q] = NoRequest]
  /\ UNCHANGED <<person, email, link, invite, signup, drifted, revived, skewed>>

-----------------------------------------------------------------------------
(* Sign-up requests.                                                       *)

Signup(s, e) ==
  /\ FreeSignup(s)
  /\ \A x \in Signups : signup[x] # e
  /\ signup' = [signup EXCEPT ![s] = e]
  /\ UNCHANGED <<person, email, link, invite, req, drifted, revived, skewed>>

\* An approval creates or names the Person and invites it.
ApproveSignup(s, i, p) ==
  LET e == signup[s]
  IN /\ signup[s] # NoEmail /\ FreeInvite(i)
     /\ \/ person[p].lifecycle = "NONE" /\ ValidWorkEmail(p, e) /\ EmailFree(e)
           /\ WithEmail(e) = {} /\ OpenFor(e) = {}
           /\ person' = [person EXCEPT ![p] = [lifecycle |-> "ACTIVE", email |-> e]]
        \/ Active(p) /\ Invitable(e, p) /\ person' = person
     /\ invite' = Invited(i, e, p)
     /\ signup' = [signup EXCEPT ![s] = NoEmail]
     /\ UNCHANGED <<email, link, req, drifted, revived, skewed>>

\* A rejection writes over whatever was decided since it read the request.
RejectRead(q, s) ==
  /\ req[q] = NoRequest /\ signup[s] # NoEmail
  /\ req' = [req EXCEPT ![q] = [NoRequest EXCEPT !.kind = "REJECT", !.signup = s]]
  /\ UNCHANGED <<person, email, link, invite, signup, drifted, revived, skewed>>

RejectCommit(q) ==
  LET s == req[q].signup
  IN /\ req[q].kind = "REJECT"
     /\ signup' = [signup EXCEPT ![s] = NoEmail]
     /\ req' = [req EXCEPT ![q] = NoRequest]
     /\ UNCHANGED <<person, email, link, invite, drifted, revived, skewed>>

-----------------------------------------------------------------------------
PeopleStep ==
  \/ \E p \in People :
       \/ UpdateLifecycle(p)
       \/ \E e \in AnyEmail : CreatePerson(p, e)
       \/ \E q \in Requests, e \in AnyEmail : EditRead(q, p, e) \/ BatchEditRead(q, p, e)
       \/ \E u \in Users : LinkExistingPerson(u, p)
       \/ \E i \in Invites :
            \/ InvitePerson(i, p) \/ InviteBatch(i, p) \/ SetupLink(i, p)
            \/ \E e \in Emails : CreateAndInvite(i, p, e)
            \/ \E s \in Signups : ApproveSignup(s, i, p)
  \/ \E u \in Users, e \in Emails, p \in People \cup {NoPerson} : CreateUser(u, e, p)
  \/ \E i \in Invites : RevokeInvitation(i) \/ InvitationExpires(i)
  \/ \E s \in Signups, e \in Emails : Signup(s, e)
  \/ \E q \in Requests :
       \/ EditCommit(q) \/ RejectCommit(q) \/ Abandon(q)
       \/ \E e \in Emails : InviteRead(q, e)
       \/ \E i \in Invites : InviteCommit(q, i) \/ ActivateRead(q, i)
       \/ \E u \in Users : ActivateCommit(q, u)
       \/ \E s \in Signups : RejectRead(q, s)

Exceptions == Cardinality(drifted) + Cardinality(revived) + Cardinality(skewed)
PeopleNext == Exceptions <= MaxExceptions /\ PeopleStep

PeopleSpec == PeopleInit /\ [][PeopleNext]_peopleVars

-----------------------------------------------------------------------------
(* Properties.                                                             *)

\* A linked Person and account have the same email.  Three things the code
\* does not look at again are excepted: the Person's present email when an
\* invitation is activated (auth/service.py:636), a Person without an email in
\* direct creation (admin/routes.py:392), and a link made while the Person is
\* being moved to another email.
LinkedEmailsAgree ==
  \A u \in Users :
    link[u] # NoPerson =>
      email[u] = person[link[u]].email \/ u \in drifted \/ link[u] \in skewed

\* No two active People share an email, except through the archive, whose way
\* back validates nothing (crew/routes.py:1459), or a move that overlapped one.
ActiveEmailsUnique ==
  \A p, x \in People :
    Active(p) /\ Active(x) /\ p # x /\ person[p].email = person[x].email =>
      person[p].email = NoEmail \/ {p, x} \cap (revived \cup skewed) # {}

\* An email has one open invitation, except when one without a Person was being
\* created while another was.
OneOpenInvitation ==
  \A e \in Emails : Cardinality(OpenFor(e)) <= 1 \/ e \in skewed

\* Documentation: a linked Person/User pair must use the same normalized email
\* (docs/DOMAIN_RULES.md:58).
LinkedPairsMatch ==
  \A u \in Users : link[u] # NoPerson => email[u] = person[link[u]].email

\* Documentation: an active Person's work email is unique
\* (docs/DOMAIN_RULES.md:58).
WorkEmailsUnique ==
  \A p, x \in People :
    Active(p) /\ Active(x) /\ p # x /\ person[p].email # NoEmail =>
      person[p].email # person[x].email

=============================================================================
