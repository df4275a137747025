------------------------------ MODULE Sessions ------------------------------
(***************************************************************************)
(* Accounts as the authentication layer sees them: the credential and its  *)
(* epoch, role grants that are staged and activated at a sign-in, trusted  *)
(* devices (sessions), authenticator codes, passkeys, sign-in challenges   *)
(* and credential resets (app/auth, the device and security forms of       *)
(* app/employee/routes.py, the account controls of app/admin/routes.py).   *)
(*                                                                         *)
(* A request reads the users row when it starts and keeps those attributes *)
(* across its own commits; a later SELECT ... FOR UPDATE returns the same  *)
(* attributes.  So a sign-in, and every change made from a session, is a   *)
(* read action that leaves a request behind and a commit action that may   *)
(* use what was read.  auth_epoch + 1 is computed from the attribute read. *)
(* A form may read the grants at one instant and the users row at another. *)
(***************************************************************************)
EXTENDS Integers, FiniteSets

CONSTANTS
  Users,          \* accounts
  Devices,        \* trusted_devices rows that may be created
  Requests,       \* requests in flight
  Challenges,     \* sign-in challenges that may be issued
  Resets,         \* credential resets that may be issued
  Roles,          \* roles a grant may carry
  MfaRoles,       \* roles the settings require a factor for
  RecoveryCodes,  \* recovery codes that may be generated
  DeviceLimits,   \* values trusted_device_limit may be given between restarts
  NoUser, NoDevice, NoChallenge, NoCode,
  MaxEvents,      \* bound: events that end a user's sessions
  MaxSecret,      \* bound: authenticator enrolments
  MaxCounter      \* bound: authenticator time steps

ASSUME SessionsAssumption ==
  /\ NoUser \notin Users /\ NoDevice \notin Devices
  /\ NoChallenge \notin Challenges
  /\ MfaRoles \subseteq Roles \ {"EMPLOYEE"}
  /\ NoCode \notin RecoveryCodes
  /\ RecoveryCodes \cap ((0 .. MaxSecret) \X (0 .. MaxCounter)) = {}
  /\ MaxEvents \in Nat /\ MaxSecret \in Nat /\ MaxCounter \in Nat
  /\ DeviceLimits \subseteq Nat \ {0}

VARIABLES
  user,       \* the users table
  grant,      \* the role_grants table, one row per user and role
  device,     \* the trusted_devices table
  challenge,  \* the webauthn_challenges rows of purpose TOTP_LOGIN
  reset,      \* the credential_resets table
  factor,     \* totp_factors, recovery_codes and passkey_credentials
  req,        \* requests between their read and their commit
  era,        \* history: events so far that end the user's sessions
  overlapped, \* history: users whose row was written from stale attributes
  spared,     \* history: users with a challenge that outlived such an event
  early       \* history: users who gave up the factor of a role that was staged, or
              \* that became active after the form had asked for it

rows == <<user, grant, device, challenge, reset, factor>>
history == <<era, overlapped, spared, early>>
vars == <<rows, req, history>>

-----------------------------------------------------------------------------
(* Rows.                                                                   *)

Epoch == 0 .. MaxEvents + 1
Codes == {<<s, c>> : s \in 0 .. MaxSecret, c \in 0 .. MaxCounter} \cup RecoveryCodes

\* strong says whether the present credential meets the Admin policy, eligible
\* whether the row says so.
User == [status : {"ACTIVE", "DISABLED"}, epoch : Epoch, strong : BOOLEAN,
         eligible : BOOLEAN]
Grant == [Roles -> {"NONE", "PENDING", "ACTIVE"}]
Device == [user : Users \cup {NoUser}, epoch : Epoch, revoked : BOOLEAN,
           era : Nat, code : Codes \cup {NoCode}]
NoSession == [user |-> NoUser, epoch |-> 0, revoked |-> FALSE, era |-> 0,
              code |-> NoCode]
Challenge == [user : Users \cup {NoUser}, era : Nat,
              state : {"NONE", "OPEN", "CONSUMED"}]
Reset == [user : Users \cup {NoUser},
          state : {"NONE", "OPEN", "CONSUMED", "REVOKED"}]
Factor == [totp : {"NONE", "PENDING", "ACTIVE", "DISABLED"}, secret : 0 .. MaxSecret,
           last : 0 .. MaxCounter, codes : SUBSET RecoveryCodes,
           issued : SUBSET RecoveryCodes, passkey : BOOLEAN]

\* What a request remembers of the user: the attributes of the row, and what
\* its first queries said of the user's grants.
Read(u) ==
  [epoch |-> user[u].epoch, eligible |-> user[u].eligible,
   strong |-> user[u].strong, admin |-> "ADMIN" \in Roles /\ grant[u]["ADMIN"] # "NONE",
   policy |-> \E r \in MfaRoles : grant[u][r] = "ACTIVE"]
ReadSet == [epoch : Epoch, eligible : BOOLEAN, strong : BOOLEAN,
            admin : BOOLEAN, policy : BOOLEAN]
NoRead == [epoch |-> 0, eligible |-> FALSE, strong |-> FALSE, admin |-> FALSE,
           policy |-> FALSE]

Request ==
  [kind : {"NONE", "LOGIN", "ACTIVATED", "TOTP", "PASSKEY", "SESSION", "RESET"},
   user : Users \cup {NoUser}, read : ReadSet, era : Nat,
   device : Devices \cup {NoDevice}, challenge : Challenges \cup {NoChallenge},
   open : BOOLEAN]
NoRequest == [kind |-> "NONE", user |-> NoUser, read |-> NoRead, era |-> 0,
              device |-> NoDevice, challenge |-> NoChallenge, open |-> FALSE]

TypeOK ==
  /\ user \in [Users -> User]
  /\ grant \in [Users -> Grant]
  /\ device \in [Devices -> Device]
  /\ challenge \in [Challenges -> Challenge]
  /\ reset \in [Resets -> Reset]
  /\ factor \in [Users -> Factor]
  /\ req \in [Requests -> Request]
  /\ era \in [Users -> Nat]
  /\ overlapped \in [Users -> BOOLEAN]
  /\ spared \in [Users -> BOOLEAN]
  /\ early \in [Users -> BOOLEAN]

NoFactor == [totp |-> "NONE", secret |-> 0, last |-> 0, codes |-> {}, issued |-> {},
             passkey |-> FALSE]
Enrolled == [NoFactor EXCEPT !.totp = "ACTIVE", !.codes = RecoveryCodes,
                             !.issued = RecoveryCodes]

\* Accounts exist with an active ordinary grant, with or without an authenticator.  The column
\* credential_admin_eligible was added with default FALSE, whatever they use.
Init ==
  /\ user \in [Users -> [status : {"ACTIVE"}, epoch : {1}, strong : BOOLEAN,
                        eligible : {FALSE}]]
  /\ grant = [u \in Users |-> [r \in Roles |-> IF r = "EMPLOYEE" THEN "ACTIVE" ELSE "NONE"]]
  /\ device = [d \in Devices |-> NoSession]
  /\ challenge = [c \in Challenges |-> [user |-> NoUser, era |-> 0, state |-> "NONE"]]
  /\ reset = [t \in Resets |-> [user |-> NoUser, state |-> "NONE"]]
  /\ factor \in [Users -> {NoFactor, Enrolled}]
  /\ req = [q \in Requests |-> NoRequest]
  /\ era = [u \in Users |-> 0]
  /\ overlapped = [u \in Users |-> FALSE]
  /\ spared = [u \in Users |-> FALSE]
  /\ early = [u \in Users |-> FALSE]

-----------------------------------------------------------------------------
(* Helpers.                                                                *)

HasAccess(u) == \E r \in Roles : grant[u][r] = "ACTIVE"
PolicyRequiresFactor(u) == \E r \in MfaRoles : grant[u][r] = "ACTIVE"
ActiveTotp(u) == factor[u].totp = "ACTIVE"
MfaRequired(u) == ActiveTotp(u) \/ PolicyRequiresFactor(u)
AdminStaged(u) == "ADMIN" \in Roles /\ grant[u]["ADMIN"] # "NONE"

\* Accepted, without the comparison of epochs.
AcceptedAnyEpoch(d) ==
  LET u == device[d].user
  IN  u # NoUser /\ ~device[d].revoked /\ user[u].status = "ACTIVE" /\ HasAccess(u)

\* resolve_device: the request is served as the device's user.
Accepted(d) ==
  LET u == device[d].user
  IN  /\ u # NoUser
      /\ ~device[d].revoked
      /\ user[u].status = "ACTIVE"
      /\ device[d].epoch = user[u].epoch
      /\ HasAccess(u)

\* The user's devices that are not revoked, and their revocation.
Live(u) == {d \in Devices : device[d].user = u /\ ~device[d].revoked}
Revoked(ds) == [d \in Devices |-> [device[d] EXCEPT !.revoked = @ \/ d \in ds]]

\* revoke_outstanding_auth_artifacts.
ResetsRevoked(u) ==
  [t \in Resets |-> IF reset[t].user = u /\ reset[t].state = "OPEN"
                    THEN [reset[t] EXCEPT !.state = "REVOKED"] ELSE reset[t]]
ChallengesConsumed(u) ==
  [c \in Challenges |-> IF challenge[c].user = u /\ challenge[c].state = "OPEN"
                        THEN [challenge[c] EXCEPT !.state = "CONSUMED"]
                        ELSE challenge[c]]
ArtifactsRevoked(u) ==
  /\ reset' = ResetsRevoked(u)
  /\ challenge' = ChallengesConsumed(u)

CanEnd(u) == era[u] < MaxEvents

Pending(u) == \E c \in Challenges : challenge[c].user = u /\ challenge[c].state = "OPEN"

\* History of an event that ends the user's sessions: the epoch written was
\* computed from the epoch e, and the pending sign-ins are left or not.
Ends(u, e, leavesPending) ==
  /\ era' = [era EXCEPT ![u] = @ + 1]
  /\ overlapped' = [overlapped EXCEPT ![u] = @ \/ e # user[u].epoch]
  /\ spared' = [spared EXCEPT ![u] = @ \/ (leavesPending /\ Pending(u))]

Done(q) == req' = [req EXCEPT ![q] = NoRequest]

\* create_device for the user of request q: the row carries the epoch the
\* request knows, and the oldest devices beyond the limit are revoked.
OpenSession(q, d, code) ==
  LET u == req[q].user
  IN  /\ device[d].user = NoUser
      /\ HasAccess(u)
      /\ \E limit \in DeviceLimits, old \in SUBSET Live(u) :
           /\ \/ old = {} /\ Cardinality(Live(u)) < limit
              \/ Cardinality(Live(u) \ old) = limit - 1
           /\ device' = [Revoked(old) EXCEPT ![d] =
                [user |-> u, epoch |-> req[q].read.epoch, revoked |-> FALSE,
                 era |-> req[q].era, code |-> code]]
      /\ Done(q)

-----------------------------------------------------------------------------
(* Sign in with the credential.                                            *)

\* login up to the check of the credential; clearing the throttle commits.
LoginRead(q, u) ==
  /\ req[q].kind = "NONE"
  /\ user[u].status = "ACTIVE"
  /\ req' = [req EXCEPT ![q] = [NoRequest EXCEPT !.kind = "LOGIN", !.user = u,
                                  !.read = Read(u), !.era = era[u]]]
  /\ UNCHANGED <<rows, history>>

\* The staged grants activate_pending_grants will activate.
Activatable(q) ==
  {r \in Roles : /\ grant[req[q].user][r] = "PENDING"
                 /\ r = "ADMIN" => req[q].read.eligible \/ req[q].read.strong}

\* A credential that meets the Admin policy corrects the row, if the attribute
\* read says otherwise.
Corrected(q, row) ==
  [row EXCEPT !.eligible = @ \/ (req[q].read.strong /\ ~req[q].read.eligible)]

\* activate_pending_grants, when it activates something.
LoginActivate(q) ==
  LET u == req[q].user
      e == req[q].read.epoch
  IN  /\ req[q].kind = "LOGIN"
      /\ Activatable(q) # {}
      /\ CanEnd(u)
      /\ grant' = [grant EXCEPT ![u] = [r \in Roles |->
                     IF r \in Activatable(q) THEN "ACTIVE" ELSE grant[u][r]]]
      /\ user' = [user EXCEPT ![u] = [Corrected(q, user[u]) EXCEPT !.epoch = e + 1]]
      /\ ArtifactsRevoked(u)
      /\ Ends(u, e, FALSE)
      /\ req' = [req EXCEPT ![q].kind = "ACTIVATED", ![q].read.epoch = e + 1,
                            ![q].era = era[u] + 1]
      /\ UNCHANGED <<device, factor, early>>

ReadyToFinish(q) ==
  \/ req[q].kind = "ACTIVATED"
  \/ req[q].kind = "LOGIN" /\ Activatable(q) = {}

\* The correction that is committed with what follows, unless it was already.
FinalRow(q) ==
  IF req[q].kind = "LOGIN" THEN Corrected(q, user[req[q].user]) ELSE user[req[q].user]

\* The rest of a sign-in: the correction may meet a credential newer than the
\* one that was typed.
FinishRow(q) ==
  LET u == req[q].user
  IN  /\ user' = [user EXCEPT ![u] = FinalRow(q)]
      /\ overlapped' = [overlapped EXCEPT ![u] =
           @ \/ (FinalRow(q) # user[u] /\ req[q].read.epoch # user[u].epoch)]

LoginFinish(q, d) ==
  LET u == req[q].user
  IN  /\ ReadyToFinish(q)
      /\ ~MfaRequired(u)
      /\ OpenSession(q, d, NoCode)
      /\ FinishRow(q)
      /\ UNCHANGED <<grant, challenge, reset, factor, era, spared, early>>

\* The second factor is asked for by a challenge, which remembers the user.
LoginChallenge(q, c) ==
  LET u == req[q].user
  IN  /\ ReadyToFinish(q)
      /\ HasAccess(u)
      /\ ActiveTotp(u)
      /\ challenge[c].state = "NONE"
      /\ challenge' = [challenge EXCEPT ![c] =
                         [user |-> u, era |-> req[q].era, state |-> "OPEN"]]
      /\ FinishRow(q)
      /\ spared' = [spared EXCEPT ![u] = @ \/ req[q].era # era[u]]
      /\ Done(q)
      /\ UNCHANGED <<grant, device, reset, factor, era, early>>

\* A factor is required and there is none: the sign-in ends, counted.
LoginWithoutFactor(q) ==
  LET u == req[q].user
  IN  /\ ReadyToFinish(q)
      /\ HasAccess(u)
      /\ PolicyRequiresFactor(u) /\ ~ActiveTotp(u)
      /\ FinishRow(q)
      /\ Done(q)
      /\ UNCHANGED <<grant, device, challenge, reset, factor, era, spared, early>>

\* A request that is refused, or whose process dies, before its commit.
Abandon(q) ==
  /\ req[q].kind # "NONE"
  /\ Done(q)
  /\ UNCHANGED <<rows, history>>

-----------------------------------------------------------------------------
(* Sign in with the second factor, or with a passkey.                      *)

\* totp_login loads the challenge and its user before any lock.
TotpRead(q, c) ==
  /\ req[q].kind = "NONE"
  /\ challenge[c].user # NoUser
  /\ req' = [req EXCEPT ![q] =
       [NoRequest EXCEPT !.kind = "TOTP", !.user = challenge[c].user,
          !.read = Read(challenge[c].user), !.era = challenge[c].era,
          !.challenge = c, !.open = challenge[c].state = "OPEN"]]
  /\ UNCHANGED <<rows, history>>

\* consume_challenge locks the challenge but decides on what was loaded; the
\* factor is locked by its first query and is current.
ChallengeConsumed(q) ==
  /\ req[q].kind = "TOTP"
  /\ req[q].open
  /\ ActiveTotp(req[q].user)
  /\ challenge' = [challenge EXCEPT ![req[q].challenge].state = "CONSUMED"]

\* FreshCounter, off by one.
LastCounterAgain(u, n) == n >= factor[u].last

\* verify_totp_factor: a counter at or before the last accepted one is skipped.
FreshCounter(u, n) == n > factor[u].last

TotpAccept(q, d, n) ==
  LET u == req[q].user
  IN  /\ ChallengeConsumed(q)
      /\ FreshCounter(u, n)
      /\ factor' = [factor EXCEPT ![u].last = n]
      /\ OpenSession(q, d, <<factor[u].secret, n>>)
      /\ UNCHANGED <<user, grant, reset, history>>

\* consume_recovery_code: the locked query re-evaluates used_at.
UsableCodes(u) == factor[u].codes

RecoveryAccept(q, d, c) ==
  LET u == req[q].user
  IN  /\ ChallengeConsumed(q)
      /\ c \in UsableCodes(u)
      /\ factor' = [factor EXCEPT ![u].codes = @ \ {c}]
      /\ OpenSession(q, d, c)
      /\ UNCHANGED <<user, grant, reset, history>>

\* A code that is not accepted consumes the challenge all the same.
TotpRefused(q) ==
  /\ ChallengeConsumed(q)
  /\ Done(q)
  /\ UNCHANGED <<user, grant, device, reset, factor, history>>

PasskeyRead(q, u) ==
  /\ req[q].kind = "NONE"
  /\ factor[u].passkey
  /\ user[u].status = "ACTIVE"
  /\ HasAccess(u)
  /\ req' = [req EXCEPT ![q] = [NoRequest EXCEPT !.kind = "PASSKEY", !.user = u,
                                  !.read = Read(u), !.era = era[u]]]
  /\ UNCHANGED <<rows, history>>

PasskeyFinish(q, d) ==
  /\ req[q].kind = "PASSKEY"
  /\ OpenSession(q, d, NoCode)
  /\ UNCHANGED <<user, grant, challenge, reset, factor, history>>

-----------------------------------------------------------------------------
(* Requests made with a session.                                           *)

\* The middleware accepts the device, in a database session of its own.
Enter(q, d) ==
  /\ req[q].kind = "NONE"
  /\ Accepted(d)
  /\ req' = [req EXCEPT ![q] =
       [NoRequest EXCEPT !.kind = "SESSION", !.user = device[d].user,
          !.read = Read(device[d].user), !.device = d]]
  /\ UNCHANGED <<rows, history>>

\* resolve_device refuses the device and revokes it for good; or the device
\* reaches its sliding or absolute expiry.
DeviceEnds(d) ==
  /\ device[d].user # NoUser
  /\ ~device[d].revoked
  /\ device' = Revoked({d})
  /\ UNCHANGED <<user, grant, challenge, reset, factor, req, history>>

Session(q) == req[q].kind = "SESSION"

RevokeDevices(q, ds) ==
  /\ Session(q)
  /\ device' = Revoked(ds)
  /\ Done(q)
  /\ UNCHANGED <<user, grant, challenge, reset, factor, history>>

Logout(q) == RevokeDevices(q, {req[q].device})

RevokeOwnDevice(q, d) == RevokeDevices(q, {d} \cap Live(req[q].user))

RevokeOtherDevices(q) == RevokeDevices(q, Live(req[q].user) \ {req[q].device})

RevokeAllDevices(q) == RevokeDevices(q, Live(req[q].user))

\* The first queries of the route, some time after the middleware's.
RouteReads(q) ==
  /\ Session(q)
  /\ req' = [req EXCEPT ![q].read = Read(req[q].user)]
  /\ UNCHANGED <<rows, history>>

\* A later query of the route, which comes at once or only at its end; nothing in
\* between is locked.
Seen(q, atOnce) == IF atOnce THEN req[q].read ELSE Read(req[q].user)

\* update_credential: the row is loaded and the present credential confirmed, then
\* the policy depends on the Admin grants seen; every device is revoked.
UpdateCredential(q, atOnce, strong) ==
  LET u == req[q].user
      e == req[q].read.epoch
  IN  /\ Session(q)
      /\ Seen(q, atOnce).admin => strong
      /\ CanEnd(u)
      /\ user' = [user EXCEPT ![u] =
           [@ EXCEPT !.strong = strong, !.eligible = strong, !.epoch = e + 1]]
      /\ device' = Revoked(Live(u))
      /\ Ends(u, e, TRUE)
      /\ Done(q)
      /\ UNCHANGED <<grant, challenge, reset, factor, early>>

\* _record_security_change loads the users row, after whatever the route has read:
\* the current session goes on under the new epoch, the others are revoked.
SecurityChange(q, seen) ==
  LET u == req[q].user
      d == req[q].device
  IN  /\ Session(q)
      /\ CanEnd(u)
      /\ user' = [user EXCEPT ![u].epoch = seen.epoch + 1]
      /\ device' = [Revoked(Live(u) \ {d}) EXCEPT
                      ![d].epoch = seen.epoch + 1, ![d].era = era[u] + 1]
      /\ Ends(u, seen.epoch, TRUE)
      /\ Done(q)
      /\ UNCHANGED <<grant, challenge, reset>>

RegisterPasskey(q, atOnce) ==
  /\ SecurityChange(q, Seen(q, atOnce))
  /\ factor' = [factor EXCEPT ![req[q].user].passkey = TRUE]
  /\ UNCHANGED early

\* The passkey may be the only factor where one is required; the policy is asked
\* before the users row is loaded.
RemovePasskey(q, atOnce) ==
  LET u == req[q].user
  IN  /\ Session(q)
      /\ factor[u].passkey
      /\ ~(req[q].read.policy /\ ~ActiveTotp(u))
      /\ SecurityChange(q, Seen(q, atOnce))
      /\ factor' = [factor EXCEPT ![u].passkey = FALSE]
      /\ UNCHANGED early

BeginTotp(q) ==
  LET u == req[q].user
  IN  /\ Session(q)
      /\ ~ActiveTotp(u)
      /\ factor[u].secret < MaxSecret
      /\ factor' = [factor EXCEPT ![u].totp = "PENDING", ![u].last = 0,
                                  ![u].secret = @ + 1]
      /\ Done(q)
      /\ UNCHANGED <<user, grant, device, challenge, reset, history>>

\* generate_recovery_codes: the unused codes are replaced by new ones.
NewCodes(u) ==
  LET unissued == RecoveryCodes \ factor[u].issued
  IN  IF unissued = {} THEN {{}} ELSE {{c} : c \in unissued}

WithCodes(row, cs) == [row EXCEPT !.codes = cs, !.issued = @ \cup cs]

ConfirmTotp(q, atOnce, n) ==
  LET u == req[q].user
  IN  /\ Session(q)
      /\ factor[u].totp = "PENDING"
      /\ FreshCounter(u, n)
      /\ SecurityChange(q, Seen(q, atOnce))
      /\ \E cs \in NewCodes(u) :
           factor' = [factor EXCEPT ![u] =
                        [WithCodes(@, cs) EXCEPT !.totp = "ACTIVE", !.last = n]]
      /\ UNCHANGED early

RegenerateCodes(q, atOnce) ==
  LET u == req[q].user
  IN  /\ Session(q)
      /\ ActiveTotp(u)
      /\ SecurityChange(q, Seen(q, atOnce))
      /\ \E cs \in NewCodes(u) : factor' = [factor EXCEPT ![u] = WithCodes(@, cs)]
      /\ UNCHANGED early

RemoveCodes(q, atOnce) ==
  /\ SecurityChange(q, Seen(q, atOnce))
  /\ factor' = [factor EXCEPT ![req[q].user].codes = {}]
  /\ UNCHANGED early

\* disable_totp asks the policy about the grants that are ACTIVE, and loads the users
\* row later.
DisableTotp(q, atOnce) ==
  LET u == req[q].user
  IN  /\ Session(q)
      /\ ActiveTotp(u)
      /\ ~req[q].read.policy
      /\ SecurityChange(q, Seen(q, atOnce))
      /\ factor' = [factor EXCEPT ![u].totp = "DISABLED", ![u].codes = {}]
      /\ early' = [early EXCEPT ![u] =
           \/ @
           \/ \E r \in MfaRoles : grant[u][r] = "PENDING"
           \/ ~atOnce /\ req[q].read.policy # PolicyRequiresFactor(u)]

-----------------------------------------------------------------------------
(* What others do to the account.                                          *)

\* Sessions and pending work end with the change; the row was locked first.
EndedBy(u) ==
  /\ device' = Revoked(Live(u))
  /\ ArtifactsRevoked(u)
  /\ Ends(u, user[u].epoch, FALSE)

\* update_user_status.
SetStatus(u, s) ==
  /\ CanEnd(u)
  /\ user' = [user EXCEPT ![u].status = s, ![u].epoch = @ + 1]
  /\ EndedBy(u)
  /\ UNCHANGED <<grant, factor, req, early>>

\* revoke_user_devices.
AdminRevokeDevices(u) ==
  /\ Live(u) # {}
  /\ device' = Revoked(Live(u))
  /\ UNCHANGED <<user, grant, challenge, reset, factor, req, history>>

\* issue_credential_reset loads the account, create_credential_reset locks it
\* and decides on the status loaded.
ResetRead(q, u) ==
  /\ req[q].kind = "NONE"
  /\ user[u].status = "ACTIVE"
  /\ req' = [req EXCEPT ![q] = [NoRequest EXCEPT !.kind = "RESET", !.user = u]]
  /\ UNCHANGED <<rows, history>>

CreateReset(q, t) ==
  LET u == req[q].user
  IN  /\ req[q].kind = "RESET"
      /\ reset[t].state = "NONE"
      /\ reset' = [ResetsRevoked(u) EXCEPT ![t] = [user |-> u, state |-> "OPEN"]]
      /\ Done(q)
      /\ UNCHANGED <<user, grant, device, challenge, factor, history>>

\* _apply_credential_reset.
NewCredential(u, strong) ==
  /\ AdminStaged(u) => strong
  /\ CanEnd(u)
  /\ user' = [user EXCEPT ![u] =
       [@ EXCEPT !.strong = strong, !.eligible = strong, !.epoch = user[u].epoch + 1]]
  /\ device' = Revoked(Live(u))
  /\ challenge' = ChallengesConsumed(u)
  /\ Ends(u, user[u].epoch, FALSE)

ConsumeReset(t, strong) ==
  LET u == reset[t].user
  IN  /\ reset[t].state = "OPEN"
      /\ user[u].status = "ACTIVE"
      /\ NewCredential(u, strong)
      /\ reset' = [ResetsRevoked(u) EXCEPT ![t].state = "CONSUMED"]
      /\ UNCHANGED <<grant, factor, req, early>>

CliReset(u, strong) ==
  /\ user[u].status = "ACTIVE"
  /\ NewCredential(u, strong)
  /\ reset' = ResetsRevoked(u)
  /\ UNCHANGED <<grant, factor, req, early>>

\* GrantRole, without asking for the factor.
GrantRoleUnchecked(u, r) ==
  /\ grant[u][r] = "NONE"
  /\ grant' = [grant EXCEPT ![u][r] = "PENDING"]
  /\ ArtifactsRevoked(u)
  /\ UNCHANGED <<user, device, factor, req, history>>

\* grant_role: a role whose factor is required is staged only beside a factor.
GrantRole(u, r) ==
  /\ grant[u][r] = "NONE"
  /\ r \in MfaRoles => ActiveTotp(u)
  /\ grant' = [grant EXCEPT ![u][r] = "PENDING"]
  /\ ArtifactsRevoked(u)
  /\ UNCHANGED <<user, device, factor, req, history>>

\* revoke_role_grant: an ACTIVE grant takes the sessions with it.
RevokePending(u, r) ==
  /\ grant[u][r] = "PENDING"
  /\ grant' = [grant EXCEPT ![u][r] = "NONE"]
  /\ ArtifactsRevoked(u)
  /\ UNCHANGED <<user, device, factor, req, history>>

RevokeActive(u, r) ==
  /\ grant[u][r] = "ACTIVE"
  /\ CanEnd(u)
  /\ grant' = [grant EXCEPT ![u][r] = "NONE"]
  /\ user' = [user EXCEPT ![u].epoch = @ + 1]
  /\ EndedBy(u)
  /\ UNCHANGED <<factor, req, early>>

-----------------------------------------------------------------------------
SignIn ==
  \E q \in Requests :
    \/ \E u \in Users : LoginRead(q, u) \/ PasskeyRead(q, u)
    \/ LoginActivate(q)
    \/ LoginWithoutFactor(q)
    \/ TotpRefused(q)
    \/ Abandon(q)
    \/ \E c \in Challenges : LoginChallenge(q, c) \/ TotpRead(q, c)
    \/ \E d \in Devices :
         \/ LoginFinish(q, d)
         \/ PasskeyFinish(q, d)
         \/ \E n \in 1 .. MaxCounter : TotpAccept(q, d, n)
         \/ \E c \in RecoveryCodes : RecoveryAccept(q, d, c)

FromSession ==
  \E q \in Requests :
    \/ \E d \in Devices : Enter(q, d) \/ RevokeOwnDevice(q, d)
    \/ RouteReads(q)
    \/ Logout(q)
    \/ RevokeOtherDevices(q)
    \/ RevokeAllDevices(q)
    \/ BeginTotp(q)
    \/ \E atOnce \in BOOLEAN :
         \/ \E strong \in BOOLEAN : UpdateCredential(q, atOnce, strong)
         \/ RegisterPasskey(q, atOnce)
         \/ RemovePasskey(q, atOnce)
         \/ \E n \in 1 .. MaxCounter : ConfirmTotp(q, atOnce, n)
         \/ RegenerateCodes(q, atOnce)
         \/ RemoveCodes(q, atOnce)
         \/ DisableTotp(q, atOnce)

ByOthers ==
  \/ \E d \in Devices : DeviceEnds(d)
  \/ \E u \in Users :
       \/ \E s \in {"ACTIVE", "DISABLED"} : SetStatus(u, s)
       \/ AdminRevokeDevices(u)
       \/ \E strong \in BOOLEAN : CliReset(u, strong)
       \/ \E r \in Roles : GrantRole(u, r) \/ RevokePending(u, r) \/ RevokeActive(u, r)
       \/ \E q \in Requests : ResetRead(q, u)
  \/ \E t \in Resets :
       \/ \E q \in Requests : CreateReset(q, t)
       \/ \E strong \in BOOLEAN : ConsumeReset(t, strong)

Next == SignIn \/ FromSession \/ ByOthers

Spec == Init /\ [][Next]_vars

-----------------------------------------------------------------------------
(* Properties.                                                             *)

\* A session that is accepted was opened after the last event that ends the
\* user's sessions: a new credential, a change of status or of grants, a change
\* of factors from another session.  Two exceptions are the code's: an epoch
\* computed from an attribute another transaction had changed meanwhile
\* (auth/service.py:366), and a second-factor challenge that a change from the
\* user's own session leaves open (employee/routes.py:1225), or that a sign-in
\* issues after the event it overlapped.
SessionsEnd ==
  \A d \in Devices :
    Accepted(d) =>
      \/ device[d].era = era[device[d].user]
      \/ overlapped[device[d].user]
      \/ spared[device[d].user]

\* One authenticator or recovery code opens one session, although the challenge
\* it answers may be consumed twice by requests that loaded it together.
OneSessionPerCode ==
  \A d, x \in Devices :
    device[d].code # NoCode /\ device[d].user = device[x].user
      /\ device[d].code = device[x].code => d = x

\* An account whose Admin grant is active has a credential that meets the
\* Admin policy, whichever of staging, sign-in, settings and reset came first.
AdminsEligible ==
  \A u \in Users :
    "ADMIN" \in Roles /\ grant[u]["ADMIN"] = "ACTIVE" =>
      user[u].strong \/ overlapped[u]

\* An account that holds a role whose factor is required has the factor, except one
\* that disabled it while the role was staged, or activated between two queries of the
\* form: disable_totp looks only at active grants (factor_routes.py:417) and loads the
\* users row, whose epoch would tell, afterwards (:63).  The sign-in that activates a
\* staged role does not ask for the factor.
FactorHolds ==
  \A u \in Users :
    PolicyRequiresFactor(u) => ActiveTotp(u) \/ early[u] \/ overlapped[u]

=============================================================================
