--------------------------- MODULE SessionsProofs ---------------------------
(***************************************************************************)
(* What module Sessions guarantees for every number of accounts, devices,  *)
(* requests in flight, challenges, resets, roles and recovery codes.       *)
(***************************************************************************)
EXTENDS Sessions, TLAPS

-----------------------------------------------------------------------------
(* The invariants, each with what it needs of the ones before it.          *)

\* An epoch is one more than the events that ended the account's sessions,
\* unless one was computed from a stale attribute; no copy of it is ahead.
UserSound(u) ==
  /\ era[u] \in 0 .. MaxEvents
  /\ user[u].epoch <= era[u] + 1
  /\ ~overlapped[u] => user[u].epoch = era[u] + 1

RequestSound(q) ==
  /\ req[q].kind # "NONE" => /\ req[q].user \in Users
                             /\ req[q].read.epoch <= era[req[q].user] + 1
  /\ req[q].kind = "SESSION" => /\ req[q].device \in Devices
                                /\ device[req[q].device].user = req[q].user

DeviceSound(d) ==
  device[d].user # NoUser => device[d].epoch <= era[device[d].user] + 1

ArtifactsSound ==
  /\ \A c \in Challenges : challenge[c].state = "OPEN" => challenge[c].user # NoUser
  /\ \A t \in Resets : reset[t].state = "OPEN" => reset[t].user # NoUser

TypeInv ==
  /\ TypeOK
  /\ \A u \in Users : UserSound(u)
  /\ \A q \in Requests : RequestSound(q)
  /\ \A d \in Devices : DeviceSound(d)
  /\ ArtifactsSound

\* Whoever may open a session knows the epoch of the events it has seen; so does
\* a session, unless a stale attribute or a spared challenge came in between.
Opens(q) ==
  \/ req[q].kind \in {"LOGIN", "ACTIVATED", "PASSKEY"}
  \/ req[q].kind = "TOTP" /\ req[q].open
Clean(u) == ~overlapped[u] /\ ~spared[u]

OpenerCurrent(q) ==
  Opens(q) /\ Clean(req[q].user) => req[q].read.epoch = req[q].era + 1
ChallengeCurrent(c) ==
  challenge[c].state = "OPEN" /\ Clean(challenge[c].user) =>
    challenge[c].era = era[challenge[c].user]
DeviceCurrent(d) ==
  device[d].user # NoUser /\ Clean(device[d].user) => device[d].epoch = device[d].era + 1

EraInv ==
  /\ TypeInv
  /\ \A q \in Requests : OpenerCurrent(q)
  /\ \A c \in Challenges : ChallengeCurrent(c)
  /\ \A d \in Devices : DeviceCurrent(d)

\* A code that opened a session is spent: an authenticator's by the counter of
\* its enrolment or by a later enrolment, a recovery code by its deletion.
Spent(u, code) ==
  \/ code \in factor[u].issued \ factor[u].codes
  \/ \E s \in 0 .. MaxSecret, c \in 0 .. MaxCounter :
       /\ code = <<s, c>>
       /\ s < factor[u].secret \/ (s = factor[u].secret /\ c <= factor[u].last)

CodeInv ==
  /\ TypeInv
  /\ \A u \in Users : factor[u].codes \subseteq factor[u].issued
  /\ \A d \in Devices : device[d].code # NoCode =>
       device[d].user # NoUser /\ Spent(device[d].user, device[d].code)
  /\ OneSessionPerCode

\* The role whose factor is required is staged or active only beside the factor,
\* and a session that saw no such role active has not seen the present epoch.
ReadCurrent(q) ==
  LET u == req[q].user
  IN  req[q].kind = "SESSION" /\ ~overlapped[u] /\ req[q].read.epoch = user[u].epoch =>
        (PolicyRequiresFactor(u) => req[q].read.policy)

FactorStands(u) ==
  \A r \in MfaRoles : grant[u][r] # "NONE" => ActiveTotp(u) \/ early[u] \/ overlapped[u]

FactorInv ==
  /\ TypeInv
  /\ \A u \in Users : FactorStands(u)
  /\ \A q \in Requests : ReadCurrent(q)

-----------------------------------------------------------------------------
(* The tables, one lemma for each way the actions write them.              *)

\* No event is forgotten, no account loses its history, no session changes hands.
Forward ==
  /\ \A u \in Users : /\ era[u] <= era'[u]
                      /\ overlapped[u] => overlapped'[u]
                      /\ spared[u] => spared'[u]
  /\ \A d \in Devices : device[d].user # NoUser => device'[d].user = device[d].user

\* What a device keeps when it is revoked or left alone.
Kept(d) ==
  /\ device'[d].user = device[d].user /\ device'[d].epoch = device[d].epoch
  /\ device'[d].era = device[d].era /\ device'[d].code = device[d].code

LEMMA FieldTypes ==
  ASSUME TypeOK
  PROVE  /\ \A u \in Users : user[u] \in User /\ grant[u] \in Grant /\ factor[u] \in Factor
         /\ \A d \in Devices : device[d] \in Device
         /\ \A c \in Challenges : challenge[c] \in Challenge
         /\ \A t \in Resets : reset[t] \in Reset
         /\ \A q \in Requests : req[q] \in Request
BY DEF TypeOK

LEMMA RevokedType ==
  ASSUME TypeOK, NEW ds
  PROVE  /\ Revoked(ds) \in [Devices -> Device]
         /\ \A d \in Devices :
              /\ Revoked(ds)[d].user = device[d].user /\ Revoked(ds)[d].epoch = device[d].epoch
              /\ Revoked(ds)[d].era = device[d].era /\ Revoked(ds)[d].code = device[d].code
<1>1. ASSUME NEW d \in Devices
      PROVE  /\ Revoked(ds)[d] \in Device
             /\ Revoked(ds)[d].user = device[d].user /\ Revoked(ds)[d].epoch = device[d].epoch
             /\ Revoked(ds)[d].era = device[d].era /\ Revoked(ds)[d].code = device[d].code
  <2> DEFINE b == device[d].revoked \/ d \in ds
  <2>1. b \in BOOLEAN
    OBVIOUS
  <2>2. Revoked(ds)[d] = [device[d] EXCEPT !.revoked = b]
    BY DEF Revoked
  <2>3. device[d] \in Device
    BY DEF TypeOK
  <2> HIDE DEF b
  <2> QED
    BY <2>1, <2>2, <2>3 DEF Device
<1> QED
  BY <1>1 DEF Revoked

LEMMA EndsType ==
  ASSUME TypeOK, NEW u \in Users, NEW e, NEW leavesPending \in BOOLEAN, Ends(u, e, leavesPending)
  PROVE  /\ era' \in [Users -> Nat] /\ overlapped' \in [Users -> BOOLEAN]
         /\ spared' \in [Users -> BOOLEAN]
         /\ era'[u] = era[u] + 1
         /\ overlapped[u] => overlapped'[u]
         /\ e # user[u].epoch => overlapped'[u]
         /\ spared[u] => spared'[u]
         /\ leavesPending /\ Pending(u) => spared'[u]
         /\ \A x \in Users \ {u} :
              era'[x] = era[x] /\ overlapped'[x] = overlapped[x] /\ spared'[x] = spared[x]
<1> DEFINE o == overlapped[u] \/ e # user[u].epoch
           s == spared[u] \/ (leavesPending /\ Pending(u))
<1>1. o \in BOOLEAN /\ s \in BOOLEAN
  OBVIOUS
<1>2. /\ era' = [era EXCEPT ![u] = era[u] + 1]
      /\ overlapped' = [overlapped EXCEPT ![u] = o]
      /\ spared' = [spared EXCEPT ![u] = s]
  BY DEF Ends
<1>3. /\ overlapped[u] => o
      /\ e # user[u].epoch => o
      /\ spared[u] => s
      /\ leavesPending /\ Pending(u) => s
  OBVIOUS
<1> HIDE DEF o, s
<1>4. /\ era' \in [Users -> Nat] /\ overlapped' \in [Users -> BOOLEAN]
      /\ spared' \in [Users -> BOOLEAN]
  BY <1>1, <1>2 DEF TypeOK
<1>5. /\ era'[u] = era[u] + 1 /\ overlapped'[u] = o /\ spared'[u] = s
      /\ \A x \in Users \ {u} :
           era'[x] = era[x] /\ overlapped'[x] = overlapped[x] /\ spared'[x] = spared[x]
  BY <1>2 DEF TypeOK
<1> QED
  BY <1>3, <1>4, <1>5

LEMMA ResetsRevokedType ==
  ASSUME TypeOK, NEW u \in Users
  PROVE  /\ ResetsRevoked(u) \in [Resets -> Reset]
         /\ \A t \in Resets : /\ ResetsRevoked(u)[t].user = reset[t].user
                              /\ ResetsRevoked(u)[t].state = "OPEN" => reset[t].state = "OPEN"
<1>1. ASSUME NEW t \in Resets
      PROVE  /\ ResetsRevoked(u)[t] \in Reset
             /\ ResetsRevoked(u)[t].user = reset[t].user
             /\ ResetsRevoked(u)[t].state = "OPEN" => reset[t].state = "OPEN"
  BY FieldTypes DEF ResetsRevoked, Reset
<1> QED
  BY <1>1 DEF ResetsRevoked

LEMMA ChallengesConsumedType ==
  ASSUME TypeOK, NEW u \in Users
  PROVE  /\ ChallengesConsumed(u) \in [Challenges -> Challenge]
         /\ \A c \in Challenges :
              /\ ChallengesConsumed(u)[c].user = challenge[c].user
              /\ ChallengesConsumed(u)[c].state = "OPEN" =>
                   ChallengesConsumed(u)[c] = challenge[c] /\ challenge[c].user # u
<1>1. ASSUME NEW c \in Challenges
      PROVE  /\ ChallengesConsumed(u)[c] \in Challenge
             /\ ChallengesConsumed(u)[c].user = challenge[c].user
             /\ ChallengesConsumed(u)[c].state = "OPEN" =>
                  ChallengesConsumed(u)[c] = challenge[c] /\ challenge[c].user # u
  BY FieldTypes DEF ChallengesConsumed, Challenge
<1> QED
  BY <1>1 DEF ChallengesConsumed

LEMMA ReadType ==
  ASSUME TypeOK, NEW u \in Users
  PROVE  Read(u) \in ReadSet /\ Read(u).epoch = user[u].epoch
<1> DEFINE a == "ADMIN" \in Roles /\ grant[u]["ADMIN"] # "NONE"
           p == \E r \in MfaRoles : grant[u][r] = "ACTIVE"
<1>1. a \in BOOLEAN /\ p \in BOOLEAN
  OBVIOUS
<1>2. Read(u) = [epoch |-> user[u].epoch, eligible |-> user[u].eligible,
                 strong |-> user[u].strong, admin |-> a, policy |-> p]
  BY DEF Read
<1>3. user[u] \in User
  BY DEF TypeOK
<1> HIDE DEF a, p
<1> QED
  BY <1>1, <1>2, <1>3 DEF User, ReadSet

LEMMA SeenType ==
  ASSUME TypeInv, NEW q \in Requests, NEW atOnce \in BOOLEAN, Session(q)
  PROVE  /\ req[q].user \in Users /\ req[q].device \in Devices
         /\ device[req[q].device].user = req[q].user
         /\ Seen(q, atOnce) \in ReadSet
         /\ Seen(q, atOnce).epoch \in Epoch
         /\ Seen(q, atOnce).epoch <= era[req[q].user] + 1
         /\ req[q].read.epoch \in Epoch /\ req[q].read.epoch <= era[req[q].user] + 1
<1>1. req[q] \in Request /\ RequestSound(q) /\ req[q].kind = "SESSION"
  BY FieldTypes DEF TypeInv, Session
<1>2. req[q].user \in Users /\ req[q].device \in Devices
  BY <1>1 DEF RequestSound
<1>3. Read(req[q].user) \in ReadSet /\ Read(req[q].user).epoch = user[req[q].user].epoch
  BY <1>2, ReadType DEF TypeInv
<1>4. UserSound(req[q].user)
  BY <1>2 DEF TypeInv
<1>5. Seen(q, atOnce) \in ReadSet /\ Seen(q, atOnce).epoch <= era[req[q].user] + 1
  BY <1>1, <1>3, <1>4 DEF Seen, Request, RequestSound, UserSound
<1>6. req[q].read \in ReadSet /\ req[q].read.epoch <= era[req[q].user] + 1
  BY <1>1 DEF Request, RequestSound
<1> QED
  BY <1>1, <1>2, <1>5, <1>6 DEF RequestSound, ReadSet

\* The request of a route that has read the account again.
LEMMA RouteRequest ==
  ASSUME TypeInv, NEW q \in Requests, RouteReads(q)
  PROVE  \E u \in Users, r \in Request :
           /\ r.user = u /\ r.read = Read(u) /\ r.kind = "SESSION"
           /\ r.device \in Devices /\ device[r.device].user = u
           /\ r.read.epoch <= era[u] + 1
           /\ req' = [req EXCEPT ![q] = r] /\ UNCHANGED <<rows, history>>
<1>1. req[q] \in Request /\ RequestSound(q) /\ req[q].kind = "SESSION"
  BY FieldTypes DEF TypeInv, Session, RouteReads
<1>2. PICK u \in Users : /\ u = req[q].user /\ req[q].device \in Devices
                         /\ device[req[q].device].user = u
  BY <1>1 DEF RequestSound
<1>3. Read(u) \in ReadSet /\ Read(u).epoch = user[u].epoch /\ user[u].epoch <= era[u] + 1
  BY ReadType DEF TypeInv, UserSound
<1> DEFINE r == [req[q] EXCEPT !.read = Read(u)]
<1>4. /\ r \in Request /\ r.user = u /\ r.read = Read(u) /\ r.kind = "SESSION"
      /\ r.device = req[q].device
  BY <1>1, <1>2, <1>3 DEF Request
<1>5. req' = [req EXCEPT ![q] = r] /\ UNCHANGED <<rows, history>>
  BY <1>2 DEF RouteReads
<1> HIDE DEF r
<1> QED
  BY <1>2, <1>3, <1>4, <1>5

\* What is left alone stays sound, and the rest is shown by the action.
LEMMA Assembled ==
  ASSUME TypeInv, TypeOK', Forward, \A u \in Users : UserSound(u)',
         \A q \in Requests : req'[q] \in {req[q], NoRequest} \/ RequestSound(q)',
         \A d \in Devices : Kept(d) \/ DeviceSound(d)',
         ArtifactsSound'
  PROVE  TypeInv'
<1>1. era \in [Users -> Nat] /\ era' \in [Users -> Nat]
  BY DEF TypeInv, TypeOK
<1>2. ASSUME NEW q \in Requests, req'[q] = req[q]
      PROVE  RequestSound(q)'
  <2>1. RequestSound(q) /\ req[q] \in Request
    BY FieldTypes DEF TypeInv
  <2>2. req[q].user \in Users => era[req[q].user] <= era'[req[q].user]
    BY DEF Forward
  <2>3. req[q].kind = "SESSION" => device'[req[q].device].user = req[q].user
    BY <2>1, SessionsAssumption DEF RequestSound, Forward
  <2>4. req[q].read.epoch \in Nat
    BY <2>1, SessionsAssumption DEF Request, ReadSet, Epoch
  <2> QED
    BY <1>1, <1>2, <2>1, <2>2, <2>3, <2>4 DEF RequestSound
<1>3. ASSUME NEW q \in Requests, req'[q] = NoRequest
      PROVE  RequestSound(q)'
  BY <1>3 DEF RequestSound, NoRequest
<1>4. ASSUME NEW d \in Devices, Kept(d)
      PROVE  DeviceSound(d)'
  <2>1. DeviceSound(d) /\ device[d] \in Device
    BY FieldTypes DEF TypeInv
  <2>2. device[d].epoch \in Nat /\ device[d].user \in Users \cup {NoUser}
    BY <2>1, SessionsAssumption DEF Device, Epoch
  <2>3. device[d].user # NoUser => era[device[d].user] <= era'[device[d].user]
    BY <2>2 DEF Forward
  <2> QED
    BY <1>1, <1>4, <2>1, <2>2, <2>3 DEF DeviceSound, Kept
<1> QED
  BY <1>2, <1>3, <1>4 DEF TypeInv

\* No event: the epochs stand.
LEMMA UsersKept ==
  ASSUME TypeInv, era' = era, \A u \in Users : user'[u].epoch = user[u].epoch,
         \A u \in Users : overlapped[u] => overlapped'[u]
  PROVE  \A u \in Users : UserSound(u)'
BY DEF TypeInv, UserSound

\* An event: the epoch that is written is one more than the one it was computed
\* from, which was not ahead of the events.
LEMMA UsersEnded ==
  ASSUME TypeInv, NEW u \in Users, NEW e \in Epoch, NEW leavesPending \in BOOLEAN,
         Ends(u, e, leavesPending), CanEnd(u), e <= era[u] + 1,
         user'[u].epoch = e + 1, \A x \in Users \ {u} : user'[x].epoch = user[x].epoch
  PROVE  /\ \A x \in Users : UserSound(x)'
         /\ \A x \in Users : era[x] <= era'[x]
         /\ e + 1 \in Epoch
<1>1. /\ era'[u] = era[u] + 1
      /\ overlapped[u] => overlapped'[u]
      /\ e # user[u].epoch => overlapped'[u]
      /\ \A x \in Users \ {u} : era'[x] = era[x] /\ overlapped'[x] = overlapped[x]
  BY EndsType DEF TypeInv
<1>2. /\ MaxEvents \in Nat /\ \A x \in Users : era[x] \in Nat /\ user[x].epoch \in Nat
      /\ e \in Nat /\ era[u] < MaxEvents
  BY SessionsAssumption, FieldTypes DEF TypeInv, TypeOK, User, Epoch, CanEnd
<1>3. UserSound(u)'
  BY <1>1, <1>2 DEF TypeInv, UserSound
<1>4. ASSUME NEW x \in Users \ {u}
      PROVE  UserSound(x)'
  BY <1>1 DEF TypeInv, UserSound
<1>5. e + 1 \in Epoch
  BY <1>2 DEF Epoch
<1>6. \A x \in Users : era[x] <= era'[x]
  BY <1>1, <1>2
<1> QED
  BY <1>3, <1>4, <1>5, <1>6

\* A request that starts: it changes no row.
LEMMA TypeOpened ==
  ASSUME TypeInv, NEW q \in Requests, NEW r \in Request, UNCHANGED <<rows, history>>,
         req' = [req EXCEPT ![q] = r], r.user \in Users, r.read.epoch <= era[r.user] + 1,
         r.kind = "SESSION" => r.device \in Devices /\ device[r.device].user = r.user
  PROVE  TypeInv' /\ Forward
<1>1. TypeOK'
  BY DEF TypeInv, TypeOK, rows, history
<1>2. Forward
  BY DEF Forward, rows, history, TypeInv, TypeOK
<1>3. \A u \in Users : UserSound(u)'
  BY DEF TypeInv, UserSound, rows, history
<1>4. \A x \in Requests : IF x = q THEN req'[x] = r ELSE req'[x] = req[x]
  BY DEF TypeInv, TypeOK
<1>5. RequestSound(q)'
  BY <1>4 DEF RequestSound, rows, history
<1>6. \A d \in Devices : Kept(d)
  BY DEF Kept, rows
<1>7. ArtifactsSound'
  BY DEF TypeInv, ArtifactsSound, rows
<1> QED
  BY <1>1, <1>2, <1>3, <1>4, <1>5, <1>6, <1>7, Assembled

\* What the reads remember.
LEMMA ReadRequests ==
  ASSUME TypeInv, NEW u \in Users
  PROVE  /\ [NoRequest EXCEPT !.kind = "LOGIN", !.user = u, !.read = Read(u), !.era = era[u]]
               \in Request
         /\ [NoRequest EXCEPT !.kind = "PASSKEY", !.user = u, !.read = Read(u), !.era = era[u]]
               \in Request
         /\ \A d \in Devices :
              [NoRequest EXCEPT !.kind = "SESSION", !.user = u, !.read = Read(u), !.device = d]
                \in Request
         /\ \A c \in Challenges :
              [NoRequest EXCEPT !.kind = "TOTP", !.user = u, !.read = Read(u),
                 !.era = challenge[c].era, !.challenge = c, !.open = challenge[c].state = "OPEN"]
                \in Request
         /\ [NoRequest EXCEPT !.kind = "RESET", !.user = u] \in Request
         /\ NoRequest \in Request
         /\ Read(u).epoch <= era[u] + 1 /\ NoRead.epoch <= era[u] + 1
<1>1. Read(u) \in ReadSet /\ Read(u).epoch = user[u].epoch /\ NoRead \in ReadSet
  BY ReadType, SessionsAssumption DEF TypeInv, ReadSet, NoRead, Epoch
<1>2. /\ era[u] \in Nat /\ user[u].epoch <= era[u] + 1
      /\ \A c \in Challenges : challenge[c].era \in Nat
  BY FieldTypes DEF TypeInv, TypeOK, Challenge, UserSound
<1>3. NoRequest \in Request
  BY <1>1 DEF NoRequest, Request
<1>4. \A c \in Challenges : (challenge[c].state = "OPEN") \in BOOLEAN
  OBVIOUS
<1>5. /\ [NoRequest EXCEPT !.kind = "LOGIN", !.user = u, !.read = Read(u), !.era = era[u]]
            \in Request
      /\ [NoRequest EXCEPT !.kind = "PASSKEY", !.user = u, !.read = Read(u), !.era = era[u]]
            \in Request
      /\ \A d \in Devices :
           [NoRequest EXCEPT !.kind = "SESSION", !.user = u, !.read = Read(u), !.device = d]
             \in Request
      /\ [NoRequest EXCEPT !.kind = "RESET", !.user = u] \in Request
  BY <1>1, <1>2 DEF NoRequest, Request
<1>6. \A c \in Challenges, b \in BOOLEAN :
        [NoRequest EXCEPT !.kind = "TOTP", !.user = u, !.read = Read(u),
           !.era = challenge[c].era, !.challenge = c, !.open = b] \in Request
  BY <1>1, <1>2 DEF NoRequest, Request
<1>7. NoRead.epoch <= era[u] + 1
  BY <1>2 DEF NoRead
<1> QED
  BY <1>1, <1>2, <1>3, <1>4, <1>5, <1>6, <1>7

LEMMA TypeReads ==
  ASSUME TypeInv, NEW q \in Requests,
         \/ \E u \in Users : LoginRead(q, u) \/ PasskeyRead(q, u) \/ ResetRead(q, u)
         \/ \E c \in Challenges : TotpRead(q, c)
         \/ RouteReads(q) \/ \E d \in Devices : Enter(q, d)
  PROVE  TypeInv' /\ Forward
<1>1. ASSUME NEW u \in Users, LoginRead(q, u)
      PROVE  TypeInv' /\ Forward
  <2> DEFINE r == [NoRequest EXCEPT !.kind = "LOGIN", !.user = u, !.read = Read(u), !.era = era[u]]
  <2>1. r \in Request /\ Read(u).epoch <= era[u] + 1
    BY ReadRequests
  <2>2. r.user = u /\ r.read = Read(u) /\ r.kind = "LOGIN"
    BY DEF NoRequest
  <2>3. req' = [req EXCEPT ![q] = r] /\ UNCHANGED <<rows, history>>
    BY <1>1 DEF LoginRead
  <2> HIDE DEF r
  <2> QED
    BY <2>1, <2>2, <2>3, TypeOpened
<1>2. ASSUME NEW u \in Users, PasskeyRead(q, u)
      PROVE  TypeInv' /\ Forward
  <2> DEFINE r == [NoRequest EXCEPT !.kind = "PASSKEY", !.user = u, !.read = Read(u), !.era = era[u]]
  <2>1. r \in Request /\ Read(u).epoch <= era[u] + 1
    BY ReadRequests
  <2>2. r.user = u /\ r.read = Read(u) /\ r.kind = "PASSKEY"
    BY DEF NoRequest
  <2>3. req' = [req EXCEPT ![q] = r] /\ UNCHANGED <<rows, history>>
    BY <1>2 DEF PasskeyRead
  <2> HIDE DEF r
  <2> QED
    BY <2>1, <2>2, <2>3, TypeOpened
<1>3. ASSUME NEW u \in Users, ResetRead(q, u)
      PROVE  TypeInv' /\ Forward
  <2> DEFINE r == [NoRequest EXCEPT !.kind = "RESET", !.user = u]
  <2>1. r \in Request /\ NoRead.epoch <= era[u] + 1
    BY ReadRequests
  <2>2. r.user = u /\ r.read = NoRead /\ r.kind = "RESET"
    BY DEF NoRequest
  <2>3. req' = [req EXCEPT ![q] = r] /\ UNCHANGED <<rows, history>>
    BY <1>3 DEF ResetRead
  <2> HIDE DEF r
  <2> QED
    BY <2>1, <2>2, <2>3, TypeOpened
<1>4. ASSUME NEW c \in Challenges, TotpRead(q, c)
      PROVE  TypeInv' /\ Forward
  <2>1. PICK u \in Users : u = challenge[c].user
    BY <1>4, FieldTypes DEF TypeInv, TotpRead, Challenge
  <2> DEFINE r == [NoRequest EXCEPT !.kind = "TOTP", !.user = u, !.read = Read(u),
                     !.era = challenge[c].era, !.challenge = c,
                     !.open = challenge[c].state = "OPEN"]
  <2>2. r \in Request /\ Read(u).epoch <= era[u] + 1
    BY ReadRequests
  <2>3. r.user = u /\ r.read = Read(u) /\ r.kind = "TOTP"
    BY DEF NoRequest
  <2>4. req' = [req EXCEPT ![q] = r] /\ UNCHANGED <<rows, history>>
    BY <1>4, <2>1 DEF TotpRead
  <2> HIDE DEF r
  <2> QED
    BY <2>2, <2>3, <2>4, TypeOpened
<1>5. ASSUME NEW d \in Devices, Enter(q, d)
      PROVE  TypeInv' /\ Forward
  <2>1. PICK u \in Users : u = device[d].user
    BY <1>5, FieldTypes DEF TypeInv, Enter, Accepted, Device
  <2> DEFINE r == [NoRequest EXCEPT !.kind = "SESSION", !.user = u, !.read = Read(u), !.device = d]
  <2>2. r \in Request /\ Read(u).epoch <= era[u] + 1
    BY ReadRequests
  <2>3. r.user = u /\ r.read = Read(u) /\ r.device = d
    BY DEF NoRequest
  <2>4. req' = [req EXCEPT ![q] = r] /\ UNCHANGED <<rows, history>>
    BY <1>5, <2>1 DEF Enter
  <2> HIDE DEF r
  <2> QED
    BY <2>1, <2>2, <2>3, <2>4, TypeOpened
<1>6. CASE RouteReads(q)
  BY <1>6, RouteRequest, TypeOpened
<1> QED
  BY <1>1, <1>2, <1>3, <1>4, <1>5, <1>6

LEMMA DoneType ==
  ASSUME TypeInv, NEW q \in Requests, Done(q)
  PROVE  /\ req' \in [Requests -> Request]
         /\ \A x \in Requests : req'[x] \in {req[x], NoRequest}
<1>1. NoRequest \in Request
  BY SessionsAssumption DEF NoRequest, Request, NoRead, ReadSet, Epoch
<1> QED
  BY <1>1 DEF TypeInv, TypeOK, Done

LEMMA TypeRevokes ==
  ASSUME TypeInv, NEW ds, device' = Revoked(ds),
         req' \in [Requests -> Request], \A q \in Requests : req'[q] \in {req[q], NoRequest},
         UNCHANGED <<user, grant, challenge, reset, factor, history>>
  PROVE  TypeInv' /\ Forward
<1>1. device' \in [Devices -> Device] /\ \A d \in Devices : Kept(d)
  BY RevokedType DEF TypeInv, Kept
<1>2. TypeOK'
  BY <1>1 DEF TypeInv, TypeOK, history
<1>3. Forward
  BY <1>1 DEF Forward, Kept, history, TypeInv, TypeOK
<1>4. \A u \in Users : UserSound(u)'
  BY UsersKept DEF history
<1>5. ArtifactsSound'
  BY DEF TypeInv, ArtifactsSound
<1> QED
  BY <1>1, <1>2, <1>3, <1>4, <1>5, Assembled

\* A session that opens: the other devices keep their owner, epoch and code.
LEMMA OpenSessionWrites ==
  ASSUME TypeInv, NEW q \in Requests, NEW d \in Devices, NEW code \in Codes \cup {NoCode},
         req[q].kind # "NONE", OpenSession(q, d, code)
  PROVE  /\ device' \in [Devices -> Device]
         /\ device[d].user = NoUser
         /\ device'[d].user = req[q].user /\ device'[d].epoch = req[q].read.epoch
         /\ device'[d].era = req[q].era /\ device'[d].code = code
         /\ \A x \in Devices \ {d} : Kept(x)
         /\ req[q].user \in Users /\ req[q].read.epoch <= era[req[q].user] + 1
<1>1. PICK old : device' = [Revoked(old) EXCEPT ![d] =
                   [user |-> req[q].user, epoch |-> req[q].read.epoch, revoked |-> FALSE,
                    era |-> req[q].era, code |-> code]]
  BY DEF OpenSession
<1>2. req[q] \in Request /\ RequestSound(q)
  BY FieldTypes DEF TypeInv
<1>3. [user |-> req[q].user, epoch |-> req[q].read.epoch, revoked |-> FALSE,
       era |-> req[q].era, code |-> code] \in Device
  BY <1>2 DEF Request, ReadSet, Device
<1>4. /\ Revoked(old) \in [Devices -> Device]
      /\ \A x \in Devices :
           /\ Revoked(old)[x].user = device[x].user /\ Revoked(old)[x].epoch = device[x].epoch
           /\ Revoked(old)[x].era = device[x].era /\ Revoked(old)[x].code = device[x].code
  BY RevokedType DEF TypeInv
<1> QED
  BY <1>1, <1>2, <1>3, <1>4 DEF OpenSession, Kept, RequestSound

LEMMA TypeOpens ==
  ASSUME TypeInv, NEW q \in Requests, NEW d \in Devices, NEW code \in Codes \cup {NoCode},
         req[q].kind # "NONE", OpenSession(q, d, code),
         user' \in [Users -> User], \A u \in Users : user'[u].epoch = user[u].epoch,
         overlapped' \in [Users -> BOOLEAN], \A u \in Users : overlapped[u] => overlapped'[u],
         challenge' \in [Challenges -> Challenge],
         \A c \in Challenges : challenge'[c].state = "OPEN" => challenge'[c] = challenge[c],
         factor' \in [Users -> Factor], UNCHANGED <<grant, reset, era, spared, early>>
  PROVE  TypeInv' /\ Forward
<1>1. /\ device' \in [Devices -> Device] /\ device[d].user = NoUser
      /\ device'[d].user = req[q].user /\ device'[d].epoch = req[q].read.epoch
      /\ \A x \in Devices \ {d} : Kept(x)
      /\ req[q].user \in Users /\ req[q].read.epoch <= era[req[q].user] + 1
  BY OpenSessionWrites
<1>2. req' \in [Requests -> Request] /\ \A x \in Requests : req'[x] \in {req[x], NoRequest}
  BY DoneType DEF OpenSession
<1>3. TypeOK'
  BY <1>1, <1>2 DEF TypeInv, TypeOK
<1>4. Forward
  BY <1>1 DEF Forward, Kept, TypeInv, TypeOK
<1>5. \A u \in Users : UserSound(u)'
  BY UsersKept
<1>6. DeviceSound(d)'
  BY <1>1 DEF DeviceSound
<1>7. ArtifactsSound'
  BY DEF TypeInv, ArtifactsSound
<1> QED
  BY <1>1, <1>2, <1>3, <1>4, <1>5, <1>6, <1>7, Assembled

LEMMA CorrectedType ==
  ASSUME TypeInv, NEW q \in Requests, NEW row \in User
  PROVE  Corrected(q, row) \in User /\ Corrected(q, row).epoch = row.epoch
<1> DEFINE b == row.eligible \/ (req[q].read.strong /\ ~req[q].read.eligible)
<1>1. b \in BOOLEAN
  OBVIOUS
<1>2. Corrected(q, row) = [row EXCEPT !.eligible = b]
  BY DEF Corrected
<1> HIDE DEF b
<1> QED
  BY <1>1, <1>2 DEF User

LEMMA FinishRowWrites ==
  ASSUME TypeInv, NEW q \in Requests, req[q].user \in Users, FinishRow(q)
  PROVE  /\ user' \in [Users -> User]
         /\ \A u \in Users : user'[u].epoch = user[u].epoch
         /\ overlapped' \in [Users -> BOOLEAN]
         /\ \A u \in Users : overlapped[u] => overlapped'[u]
<1> DEFINE u == req[q].user
           o == overlapped[u] \/ (FinalRow(q) # user[u] /\ req[q].read.epoch # user[u].epoch)
<1>1. FinalRow(q) \in User /\ FinalRow(q).epoch = user[u].epoch
  BY CorrectedType, FieldTypes DEF FinalRow, TypeInv
<1>2. user' = [user EXCEPT ![u] = FinalRow(q)]
  BY DEF FinishRow
<1>3. overlapped' = [overlapped EXCEPT ![u] = o]
  BY DEF FinishRow
<1>4. o \in BOOLEAN /\ (overlapped[u] => o)
  OBVIOUS
<1> HIDE DEF o
<1>5. user' \in [Users -> User] /\ \A x \in Users : user'[x].epoch = user[x].epoch
  BY <1>1, <1>2 DEF TypeInv, TypeOK
<1>6. /\ overlapped' \in [Users -> BOOLEAN] /\ overlapped'[u] = o
      /\ \A x \in Users \ {u} : overlapped'[x] = overlapped[x]
  BY <1>3, <1>4 DEF TypeInv, TypeOK
<1> QED
  BY <1>4, <1>5, <1>6

\* Steps that neither end sessions nor touch a device.
LEMMA TypeQuiet ==
  ASSUME TypeInv, UNCHANGED <<device, era>>,
         user' \in [Users -> User], \A u \in Users : user'[u].epoch = user[u].epoch,
         overlapped' \in [Users -> BOOLEAN], \A u \in Users : overlapped[u] => overlapped'[u],
         spared' \in [Users -> BOOLEAN], \A u \in Users : spared[u] => spared'[u],
         early' \in [Users -> BOOLEAN], grant' \in [Users -> Grant],
         factor' \in [Users -> Factor], req' \in [Requests -> Request],
         \A q \in Requests : req'[q] \in {req[q], NoRequest},
         challenge' \in [Challenges -> Challenge], reset' \in [Resets -> Reset],
         ArtifactsSound'
  PROVE  TypeInv' /\ Forward
<1>1. TypeOK'
  BY DEF TypeInv, TypeOK
<1>2. Forward
  BY DEF Forward, TypeInv, TypeOK
<1>3. \A u \in Users : UserSound(u)'
  BY UsersKept
<1>4. \A d \in Devices : Kept(d)
  BY DEF Kept
<1> QED
  BY <1>1, <1>2, <1>3, <1>4, Assembled

LEMMA CodeTypes ==
  ASSUME TypeInv, NEW u \in Users
  PROVE  /\ \A n \in 0 .. MaxCounter : <<factor[u].secret, n>> \in Codes
         /\ \A n \in 0 .. MaxCounter : [factor EXCEPT ![u].last = n] \in [Users -> Factor]
         /\ \A cs \in SUBSET RecoveryCodes :
              /\ [factor EXCEPT ![u].codes = cs] \in [Users -> Factor]
              /\ \A n \in 0 .. MaxCounter :
                   [factor EXCEPT ![u] = [WithCodes(@, cs) EXCEPT !.totp = "ACTIVE", !.last = n]]
                     \in [Users -> Factor]
              /\ [factor EXCEPT ![u] = WithCodes(@, cs)] \in [Users -> Factor]
         /\ RecoveryCodes \subseteq Codes
<1>1. factor[u] \in Factor /\ factor \in [Users -> Factor]
  BY FieldTypes DEF TypeInv, TypeOK
<1>2. \A n \in 0 .. MaxCounter : <<factor[u].secret, n>> \in Codes
  BY <1>1 DEF Factor, Codes
<1>3. \A n \in 0 .. MaxCounter : [factor[u] EXCEPT !.last = n] \in Factor
  BY <1>1 DEF Factor
<1>4. ASSUME NEW cs \in SUBSET RecoveryCodes
      PROVE  /\ [factor[u] EXCEPT !.codes = cs] \in Factor
             /\ WithCodes(factor[u], cs) \in Factor
             /\ \A n \in 0 .. MaxCounter :
                  [WithCodes(factor[u], cs) EXCEPT !.totp = "ACTIVE", !.last = n] \in Factor
  <2>1. WithCodes(factor[u], cs) \in Factor
    BY <1>1 DEF Factor, WithCodes
  <2>2. [factor[u] EXCEPT !.codes = cs] \in Factor
    BY <1>1 DEF Factor
  <2> QED
    BY <2>1, <2>2 DEF Factor
<1>5. RecoveryCodes \subseteq Codes
  BY DEF Codes
<1> QED
  BY <1>1, <1>2, <1>3, <1>4, <1>5

LEMMA TypeSignIn ==
  ASSUME TypeInv, NEW q \in Requests, NEW d \in Devices,
         \/ LoginFinish(q, d) \/ PasskeyFinish(q, d)
         \/ \E n \in 1 .. MaxCounter : TotpAccept(q, d, n)
         \/ \E c \in RecoveryCodes : RecoveryAccept(q, d, c)
  PROVE  TypeInv' /\ Forward
<1>0. /\ req[q].kind # "NONE" => req[q].user \in Users
      /\ user \in [Users -> User] /\ overlapped \in [Users -> BOOLEAN]
      /\ challenge \in [Challenges -> Challenge] /\ factor \in [Users -> Factor]
  BY DEF TypeInv, RequestSound, TypeOK
<1>1. CASE LoginFinish(q, d)
  <2>1. req[q].kind # "NONE" /\ OpenSession(q, d, NoCode) /\ FinishRow(q)
    BY <1>1 DEF LoginFinish, ReadyToFinish
  <2>2. UNCHANGED <<challenge, factor, grant, reset, era, spared, early>>
    BY <1>1 DEF LoginFinish
  <2> QED
    BY <1>0, <2>1, <2>2, FinishRowWrites, TypeOpens
<1>2. CASE PasskeyFinish(q, d)
  <2>1. /\ req[q].kind # "NONE" /\ OpenSession(q, d, NoCode)
        /\ UNCHANGED <<user, challenge, factor, grant, reset, era, overlapped, spared, early>>
    BY <1>2 DEF PasskeyFinish, history
  <2> QED
    BY <1>0, <2>1, TypeOpens
<1>3. ASSUME ChallengeConsumed(q)
      PROVE  /\ challenge' \in [Challenges -> Challenge] /\ req[q].kind # "NONE"
             /\ \A c \in Challenges : challenge'[c].state = "OPEN" => challenge'[c] = challenge[c]
  <2>1. challenge' = [challenge EXCEPT ![req[q].challenge].state = "CONSUMED"]
    BY <1>3 DEF ChallengeConsumed
  <2>2. \A c \in Challenges : [challenge[c] EXCEPT !.state = "CONSUMED"] \in Challenge
    BY <1>0 DEF Challenge
  <2>3. ASSUME NEW c \in Challenges
        PROVE  \/ challenge'[c] = challenge[c]
               \/ challenge'[c] = [challenge[c] EXCEPT !.state = "CONSUMED"]
    BY <1>0, <2>1
  <2>4. challenge' \in [Challenges -> Challenge]
    BY <1>0, <2>1, <2>2, <2>3
  <2>5. \A c \in Challenges : challenge'[c].state = "OPEN" => challenge'[c] = challenge[c]
    BY <1>0, <2>3 DEF Challenge
  <2> QED
    BY <1>3, <2>4, <2>5 DEF ChallengeConsumed
<1>4. ASSUME NEW n \in 1 .. MaxCounter, TotpAccept(q, d, n)
      PROVE  TypeInv' /\ Forward
  <2>1. /\ ChallengeConsumed(q) /\ OpenSession(q, d, <<factor[req[q].user].secret, n>>)
        /\ factor' = [factor EXCEPT ![req[q].user].last = n]
        /\ UNCHANGED <<user, grant, reset, era, overlapped, spared, early>>
    BY <1>4 DEF TotpAccept, history
  <2>2. req[q].user \in Users /\ n \in 0 .. MaxCounter
    BY <1>0, <1>3, <2>1, SessionsAssumption
  <2>3. factor' \in [Users -> Factor] /\ <<factor[req[q].user].secret, n>> \in Codes
    BY <2>1, <2>2, CodeTypes
  <2> QED
    BY <1>0, <1>3, <2>1, <2>3, TypeOpens
<1>5. ASSUME NEW c \in RecoveryCodes, RecoveryAccept(q, d, c)
      PROVE  TypeInv' /\ Forward
  <2>1. /\ ChallengeConsumed(q) /\ OpenSession(q, d, c)
        /\ factor' = [factor EXCEPT ![req[q].user].codes = @ \ {c}]
        /\ UNCHANGED <<user, grant, reset, era, overlapped, spared, early>>
    BY <1>5 DEF RecoveryAccept, history
  <2>2. req[q].user \in Users
    BY <1>0, <1>3, <2>1
  <2>3. factor[req[q].user].codes \ {c} \in SUBSET RecoveryCodes
    BY <1>0, <2>2 DEF Factor
  <2>4. factor' \in [Users -> Factor] /\ c \in Codes
    BY <2>1, <2>2, <2>3, CodeTypes
  <2> QED
    BY <1>0, <1>3, <2>1, <2>4, TypeOpens
<1> QED
  BY <1>1, <1>2, <1>4, <1>5

LEMMA TypeLoginEnds ==
  ASSUME TypeInv, NEW q \in Requests,
         \/ \E c \in Challenges : LoginChallenge(q, c)
         \/ LoginWithoutFactor(q) \/ TotpRefused(q) \/ Abandon(q)
  PROVE  TypeInv' /\ Forward
<1>0. /\ req[q].kind # "NONE" => req[q].user \in Users
      /\ user \in [Users -> User] /\ overlapped \in [Users -> BOOLEAN]
      /\ spared \in [Users -> BOOLEAN] /\ early \in [Users -> BOOLEAN]
      /\ challenge \in [Challenges -> Challenge] /\ factor \in [Users -> Factor]
      /\ grant \in [Users -> Grant] /\ reset \in [Resets -> Reset] /\ era \in [Users -> Nat]
  BY DEF TypeInv, RequestSound, TypeOK
<1>1. ASSUME NEW c \in Challenges, LoginChallenge(q, c)
      PROVE  TypeInv' /\ Forward
  <2> DEFINE u == req[q].user
             s == spared[u] \/ req[q].era # era[u]
             row == [user |-> u, era |-> req[q].era, state |-> "OPEN"]
  <2>1. /\ req[q].kind # "NONE" /\ FinishRow(q) /\ Done(q)
        /\ challenge' = [challenge EXCEPT ![c] = row]
        /\ spared' = [spared EXCEPT ![u] = s]
        /\ UNCHANGED <<grant, device, reset, factor, era, early>>
    BY <1>1 DEF LoginChallenge, ReadyToFinish
  <2>2. u \in Users /\ req[q].era \in Nat
    BY <1>0, <2>1, FieldTypes DEF TypeInv, Request
  <2>3. s \in BOOLEAN /\ (spared[u] => s)
    OBVIOUS
  <2>4. row \in Challenge /\ row.user # NoUser
    BY <2>2, SessionsAssumption DEF Challenge
  <2> HIDE DEF u, s, row
  <2>5. spared' \in [Users -> BOOLEAN] /\ \A x \in Users : spared[x] => spared'[x]
    BY <1>0, <2>1, <2>2, <2>3
  <2>6. challenge' \in [Challenges -> Challenge] /\ ArtifactsSound'
    BY <1>0, <2>1, <2>4 DEF TypeInv, ArtifactsSound
  <2>7. /\ user' \in [Users -> User] /\ \A x \in Users : user'[x].epoch = user[x].epoch
        /\ overlapped' \in [Users -> BOOLEAN]
        /\ \A x \in Users : overlapped[x] => overlapped'[x]
    BY <2>1, <2>2, FinishRowWrites DEF u
  <2> QED
    BY <1>0, <2>1, <2>5, <2>6, <2>7, DoneType, TypeQuiet
<1>2. CASE LoginWithoutFactor(q)
  <2>1. /\ req[q].kind # "NONE" /\ FinishRow(q) /\ Done(q)
        /\ UNCHANGED <<grant, device, challenge, reset, factor, era, spared, early>>
    BY <1>2 DEF LoginWithoutFactor, ReadyToFinish
  <2>2. ArtifactsSound'
    BY <2>1 DEF TypeInv, ArtifactsSound
  <2> QED
    BY <1>0, <2>1, <2>2, FinishRowWrites, DoneType, TypeQuiet
<1>3. CASE TotpRefused(q)
  <2>1. /\ challenge' = [challenge EXCEPT ![req[q].challenge].state = "CONSUMED"] /\ Done(q)
        /\ UNCHANGED <<user, grant, device, reset, factor, era, overlapped, spared, early>>
    BY <1>3 DEF TotpRefused, ChallengeConsumed, history
  <2>2. \A c \in Challenges : [challenge[c] EXCEPT !.state = "CONSUMED"] \in Challenge
    BY <1>0 DEF Challenge
  <2>3. \A c \in Challenges : \/ challenge'[c] = challenge[c]
                              \/ challenge'[c] = [challenge[c] EXCEPT !.state = "CONSUMED"]
    BY <1>0, <2>1
  <2>4. challenge' \in [Challenges -> Challenge]
    BY <1>0, <2>1, <2>2, <2>3
  <2>5. ArtifactsSound'
    BY <1>0, <2>1, <2>3 DEF TypeInv, ArtifactsSound, Challenge
  <2> QED
    BY <1>0, <2>1, <2>4, <2>5, DoneType, TypeQuiet
<1>4. CASE Abandon(q)
  <2>1. /\ Done(q)
        /\ UNCHANGED <<user, grant, device, challenge, reset, factor, era, overlapped, spared, early>>
    BY <1>4 DEF Abandon, rows, history
  <2>2. ArtifactsSound'
    BY <2>1 DEF TypeInv, ArtifactsSound
  <2> QED
    BY <1>0, <2>1, <2>2, DoneType, TypeQuiet
<1> QED
  BY <1>1, <1>2, <1>3, <1>4

LEMMA TypeStages ==
  ASSUME TypeInv,
         \/ \E q \in Requests : BeginTotp(q) \/ \E t \in Resets : CreateReset(q, t)
         \/ \E u \in Users, r \in Roles : GrantRole(u, r) \/ RevokePending(u, r)
  PROVE  TypeInv' /\ Forward
<1>0. /\ user \in [Users -> User] /\ overlapped \in [Users -> BOOLEAN]
      /\ spared \in [Users -> BOOLEAN] /\ early \in [Users -> BOOLEAN]
      /\ challenge \in [Challenges -> Challenge] /\ factor \in [Users -> Factor]
      /\ grant \in [Users -> Grant] /\ reset \in [Resets -> Reset] /\ era \in [Users -> Nat]
      /\ req \in [Requests -> Request]
  BY DEF TypeInv, TypeOK
<1>1. ASSUME NEW q \in Requests, BeginTotp(q)
      PROVE  TypeInv' /\ Forward
  <2> DEFINE u == req[q].user
             row == [factor[u] EXCEPT !.totp = "PENDING", !.last = 0, !.secret = factor[u].secret + 1]
  <2>1. /\ Done(q) /\ factor' = [factor EXCEPT ![u] = row] /\ factor[u].secret < MaxSecret
        /\ UNCHANGED <<user, grant, device, challenge, reset, era, overlapped, spared, early>>
        /\ req[q].kind = "SESSION"
    BY <1>1 DEF BeginTotp, Session, history
  <2>2. u \in Users
    BY <2>1 DEF TypeInv, RequestSound
  <2>3. row \in Factor
    <3>1. factor[u] \in Factor /\ factor[u].secret + 1 \in 0 .. MaxSecret /\ 0 \in 0 .. MaxCounter
      BY <1>0, <2>1, <2>2, SessionsAssumption DEF Factor
    <3> QED
      BY <3>1 DEF Factor
  <2> HIDE DEF row
  <2>4. factor' \in [Users -> Factor]
    BY <1>0, <2>1, <2>3
  <2>5. ArtifactsSound'
    BY <2>1 DEF TypeInv, ArtifactsSound
  <2> QED
    BY <1>0, <2>1, <2>4, <2>5, DoneType, TypeQuiet
<1>2. ASSUME NEW q \in Requests, NEW t \in Resets, CreateReset(q, t)
      PROVE  TypeInv' /\ Forward
  <2> DEFINE u == req[q].user
             row == [user |-> u, state |-> "OPEN"]
  <2>1. /\ Done(q) /\ reset' = [ResetsRevoked(u) EXCEPT ![t] = row] /\ req[q].kind = "RESET"
        /\ UNCHANGED <<user, grant, device, challenge, factor, era, overlapped, spared, early>>
    BY <1>2 DEF CreateReset, history
  <2>2. u \in Users
    BY <2>1 DEF TypeInv, RequestSound
  <2>3. row \in Reset /\ row.user # NoUser
    BY <2>2, SessionsAssumption DEF Reset
  <2> HIDE DEF row
  <2>4. /\ ResetsRevoked(u) \in [Resets -> Reset]
        /\ \A x \in Resets : /\ ResetsRevoked(u)[x].user = reset[x].user
                             /\ ResetsRevoked(u)[x].state = "OPEN" => reset[x].state = "OPEN"
    BY <2>2, ResetsRevokedType DEF TypeInv
  <2>5. reset' \in [Resets -> Reset]
    BY <2>1, <2>3, <2>4
  <2>6. ArtifactsSound'
    BY <2>1, <2>3, <2>4 DEF TypeInv, ArtifactsSound
  <2> QED
    BY <1>0, <2>1, <2>5, <2>6, DoneType, TypeQuiet
<1>3. ASSUME NEW u \in Users, NEW r \in Roles, GrantRole(u, r) \/ RevokePending(u, r)
      PROVE  TypeInv' /\ Forward
  <2>1. /\ UNCHANGED <<user, device, factor, req, era, overlapped, spared, early>>
        /\ reset' = ResetsRevoked(u) /\ challenge' = ChallengesConsumed(u)
        /\ \E s \in {"NONE", "PENDING"} : grant' = [grant EXCEPT ![u][r] = s]
    BY <1>3 DEF GrantRole, RevokePending, ArtifactsRevoked, history
  <2>2. \A s \in {"NONE", "PENDING"} : [grant[u] EXCEPT ![r] = s] \in Grant
    BY <1>0 DEF Grant
  <2>3. grant' \in [Users -> Grant]
    BY <1>0, <2>1, <2>2
  <2>4. /\ challenge' \in [Challenges -> Challenge] /\ reset' \in [Resets -> Reset]
        /\ ArtifactsSound'
    BY <2>1, ResetsRevokedType, ChallengesConsumedType DEF TypeInv, ArtifactsSound
  <2> QED
    BY <1>0, <2>1, <2>3, <2>4, TypeQuiet
<1> QED
  BY <1>1, <1>2, <1>3

\* Steps that end the sessions of one account: the epoch that is written was
\* computed from e, and every device but at most one (which goes on under the new
\* epoch) is left or revoked.
LEMMA TypeEnding ==
  ASSUME TypeInv, NEW u \in Users, NEW e \in Epoch, NEW leavesPending \in BOOLEAN,
         Ends(u, e, leavesPending), CanEnd(u), e <= era[u] + 1,
         NEW row \in [status : {"ACTIVE", "DISABLED"}, epoch : {e + 1}, strong : BOOLEAN,
                      eligible : BOOLEAN],
         user' = [user EXCEPT ![u] = row],
         device' \in [Devices -> Device],
         \A d \in Devices :
           \/ Kept(d)
           \/ device[d].user = u /\ device'[d].user = u /\ device'[d].epoch = e + 1,
         early' \in [Users -> BOOLEAN], grant' \in [Users -> Grant],
         factor' \in [Users -> Factor], req' \in [Requests -> Request],
         \A q \in Requests : req'[q] \in {req[q], NoRequest} \/ RequestSound(q)',
         challenge' \in [Challenges -> Challenge], reset' \in [Resets -> Reset],
         ArtifactsSound'
  PROVE  TypeInv' /\ Forward
<1>1. /\ era' \in [Users -> Nat] /\ overlapped' \in [Users -> BOOLEAN]
      /\ spared' \in [Users -> BOOLEAN]
      /\ era'[u] = era[u] + 1
      /\ overlapped[u] => overlapped'[u]
      /\ spared[u] => spared'[u]
      /\ \A x \in Users \ {u} : overlapped'[x] = overlapped[x] /\ spared'[x] = spared[x]
  BY EndsType DEF TypeInv
<1>2. user'[u] = row /\ \A x \in Users \ {u} : user'[x] = user[x]
  BY DEF TypeInv, TypeOK
<1>3. row.epoch = e + 1
  OBVIOUS
<1>4. /\ \A x \in Users : UserSound(x)'
      /\ \A x \in Users : era[x] <= era'[x]
      /\ e + 1 \in Epoch
  BY <1>2, <1>3, UsersEnded
<1>5. user' \in [Users -> User]
  BY <1>2, <1>4 DEF TypeInv, TypeOK, User
<1>6. TypeOK'
  BY <1>1, <1>5 DEF TypeInv, TypeOK
<1>7. Forward
  BY <1>1, <1>4 DEF Forward, Kept
<1>8. ASSUME NEW d \in Devices, device'[d].user = u /\ device'[d].epoch = e + 1
      PROVE  DeviceSound(d)'
  BY <1>1, <1>8, SessionsAssumption DEF DeviceSound, Epoch, TypeInv, TypeOK
<1> QED
  BY <1>4, <1>6, <1>7, <1>8, Assembled

\* _record_security_change.
LEMMA SecurityChangeWrites ==
  ASSUME TypeInv, NEW q \in Requests, NEW atOnce \in BOOLEAN,
         SecurityChange(q, Seen(q, atOnce)), factor' \in [Users -> Factor],
         early' \in [Users -> BOOLEAN]
  PROVE  TypeInv' /\ Forward
<1> DEFINE u == req[q].user
           d == req[q].device
           e == Seen(q, atOnce).epoch
           row == [user[u] EXCEPT !.epoch = e + 1]
           old == Revoked(Live(u) \ {d})
           renewed == [old[d] EXCEPT !.epoch = e + 1, !.era = era[u] + 1]
<1>1. Session(q) /\ CanEnd(u) /\ Ends(u, e, TRUE) /\ Done(q) /\ UNCHANGED <<grant, challenge, reset>>
  BY DEF SecurityChange
<1>2. u \in Users /\ d \in Devices /\ device[d].user = u /\ e \in Epoch /\ e <= era[u] + 1
  BY <1>1, SeenType
<1>3. user' = [user EXCEPT ![u] = row] /\ device' = [old EXCEPT ![d] = renewed]
  BY <1>2 DEF SecurityChange, TypeInv, TypeOK
<1>4. row \in [status : {"ACTIVE", "DISABLED"}, epoch : {e + 1}, strong : BOOLEAN,
               eligible : BOOLEAN]
  BY <1>2, FieldTypes DEF TypeInv, User
<1>5. /\ old \in [Devices -> Device]
      /\ \A x \in Devices : /\ old[x].user = device[x].user /\ old[x].epoch = device[x].epoch
                            /\ old[x].era = device[x].era /\ old[x].code = device[x].code
  BY RevokedType DEF TypeInv
<1>6. e + 1 \in Epoch /\ era[u] \in Nat
  BY <1>1, <1>2, SessionsAssumption DEF TypeInv, TypeOK, Epoch, CanEnd
<1> HIDE DEF u, d, e, row, old
<1>7. renewed \in Device /\ renewed.user = u /\ renewed.epoch = e + 1
  <2>1. old[d] \in Device /\ old[d].user = u /\ era[u] + 1 \in Nat
    BY <1>2, <1>5, <1>6
  <2> QED
    BY <1>6, <2>1 DEF Device
<1> HIDE DEF renewed
<1>8. /\ device' \in [Devices -> Device]
      /\ \A x \in Devices :
           \/ Kept(x)
           \/ device[x].user = u /\ device'[x].user = u /\ device'[x].epoch = e + 1
  BY <1>2, <1>3, <1>5, <1>7 DEF Kept
<1>9. /\ grant' \in [Users -> Grant] /\ challenge' \in [Challenges -> Challenge]
      /\ reset' \in [Resets -> Reset] /\ ArtifactsSound'
  BY <1>1 DEF TypeInv, TypeOK, ArtifactsSound
<1>10. req' \in [Requests -> Request] /\ \A x \in Requests : req'[x] \in {req[x], NoRequest}
  BY <1>1, DoneType
<1> QED
  BY <1>1, <1>2, <1>3, <1>4, <1>8, <1>9, <1>10, TypeEnding

\* What the changes of factors do to the factor.
LEMMA TypeFactors ==
  ASSUME TypeInv, NEW q \in Requests, NEW atOnce \in BOOLEAN,
         \/ RegisterPasskey(q, atOnce) \/ RemovePasskey(q, atOnce)
         \/ RegenerateCodes(q, atOnce) \/ RemoveCodes(q, atOnce) \/ DisableTotp(q, atOnce)
         \/ \E n \in 1 .. MaxCounter : ConfirmTotp(q, atOnce, n)
  PROVE  TypeInv' /\ Forward
<1> DEFINE u == req[q].user
<1>1. SecurityChange(q, Seen(q, atOnce))
  BY DEF RegisterPasskey, RemovePasskey, RegenerateCodes, RemoveCodes, DisableTotp, ConfirmTotp
<1>2. u \in Users
  BY <1>1, SeenType DEF SecurityChange
<1>3. /\ factor \in [Users -> Factor] /\ factor[u] \in Factor
      /\ early \in [Users -> BOOLEAN] /\ \A cs \in NewCodes(u) : cs \in SUBSET RecoveryCodes
  BY <1>2 DEF TypeInv, TypeOK, NewCodes
<1>4. CASE RegisterPasskey(q, atOnce) \/ RemovePasskey(q, atOnce)
  <2>1. \A b \in BOOLEAN : [factor[u] EXCEPT !.passkey = b] \in Factor
    BY <1>3 DEF Factor
  <2>2. \E b \in BOOLEAN : factor' = [factor EXCEPT ![u].passkey = b]
    BY <1>4 DEF RegisterPasskey, RemovePasskey
  <2>3. factor' \in [Users -> Factor] /\ UNCHANGED early
    BY <1>3, <1>4, <2>1, <2>2 DEF RegisterPasskey, RemovePasskey
  <2> QED
    BY <1>1, <1>3, <2>3, SecurityChangeWrites
<1>5. CASE RegenerateCodes(q, atOnce)
  <2>1. PICK cs \in NewCodes(u) : factor' = [factor EXCEPT ![u] = WithCodes(@, cs)]
    BY <1>5 DEF RegenerateCodes
  <2>2. cs \in SUBSET RecoveryCodes
    BY <1>3
  <2>3. [factor EXCEPT ![u] = WithCodes(@, cs)] \in [Users -> Factor]
    BY <1>2, <2>2, CodeTypes
  <2>4. UNCHANGED early
    BY <1>5 DEF RegenerateCodes
  <2> QED
    BY <1>1, <1>3, <2>1, <2>3, <2>4, SecurityChangeWrites
<1>6. CASE RemoveCodes(q, atOnce)
  <2>1. factor' \in [Users -> Factor] /\ UNCHANGED early
    BY <1>2, <1>3, <1>6, CodeTypes DEF RemoveCodes
  <2> QED
    BY <1>1, <1>3, <2>1, SecurityChangeWrites
<1>7. CASE DisableTotp(q, atOnce)
  <2> DEFINE b == \/ early[u]
                  \/ \E r \in MfaRoles : grant[u][r] = "PENDING"
                  \/ ~atOnce /\ req[q].read.policy # PolicyRequiresFactor(u)
  <2>1. factor' = [factor EXCEPT ![u] = [factor[u] EXCEPT !.totp = "DISABLED", !.codes = {}]]
    BY <1>2, <1>3, <1>7 DEF DisableTotp
  <2>2. [factor[u] EXCEPT !.totp = "DISABLED", !.codes = {}] \in Factor
    BY <1>3 DEF Factor
  <2>3. b \in BOOLEAN /\ early' = [early EXCEPT ![u] = b]
    BY <1>7 DEF DisableTotp
  <2> HIDE DEF b
  <2>4. factor' \in [Users -> Factor] /\ early' \in [Users -> BOOLEAN]
    BY <1>3, <2>1, <2>2, <2>3
  <2> QED
    BY <1>1, <2>4, SecurityChangeWrites
<1>8. ASSUME NEW n \in 1 .. MaxCounter, ConfirmTotp(q, atOnce, n)
      PROVE  TypeInv' /\ Forward
  <2>1. n \in 0 .. MaxCounter
    BY SessionsAssumption
  <2>2. PICK cs \in NewCodes(u) :
          factor' = [factor EXCEPT ![u] = [WithCodes(@, cs) EXCEPT !.totp = "ACTIVE", !.last = n]]
    BY <1>8 DEF ConfirmTotp
  <2>3. cs \in SUBSET RecoveryCodes
    BY <1>3
  <2>4. [factor EXCEPT ![u] = [WithCodes(@, cs) EXCEPT !.totp = "ACTIVE", !.last = n]]
          \in [Users -> Factor]
    BY <1>2, <2>1, <2>3, CodeTypes
  <2>5. UNCHANGED early
    BY <1>8 DEF ConfirmTotp
  <2> QED
    BY <1>1, <1>3, <2>2, <2>4, <2>5, SecurityChangeWrites
<1> QED
  BY <1>4, <1>5, <1>6, <1>7, <1>8

\* A device table that is only revoked from.
LEMMA RevokedKept ==
  ASSUME TypeInv, NEW ds, device' = Revoked(ds)
  PROVE  device' \in [Devices -> Device] /\ \A d \in Devices : Kept(d)
BY RevokedType DEF TypeInv, Kept

LEMMA TypeUpdateCredential ==
  ASSUME TypeInv, NEW q \in Requests, NEW atOnce \in BOOLEAN, NEW strong \in BOOLEAN,
         UpdateCredential(q, atOnce, strong)
  PROVE  TypeInv' /\ Forward
<1> DEFINE u == req[q].user
           e == req[q].read.epoch
           row == [user[u] EXCEPT !.strong = strong, !.eligible = strong, !.epoch = e + 1]
<1>1. /\ Session(q) /\ CanEnd(u) /\ Ends(u, e, TRUE) /\ Done(q) /\ device' = Revoked(Live(u))
      /\ UNCHANGED <<grant, challenge, reset, factor, early>>
  BY DEF UpdateCredential
<1>2. u \in Users /\ e \in Epoch /\ e <= era[u] + 1
  BY <1>1, SeenType
<1>3. user' = [user EXCEPT ![u] = row]
  BY <1>2 DEF UpdateCredential, TypeInv, TypeOK
<1>4. user[u] \in User
  BY <1>2, FieldTypes DEF TypeInv
<1>5. row \in [status : {"ACTIVE", "DISABLED"}, epoch : {e + 1}, strong : BOOLEAN,
               eligible : BOOLEAN]
  BY <1>4 DEF User
<1> HIDE DEF row, e, u
<1>6. /\ grant' \in [Users -> Grant] /\ challenge' \in [Challenges -> Challenge]
      /\ reset' \in [Resets -> Reset] /\ factor' \in [Users -> Factor]
      /\ early' \in [Users -> BOOLEAN] /\ ArtifactsSound'
  BY <1>1 DEF TypeInv, TypeOK, ArtifactsSound
<1> QED
  BY <1>1, <1>2, <1>3, <1>5, <1>6, RevokedKept, DoneType, TypeEnding

\* The controls of others: each computes the epoch from the row it has locked.
LEMMA TypeByOthers ==
  ASSUME TypeInv, NEW u \in Users, NEW row, CanEnd(u), Ends(u, user[u].epoch, FALSE),
         row \in [status : {"ACTIVE", "DISABLED"}, epoch : {user[u].epoch + 1}, strong : BOOLEAN,
                 eligible : BOOLEAN],
         user' = [user EXCEPT ![u] = row], device' = Revoked(Live(u)),
         challenge' = ChallengesConsumed(u), reset' \in [Resets -> Reset],
         \A t \in Resets : /\ reset'[t].user = reset[t].user
                           /\ reset'[t].state = "OPEN" => reset[t].state = "OPEN",
         grant' \in [Users -> Grant], UNCHANGED <<factor, req, early>>
  PROVE  TypeInv' /\ Forward
<1>1. user[u].epoch \in Epoch /\ user[u].epoch <= era[u] + 1
  BY FieldTypes DEF TypeInv, UserSound, User
<1>2. challenge' \in [Challenges -> Challenge] /\ ArtifactsSound'
  <2>1. /\ challenge' \in [Challenges -> Challenge]
        /\ \A c \in Challenges : /\ challenge'[c].user = challenge[c].user
                                 /\ challenge'[c].state = "OPEN" => challenge'[c] = challenge[c]
    BY ChallengesConsumedType DEF TypeInv
  <2> QED
    BY <2>1 DEF TypeInv, ArtifactsSound
<1>3. /\ factor' \in [Users -> Factor] /\ early' \in [Users -> BOOLEAN]
      /\ req' \in [Requests -> Request] /\ req' = req
  BY DEF TypeInv, TypeOK
<1> QED
  BY <1>1, <1>2, <1>3, RevokedKept, TypeEnding

LEMMA TypeStatusAndGrants ==
  ASSUME TypeInv, NEW u \in Users,
         \/ \E s \in {"ACTIVE", "DISABLED"} : SetStatus(u, s)
         \/ \E r \in Roles : RevokeActive(u, r)
  PROVE  TypeInv' /\ Forward
<1>0. /\ user \in [Users -> User] /\ user[u] \in User /\ grant \in [Users -> Grant]
      /\ reset \in [Resets -> Reset]
  BY DEF TypeInv, TypeOK
<1>1. ASSUME EndedBy(u)
      PROVE  /\ Ends(u, user[u].epoch, FALSE) /\ device' = Revoked(Live(u))
             /\ challenge' = ChallengesConsumed(u) /\ reset' \in [Resets -> Reset]
             /\ \A t \in Resets : /\ reset'[t].user = reset[t].user
                                  /\ reset'[t].state = "OPEN" => reset[t].state = "OPEN"
  BY <1>1, ResetsRevokedType DEF EndedBy, ArtifactsRevoked, TypeInv
<1>2. ASSUME NEW s \in {"ACTIVE", "DISABLED"}, SetStatus(u, s)
      PROVE  TypeInv' /\ Forward
  <2> DEFINE row == [user[u] EXCEPT !.status = s, !.epoch = user[u].epoch + 1]
  <2>1. /\ CanEnd(u) /\ EndedBy(u) /\ UNCHANGED <<grant, factor, req, early>>
        /\ user' = [user EXCEPT ![u] = row]
    BY <1>0, <1>2 DEF SetStatus
  <2>2. row \in [status : {"ACTIVE", "DISABLED"}, epoch : {user[u].epoch + 1}, strong : BOOLEAN,
                 eligible : BOOLEAN]
    BY <1>0 DEF User
  <2> HIDE DEF row
  <2> QED
    BY <1>0, <1>1, <2>1, <2>2, TypeByOthers
<1>3. ASSUME NEW r \in Roles, RevokeActive(u, r)
      PROVE  TypeInv' /\ Forward
  <2> DEFINE row == [user[u] EXCEPT !.epoch = user[u].epoch + 1]
  <2>1. /\ CanEnd(u) /\ EndedBy(u) /\ UNCHANGED <<factor, req, early>>
        /\ user' = [user EXCEPT ![u] = row] /\ grant' = [grant EXCEPT ![u][r] = "NONE"]
    BY <1>0, <1>3 DEF RevokeActive
  <2>2. row \in [status : {"ACTIVE", "DISABLED"}, epoch : {user[u].epoch + 1}, strong : BOOLEAN,
                 eligible : BOOLEAN]
    BY <1>0 DEF User
  <2>3. [grant[u] EXCEPT ![r] = "NONE"] \in Grant
    BY <1>0 DEF Grant
  <2>4. grant' \in [Users -> Grant]
    BY <1>0, <2>1, <2>3
  <2> HIDE DEF row
  <2> QED
    BY <1>1, <2>1, <2>2, <2>4, TypeByOthers
<1> QED
  BY <1>2, <1>3

LEMMA TypeResetCredential ==
  ASSUME TypeInv, NEW strong \in BOOLEAN,
         \/ \E u \in Users : CliReset(u, strong)
         \/ \E t \in Resets : ConsumeReset(t, strong)
  PROVE  TypeInv' /\ Forward
<1>0. /\ user \in [Users -> User] /\ grant \in [Users -> Grant] /\ reset \in [Resets -> Reset]
  BY DEF TypeInv, TypeOK
<1>1. ASSUME NEW u \in Users, NewCredential(u, strong), reset' \in [Resets -> Reset],
             \A t \in Resets : /\ reset'[t].user = reset[t].user
                               /\ reset'[t].state = "OPEN" => reset[t].state = "OPEN",
             UNCHANGED <<grant, factor, req, early>>
      PROVE  TypeInv' /\ Forward
  <2> DEFINE row == [user[u] EXCEPT !.strong = strong, !.eligible = strong,
                                    !.epoch = user[u].epoch + 1]
  <2>1. /\ CanEnd(u) /\ Ends(u, user[u].epoch, FALSE) /\ device' = Revoked(Live(u))
        /\ challenge' = ChallengesConsumed(u)
    BY <1>1 DEF NewCredential
  <2>3. user' = [user EXCEPT ![u] = row]
    BY <1>0, <1>1 DEF NewCredential
  <2>2. row \in [status : {"ACTIVE", "DISABLED"}, epoch : {user[u].epoch + 1}, strong : BOOLEAN,
                 eligible : BOOLEAN]
    BY <1>0 DEF User
  <2> HIDE DEF row
  <2> QED
    BY <1>0, <1>1, <2>1, <2>2, <2>3, TypeByOthers
<1>2. ASSUME NEW u \in Users, CliReset(u, strong)
      PROVE  TypeInv' /\ Forward
  <2>1. /\ NewCredential(u, strong) /\ reset' = ResetsRevoked(u)
        /\ UNCHANGED <<grant, factor, req, early>>
    BY <1>2 DEF CliReset
  <2> QED
    BY <1>1, <2>1, ResetsRevokedType DEF TypeInv
<1>3. ASSUME NEW t \in Resets, ConsumeReset(t, strong)
      PROVE  TypeInv' /\ Forward
  <2>1. PICK u \in Users : u = reset[t].user
    BY <1>0, <1>3 DEF ConsumeReset, TypeInv, ArtifactsSound, Reset
  <2>2. /\ NewCredential(u, strong) /\ UNCHANGED <<grant, factor, req, early>>
        /\ reset' = [ResetsRevoked(u) EXCEPT ![t].state = "CONSUMED"]
    BY <1>3, <2>1 DEF ConsumeReset
  <2>3. /\ ResetsRevoked(u) \in [Resets -> Reset]
        /\ \A x \in Resets : /\ ResetsRevoked(u)[x].user = reset[x].user
                             /\ ResetsRevoked(u)[x].state = "OPEN" => reset[x].state = "OPEN"
    BY ResetsRevokedType DEF TypeInv
  <2>4. \A row \in Reset : /\ [row EXCEPT !.state = "CONSUMED"] \in Reset
                           /\ [row EXCEPT !.state = "CONSUMED"].user = row.user
                           /\ [row EXCEPT !.state = "CONSUMED"].state # "OPEN"
    BY DEF Reset
  <2>5. /\ reset'[t] = [ResetsRevoked(u)[t] EXCEPT !.state = "CONSUMED"]
        /\ \A x \in Resets \ {t} : reset'[x] = ResetsRevoked(u)[x]
        /\ DOMAIN reset' = Resets
        /\ reset' = [x \in Resets |-> reset'[x]]
    BY <2>2, <2>3
  <2>6. ASSUME NEW x \in Resets
        PROVE  /\ reset'[x] \in Reset /\ reset'[x].user = reset[x].user
               /\ reset'[x].state = "OPEN" => reset[x].state = "OPEN"
    <3>1. CASE x # t
      BY <2>3, <2>5, <3>1
    <3>2. CASE x = t
      <4>1. ResetsRevoked(u)[t] \in Reset /\ ResetsRevoked(u)[t].user = reset[t].user
        BY <2>3
      <4> QED
        BY <2>4, <2>5, <3>2, <4>1
    <3> QED
      BY <3>1, <3>2
  <2>7. reset' \in [Resets -> Reset]
    BY <2>5, <2>6
  <2> QED
    BY <1>1, <2>2, <2>6, <2>7
<1> QED
  BY <1>2, <1>3

\* activate_pending_grants: the request goes on under the epoch it has written.
LEMMA TypeLoginActivate ==
  ASSUME TypeInv, NEW q \in Requests, LoginActivate(q)
  PROVE  TypeInv' /\ Forward
<1> DEFINE u == req[q].user
           e == req[q].read.epoch
           row == [Corrected(q, user[u]) EXCEPT !.epoch = e + 1]
           r == [req[q] EXCEPT !.kind = "ACTIVATED",
                               !.read = [req[q].read EXCEPT !.epoch = e + 1], !.era = era[u] + 1]
<1>1. /\ req[q].kind = "LOGIN" /\ CanEnd(u) /\ Ends(u, e, FALSE) /\ ArtifactsRevoked(u)
      /\ UNCHANGED <<device, factor, early>>
      /\ user' = [user EXCEPT ![u] = row]
      /\ grant' = [grant EXCEPT ![u] = [x \in Roles |-> IF x \in Activatable(q) THEN "ACTIVE"
                                                       ELSE grant[u][x]]]
  BY DEF LoginActivate
<1>2. req' = [req EXCEPT ![q] = r]
  BY FieldTypes DEF TypeInv, TypeOK, LoginActivate
<1>3. /\ u \in Users /\ e \in Epoch /\ e <= era[u] + 1 /\ req[q] \in Request
      /\ req[q].read \in ReadSet
  BY <1>1, FieldTypes DEF TypeInv, RequestSound, Request, ReadSet
<1>4. /\ Corrected(q, user[u]) \in User /\ grant[u] \in Grant /\ grant \in [Users -> Grant]
      /\ era[u] \in Nat /\ e + 1 \in Epoch
  BY <1>1, <1>3, CorrectedType, FieldTypes, SessionsAssumption
  DEF TypeInv, TypeOK, Epoch, CanEnd
<1>5. row \in [status : {"ACTIVE", "DISABLED"}, epoch : {e + 1}, strong : BOOLEAN,
               eligible : BOOLEAN]
  BY <1>4 DEF User
<1>6. [req[q].read EXCEPT !.epoch = e + 1] \in ReadSet
  BY <1>3, <1>4 DEF ReadSet
<1>7. r \in Request /\ r.user = u /\ r.read.epoch = e + 1 /\ r.kind = "ACTIVATED"
  <2> DEFINE read == [req[q].read EXCEPT !.epoch = e + 1]
  <2>1. read \in ReadSet /\ read.epoch = e + 1 /\ era[u] + 1 \in Nat
    BY <1>3, <1>4, <1>6 DEF ReadSet
  <2>2. r = [req[q] EXCEPT !.kind = "ACTIVATED", !.read = read, !.era = era[u] + 1]
    OBVIOUS
  <2> HIDE DEF read, r, e
  <2> QED
    BY <1>3, <2>1, <2>2 DEF Request
<1>8. [x \in Roles |-> IF x \in Activatable(q) THEN "ACTIVE" ELSE grant[u][x]] \in Grant
  BY <1>4 DEF Grant
<1> HIDE DEF u, e, row, r
<1>9. grant' \in [Users -> Grant]
  BY <1>1, <1>4, <1>8
<1>10. /\ challenge' \in [Challenges -> Challenge] /\ reset' \in [Resets -> Reset]
       /\ ArtifactsSound'
  BY <1>1, <1>3, ResetsRevokedType, ChallengesConsumedType
  DEF ArtifactsRevoked, TypeInv, ArtifactsSound
<1>11. era'[u] = era[u] + 1
  BY <1>1, <1>3, <1>4 DEF Ends, TypeInv, TypeOK
<1>12. req' \in [Requests -> Request] /\ req'[q] = r /\ \A x \in Requests \ {q} : req'[x] = req[x]
  BY <1>2, <1>7 DEF TypeInv, TypeOK
<1>13. RequestSound(q)'
  <2>1. e + 1 <= era[u] + 1 + 1
    BY <1>3, <1>4, SessionsAssumption DEF Epoch
  <2> QED
    BY <1>3, <1>7, <1>11, <1>12, <2>1 DEF RequestSound
<1>14. /\ \A d \in Devices : Kept(d)
       /\ device' \in [Devices -> Device] /\ factor' \in [Users -> Factor]
       /\ early' \in [Users -> BOOLEAN]
  BY <1>1 DEF Kept, TypeInv, TypeOK
<1>15. \A x \in Requests : req'[x] \in {req[x], NoRequest} \/ RequestSound(x)'
  BY <1>12, <1>13
<1> QED
  BY <1>1, <1>3, <1>5, <1>9, <1>10, <1>12, <1>14, <1>15, TypeEnding

LEMMA TypeInit ==
  ASSUME Init
  PROVE  TypeInv
<1>1. /\ user \in [Users -> User] /\ \A u \in Users : user[u].epoch = 1
  <2>1. {FALSE} \subseteq BOOLEAN /\ 1 \in Epoch
    BY SessionsAssumption DEF Epoch
  <2>2. ASSUME NEW row \in [status : {"ACTIVE"}, epoch : {1}, strong : BOOLEAN,
                            eligible : {FALSE}]
        PROVE  row \in User /\ row.epoch = 1
    <3>1. row.eligible \in BOOLEAN
      BY <2>1
    <3> QED
      BY <2>1, <3>1 DEF User
  <2> QED
    BY <2>2 DEF Init
<1>2. grant \in [Users -> Grant]
  BY DEF Init, Grant
<1>3. device \in [Devices -> Device]
  BY SessionsAssumption DEF Init, Device, NoSession, Epoch
<1>4. challenge \in [Challenges -> Challenge] /\ reset \in [Resets -> Reset]
  BY DEF Init, Challenge, Reset
<1>5. NoFactor \in Factor /\ Enrolled \in Factor
  <2>1. NoFactor \in Factor
    BY SessionsAssumption DEF NoFactor, Factor
  <2> QED
    BY <2>1 DEF Enrolled, Factor
<1>6. factor \in [Users -> Factor]
  BY <1>5 DEF Init
<1>7. NoRequest \in Request
  BY SessionsAssumption DEF NoRequest, Request, NoRead, ReadSet, Epoch
<1>8. req \in [Requests -> Request] /\ \A q \in Requests : RequestSound(q)
  BY <1>7 DEF Init, RequestSound, NoRequest
<1>9. /\ era \in [Users -> Nat] /\ overlapped \in [Users -> BOOLEAN]
      /\ spared \in [Users -> BOOLEAN] /\ early \in [Users -> BOOLEAN]
  BY DEF Init
<1>10. \A u \in Users : UserSound(u)
  BY <1>1, SessionsAssumption DEF Init, UserSound
<1>11. \A d \in Devices : DeviceSound(d)
  BY DEF Init, DeviceSound, NoSession
<1>12. ArtifactsSound
  BY DEF Init, ArtifactsSound
<1> QED
  BY <1>1, <1>2, <1>3, <1>4, <1>6, <1>8, <1>9, <1>10, <1>11, <1>12 DEF TypeInv, TypeOK

\* No sign-in, no session and no control writes a value of another type, forgets an
\* event or changes the owner of a device.
LEMMA TypeStep ==
  ASSUME TypeInv, [Next]_vars
  PROVE  TypeInv' /\ Forward
<1>1. CASE SignIn
  <2>1. PICK q \in Requests :
          \/ \E u \in Users : LoginRead(q, u) \/ PasskeyRead(q, u)
          \/ LoginActivate(q) \/ LoginWithoutFactor(q) \/ TotpRefused(q) \/ Abandon(q)
          \/ \E c \in Challenges : LoginChallenge(q, c) \/ TotpRead(q, c)
          \/ \E d \in Devices :
               \/ LoginFinish(q, d) \/ PasskeyFinish(q, d)
               \/ \E n \in 1 .. MaxCounter : TotpAccept(q, d, n)
               \/ \E c \in RecoveryCodes : RecoveryAccept(q, d, c)
    BY <1>1 DEF SignIn
  <2> QED
    BY <2>1, TypeReads, TypeLoginActivate, TypeLoginEnds, TypeSignIn
<1>2. CASE FromSession
  <2>1. PICK q \in Requests :
          \/ \E d \in Devices : Enter(q, d) \/ RevokeOwnDevice(q, d)
          \/ RouteReads(q)
          \/ Logout(q) \/ RevokeOtherDevices(q) \/ RevokeAllDevices(q) \/ BeginTotp(q)
          \/ \E atOnce \in BOOLEAN :
               \/ \E strong \in BOOLEAN : UpdateCredential(q, atOnce, strong)
               \/ RegisterPasskey(q, atOnce) \/ RemovePasskey(q, atOnce)
               \/ \E n \in 1 .. MaxCounter : ConfirmTotp(q, atOnce, n)
               \/ RegenerateCodes(q, atOnce) \/ RemoveCodes(q, atOnce)
               \/ DisableTotp(q, atOnce)
    BY <1>2 DEF FromSession
  <2>2. ASSUME NEW ds, RevokeDevices(q, ds)
        PROVE  TypeInv' /\ Forward
    BY <2>2, DoneType, TypeRevokes DEF RevokeDevices
  <2>3. ASSUME \/ \E d \in Devices : RevokeOwnDevice(q, d)
               \/ Logout(q) \/ RevokeOtherDevices(q) \/ RevokeAllDevices(q)
        PROVE  TypeInv' /\ Forward
    BY <2>2, <2>3 DEF RevokeOwnDevice, Logout, RevokeOtherDevices, RevokeAllDevices
  <2> QED
    BY <2>1, <2>3, TypeReads, TypeStages, TypeUpdateCredential, TypeFactors
<1>3. CASE ByOthers
  <2>1. ASSUME NEW ds, device' = Revoked(ds),
               UNCHANGED <<user, grant, challenge, reset, factor, req, history>>
        PROVE  TypeInv' /\ Forward
    <3>1. req' \in [Requests -> Request] /\ req' = req
      BY <2>1 DEF TypeInv, TypeOK
    <3> QED
      BY <2>1, <3>1, TypeRevokes
  <2>2. ASSUME \/ \E d \in Devices : DeviceEnds(d)
               \/ \E u \in Users : AdminRevokeDevices(u)
        PROVE  TypeInv' /\ Forward
    BY <2>1, <2>2 DEF DeviceEnds, AdminRevokeDevices
  <2> QED
    BY <1>3, <2>2, TypeReads, TypeStages, TypeStatusAndGrants, TypeResetCredential DEF ByOthers
<1>4. CASE UNCHANGED vars
  BY <1>4 DEF vars, rows, history, TypeInv, TypeOK, UserSound, RequestSound, DeviceSound,
              ArtifactsSound, Forward
<1> QED
  BY <1>1, <1>2, <1>3, <1>4 DEF Next

LEMMA TypeAlways == Spec => []TypeInv
<1>1. Init => TypeInv
  BY TypeInit
<1>2. TypeInv /\ [Next]_vars => TypeInv'
  BY TypeStep
<1> QED
  BY <1>1, <1>2, PTL DEF Spec

\* The tables of accounts, grants, devices, challenges, resets and factors hold
\* values of their columns' types; no epoch runs past one more than the events.
THEOREM TypeCorrect == Spec => []TypeOK
<1>1. TypeInv => TypeOK
  BY DEF TypeInv
<1> QED
  BY <1>1, TypeAlways, PTL

-----------------------------------------------------------------------------
(* Sessions end with the events: whoever opens or holds one knows the      *)
(* epoch of the events it was opened after.                                *)

LEMMA CleanKept ==
  ASSUME Forward, NEW u \in Users, Clean(u)'
  PROVE  Clean(u)
BY DEF Forward, Clean

LEMMA EraAssembled ==
  ASSUME EraInv, TypeInv', Forward,
         \A q \in Requests : req'[q] \in {req[q], NoRequest} \/ OpenerCurrent(q)',
         \A c \in Challenges :
           \/ challenge'[c].state = "OPEN" =>
                /\ challenge'[c] = challenge[c]
                /\ \/ era'[challenge[c].user] = era[challenge[c].user]
                   \/ spared'[challenge[c].user]
           \/ ChallengeCurrent(c)',
         \A d \in Devices : Kept(d) \/ DeviceCurrent(d)'
  PROVE  EraInv'
<1>1. ASSUME NEW q \in Requests, req'[q] \in {req[q], NoRequest}
      PROVE  OpenerCurrent(q)'
  <2>1. OpenerCurrent(q) /\ RequestSound(q)
    BY DEF EraInv, TypeInv
  <2>2. CASE req'[q] = NoRequest
    BY <2>2 DEF OpenerCurrent, Opens, NoRequest
  <2>3. CASE req'[q] = req[q]
    <3>1. Opens(q) => req[q].user \in Users
      BY <2>1 DEF Opens, RequestSound
    <3>2. Opens(q)' <=> Opens(q)
      BY <2>3 DEF Opens
    <3>3. PICK u : u = req[q].user
      OBVIOUS
    <3>4. u \in Users /\ Clean(u)' => Clean(u)
      BY CleanKept
    <3> QED
      BY <2>1, <2>3, <3>1, <3>2, <3>3, <3>4 DEF OpenerCurrent, Clean
  <2> QED
    BY <1>1, <2>2, <2>3
<1>2. ASSUME NEW c \in Challenges,
             challenge'[c].state = "OPEN" =>
               /\ challenge'[c] = challenge[c]
               /\ \/ era'[challenge[c].user] = era[challenge[c].user]
                  \/ spared'[challenge[c].user]
      PROVE  ChallengeCurrent(c)'
  <2>1. ChallengeCurrent(c)
    BY DEF EraInv
  <2>2. challenge[c].state = "OPEN" => challenge[c].user \in Users
    BY FieldTypes DEF EraInv, TypeInv, ArtifactsSound, Challenge
  <2>3. PICK u : u = challenge[c].user
    OBVIOUS
  <2>4. u \in Users /\ Clean(u)' => Clean(u)
    BY CleanKept
  <2> QED
    BY <1>2, <2>1, <2>2, <2>3, <2>4 DEF ChallengeCurrent, Clean
<1>3. ASSUME NEW d \in Devices, Kept(d)
      PROVE  DeviceCurrent(d)'
  <2>1. DeviceCurrent(d) /\ device[d].user \in Users \cup {NoUser}
    BY FieldTypes DEF EraInv, TypeInv, Device
  <2>2. PICK u : u = device[d].user
    OBVIOUS
  <2>3. u \in Users /\ Clean(u)' => Clean(u)
    BY CleanKept
  <2> QED
    BY <1>3, <2>1, <2>2, <2>3 DEF DeviceCurrent, Clean, Kept
<1> QED
  BY <1>1, <1>2, <1>3 DEF EraInv

\* Steps that read, and steps that end nothing.
LEMMA EraQuiet ==
  ASSUME EraInv, TypeInv', Forward, UNCHANGED <<era>>,
         \A q \in Requests : req'[q] \in {req[q], NoRequest} \/ OpenerCurrent(q)',
         \A c \in Challenges :
           challenge'[c].state = "OPEN" => challenge'[c] = challenge[c] \/ ChallengeCurrent(c)',
         \A d \in Devices : Kept(d) \/ DeviceCurrent(d)'
  PROVE  EraInv'
BY EraAssembled

\* The epoch an account has when a request reads it.
LEMMA ReadEpoch ==
  ASSUME TypeInv, NEW u \in Users, Clean(u)
  PROVE  Read(u).epoch = era[u] + 1
BY ReadType DEF TypeInv, UserSound, Clean

LEMMA EraReads ==
  ASSUME EraInv, TypeInv', Forward, NEW q \in Requests,
         \/ \E u \in Users : LoginRead(q, u) \/ PasskeyRead(q, u) \/ ResetRead(q, u)
         \/ \E c \in Challenges : TotpRead(q, c)
         \/ RouteReads(q) \/ \E d \in Devices : Enter(q, d)
  PROVE  EraInv'
<1>0. TypeInv /\ req \in [Requests -> Request]
  BY DEF EraInv, TypeInv, TypeOK
<1>1. UNCHANGED <<rows, history>>
  BY DEF LoginRead, PasskeyRead, ResetRead, TotpRead, Enter, RouteReads
<1>2. UNCHANGED <<era>> /\ UNCHANGED <<challenge, overlapped, spared>> /\ \A d \in Devices : Kept(d)
  BY <1>1 DEF rows, history, Kept
<1>3. \A x \in Requests \ {q} : req'[x] = req[x]
  BY <1>0 DEF LoginRead, PasskeyRead, ResetRead, TotpRead, Enter, RouteReads
<1>4. OpenerCurrent(q)'
  <2>1. ASSUME NEW u \in Users, LoginRead(q, u) \/ PasskeyRead(q, u)
        PROVE  OpenerCurrent(q)'
    <3>1. req'[q].user = u /\ req'[q].read = Read(u) /\ req'[q].era = era[u]
      <4>1. CASE LoginRead(q, u)
        BY <1>0, <4>1 DEF LoginRead, NoRequest
      <4>2. CASE PasskeyRead(q, u)
        BY <1>0, <4>2 DEF PasskeyRead, NoRequest
      <4> QED
        BY <2>1, <4>1, <4>2
    <3>2. Clean(u)' => Clean(u)
      BY CleanKept
    <3> QED
      BY <1>0, <3>1, <3>2, ReadEpoch DEF OpenerCurrent, Clean
  <2>2. ASSUME NEW u \in Users, ResetRead(q, u)
        PROVE  OpenerCurrent(q)'
    <3>1. req'[q].kind = "RESET"
      BY <1>0, <2>2 DEF ResetRead, NoRequest
    <3> QED
      BY <3>1 DEF OpenerCurrent, Opens
  <2>3. ASSUME NEW c \in Challenges, TotpRead(q, c)
        PROVE  OpenerCurrent(q)'
    <3>1. PICK u \in Users : u = challenge[c].user
      BY <1>0, <2>3, FieldTypes DEF TotpRead, Challenge, TypeInv
    <3>2. /\ req'[q].kind = "TOTP" /\ req'[q].user = u /\ req'[q].read = Read(u)
          /\ req'[q].era = challenge[c].era
          /\ req'[q].open => challenge[c].state = "OPEN"
      BY <1>0, <2>3, <3>1 DEF TotpRead, NoRequest
    <3>3. Clean(u)' => Clean(u)
      BY CleanKept
    <3>4. ChallengeCurrent(c)
      BY DEF EraInv
    <3>5. ASSUME Opens(q)', Clean(u)'
          PROVE  req'[q].read.epoch = req'[q].era + 1
      <4>1. challenge[c].era = era[u]
        BY <3>1, <3>2, <3>3, <3>4, <3>5 DEF Opens, ChallengeCurrent
      <4> QED
        BY <1>0, <3>2, <3>3, <3>5, <4>1, ReadEpoch
    <3> QED
      BY <3>2, <3>5 DEF OpenerCurrent, Clean
  <2>4. ASSUME NEW d \in Devices, Enter(q, d)
        PROVE  OpenerCurrent(q)'
    <3>1. req'[q].kind = "SESSION"
      BY <1>0, <2>4 DEF Enter, NoRequest
    <3> QED
      BY <3>1 DEF OpenerCurrent, Opens
  <2>5. CASE RouteReads(q)
    <3>1. req'[q].kind = "SESSION"
      BY <1>0, <2>5, RouteRequest
    <3> QED
      BY <3>1 DEF OpenerCurrent, Opens
  <2> QED
    BY <2>1, <2>2, <2>3, <2>4, <2>5
<1> QED
  BY <1>2, <1>3, <1>4, EraQuiet

\* create_device: the session takes over what its opener knew.
LEMMA EraSignIn ==
  ASSUME EraInv, TypeInv', Forward, NEW q \in Requests, NEW d \in Devices,
         \/ LoginFinish(q, d) \/ PasskeyFinish(q, d)
         \/ \E n \in 1 .. MaxCounter : TotpAccept(q, d, n)
         \/ \E c \in RecoveryCodes : RecoveryAccept(q, d, c)
  PROVE  EraInv'
<1>0. TypeInv /\ challenge \in [Challenges -> Challenge]
  BY DEF EraInv, TypeInv, TypeOK
<1>1. /\ Opens(q) /\ UNCHANGED <<era>>
      /\ \/ UNCHANGED challenge
         \/ challenge' = [challenge EXCEPT ![req[q].challenge].state = "CONSUMED"]
  BY DEF LoginFinish, PasskeyFinish, TotpAccept, RecoveryAccept, ChallengeConsumed, ReadyToFinish,
         Opens, history
<1>2. PICK code \in Codes \cup {NoCode} : OpenSession(q, d, code)
  <2>1. ASSUME NEW n \in 1 .. MaxCounter, TotpAccept(q, d, n)
        PROVE  <<factor[req[q].user].secret, n>> \in Codes
    <3>1. req[q].user \in Users /\ n \in 0 .. MaxCounter
      BY <1>0, <2>1, SessionsAssumption DEF TotpAccept, ChallengeConsumed, TypeInv, RequestSound
    <3> QED
      BY <1>0, <3>1, CodeTypes
  <2>2. RecoveryCodes \subseteq Codes
    BY DEF Codes
  <2> QED
    BY <2>1, <2>2 DEF LoginFinish, PasskeyFinish, TotpAccept, RecoveryAccept
<1>3. req[q].kind # "NONE"
  BY <1>1 DEF Opens
<1>4. /\ device'[d].user = req[q].user /\ device'[d].epoch = req[q].read.epoch
      /\ device'[d].era = req[q].era /\ req[q].user \in Users
      /\ \A x \in Devices \ {d} : Kept(x)
  BY <1>0, <1>2, <1>3, OpenSessionWrites
<1>5. DeviceCurrent(d)'
  <2>1. PICK u \in Users : u = req[q].user
    BY <1>4
  <2>2. OpenerCurrent(q) /\ (Clean(u)' => Clean(u))
    BY CleanKept DEF EraInv
  <2> QED
    BY <1>1, <1>4, <2>1, <2>2 DEF DeviceCurrent, OpenerCurrent, Clean
<1>6. \A x \in Requests : req'[x] \in {req[x], NoRequest}
  BY <1>0, <1>2, DoneType DEF OpenSession
<1>7. \A c \in Challenges : challenge'[c].state = "OPEN" => challenge'[c] = challenge[c]
  BY <1>0, <1>1 DEF Challenge
<1> QED
  BY <1>1, <1>4, <1>5, <1>6, <1>7, EraQuiet

\* The other steps that end nothing: a challenge is issued for the present events,
\* or the account counts as spared.
LEMMA EraOthers ==
  ASSUME EraInv, TypeInv', Forward,
         \/ \E q \in Requests :
              \/ \E c \in Challenges : LoginChallenge(q, c)
              \/ LoginWithoutFactor(q) \/ TotpRefused(q) \/ Abandon(q)
              \/ BeginTotp(q) \/ \E t \in Resets : CreateReset(q, t)
              \/ \E d \in Devices : RevokeOwnDevice(q, d)
              \/ Logout(q) \/ RevokeOtherDevices(q) \/ RevokeAllDevices(q)
         \/ \E u \in Users : \/ AdminRevokeDevices(u)
                             \/ \E r \in Roles : GrantRole(u, r) \/ RevokePending(u, r)
         \/ \E d \in Devices : DeviceEnds(d)
  PROVE  EraInv'
<1>0. TypeInv /\ challenge \in [Challenges -> Challenge] /\ spared \in [Users -> BOOLEAN]
  BY DEF EraInv, TypeInv, TypeOK
<1>1. ASSUME NEW q \in Requests, NEW c \in Challenges, LoginChallenge(q, c)
      PROVE  EraInv'
  <2>1. PICK u \in Users : u = req[q].user
    BY <1>0, <1>1 DEF LoginChallenge, ReadyToFinish, TypeInv, RequestSound
  <2> DEFINE s == spared[u] \/ req[q].era # era[u]
  <2>2. /\ UNCHANGED <<era>> /\ UNCHANGED <<device>> /\ Done(q)
        /\ challenge' = [challenge EXCEPT ![c] = [user |-> u, era |-> req[q].era, state |-> "OPEN"]]
        /\ spared' = [spared EXCEPT ![u] = s]
    BY <1>1, <2>1 DEF LoginChallenge
  <2>3. spared'[u] = s
    BY <1>0, <2>2
  <2>4. challenge'[c].user = u /\ challenge'[c].era = req[q].era
    BY <1>0, <2>2
  <2>5. ~spared'[u] => req[q].era = era[u]
    BY <2>3
  <2> HIDE DEF s
  <2>6. ChallengeCurrent(c)'
    BY <2>2, <2>4, <2>5 DEF ChallengeCurrent, Clean
  <2>7. \A x \in Challenges \ {c} : challenge'[x] = challenge[x]
    BY <1>0, <2>2
  <2>8. \A d \in Devices : Kept(d)
    BY <2>2 DEF Kept
  <2>9. \A x \in Requests : req'[x] \in {req[x], NoRequest}
    BY <1>0, <2>2, DoneType
  <2> QED
    BY <2>2, <2>6, <2>7, <2>8, <2>9, EraQuiet
<1>2. ASSUME UNCHANGED <<era>>, \A x \in Requests : req'[x] \in {req[x], NoRequest},
             \A c \in Challenges : challenge'[c].state = "OPEN" => challenge'[c] = challenge[c],
             \A d \in Devices : Kept(d)
      PROVE  EraInv'
  BY <1>2, EraQuiet
<1>3. ASSUME NEW q \in Requests,
             \/ LoginWithoutFactor(q) \/ TotpRefused(q) \/ Abandon(q)
             \/ BeginTotp(q) \/ \E t \in Resets : CreateReset(q, t)
      PROVE  EraInv'
  <2>1. /\ UNCHANGED <<era>> /\ UNCHANGED <<device>> /\ Done(q)
        /\ \/ UNCHANGED challenge
           \/ challenge' = [challenge EXCEPT ![req[q].challenge].state = "CONSUMED"]
    BY <1>3 DEF LoginWithoutFactor, TotpRefused, ChallengeConsumed, Abandon, BeginTotp, CreateReset,
                history, rows
  <2>2. \A c \in Challenges : challenge'[c].state = "OPEN" => challenge'[c] = challenge[c]
    BY <1>0, <2>1 DEF Challenge
  <2>3. \A d \in Devices : Kept(d)
    BY <2>1 DEF Kept
  <2>4. \A x \in Requests : req'[x] \in {req[x], NoRequest}
    BY <1>0, <2>1, DoneType
  <2> QED
    BY <1>2, <2>1, <2>2, <2>3, <2>4
<1>4. ASSUME NEW ds, device' = Revoked(ds),
             \A x \in Requests : req'[x] \in {req[x], NoRequest},
             UNCHANGED <<user, grant, challenge, reset, factor, history>>
      PROVE  EraInv'
  BY <1>0, <1>2, <1>4, RevokedKept DEF history
<1>5. ASSUME NEW q \in Requests, NEW ds, RevokeDevices(q, ds)
      PROVE  EraInv'
  BY <1>0, <1>4, <1>5, DoneType DEF RevokeDevices
<1>6. ASSUME NEW q \in Requests,
             \/ \E d \in Devices : RevokeOwnDevice(q, d)
             \/ Logout(q) \/ RevokeOtherDevices(q) \/ RevokeAllDevices(q)
      PROVE  EraInv'
  BY <1>5, <1>6 DEF RevokeOwnDevice, Logout, RevokeOtherDevices, RevokeAllDevices
<1>7. ASSUME (\E u \in Users : AdminRevokeDevices(u)) \/ \E d \in Devices : DeviceEnds(d)
      PROVE  EraInv'
  BY <1>4, <1>7 DEF AdminRevokeDevices, DeviceEnds
<1>8. ASSUME NEW u \in Users, NEW r \in Roles, GrantRole(u, r) \/ RevokePending(u, r)
      PROVE  EraInv'
  <2>1. /\ UNCHANGED <<era>> /\ UNCHANGED <<device, req>> /\ challenge' = ChallengesConsumed(u)
    BY <1>8 DEF GrantRole, RevokePending, ArtifactsRevoked, history
  <2>2. \A c \in Challenges : challenge'[c].state = "OPEN" => challenge'[c] = challenge[c]
    BY <1>0, <2>1, ChallengesConsumedType DEF TypeInv
  <2>3. \A d \in Devices : Kept(d)
    BY <2>1 DEF Kept
  <2> QED
    BY <1>2, <2>1, <2>2, <2>3
<1> QED
  BY <1>1, <1>3, <1>6, <1>7, <1>8

\* An event that leaves the pending sign-ins spares their challenges, and says so;
\* an event that consumes them leaves none.
LEMMA EraEnding ==
  ASSUME EraInv, TypeInv', Forward, NEW u \in Users, NEW e, NEW leavesPending \in BOOLEAN,
         Ends(u, e, leavesPending),
         \/ leavesPending /\ UNCHANGED challenge
         \/ challenge' = ChallengesConsumed(u),
         \A q \in Requests : req'[q] \in {req[q], NoRequest} \/ OpenerCurrent(q)',
         \A d \in Devices : Kept(d) \/ DeviceCurrent(d)'
  PROVE  EraInv'
<1>0. TypeInv /\ TypeOK
  BY DEF EraInv, TypeInv
<1>1. /\ leavesPending /\ Pending(u) => spared'[u]
      /\ \A x \in Users \ {u} : era'[x] = era[x]
  BY <1>0, EndsType
<1>2. ASSUME NEW c \in Challenges, challenge'[c].state = "OPEN"
      PROVE  /\ challenge'[c] = challenge[c]
             /\ \/ era'[challenge[c].user] = era[challenge[c].user]
                \/ spared'[challenge[c].user]
  <2>1. challenge'[c] = challenge[c]
    BY <1>0, <1>2, ChallengesConsumedType
  <2>2. PICK x \in Users : x = challenge[c].user
    BY <1>0, <1>2, <2>1, FieldTypes DEF TypeInv, ArtifactsSound, Challenge
  <2>3. CASE x # u
    BY <1>1, <2>1, <2>2, <2>3
  <2>4. CASE x = u
    <3>1. CASE challenge' = ChallengesConsumed(u)
      <4>1. ChallengesConsumed(u)[c].state = "OPEN" => challenge[c].user # u
        BY <1>0, ChallengesConsumedType
      <4> QED
        BY <1>2, <2>2, <2>4, <3>1, <4>1
    <3>2. CASE leavesPending
      <4>1. Pending(u)
        BY <1>2, <2>1, <2>2, <2>4 DEF Pending
      <4> QED
        BY <1>1, <2>1, <2>2, <2>4, <3>2, <4>1
    <3> QED
      BY <3>1, <3>2
  <2> QED
    BY <2>3, <2>4
<1> QED
  BY <1>2, EraAssembled

LEMMA EraSecurityChange ==
  ASSUME EraInv, TypeInv', Forward, NEW q \in Requests, NEW atOnce \in BOOLEAN,
         SecurityChange(q, Seen(q, atOnce))
  PROVE  EraInv'
<1>0. TypeInv /\ TypeOK
  BY DEF EraInv, TypeInv
<1>1. PICK u \in Users, d \in Devices :
        u = req[q].user /\ d = req[q].device /\ device[d].user = u
  BY <1>0, SeenType DEF SecurityChange
<1>2. PICK e : e = Seen(q, atOnce).epoch
  OBVIOUS
<1>3. /\ Ends(u, e, TRUE) /\ Done(q) /\ UNCHANGED challenge
      /\ device' = [Revoked(Live(u) \ {d}) EXCEPT ![d].epoch = e + 1, ![d].era = era[u] + 1]
  BY <1>1, <1>2 DEF SecurityChange
<1>4. /\ Revoked(Live(u) \ {d}) \in [Devices -> Device]
      /\ \A x \in Devices :
           /\ Revoked(Live(u) \ {d})[x].user = device[x].user
           /\ Revoked(Live(u) \ {d})[x].epoch = device[x].epoch
           /\ Revoked(Live(u) \ {d})[x].era = device[x].era
           /\ Revoked(Live(u) \ {d})[x].code = device[x].code
  BY <1>0, RevokedType
<1>5. \A x \in Devices \ {d} : Kept(x)
  BY <1>3, <1>4 DEF Kept
<1>6. device'[d].user = u /\ device'[d].epoch = e + 1 /\ device'[d].era = era[u] + 1
  <2>1. PICK old \in [Devices -> Device] : old = Revoked(Live(u) \ {d}) /\ old[d].user = u
    BY <1>1, <1>4
  <2>2. /\ old[d] \in Device
        /\ device'[d] = [[old[d] EXCEPT !.epoch = e + 1] EXCEPT !.era = era[u] + 1]
    BY <1>3, <2>1
  <2> QED
    BY <2>1, <2>2 DEF Device
<1>7. ~overlapped'[u] => e = user[u].epoch /\ user[u].epoch = era[u] + 1
  BY <1>0, <1>3, EndsType DEF TypeInv, UserSound
<1>8. DeviceCurrent(d)'
  BY <1>6, <1>7 DEF DeviceCurrent, Clean
<1>9. \A x \in Requests : req'[x] \in {req[x], NoRequest}
  BY <1>0, <1>3, DoneType
<1> QED
  BY <1>3, <1>5, <1>8, <1>9, EraEnding

LEMMA EraEnds ==
  ASSUME EraInv, TypeInv', Forward,
         \/ \E q \in Requests, atOnce, strong \in BOOLEAN : UpdateCredential(q, atOnce, strong)
         \/ \E u \in Users : \/ \E s \in {"ACTIVE", "DISABLED"} : SetStatus(u, s)
                             \/ \E r \in Roles : RevokeActive(u, r)
         \/ \E strong \in BOOLEAN : \/ \E u \in Users : CliReset(u, strong)
                                    \/ \E t \in Resets : ConsumeReset(t, strong)
  PROVE  EraInv'
<1>0. TypeInv /\ TypeOK
  BY DEF EraInv, TypeInv
<1>1. ASSUME NEW u \in Users, NEW ds, NEW e, device' = Revoked(ds), Ends(u, e, FALSE),
             challenge' = ChallengesConsumed(u), UNCHANGED req
      PROVE  EraInv'
  BY <1>0, <1>1, RevokedKept, EraEnding
<1>2. ASSUME NEW u \in Users,
             \/ \E s \in {"ACTIVE", "DISABLED"} : SetStatus(u, s)
             \/ \E r \in Roles : RevokeActive(u, r)
      PROVE  EraInv'
  <2>1. EndedBy(u) /\ UNCHANGED req
    BY <1>2 DEF SetStatus, RevokeActive
  <2> QED
    BY <1>1, <2>1 DEF EndedBy, ArtifactsRevoked
<1>3. ASSUME NEW u \in Users, NEW strong \in BOOLEAN, NewCredential(u, strong), UNCHANGED req
      PROVE  EraInv'
  BY <1>1, <1>3 DEF NewCredential
<1>4. ASSUME NEW strong \in BOOLEAN, NEW u \in Users, CliReset(u, strong)
      PROVE  EraInv'
  BY <1>3, <1>4 DEF CliReset
<1>5. ASSUME NEW strong \in BOOLEAN, NEW t \in Resets, ConsumeReset(t, strong)
      PROVE  EraInv'
  <2>1. reset[t].user \in Users
    BY <1>0, <1>5, FieldTypes DEF ConsumeReset, TypeInv, ArtifactsSound, Reset
  <2> QED
    BY <1>3, <1>5, <2>1 DEF ConsumeReset
<1>6. ASSUME NEW q \in Requests, NEW atOnce \in BOOLEAN, NEW strong \in BOOLEAN,
             UpdateCredential(q, atOnce, strong)
      PROVE  EraInv'
  <2>1. PICK u \in Users : u = req[q].user
    BY <1>0, <1>6, SeenType DEF UpdateCredential
  <2>2. /\ Ends(u, req[q].read.epoch, TRUE) /\ device' = Revoked(Live(u)) /\ Done(q)
        /\ UNCHANGED challenge
    BY <1>6, <2>1 DEF UpdateCredential
  <2> QED
    BY <1>0, <2>2, RevokedKept, DoneType, EraEnding
<1> QED
  BY <1>2, <1>4, <1>5, <1>6

LEMMA EraLoginActivate ==
  ASSUME EraInv, TypeInv', Forward, NEW q \in Requests, LoginActivate(q)
  PROVE  EraInv'
<1>0. TypeInv /\ TypeOK
  BY DEF EraInv, TypeInv
<1>1. PICK u \in Users : u = req[q].user
  BY <1>0 DEF LoginActivate, TypeInv, RequestSound
<1>2. PICK e : e = req[q].read.epoch
  OBVIOUS
<1>3. /\ Ends(u, e, FALSE) /\ challenge' = ChallengesConsumed(u) /\ UNCHANGED device
      /\ req' = [req EXCEPT ![q].kind = "ACTIVATED", ![q].read.epoch = e + 1,
                            ![q].era = era[u] + 1]
  BY <1>1, <1>2 DEF LoginActivate, ArtifactsRevoked
<1>4. req[q] \in Request /\ req[q].read \in ReadSet
  BY <1>0, FieldTypes DEF Request
<1>5. /\ req'[q].user = u /\ req'[q].read.epoch = e + 1 /\ req'[q].era = era[u] + 1
      /\ \A x \in Requests \ {q} : req'[x] = req[x]
  BY <1>0, <1>1, <1>3, <1>4 DEF TypeOK, Request, ReadSet
<1>6. ~overlapped'[u] => e = user[u].epoch /\ user[u].epoch = era[u] + 1
  BY <1>0, <1>3, EndsType DEF TypeInv, UserSound
<1>7. OpenerCurrent(q)'
  BY <1>5, <1>6 DEF OpenerCurrent, Clean
<1>8. \A d \in Devices : Kept(d)
  BY <1>3 DEF Kept
<1> QED
  BY <1>3, <1>5, <1>7, <1>8, EraEnding

\* Every step keeps what sessions and their openers know of the events.
LEMMA EraStep ==
  ASSUME EraInv, [Next]_vars
  PROVE  EraInv'
<1>0. TypeInv' /\ Forward
  BY TypeStep DEF EraInv
<1>1. CASE SignIn
  <2>1. PICK q \in Requests :
          \/ \E u \in Users : LoginRead(q, u) \/ PasskeyRead(q, u)
          \/ LoginActivate(q) \/ LoginWithoutFactor(q) \/ TotpRefused(q) \/ Abandon(q)
          \/ \E c \in Challenges : LoginChallenge(q, c) \/ TotpRead(q, c)
          \/ \E d \in Devices :
               \/ LoginFinish(q, d) \/ PasskeyFinish(q, d)
               \/ \E n \in 1 .. MaxCounter : TotpAccept(q, d, n)
               \/ \E c \in RecoveryCodes : RecoveryAccept(q, d, c)
    BY <1>1 DEF SignIn
  <2> QED
    BY <1>0, <2>1, EraReads, EraLoginActivate, EraOthers, EraSignIn
<1>2. CASE FromSession
  <2>1. PICK q \in Requests :
          \/ \E d \in Devices : Enter(q, d) \/ RevokeOwnDevice(q, d)
          \/ RouteReads(q)
          \/ Logout(q) \/ RevokeOtherDevices(q) \/ RevokeAllDevices(q) \/ BeginTotp(q)
          \/ \E atOnce \in BOOLEAN :
               \/ \E strong \in BOOLEAN : UpdateCredential(q, atOnce, strong)
               \/ RegisterPasskey(q, atOnce) \/ RemovePasskey(q, atOnce)
               \/ \E n \in 1 .. MaxCounter : ConfirmTotp(q, atOnce, n)
               \/ RegenerateCodes(q, atOnce) \/ RemoveCodes(q, atOnce)
               \/ DisableTotp(q, atOnce)
    BY <1>2 DEF FromSession
  <2>2. ASSUME NEW atOnce \in BOOLEAN,
               \/ RegisterPasskey(q, atOnce) \/ RemovePasskey(q, atOnce)
               \/ \E n \in 1 .. MaxCounter : ConfirmTotp(q, atOnce, n)
               \/ RegenerateCodes(q, atOnce) \/ RemoveCodes(q, atOnce)
               \/ DisableTotp(q, atOnce)
        PROVE  EraInv'
    <3>1. SecurityChange(q, Seen(q, atOnce))
      BY <2>2 DEF RegisterPasskey, RemovePasskey, ConfirmTotp, RegenerateCodes, RemoveCodes,
                  DisableTotp
    <3> QED
      BY <1>0, <3>1, EraSecurityChange
  <2> QED
    BY <1>0, <2>1, <2>2, EraReads, EraOthers, EraEnds
<1>3. CASE ByOthers
  BY <1>0, <1>3, EraReads, EraOthers, EraEnds DEF ByOthers
<1>4. CASE UNCHANGED vars
  <2>1. /\ UNCHANGED <<era>> /\ UNCHANGED <<req, challenge, device>>
    BY <1>4 DEF vars, rows, history
  <2> QED
    BY <1>0, <2>1, EraQuiet DEF Kept
<1> QED
  BY <1>1, <1>2, <1>3, <1>4 DEF Next

\* A session that is accepted was opened after the last event that ends the
\* account's sessions (resolve_device compares the epochs), unless an epoch was
\* computed from an overtaken attribute or a challenge outlived the event.
THEOREM SessionsAlwaysEnd == Spec => []SessionsEnd
<1>1. Init => EraInv
  <2>1. ASSUME Init
        PROVE  EraInv
    BY <2>1, TypeInit DEF Init, EraInv, OpenerCurrent, ChallengeCurrent, DeviceCurrent, Opens,
                          NoRequest, NoSession
  <2> QED
    BY <2>1
<1>2. EraInv /\ [Next]_vars => EraInv'
  BY EraStep
<1>3. EraInv => SessionsEnd
  <2>1. ASSUME EraInv, NEW d \in Devices, Accepted(d)
        PROVE  \/ device[d].era = era[device[d].user]
               \/ overlapped[device[d].user]
               \/ spared[device[d].user]
    <3>1. device[d] \in Device /\ DeviceCurrent(d)
      BY <2>1, FieldTypes DEF EraInv, TypeInv
    <3>2. PICK u \in Users : u = device[d].user
      BY <2>1, <3>1 DEF Accepted, Device
    <3>3. UserSound(u) /\ era[u] \in Nat /\ device[d].era \in Nat
      BY <2>1, <3>1 DEF EraInv, TypeInv, TypeOK, Device
    <3>4. device[d].epoch = user[u].epoch /\ u # NoUser
      BY <2>1, <3>2, SessionsAssumption DEF Accepted
    <3>5. ASSUME ~overlapped[u], ~spared[u]
          PROVE  device[d].era = era[u]
      <4>1. device[d].epoch = device[d].era + 1
        BY <3>1, <3>2, <3>4, <3>5 DEF DeviceCurrent, Clean
      <4>2. user[u].epoch = era[u] + 1
        BY <3>3, <3>5 DEF UserSound
      <4>3. PICK a \in Nat, b \in Nat : a = device[d].era /\ b = era[u]
        BY <3>3
      <4>4. a + 1 = b + 1
        BY <3>4, <4>1, <4>2, <4>3, Zenon
      <4> QED
        BY <4>3, <4>4
    <3> QED
      BY <3>2, <3>5
  <2> QED
    BY <2>1 DEF SessionsEnd
<1> QED
  BY <1>1, <1>2, <1>3, PTL DEF Spec

-----------------------------------------------------------------------------
(* One session per code: a code that opened a session stays spent.         *)

\* A factor never goes back: a later enrolment or a later counter, codes issued
\* once, a used code never usable again.
FactorForward(u) ==
  /\ \/ factor[u].secret < factor'[u].secret
     \/ factor[u].secret = factor'[u].secret /\ factor[u].last <= factor'[u].last
  /\ factor[u].issued \subseteq factor'[u].issued
  /\ factor'[u].codes \subseteq factor'[u].issued
  /\ factor'[u].codes \cap factor[u].issued \subseteq factor[u].codes

CodeKept(d) == device'[d].user = device[d].user /\ device'[d].code = device[d].code

LEMMA SpentStays ==
  ASSUME TypeInv, TypeInv', NEW u \in Users, FactorForward(u), NEW code, Spent(u, code)
  PROVE  Spent(u, code)'
<1>1. factor[u] \in Factor /\ factor'[u] \in Factor
  BY DEF TypeInv, TypeOK
<1>2. CASE code \in factor[u].issued \ factor[u].codes
  BY <1>2 DEF Spent, FactorForward
<1>3. ASSUME NEW s \in 0 .. MaxSecret, NEW c \in 0 .. MaxCounter, code = <<s, c>>,
             s < factor[u].secret \/ (s = factor[u].secret /\ c <= factor[u].last)
      PROVE  Spent(u, code)'
  <2>1. PICK a \in 0 .. MaxSecret, b \in 0 .. MaxSecret, m \in 0 .. MaxCounter,
             n \in 0 .. MaxCounter :
          a = factor[u].secret /\ b = factor'[u].secret /\ m = factor[u].last /\ n = factor'[u].last
    BY <1>1 DEF Factor
  <2>2. s < b \/ (s = b /\ c <= n)
    BY <1>3, <2>1, SessionsAssumption DEF FactorForward
  <2> QED
    BY <1>3, <2>1, <2>2 DEF Spent
<1> QED
  BY <1>2, <1>3 DEF Spent

LEMMA CodeOpens ==
  ASSUME CodeInv, TypeInv', \A u \in Users : FactorForward(u),
         NEW d \in Devices, \A x \in Devices \ {d} : CodeKept(x),
         \/ CodeKept(d)
         \/ device'[d].code = NoCode
         \/ /\ device'[d].user \in Users
            /\ ~Spent(device'[d].user, device'[d].code)
            /\ \E u \in Users : \E code : u = device'[d].user /\ code = device'[d].code /\ Spent(u, code)'
  PROVE  CodeInv'
<1>0. TypeInv
  BY DEF CodeInv
<1>1. \A u \in Users : (factor[u].codes \subseteq factor[u].issued)'
  BY DEF FactorForward
<1>2. ASSUME NEW x \in Devices, CodeKept(x), device'[x].code # NoCode
      PROVE  device'[x].user # NoUser /\ Spent(device[x].user, device[x].code)'
  <2>1. device[x].user # NoUser /\ Spent(device[x].user, device[x].code)
    BY <1>2 DEF CodeInv, CodeKept
  <2>2. PICK u \in Users : \E code : u = device[x].user /\ code = device[x].code
    BY <1>0, <2>1, FieldTypes DEF TypeInv, Device
  <2>3. PICK code : u = device[x].user /\ code = device[x].code
    BY <2>2
  <2>4. Spent(u, code)'
    BY <1>0, <2>1, <2>3, SpentStays
  <2>5. device'[x].user = u /\ device'[x].code = code
    BY <1>2, <2>3 DEF CodeKept
  <2> QED
    BY <2>1, <2>3, <2>4, <2>5
<1>3. ASSUME NEW x \in Devices, (device[x].code # NoCode)'
      PROVE  (device[x].user # NoUser /\ Spent(device[x].user, device[x].code))'
  <2>1. CASE CodeKept(x)
    BY <1>2, <1>3, <2>1
  <2>2. CASE ~CodeKept(x)
    <3>1. x = d
      BY <2>2
    <3>2. PICK u \in Users : \E code : /\ u = device'[x].user /\ code = device'[x].code
                                       /\ Spent(u, code)'
      BY <1>3, <2>2, <3>1
    <3>3. PICK code : /\ u = device'[x].user /\ code = device'[x].code /\ Spent(u, code)'
      BY <3>2
    <3> QED
      BY <3>3, SessionsAssumption
  <2> QED
    BY <2>1, <2>2
<1>4. ASSUME NEW x \in Devices \ {d}, device'[d].code # NoCode,
             device'[d].user = device'[x].user, device'[d].code = device'[x].code
      PROVE  FALSE
  <2>1. device[x].code = device'[d].code /\ device[x].user = device'[d].user
    BY <1>4 DEF CodeKept
  <2>2. Spent(device[x].user, device[x].code)
    BY <1>4, <2>1 DEF CodeInv
  <2>3. CASE CodeKept(d)
    BY <1>4, <2>1, <2>3 DEF CodeInv, OneSessionPerCode, CodeKept
  <2> QED
    BY <1>4, <2>1, <2>2, <2>3
<1>5. OneSessionPerCode'
  <2>1. ASSUME NEW x \in Devices, NEW y \in Devices, device'[x].code # NoCode,
               device'[x].user = device'[y].user, device'[x].code = device'[y].code
        PROVE  x = y
    <3>1. CASE x # d /\ y # d
      BY <2>1, <3>1 DEF CodeInv, OneSessionPerCode, CodeKept
    <3>2. CASE x = d /\ y # d
      BY <1>4, <2>1, <3>2
    <3>3. CASE x # d /\ y = d
      BY <1>4, <2>1, <3>3
    <3> QED
      BY <3>1, <3>2, <3>3
  <2> QED
    BY <2>1 DEF OneSessionPerCode
<1> QED
  BY <1>1, <1>3, <1>5 DEF CodeInv

\* No session opens with a code.
LEMMA CodeQuiet ==
  ASSUME CodeInv, TypeInv', \A u \in Users : FactorForward(u), \A d \in Devices : CodeKept(d)
  PROVE  CodeInv'
<1>1. CASE Devices = {}
  BY <1>1 DEF CodeInv, FactorForward, OneSessionPerCode
<1>2. CASE Devices # {}
  BY <1>2, CodeOpens
<1> QED
  BY <1>1, <1>2

LEMMA FactorKept ==
  ASSUME CodeInv, UNCHANGED factor
  PROVE  \A u \in Users : FactorForward(u)
<1>1. \A u \in Users : factor[u].last \in Nat
  BY FieldTypes, SessionsAssumption DEF CodeInv, TypeInv, Factor
<1> QED
  BY <1>1 DEF CodeInv, FactorForward

LEMMA FactorChanged ==
  ASSUME CodeInv, NEW u \in Users, NEW row \in Factor, factor' = [factor EXCEPT ![u] = row],
         \/ factor[u].secret < row.secret
         \/ factor[u].secret = row.secret /\ factor[u].last <= row.last,
         factor[u].issued \subseteq row.issued, row.codes \subseteq row.issued,
         row.codes \cap factor[u].issued \subseteq factor[u].codes
  PROVE  factor'[u] = row /\ \A x \in Users : FactorForward(x)
<1>1. /\ factor'[u] = row
      /\ \A x \in Users \ {u} : factor'[x] = factor[x]
      /\ \A x \in Users : factor[x].last \in Nat
  BY FieldTypes, SessionsAssumption DEF CodeInv, TypeInv, TypeOK, Factor
<1> QED
  BY <1>1 DEF CodeInv, FactorForward

\* The steps that touch no factor and open no session.
LEMMA RowsKept ==
  ASSUME TypeInv, NEW q \in Requests,
         \/ \E u \in Users : LoginRead(q, u) \/ PasskeyRead(q, u) \/ ResetRead(q, u)
         \/ \E c \in Challenges : TotpRead(q, c) \/ LoginChallenge(q, c)
         \/ RouteReads(q) \/ \E d \in Devices : Enter(q, d) \/ RevokeOwnDevice(q, d)
         \/ \E t \in Resets : CreateReset(q, t)
         \/ LoginActivate(q) \/ LoginWithoutFactor(q) \/ TotpRefused(q) \/ Abandon(q)
         \/ Logout(q) \/ RevokeOtherDevices(q) \/ RevokeAllDevices(q)
         \/ \E atOnce, strong \in BOOLEAN : UpdateCredential(q, atOnce, strong)
  PROVE  UNCHANGED factor /\ \A d \in Devices : Kept(d)
<1>1. ASSUME \/ UNCHANGED <<device, factor>>
             \/ UNCHANGED factor /\ \E ds : device' = Revoked(ds)
      PROVE  UNCHANGED factor /\ \A d \in Devices : Kept(d)
  BY <1>1, RevokedKept DEF Kept
<1>2. ASSUME NEW ds, RevokeDevices(q, ds)
      PROVE  UNCHANGED factor /\ \A d \in Devices : Kept(d)
  BY <1>1, <1>2 DEF RevokeDevices
<1>3. CASE \/ \E u \in Users : LoginRead(q, u) \/ PasskeyRead(q, u) \/ ResetRead(q, u)
           \/ \E c \in Challenges : TotpRead(q, c) \/ LoginChallenge(q, c)
           \/ RouteReads(q) \/ \E d \in Devices : Enter(q, d)
           \/ \E t \in Resets : CreateReset(q, t)
           \/ LoginActivate(q) \/ LoginWithoutFactor(q) \/ TotpRefused(q) \/ Abandon(q)
  BY <1>1, <1>3 DEF LoginRead, PasskeyRead, ResetRead, TotpRead, LoginChallenge, Enter, RouteReads,
                    CreateReset, LoginActivate, LoginWithoutFactor, TotpRefused, Abandon, rows
<1>4. CASE \/ \E d \in Devices : RevokeOwnDevice(q, d)
           \/ Logout(q) \/ RevokeOtherDevices(q) \/ RevokeAllDevices(q)
  BY <1>2, <1>4 DEF RevokeOwnDevice, Logout, RevokeOtherDevices, RevokeAllDevices
<1>5. CASE \E atOnce, strong \in BOOLEAN : UpdateCredential(q, atOnce, strong)
  BY <1>1, <1>5 DEF UpdateCredential
<1> QED
  BY <1>3, <1>4, <1>5

LEMMA RowsKeptByOthers ==
  ASSUME TypeInv, ByOthers
  PROVE  UNCHANGED factor /\ \A d \in Devices : Kept(d)
<1>1. ASSUME \/ UNCHANGED <<device, factor>>
             \/ UNCHANGED factor /\ \E ds : device' = Revoked(ds)
      PROVE  UNCHANGED factor /\ \A d \in Devices : Kept(d)
  BY <1>1, RevokedKept DEF Kept
<1>2. CASE \E d \in Devices : DeviceEnds(d)
  BY <1>1, <1>2 DEF DeviceEnds
<1>3. ASSUME NEW u \in Users, AdminRevokeDevices(u)
      PROVE  UNCHANGED factor /\ \A d \in Devices : Kept(d)
  BY <1>1, <1>3 DEF AdminRevokeDevices
<1>4. ASSUME NEW u \in Users, \/ \E s \in {"ACTIVE", "DISABLED"} : SetStatus(u, s)
                              \/ \E r \in Roles : RevokeActive(u, r)
      PROVE  UNCHANGED factor /\ \A d \in Devices : Kept(d)
  BY <1>1, <1>4 DEF SetStatus, RevokeActive, EndedBy
<1>5. ASSUME NEW strong \in BOOLEAN,
             \/ \E u \in Users : CliReset(u, strong)
             \/ \E t \in Resets : ConsumeReset(t, strong)
      PROVE  UNCHANGED factor /\ \A d \in Devices : Kept(d)
  BY <1>1, <1>5 DEF CliReset, ConsumeReset, NewCredential
<1>6. ASSUME NEW u \in Users, NEW r \in Roles, GrantRole(u, r) \/ RevokePending(u, r)
      PROVE  UNCHANGED factor /\ \A d \in Devices : Kept(d)
  BY <1>1, <1>6 DEF GrantRole, RevokePending
<1> QED
  BY <1>2, <1>3, <1>4, <1>5, <1>6, RowsKept DEF ByOthers

LEMMA CodeSignIn ==
  ASSUME CodeInv, TypeInv', NEW q \in Requests, NEW d \in Devices,
         \/ LoginFinish(q, d) \/ PasskeyFinish(q, d)
         \/ \E n \in 1 .. MaxCounter : TotpAccept(q, d, n)
         \/ \E c \in RecoveryCodes : RecoveryAccept(q, d, c)
  PROVE  CodeInv'
<1>0. TypeInv
  BY DEF CodeInv
<1>1. CASE LoginFinish(q, d) \/ PasskeyFinish(q, d)
  <2>1. OpenSession(q, d, NoCode) /\ UNCHANGED factor /\ req[q].kind # "NONE"
    BY <1>1 DEF LoginFinish, PasskeyFinish, ReadyToFinish
  <2>2. device'[d].code = NoCode /\ \A x \in Devices \ {d} : Kept(x)
    BY <1>0, <2>1, OpenSessionWrites
  <2> QED
    BY <2>1, <2>2, FactorKept, CodeOpens DEF Kept, CodeKept
<1>2. ASSUME NEW n \in 1 .. MaxCounter, TotpAccept(q, d, n)
      PROVE  CodeInv'
  <2>1. PICK u \in Users : u = req[q].user
    BY <1>0, <1>2 DEF TotpAccept, ChallengeConsumed, TypeInv, RequestSound
  <2>2. PICK code : code = <<factor[u].secret, n>>
    OBVIOUS
  <2>3. n \in 0 .. MaxCounter /\ factor[u] \in Factor
    BY <1>0, FieldTypes, SessionsAssumption DEF TypeInv
  <2>4. /\ n > factor[u].last /\ factor' = [factor EXCEPT ![u] = [factor[u] EXCEPT !.last = n]]
        /\ OpenSession(q, d, code) /\ req[q].kind # "NONE"
    BY <1>2, <2>1, <2>2 DEF TotpAccept, FreshCounter, ChallengeConsumed
  <2>5. PICK row \in Factor : row = [factor[u] EXCEPT !.last = n]
    BY <2>3 DEF Factor
  <2>6. /\ row.secret = factor[u].secret /\ row.last = n /\ row.codes = factor[u].codes
        /\ row.issued = factor[u].issued
    BY <2>3, <2>5 DEF Factor
  <2>7. factor'[u] = row /\ \A x \in Users : FactorForward(x)
    <3>1. factor[u].last <= row.last
      BY <2>3, <2>4, <2>6, SessionsAssumption DEF Factor
    <3>2. factor' = [factor EXCEPT ![u] = row] /\ factor[u].codes \subseteq factor[u].issued
      BY <2>4, <2>5 DEF CodeInv
    <3> QED
      BY <2>6, <3>1, <3>2, FactorChanged
  <2>8. code \in Codes
    BY <1>0, <2>2, <2>3, CodeTypes
  <2>9. /\ device'[d].user = u /\ device'[d].code = code
        /\ \A x \in Devices \ {d} : Kept(x)
    BY <1>0, <2>1, <2>4, <2>8, OpenSessionWrites
  <2>10. ~Spent(u, code)
    <3>1. code \notin factor[u].issued
      BY <2>2, <2>3, SessionsAssumption DEF Factor
    <3>2. factor[u].secret \in Int /\ factor[u].last \in Int /\ n \in Int
      BY <2>3, SessionsAssumption DEF Factor
    <3>3. ASSUME NEW s \in 0 .. MaxSecret, NEW c \in 0 .. MaxCounter, code = <<s, c>>
          PROVE  ~(s < factor[u].secret \/ (s = factor[u].secret /\ c <= factor[u].last))
      <4>1. s = factor[u].secret /\ c = n
        BY <2>2, <3>3
      <4> QED
        BY <2>4, <3>2, <4>1
    <3> QED
      BY <3>1, <3>3 DEF Spent
  <2>11. Spent(u, code)'
    <3>1. factor[u].secret \in 0 .. MaxSecret
      BY <2>3 DEF Factor
    <3>2. factor'[u].secret = factor[u].secret /\ factor'[u].last = n
      BY <2>6, <2>7
    <3> QED
      BY <2>2, <2>3, <3>1, <3>2 DEF Spent
  <2> QED
    BY <2>7, <2>9, <2>10, <2>11, CodeOpens DEF Kept, CodeKept
<1>3. ASSUME NEW c \in RecoveryCodes, RecoveryAccept(q, d, c)
      PROVE  CodeInv'
  <2>1. PICK u \in Users : u = req[q].user
    BY <1>0, <1>3 DEF RecoveryAccept, ChallengeConsumed, TypeInv, RequestSound
  <2>2. /\ c \in factor[u].codes /\ OpenSession(q, d, c) /\ req[q].kind # "NONE"
        /\ factor' = [factor EXCEPT ![u] = [factor[u] EXCEPT !.codes = factor[u].codes \ {c}]]
    BY <1>3, <2>1 DEF RecoveryAccept, UsableCodes, ChallengeConsumed
  <2>3. factor[u] \in Factor /\ factor[u].codes \subseteq factor[u].issued
    BY <1>0, FieldTypes DEF TypeInv, CodeInv
  <2>4. PICK row \in Factor : row = [factor[u] EXCEPT !.codes = factor[u].codes \ {c}]
    BY <2>3 DEF Factor
  <2>5. /\ row.secret = factor[u].secret /\ row.last = factor[u].last
        /\ row.codes = factor[u].codes \ {c} /\ row.issued = factor[u].issued
    BY <2>3, <2>4 DEF Factor
  <2>6. factor'[u] = row /\ \A x \in Users : FactorForward(x)
    <3>1. factor[u].last <= row.last
      BY <2>3, <2>5, SessionsAssumption DEF Factor
    <3> QED
      BY <2>2, <2>3, <2>4, <2>5, <3>1, FactorChanged
  <2>7. /\ device'[d].user = u /\ device'[d].code = c
        /\ \A x \in Devices \ {d} : Kept(x)
    BY <1>0, <2>1, <2>2, CodeTypes, OpenSessionWrites
  <2>8. ~Spent(u, c)
    BY <2>2, SessionsAssumption DEF Spent
  <2>9. Spent(u, c)'
    BY <2>2, <2>3, <2>5, <2>6 DEF Spent
  <2> QED
    BY <2>6, <2>7, <2>8, <2>9, CodeOpens DEF Kept, CodeKept
<1> QED
  BY <1>1, <1>2, <1>3

LEMMA SecurityChangeKeepsCodes ==
  ASSUME TypeInv, NEW q \in Requests, NEW atOnce \in BOOLEAN,
         SecurityChange(q, Seen(q, atOnce))
  PROVE  req[q].user \in Users /\ \A x \in Devices : CodeKept(x)
<1>1. PICK u \in Users, d \in Devices : u = req[q].user /\ d = req[q].device
  BY SeenType DEF SecurityChange
<1>2. PICK e : e = Seen(q, atOnce).epoch
  OBVIOUS
<1>3. PICK old \in [Devices -> Device] :
        /\ old = Revoked(Live(u) \ {d})
        /\ \A x \in Devices : old[x].user = device[x].user /\ old[x].code = device[x].code
  BY RevokedType DEF TypeInv
<1>4. device' = [old EXCEPT ![d] = [[old[d] EXCEPT !.epoch = e + 1] EXCEPT !.era = era[u] + 1]]
  BY <1>1, <1>2, <1>3 DEF SecurityChange
<1>5. old[d] \in Device
  OBVIOUS
<1>6. device'[d].user = old[d].user /\ device'[d].code = old[d].code
  BY <1>4, <1>5 DEF Device
<1> QED
  BY <1>1, <1>3, <1>4, <1>6 DEF CodeKept

\* The codes of generate_recovery_codes were never issued before.
LEMMA NewCodesUnissued ==
  ASSUME NEW u \in Users, NEW cs \in NewCodes(u)
  PROVE  cs \subseteq RecoveryCodes /\ cs \cap factor[u].issued = {}
BY DEF NewCodes

LEMMA CodeFactors ==
  ASSUME CodeInv, TypeInv', NEW q \in Requests, NEW atOnce \in BOOLEAN,
         \/ RegisterPasskey(q, atOnce) \/ RemovePasskey(q, atOnce)
         \/ RegenerateCodes(q, atOnce) \/ RemoveCodes(q, atOnce) \/ DisableTotp(q, atOnce)
         \/ \E n \in 1 .. MaxCounter : ConfirmTotp(q, atOnce, n)
  PROVE  CodeInv'
<1>0. TypeInv /\ SecurityChange(q, Seen(q, atOnce))
  BY DEF CodeInv, RegisterPasskey, RemovePasskey, RegenerateCodes, RemoveCodes, DisableTotp,
         ConfirmTotp
<1>1. PICK u \in Users : u = req[q].user
  BY <1>0, SecurityChangeKeepsCodes
<1>2. /\ factor \in [Users -> Factor] /\ factor[u] \in Factor
      /\ factor[u].codes \subseteq factor[u].issued
      /\ factor[u].last \in Int /\ factor[u].last <= factor[u].last
  BY <1>0, FieldTypes, SessionsAssumption DEF TypeInv, TypeOK, CodeInv, Factor
<1>3. ASSUME NEW row \in Factor, factor' = [factor EXCEPT ![u] = row],
             row.secret = factor[u].secret, factor[u].last <= row.last,
             factor[u].issued \subseteq row.issued, row.codes \subseteq row.issued,
             row.codes \cap factor[u].issued \subseteq factor[u].codes
      PROVE  CodeInv'
  BY <1>0, <1>3, FactorChanged, SecurityChangeKeepsCodes, CodeQuiet
<1>4. CASE RegisterPasskey(q, atOnce) \/ RemovePasskey(q, atOnce)
  <2>1. PICK b \in BOOLEAN : factor' = [factor EXCEPT ![u] = [factor[u] EXCEPT !.passkey = b]]
    BY <1>1, <1>4 DEF RegisterPasskey, RemovePasskey
  <2>2. PICK row \in Factor : row = [factor[u] EXCEPT !.passkey = b]
    BY <1>2 DEF Factor
  <2>3. /\ row.secret = factor[u].secret /\ row.last = factor[u].last
        /\ row.codes = factor[u].codes /\ row.issued = factor[u].issued
    BY <1>2, <2>2 DEF Factor
  <2> QED
    BY <1>2, <1>3, <2>1, <2>2, <2>3
<1>5. CASE RegenerateCodes(q, atOnce)
  <2>1. PICK cs \in NewCodes(u) : factor' = [factor EXCEPT ![u] = WithCodes(factor[u], cs)]
    BY <1>1, <1>5 DEF RegenerateCodes
  <2>2. cs \subseteq RecoveryCodes /\ cs \cap factor[u].issued = {}
    BY <2>1, NewCodesUnissued
  <2>3. PICK row \in Factor : row = WithCodes(factor[u], cs)
    BY <1>2, <2>2 DEF Factor, WithCodes
  <2>4. /\ row.secret = factor[u].secret /\ row.last = factor[u].last
        /\ row.codes = cs /\ row.issued = factor[u].issued \cup cs
    BY <1>2, <2>3 DEF Factor, WithCodes
  <2> QED
    BY <1>2, <1>3, <2>1, <2>2, <2>3, <2>4
<1>6. CASE RemoveCodes(q, atOnce)
  <2>1. PICK row \in Factor : row = [factor[u] EXCEPT !.codes = {}]
    BY <1>2 DEF Factor
  <2>2. factor' = [factor EXCEPT ![u] = row]
    BY <1>1, <1>6, <2>1 DEF RemoveCodes
  <2>3. /\ row.secret = factor[u].secret /\ row.last = factor[u].last
        /\ row.codes = {} /\ row.issued = factor[u].issued
    BY <1>2, <2>1 DEF Factor
  <2> QED
    BY <1>2, <1>3, <2>2, <2>3
<1>7. CASE DisableTotp(q, atOnce)
  <2>1. PICK row \in Factor : row = [factor[u] EXCEPT !.totp = "DISABLED", !.codes = {}]
    BY <1>2 DEF Factor
  <2>2. factor' = [factor EXCEPT ![u] = row]
    BY <1>1, <1>2, <1>7, <2>1 DEF DisableTotp
  <2>3. /\ row.secret = factor[u].secret /\ row.last = factor[u].last
        /\ row.codes = {} /\ row.issued = factor[u].issued
    BY <1>2, <2>1 DEF Factor
  <2> QED
    BY <1>2, <1>3, <2>2, <2>3
<1>8. ASSUME NEW n \in 1 .. MaxCounter, ConfirmTotp(q, atOnce, n)
      PROVE  CodeInv'
  <2>1. PICK cs \in NewCodes(u) :
          factor' = [factor EXCEPT ![u] =
                       [WithCodes(factor[u], cs) EXCEPT !.totp = "ACTIVE", !.last = n]]
    BY <1>1, <1>8 DEF ConfirmTotp
  <2>2. cs \subseteq RecoveryCodes /\ cs \cap factor[u].issued = {}
    BY <2>1, NewCodesUnissued
  <2>3. n \in 0 .. MaxCounter /\ factor[u].last <= n
    <3>1. n > factor[u].last
      BY <1>1, <1>8 DEF ConfirmTotp, FreshCounter
    <3>2. n \in 0 .. MaxCounter /\ factor[u].last \in 0 .. MaxCounter
      BY <1>2, SessionsAssumption DEF Factor
    <3> QED
      BY <3>1, <3>2, SessionsAssumption
  <2>4. PICK coded \in Factor :
          /\ coded = WithCodes(factor[u], cs) /\ coded.secret = factor[u].secret
          /\ coded.codes = cs /\ coded.issued = factor[u].issued \cup cs
    <3>1. /\ WithCodes(factor[u], cs) \in Factor
          /\ WithCodes(factor[u], cs).secret = factor[u].secret
          /\ WithCodes(factor[u], cs).codes = cs
          /\ WithCodes(factor[u], cs).issued = factor[u].issued \cup cs
      BY <1>2, <2>2 DEF Factor, WithCodes
    <3> QED
      BY <3>1
  <2>5. PICK row \in Factor : row = [coded EXCEPT !.totp = "ACTIVE", !.last = n]
    BY <2>3 DEF Factor
  <2>6. /\ row.secret = factor[u].secret /\ row.last = n
        /\ row.codes = cs /\ row.issued = factor[u].issued \cup cs
    BY <2>4, <2>5 DEF Factor
  <2> QED
    BY <1>3, <2>1, <2>2, <2>3, <2>4, <2>5, <2>6
<1> QED
  BY <1>4, <1>5, <1>6, <1>7, <1>8

LEMMA CodeBeginTotp ==
  ASSUME CodeInv, TypeInv', NEW q \in Requests, BeginTotp(q)
  PROVE  CodeInv'
<1>0. TypeInv
  BY DEF CodeInv
<1>1. PICK u \in Users : u = req[q].user
  BY <1>0, SeenType DEF BeginTotp
<1>2. factor[u] \in Factor /\ factor[u].codes \subseteq factor[u].issued
  BY <1>0, FieldTypes DEF TypeInv, CodeInv
<1>3. factor[u].secret + 1 \in 0 .. MaxSecret /\ factor[u].secret < factor[u].secret + 1
  BY <1>1, <1>2, SessionsAssumption DEF BeginTotp, Factor
<1>4. 0 \in 0 .. MaxCounter
  BY SessionsAssumption
<1>5. PICK s \in 0 .. MaxSecret : s = factor[u].secret + 1
  BY <1>3
<1>6. PICK row \in Factor :
        row = [factor[u] EXCEPT !.totp = "PENDING", !.last = 0, !.secret = s]
  BY <1>2, <1>4 DEF Factor
<1>7. row.secret = s /\ row.codes = factor[u].codes /\ row.issued = factor[u].issued
  BY <1>2, <1>6 DEF Factor
<1>8. factor' = [factor EXCEPT ![u] = row]
  BY <1>0, <1>1, <1>5, <1>6 DEF BeginTotp, TypeInv, TypeOK
<1>9. \A x \in Users : FactorForward(x)
  BY <1>2, <1>3, <1>5, <1>7, <1>8, FactorChanged
<1>10. \A d \in Devices : CodeKept(d)
  BY DEF BeginTotp, CodeKept
<1> QED
  BY <1>9, <1>10, CodeQuiet

LEMMA CodeStep ==
  ASSUME CodeInv, [Next]_vars
  PROVE  CodeInv'
<1>0. TypeInv /\ TypeInv'
  BY TypeStep DEF CodeInv
<1>1. ASSUME UNCHANGED factor, \A d \in Devices : Kept(d)
      PROVE  CodeInv'
  BY <1>0, <1>1, FactorKept, CodeQuiet DEF Kept, CodeKept
<1>2. CASE SignIn
  <2>1. PICK q \in Requests :
          \/ \E u \in Users : LoginRead(q, u) \/ PasskeyRead(q, u)
          \/ LoginActivate(q) \/ LoginWithoutFactor(q) \/ TotpRefused(q) \/ Abandon(q)
          \/ \E c \in Challenges : LoginChallenge(q, c) \/ TotpRead(q, c)
          \/ \E d \in Devices :
               \/ LoginFinish(q, d) \/ PasskeyFinish(q, d)
               \/ \E n \in 1 .. MaxCounter : TotpAccept(q, d, n)
               \/ \E c \in RecoveryCodes : RecoveryAccept(q, d, c)
    BY <1>2 DEF SignIn
  <2> QED
    BY <1>0, <1>1, <2>1, RowsKept, CodeSignIn
<1>3. CASE FromSession
  <2>1. PICK q \in Requests :
          \/ \E d \in Devices : Enter(q, d) \/ RevokeOwnDevice(q, d)
          \/ RouteReads(q)
          \/ Logout(q) \/ RevokeOtherDevices(q) \/ RevokeAllDevices(q) \/ BeginTotp(q)
          \/ \E atOnce \in BOOLEAN :
               \/ \E strong \in BOOLEAN : UpdateCredential(q, atOnce, strong)
               \/ RegisterPasskey(q, atOnce) \/ RemovePasskey(q, atOnce)
               \/ \E n \in 1 .. MaxCounter : ConfirmTotp(q, atOnce, n)
               \/ RegenerateCodes(q, atOnce) \/ RemoveCodes(q, atOnce)
               \/ DisableTotp(q, atOnce)
    BY <1>3 DEF FromSession
  <2> QED
    BY <1>0, <1>1, <2>1, RowsKept, CodeFactors, CodeBeginTotp
<1>4. CASE ByOthers
  BY <1>0, <1>1, <1>4, RowsKeptByOthers
<1>5. CASE UNCHANGED vars
  BY <1>1, <1>5 DEF vars, rows, Kept
<1> QED
  BY <1>2, <1>3, <1>4, <1>5 DEF Next

\* One authenticator or recovery code opens one session of its account, although two
\* requests may both have loaded the challenge open: the locked factor row refuses a
\* counter or a code that was used (verify_totp_factor, consume_recovery_code).
THEOREM OneSessionPerCodeAlways == Spec => []OneSessionPerCode
<1>1. Init => CodeInv
  <2>1. ASSUME Init
        PROVE  CodeInv
    <3>1. \A u \in Users : factor[u].codes \subseteq factor[u].issued
      <4>1. NoFactor.codes = {} /\ Enrolled.codes = RecoveryCodes /\ Enrolled.issued = RecoveryCodes
        BY DEF NoFactor, Enrolled
      <4> QED
        BY <2>1, <4>1 DEF Init
    <3>2. \A d \in Devices : device[d].code = NoCode
      BY <2>1 DEF Init, NoSession
    <3> QED
      BY <2>1, <3>1, <3>2, TypeInit DEF CodeInv, OneSessionPerCode
  <2> QED
    BY <2>1
<1>2. CodeInv /\ [Next]_vars => CodeInv'
  BY CodeStep
<1>3. CodeInv => OneSessionPerCode
  BY DEF CodeInv
<1> QED
  BY <1>1, <1>2, <1>3, PTL DEF Spec

-----------------------------------------------------------------------------
(* A required factor: the role is staged beside it and the factor is given *)
(* up only when no such role is active.                                    *)

GrantsKept(u) == \A r \in MfaRoles : grant'[u][r] # "NONE" => grant[u][r] # "NONE"

\* What a session read stays current, or an event has made it older.
LEMMA FactorAssembled ==
  ASSUME FactorInv, TypeInv', Forward, \A u \in Users : early[u] => early'[u],
         \A u \in Users :
           FactorStands(u)' \/ (GrantsKept(u) /\ (ActiveTotp(u) => ActiveTotp(u)')),
         \A u \in Users :
           \/ era[u] < era'[u]
           \/ /\ user'[u].epoch = user[u].epoch
              /\ PolicyRequiresFactor(u)' => PolicyRequiresFactor(u),
         \A q \in Requests :
           req'[q] \in {req[q], NoRequest} \/ req'[q].kind # "SESSION" \/ ReadCurrent(q)'
  PROVE  FactorInv'
<1>0. TypeInv
  BY DEF FactorInv
<1>1. ASSUME NEW u \in Users
      PROVE  FactorStands(u)'
  <2>1. CASE GrantsKept(u) /\ (ActiveTotp(u) => ActiveTotp(u)')
    <3>1. FactorStands(u) /\ (overlapped[u] => overlapped'[u]) /\ (early[u] => early'[u])
      BY DEF FactorInv, Forward
    <3> QED
      BY <2>1, <3>1 DEF FactorStands, GrantsKept
  <2> QED
    BY <2>1
<1>2. ASSUME NEW q \in Requests
      PROVE  ReadCurrent(q)'
  <2>1. CASE req'[q] = NoRequest
    BY <2>1 DEF ReadCurrent, NoRequest
  <2>2. CASE req'[q] = req[q] /\ req[q].kind = "SESSION"
    <3>1. PICK u \in Users : u = req[q].user /\ req[q].read.epoch <= era[u] + 1
      BY <1>0, <2>2 DEF TypeInv, RequestSound
    <3>2. ReadCurrent(q) /\ (overlapped[u] => overlapped'[u])
      BY DEF FactorInv, Forward
    <3>3. CASE era[u] < era'[u]
      <4>1. UserSound(u)'
        BY DEF TypeInv
      <4>2. era[u] \in Nat /\ era'[u] \in Nat /\ req[q].read.epoch \in Nat
        BY <1>0, FieldTypes, SessionsAssumption DEF TypeInv, TypeOK, Request, ReadSet, Epoch
      <4>3. ~overlapped'[u] => req[q].read.epoch # user'[u].epoch
        BY <3>1, <3>3, <4>1, <4>2 DEF UserSound
      <4> QED
        BY <2>2, <3>1, <4>3 DEF ReadCurrent
    <3>4. CASE /\ user'[u].epoch = user[u].epoch
               /\ PolicyRequiresFactor(u)' => PolicyRequiresFactor(u)
      <4>1. ASSUME ~overlapped'[u], req[q].read.epoch = user'[u].epoch, PolicyRequiresFactor(u)'
            PROVE  req[q].read.policy
        <5>1. PolicyRequiresFactor(u) /\ ~overlapped[u] /\ req[q].read.epoch = user[u].epoch
          BY <3>2, <3>4, <4>1
        <5> QED
          BY <2>2, <3>1, <3>2, <5>1 DEF ReadCurrent
      <4>2. req'[q].user = u /\ req'[q].read = req[q].read
        BY <2>2, <3>1
      <4> QED
        BY <4>1, <4>2 DEF ReadCurrent, PolicyRequiresFactor
    <3> QED
      BY <3>3, <3>4
  <2>3. CASE req'[q].kind # "SESSION"
    BY <2>3 DEF ReadCurrent
  <2> QED
    BY <2>1, <2>2, <2>3
<1> QED
  BY <1>1, <1>2 DEF FactorInv

\* Steps that change neither epochs nor grants and take no authenticator away.
LEMMA FactorQuiet ==
  ASSUME FactorInv, TypeInv', Forward, UNCHANGED <<grant, early>>,
         \A u \in Users : user'[u].epoch = user[u].epoch,
         \A u \in Users : ActiveTotp(u) => factor'[u].totp = factor[u].totp,
         \A q \in Requests :
           req'[q] \in {req[q], NoRequest} \/ req'[q].kind # "SESSION" \/ ReadCurrent(q)'
  PROVE  FactorInv'
<1>1. \A u \in Users : GrantsKept(u) /\ (ActiveTotp(u) => ActiveTotp(u)')
  BY DEF GrantsKept, ActiveTotp
<1>2. \A u \in Users : PolicyRequiresFactor(u)' => PolicyRequiresFactor(u)
  BY DEF PolicyRequiresFactor
<1> QED
  BY <1>1, <1>2, FactorAssembled

\* Steps that end the sessions of one account.
LEMMA FactorEnding ==
  ASSUME FactorInv, TypeInv', Forward, NEW u \in Users, era'[u] = era[u] + 1,
         \A x \in Users \ {u} : /\ user'[x] = user[x] /\ grant'[x] = grant[x]
                                /\ factor'[x] = factor[x],
         \A x \in Users : early[x] => early'[x],
         FactorStands(u)' \/ (GrantsKept(u) /\ factor'[u].totp = factor[u].totp),
         \A q \in Requests : req'[q] \in {req[q], NoRequest} \/ req'[q].kind # "SESSION"
  PROVE  FactorInv'
<1>1. \A x \in Users : x # u => GrantsKept(x) /\ (ActiveTotp(x) => ActiveTotp(x)')
  BY DEF GrantsKept, ActiveTotp
<1>2. FactorStands(u)' \/ (GrantsKept(u) /\ (ActiveTotp(u) => ActiveTotp(u)'))
  BY DEF ActiveTotp
<1>3. \A x \in Users : x # u => (PolicyRequiresFactor(x)' => PolicyRequiresFactor(x))
  BY DEF PolicyRequiresFactor
<1>4. era[u] < era'[u]
  BY DEF FactorInv, TypeInv, TypeOK
<1> QED
  BY <1>1, <1>2, <1>3, <1>4, FactorAssembled

LEMMA FactorReads ==
  ASSUME FactorInv, TypeInv', Forward, NEW q \in Requests,
         \/ \E u \in Users : LoginRead(q, u) \/ PasskeyRead(q, u) \/ ResetRead(q, u)
         \/ \E c \in Challenges : TotpRead(q, c)
         \/ RouteReads(q) \/ \E d \in Devices : Enter(q, d)
  PROVE  FactorInv'
<1>0. TypeInv /\ req \in [Requests -> Request]
  BY DEF FactorInv, TypeInv, TypeOK
<1>1. UNCHANGED <<user, grant, factor>> /\ UNCHANGED <<early, overlapped>>
  BY DEF LoginRead, PasskeyRead, ResetRead, TotpRead, Enter, RouteReads, rows, history
<1>2. \A x \in Requests \ {q} : req'[x] = req[x]
  BY <1>0 DEF LoginRead, PasskeyRead, ResetRead, TotpRead, Enter, RouteReads
<1>3. req'[q].kind # "SESSION" \/ ReadCurrent(q)'
  <2>1. CASE \/ \E u \in Users : LoginRead(q, u) \/ PasskeyRead(q, u) \/ ResetRead(q, u)
             \/ \E c \in Challenges : TotpRead(q, c)
    BY <1>0, <2>1 DEF LoginRead, PasskeyRead, ResetRead, TotpRead, NoRequest
  <2>2. ASSUME NEW d \in Devices, Enter(q, d)
        PROVE  ReadCurrent(q)'
    <3>1. PICK u : u = device[d].user
      OBVIOUS
    <3>2. req'[q].user = u /\ req'[q].read = Read(u)
      BY <1>0, <2>2, <3>1 DEF Enter, NoRequest
    <3>3. Read(u).policy = PolicyRequiresFactor(u)
      BY DEF Read, PolicyRequiresFactor
    <3>4. PolicyRequiresFactor(u)' => PolicyRequiresFactor(u)
      BY <1>1 DEF PolicyRequiresFactor
    <3> QED
      BY <3>2, <3>3, <3>4 DEF ReadCurrent, PolicyRequiresFactor
  <2>3. ASSUME RouteReads(q)
        PROVE  ReadCurrent(q)'
    <3>1. PICK u \in Users : req'[q].user = u /\ req'[q].read = Read(u)
      BY <1>0, <2>3, RouteRequest
    <3>2. Read(u).policy = PolicyRequiresFactor(u)
      BY DEF Read, PolicyRequiresFactor
    <3>3. PolicyRequiresFactor(u)' => PolicyRequiresFactor(u)
      BY <1>1 DEF PolicyRequiresFactor
    <3> QED
      BY <3>1, <3>2, <3>3 DEF ReadCurrent, PolicyRequiresFactor
  <2> QED
    BY <2>1, <2>2, <2>3
<1> QED
  BY <1>1, <1>2, <1>3, FactorQuiet

\* The rest of a sign-in, and what is only revoked or refused.
LEMMA FactorSignIn ==
  ASSUME FactorInv, TypeInv', Forward, NEW q \in Requests,
         \/ \E d \in Devices :
              \/ LoginFinish(q, d) \/ PasskeyFinish(q, d)
              \/ \E n \in 1 .. MaxCounter : TotpAccept(q, d, n)
              \/ \E c \in RecoveryCodes : RecoveryAccept(q, d, c)
         \/ \E c \in Challenges : LoginChallenge(q, c)
         \/ LoginWithoutFactor(q) \/ TotpRefused(q) \/ Abandon(q)
         \/ \E d \in Devices : RevokeOwnDevice(q, d)
         \/ Logout(q) \/ RevokeOtherDevices(q) \/ RevokeAllDevices(q)
         \/ \E t \in Resets : CreateReset(q, t)
         \/ BeginTotp(q)
  PROVE  FactorInv'
<1>0. /\ TypeInv /\ factor \in [Users -> Factor]
      /\ req[q].kind # "NONE" => req[q].user \in Users
  BY DEF FactorInv, TypeInv, TypeOK, RequestSound
<1>1. ASSUME Done(q), UNCHANGED <<grant, early>>,
             \A u \in Users : user'[u].epoch = user[u].epoch,
             \A u \in Users : ActiveTotp(u) => factor'[u].totp = factor[u].totp
      PROVE  FactorInv'
  BY <1>0, <1>1, DoneType, FactorQuiet
<1>2. ASSUME \/ \E d \in Devices : LoginFinish(q, d)
             \/ \E c \in Challenges : LoginChallenge(q, c)
             \/ LoginWithoutFactor(q)
      PROVE  FactorInv'
  <2>1. /\ req[q].kind # "NONE" /\ Done(q) /\ FinishRow(q)
        /\ UNCHANGED <<grant, factor, early>>
    BY <1>2 DEF LoginFinish, LoginChallenge, LoginWithoutFactor, ReadyToFinish, OpenSession
  <2>2. \A u \in Users : user'[u].epoch = user[u].epoch
    BY <1>0, <2>1, FinishRowWrites
  <2> QED
    BY <1>1, <2>1, <2>2
<1>3. ASSUME NEW d \in Devices, PasskeyFinish(q, d)
      PROVE  FactorInv'
  BY <1>1, <1>3 DEF PasskeyFinish, OpenSession, history
<1>4. ASSUME TotpRefused(q) \/ Abandon(q) \/ \E t \in Resets : CreateReset(q, t)
      PROVE  FactorInv'
  BY <1>1, <1>4 DEF TotpRefused, Abandon, CreateReset, rows, history
<1>5. ASSUME NEW ds, RevokeDevices(q, ds)
      PROVE  FactorInv'
  BY <1>1, <1>5 DEF RevokeDevices, history
<1>6. ASSUME \/ \E d \in Devices : RevokeOwnDevice(q, d)
             \/ Logout(q) \/ RevokeOtherDevices(q) \/ RevokeAllDevices(q)
      PROVE  FactorInv'
  BY <1>5, <1>6 DEF RevokeOwnDevice, Logout, RevokeOtherDevices, RevokeAllDevices
<1>7. ASSUME NEW d \in Devices, NEW n \in 1 .. MaxCounter, TotpAccept(q, d, n)
      PROVE  FactorInv'
  <2>1. PICK u \in Users : u = req[q].user
    BY <1>0, <1>7 DEF TotpAccept, ChallengeConsumed
  <2>2. /\ factor' = [factor EXCEPT ![u] = [factor[u] EXCEPT !.last = n]]
        /\ Done(q) /\ UNCHANGED <<user, grant, early>>
    BY <1>7, <2>1 DEF TotpAccept, OpenSession, history
  <2>3. [factor[u] EXCEPT !.last = n].totp = factor[u].totp
    BY <1>0 DEF Factor
  <2>4. \A x \in Users : factor'[x].totp = factor[x].totp
    BY <1>0, <2>2, <2>3
  <2> QED
    BY <1>1, <2>2, <2>4
<1>8. ASSUME NEW d \in Devices, NEW c \in RecoveryCodes, RecoveryAccept(q, d, c)
      PROVE  FactorInv'
  <2>1. PICK u \in Users : u = req[q].user
    BY <1>0, <1>8 DEF RecoveryAccept, ChallengeConsumed
  <2>2. /\ factor' = [factor EXCEPT ![u] = [factor[u] EXCEPT !.codes = factor[u].codes \ {c}]]
        /\ Done(q) /\ UNCHANGED <<user, grant, early>>
    BY <1>8, <2>1 DEF RecoveryAccept, OpenSession, history
  <2>3. [factor[u] EXCEPT !.codes = factor[u].codes \ {c}].totp = factor[u].totp
    BY <1>0 DEF Factor
  <2>4. \A x \in Users : factor'[x].totp = factor[x].totp
    BY <1>0, <2>2, <2>3
  <2> QED
    BY <1>1, <2>2, <2>4
<1>9. ASSUME BeginTotp(q)
      PROVE  FactorInv'
  <2>1. PICK u \in Users : u = req[q].user
    BY <1>0, <1>9 DEF BeginTotp, Session
  <2>2. /\ ~ActiveTotp(u) /\ \A x \in Users \ {u} : factor'[x] = factor[x]
        /\ Done(q) /\ UNCHANGED <<user, grant, early>>
    BY <1>0, <1>9, <2>1 DEF BeginTotp, history
  <2>3. \A x \in Users : ActiveTotp(x) => factor'[x].totp = factor[x].totp
    BY <2>2
  <2> QED
    BY <1>1, <2>2, <2>3
<1> QED
  BY <1>2, <1>3, <1>4, <1>6, <1>7, <1>8, <1>9

\* Grants that are staged, withdrawn or activated; a device that ends.
LEMMA FactorGrants ==
  ASSUME FactorInv, TypeInv', Forward,
         \/ \E d \in Devices : DeviceEnds(d)
         \/ \E u \in Users : \/ AdminRevokeDevices(u)
                             \/ \E r \in Roles : GrantRole(u, r) \/ RevokePending(u, r)
  PROVE  FactorInv'
<1>0. TypeInv /\ grant \in [Users -> Grant]
  BY DEF FactorInv, TypeInv, TypeOK
<1>1. CASE (\E d \in Devices : DeviceEnds(d)) \/ \E u \in Users : AdminRevokeDevices(u)
  <2>1. UNCHANGED <<user, grant, factor, req, early>>
    BY <1>1 DEF DeviceEnds, AdminRevokeDevices, history
  <2> QED
    BY <2>1, FactorQuiet
<1>2. ASSUME NEW u \in Users, NEW r \in Roles, GrantRole(u, r) \/ RevokePending(u, r)
      PROVE  FactorInv'
  <2>1. UNCHANGED <<user, factor, req, early>>
    BY <1>2 DEF GrantRole, RevokePending, history
  <2>2. PICK v \in {"NONE", "PENDING"} : grant' = [grant EXCEPT ![u][r] = v]
    BY <1>2 DEF GrantRole, RevokePending
  <2>3. /\ \A x \in Users \ {u} : grant'[x] = grant[x]
        /\ grant'[u][r] = v /\ \A y \in Roles \ {r} : grant'[u][y] = grant[u][y]
    BY <1>0, <2>2 DEF Grant
  <2>4. MfaRoles \subseteq Roles
    BY SessionsAssumption
  <2>5. r \in MfaRoles /\ v = "PENDING" => ActiveTotp(u) \/ grant[u][r] # "NONE"
    BY <1>2 DEF GrantRole, RevokePending
  <2>6. FactorStands(u) /\ (overlapped[u] => overlapped'[u])
    BY DEF FactorInv, Forward
  <2>7. FactorStands(u)'
    BY <2>1, <2>3, <2>4, <2>5, <2>6 DEF FactorStands, ActiveTotp
  <2>8. \A x \in Users : x # u => GrantsKept(x) /\ (ActiveTotp(x) => ActiveTotp(x)')
    BY <2>1, <2>3 DEF GrantsKept, ActiveTotp
  <2>9. \A x \in Users : PolicyRequiresFactor(x)' => PolicyRequiresFactor(x)
    BY <2>2, <2>3, <2>4 DEF PolicyRequiresFactor
  <2> QED
    BY <2>1, <2>7, <2>8, <2>9, FactorAssembled
<1> QED
  BY <1>1, <1>2

LEMMA FactorEvents ==
  ASSUME FactorInv, TypeInv', Forward,
         \/ \E q \in Requests : \/ LoginActivate(q)
                                \/ \E atOnce, strong \in BOOLEAN : UpdateCredential(q, atOnce, strong)
         \/ \E u \in Users : \/ \E s \in {"ACTIVE", "DISABLED"} : SetStatus(u, s)
                             \/ \E r \in Roles : RevokeActive(u, r)
         \/ \E strong \in BOOLEAN : \/ \E u \in Users : CliReset(u, strong)
                                    \/ \E t \in Resets : ConsumeReset(t, strong)
  PROVE  FactorInv'
<1>0. /\ TypeInv /\ TypeOK
      /\ user \in [Users -> User] /\ grant \in [Users -> Grant] /\ req \in [Requests -> Request]
      /\ \A q \in Requests : req[q].kind # "NONE" => req[q].user \in Users
  BY DEF FactorInv, TypeInv, TypeOK, RequestSound
<1>1. ASSUME NEW u \in Users, NEW e, NEW leavesPending \in BOOLEAN, Ends(u, e, leavesPending),
             UNCHANGED <<factor, early>>, \A x \in Users \ {u} : user'[x] = user[x],
             \A x \in Users \ {u} : grant'[x] = grant[x], GrantsKept(u),
             \A q \in Requests : req'[q] \in {req[q], NoRequest} \/ req'[q].kind # "SESSION"
      PROVE  FactorInv'
  BY <1>0, <1>1, EndsType, FactorEnding
<1>2. ASSUME UNCHANGED grant
      PROVE  \A x \in Users : GrantsKept(x)
  BY <1>2 DEF GrantsKept
<1>3. ASSUME NEW q \in Requests, LoginActivate(q)
      PROVE  FactorInv'
  <2>1. PICK u \in Users : u = req[q].user
    BY <1>0, <1>3 DEF LoginActivate
  <2>2. /\ Ends(u, req[q].read.epoch, FALSE) /\ UNCHANGED <<factor, early>>
        /\ \A x \in Users \ {u} : user'[x] = user[x]
        /\ \A x \in Users \ {u} : grant'[x] = grant[x]
    BY <1>0, <1>3, <2>1 DEF LoginActivate
  <2>3. req'[q].kind = "ACTIVATED" /\ \A x \in Requests \ {q} : req'[x] = req[x]
    BY <1>0, <1>3 DEF LoginActivate, Request
  <2>4. \A r \in Roles : grant'[u][r] # "NONE" => grant[u][r] # "NONE"
    BY <1>0, <1>3, <2>1 DEF LoginActivate, Activatable
  <2>5. GrantsKept(u)
    BY <2>4, SessionsAssumption DEF GrantsKept
  <2> QED
    BY <1>1, <2>2, <2>3, <2>5
<1>4. ASSUME NEW q \in Requests, NEW atOnce \in BOOLEAN, NEW strong \in BOOLEAN,
             UpdateCredential(q, atOnce, strong)
      PROVE  FactorInv'
  <2>1. PICK u \in Users : u = req[q].user
    BY <1>0, <1>4, SeenType DEF UpdateCredential
  <2>2. /\ Ends(u, req[q].read.epoch, TRUE) /\ UNCHANGED <<factor, early>> /\ Done(q)
        /\ \A x \in Users \ {u} : user'[x] = user[x]
        /\ UNCHANGED grant
    BY <1>0, <1>4, <2>1 DEF UpdateCredential
  <2> QED
    BY <1>0, <1>1, <1>2, <2>2, DoneType
<1>5. ASSUME NEW u \in Users, NEW s \in {"ACTIVE", "DISABLED"}, SetStatus(u, s)
      PROVE  FactorInv'
  <2>1. /\ Ends(u, user[u].epoch, FALSE) /\ UNCHANGED <<factor, early, req, grant>>
        /\ \A x \in Users \ {u} : user'[x] = user[x]
    BY <1>0, <1>5 DEF SetStatus, EndedBy
  <2> QED
    BY <1>1, <1>2, <2>1
<1>6. ASSUME NEW u \in Users, NEW r \in Roles, RevokeActive(u, r)
      PROVE  FactorInv'
  <2>1. /\ Ends(u, user[u].epoch, FALSE) /\ UNCHANGED <<factor, early, req>>
        /\ \A x \in Users \ {u} : user'[x] = user[x]
        /\ \A x \in Users \ {u} : grant'[x] = grant[x]
    BY <1>0, <1>6 DEF RevokeActive, EndedBy
  <2>2. \A y \in Roles : grant'[u][y] # "NONE" => grant[u][y] # "NONE"
    BY <1>0, <1>6 DEF RevokeActive, Grant
  <2>3. GrantsKept(u)
    BY <2>2, SessionsAssumption DEF GrantsKept
  <2> QED
    BY <1>1, <2>1, <2>3
<1>7. ASSUME NEW u \in Users, NEW strong \in BOOLEAN, NewCredential(u, strong),
             UNCHANGED <<grant, factor, req, early>>
      PROVE  FactorInv'
  <2>1. /\ Ends(u, user[u].epoch, FALSE) /\ \A x \in Users \ {u} : user'[x] = user[x]
    BY <1>0, <1>7 DEF NewCredential
  <2> QED
    BY <1>1, <1>2, <1>7, <2>1
<1>8. ASSUME NEW strong \in BOOLEAN, \/ \E u \in Users : CliReset(u, strong)
                                    \/ \E t \in Resets : ConsumeReset(t, strong)
      PROVE  FactorInv'
  <2>1. \A t \in Resets : reset[t].state = "OPEN" => reset[t].user \in Users
    BY <1>0, FieldTypes DEF TypeInv, ArtifactsSound, Reset
  <2> QED
    BY <1>7, <1>8, <2>1 DEF CliReset, ConsumeReset
<1> QED
  BY <1>3, <1>4, <1>5, <1>6, <1>8

\* _record_security_change and what it commits with: only disable_totp takes an
\* authenticator away, and only from a session that saw no such role active; a role
\* activated after that is told by the epoch, unless the epoch was read later still.
LEMMA FactorChanges ==
  ASSUME FactorInv, TypeInv', Forward, NEW q \in Requests, NEW atOnce \in BOOLEAN,
         \/ RegisterPasskey(q, atOnce) \/ RemovePasskey(q, atOnce)
         \/ RegenerateCodes(q, atOnce) \/ RemoveCodes(q, atOnce) \/ DisableTotp(q, atOnce)
         \/ \E n \in 1 .. MaxCounter : ConfirmTotp(q, atOnce, n)
  PROVE  FactorInv'
<1>0. /\ TypeInv /\ TypeOK /\ SecurityChange(q, Seen(q, atOnce))
      /\ user \in [Users -> User] /\ factor \in [Users -> Factor]
      /\ early \in [Users -> BOOLEAN]
  BY DEF FactorInv, TypeInv, TypeOK, RegisterPasskey, RemovePasskey, RegenerateCodes, RemoveCodes,
         DisableTotp, ConfirmTotp
<1>1. PICK u \in Users : u = req[q].user
  BY <1>0, SecurityChangeKeepsCodes
<1>2. PICK e : e = Seen(q, atOnce).epoch
  OBVIOUS
<1>3. /\ Ends(u, e, TRUE) /\ Done(q) /\ UNCHANGED grant
      /\ \A x \in Users \ {u} : user'[x] = user[x]
  BY <1>0, <1>1, <1>2 DEF SecurityChange
<1>4. /\ era'[u] = era[u] + 1 /\ (e # user[u].epoch => overlapped'[u])
      /\ overlapped[u] => overlapped'[u]
      /\ \A x \in Requests : req'[x] \in {req[x], NoRequest}
      /\ \A x \in Users : GrantsKept(x)
  BY <1>0, <1>3, EndsType, DoneType DEF GrantsKept
<1>5. ASSUME NEW row, factor' = [factor EXCEPT ![u] = row], row.totp = factor[u].totp,
             UNCHANGED early
      PROVE  FactorInv'
  <2>1. factor'[u].totp = factor[u].totp /\ \A x \in Users \ {u} : factor'[x] = factor[x]
    BY <1>0, <1>5
  <2> QED
    BY <1>3, <1>4, <1>5, <2>1, FactorEnding
<1>6. CASE RegisterPasskey(q, atOnce) \/ RemovePasskey(q, atOnce)
  <2>1. PICK b \in BOOLEAN : factor' = [factor EXCEPT ![u] = [factor[u] EXCEPT !.passkey = b]]
    BY <1>1, <1>6 DEF RegisterPasskey, RemovePasskey
  <2>2. [factor[u] EXCEPT !.passkey = b].totp = factor[u].totp /\ UNCHANGED early
    BY <1>0, <1>6 DEF Factor, RegisterPasskey, RemovePasskey
  <2> QED
    BY <1>5, <2>1, <2>2
<1>7. CASE RegenerateCodes(q, atOnce)
  <2>1. PICK cs : factor' = [factor EXCEPT ![u] = WithCodes(factor[u], cs)]
    BY <1>1, <1>7 DEF RegenerateCodes
  <2>2. WithCodes(factor[u], cs).totp = factor[u].totp /\ UNCHANGED early
    BY <1>0, <1>7 DEF Factor, WithCodes, RegenerateCodes
  <2> QED
    BY <1>5, <2>1, <2>2
<1>8. CASE RemoveCodes(q, atOnce)
  <2>1. factor' = [factor EXCEPT ![u] = [factor[u] EXCEPT !.codes = {}]] /\ UNCHANGED early
    BY <1>1, <1>8 DEF RemoveCodes
  <2>2. [factor[u] EXCEPT !.codes = {}].totp = factor[u].totp
    BY <1>0 DEF Factor
  <2> QED
    BY <1>5, <2>1, <2>2
<1>9. CASE DisableTotp(q, atOnce)
  <2> DEFINE b == \/ early[u]
                  \/ \E r \in MfaRoles : grant[u][r] = "PENDING"
                  \/ ~atOnce /\ req[q].read.policy # PolicyRequiresFactor(u)
  <2>1. /\ ~req[q].read.policy /\ Session(q)
        /\ \A x \in Users \ {u} : factor'[x] = factor[x]
        /\ early' = [early EXCEPT ![u] = b]
    BY <1>0, <1>1, <1>9 DEF DisableTotp
  <2>2. /\ early[u] => b
        /\ \A r \in MfaRoles : grant[u][r] = "PENDING" => b
        /\ ~atOnce /\ req[q].read.policy # PolicyRequiresFactor(u) => b
        /\ b \in BOOLEAN
    OBVIOUS
  <2> HIDE DEF b
  <2>3. early'[u] = b /\ \A x \in Users \ {u} : early'[x] = early[x]
    BY <1>0, <2>1
  <2>4. \A x \in Users : early[x] => early'[x]
    BY <2>2, <2>3
  <2>5. PolicyRequiresFactor(u) => early'[u] \/ overlapped'[u]
    <3>1. CASE atOnce
      <4>1. e = req[q].read.epoch /\ ~req[q].read.policy
        BY <1>2, <2>1, <3>1 DEF Seen
      <4>2. ReadCurrent(q) /\ req[q].kind = "SESSION"
        BY <2>1 DEF FactorInv, Session
      <4> QED
        BY <1>1, <1>4, <4>1, <4>2 DEF ReadCurrent
    <3>2. CASE ~atOnce
      <4>1. PolicyRequiresFactor(u) => req[q].read.policy # PolicyRequiresFactor(u)
        BY <2>1
      <4> QED
        BY <2>2, <2>3, <3>2, <4>1
    <3> QED
      BY <3>1, <3>2
  <2>6. FactorStands(u)'
    <3>1. ASSUME NEW r \in MfaRoles, grant'[u][r] # "NONE"
          PROVE  early'[u] \/ overlapped'[u]
      <4>1. grant[u][r] \in {"PENDING", "ACTIVE"}
        BY <1>0, <1>3, <3>1, SessionsAssumption DEF TypeOK, Grant
      <4> QED
        BY <2>2, <2>3, <2>5, <4>1 DEF PolicyRequiresFactor
    <3> QED
      BY <3>1 DEF FactorStands
  <2> QED
    BY <1>3, <1>4, <2>1, <2>4, <2>6, FactorEnding
<1>10. ASSUME NEW n \in 1 .. MaxCounter, ConfirmTotp(q, atOnce, n)
       PROVE  FactorInv'
  <2>1. PICK cs \in NewCodes(u) :
          factor' = [factor EXCEPT ![u] =
                       [WithCodes(factor[u], cs) EXCEPT !.totp = "ACTIVE", !.last = n]]
    BY <1>1, <1>10 DEF ConfirmTotp
  <2>2. /\ [WithCodes(factor[u], cs) EXCEPT !.totp = "ACTIVE", !.last = n].totp = "ACTIVE"
        /\ UNCHANGED early
    <3>1. WithCodes(factor[u], cs) \in Factor
      <4>1. factor[u] \in Factor /\ cs \subseteq RecoveryCodes
        BY <1>0, NewCodesUnissued
      <4> QED
        BY <4>1 DEF Factor, WithCodes
    <3>2. UNCHANGED early
      BY <1>10 DEF ConfirmTotp
    <3> QED
      BY <3>1, <3>2 DEF Factor
  <2>3. factor'[u].totp = "ACTIVE" /\ \A x \in Users \ {u} : factor'[x] = factor[x]
    BY <1>0, <2>1, <2>2
  <2>4. FactorStands(u)'
    BY <2>3 DEF FactorStands, ActiveTotp
  <2> QED
    BY <1>3, <1>4, <2>2, <2>3, <2>4, FactorEnding
<1> QED
  BY <1>6, <1>7, <1>8, <1>9, <1>10

LEMMA FactorStep ==
  ASSUME FactorInv, [Next]_vars
  PROVE  FactorInv'
<1>0. TypeInv' /\ Forward
  BY TypeStep DEF FactorInv
<1>1. CASE SignIn
  <2>1. PICK q \in Requests :
          \/ \E u \in Users : LoginRead(q, u) \/ PasskeyRead(q, u)
          \/ LoginActivate(q) \/ LoginWithoutFactor(q) \/ TotpRefused(q) \/ Abandon(q)
          \/ \E c \in Challenges : LoginChallenge(q, c) \/ TotpRead(q, c)
          \/ \E d \in Devices :
               \/ LoginFinish(q, d) \/ PasskeyFinish(q, d)
               \/ \E n \in 1 .. MaxCounter : TotpAccept(q, d, n)
               \/ \E c \in RecoveryCodes : RecoveryAccept(q, d, c)
    BY <1>1 DEF SignIn
  <2> QED
    BY <1>0, <2>1, FactorReads, FactorEvents, FactorSignIn
<1>2. CASE FromSession
  <2>1. PICK q \in Requests :
          \/ \E d \in Devices : Enter(q, d) \/ RevokeOwnDevice(q, d)
          \/ RouteReads(q)
          \/ Logout(q) \/ RevokeOtherDevices(q) \/ RevokeAllDevices(q) \/ BeginTotp(q)
          \/ \E atOnce \in BOOLEAN :
               \/ \E strong \in BOOLEAN : UpdateCredential(q, atOnce, strong)
               \/ RegisterPasskey(q, atOnce) \/ RemovePasskey(q, atOnce)
               \/ \E n \in 1 .. MaxCounter : ConfirmTotp(q, atOnce, n)
               \/ RegenerateCodes(q, atOnce) \/ RemoveCodes(q, atOnce)
               \/ DisableTotp(q, atOnce)
    BY <1>2 DEF FromSession
  <2> QED
    BY <1>0, <2>1, FactorReads, FactorEvents, FactorSignIn, FactorChanges
<1>3. CASE ByOthers
  BY <1>0, <1>3, FactorReads, FactorEvents, FactorSignIn, FactorGrants DEF ByOthers
<1>4. CASE UNCHANGED vars
  BY <1>0, <1>4, FactorQuiet DEF vars, rows, history
<1> QED
  BY <1>1, <1>2, <1>3, <1>4 DEF Next

\* Whoever holds a role whose factor is required has the factor, whichever of staging,
\* activation, enrolment and disabling came first (grant_role, disable_totp), except an
\* account that gave the factor up while the role was staged, or while a sign-in activated
\* it between the form's query of the grants and its load of the users row, or one whose
\* epoch was computed from an overtaken attribute.
THEOREM FactorAlwaysHolds == Spec => []FactorHolds
<1>1. Init => FactorInv
  <2>1. ASSUME Init
        PROVE  FactorInv
    <3>1. \A u \in Users, r \in MfaRoles : grant[u][r] = "NONE"
      BY <2>1, SessionsAssumption DEF Init
    <3>2. \A q \in Requests : req[q].kind = "NONE"
      BY <2>1 DEF Init, NoRequest
    <3> QED
      BY <2>1, <3>1, <3>2, TypeInit DEF FactorInv, FactorStands, ReadCurrent
  <2> QED
    BY <2>1
<1>2. FactorInv /\ [Next]_vars => FactorInv'
  BY FactorStep
<1>3. FactorInv => FactorHolds
  BY DEF FactorInv, FactorStands, FactorHolds, PolicyRequiresFactor
<1> QED
  BY <1>1, <1>2, <1>3, PTL DEF Spec

-----------------------------------------------------------------------------
(* The Admin policy of credentials: what a sign-in or a session has read   *)
(* of the credential and of the Admin grant is so as long as its epoch is  *)
(* the account's.                                                          *)

AdminActive(u) == "ADMIN" \in Roles /\ grant[u]["ADMIN"] = "ACTIVE"

CredentialStands(u) ==
  overlapped[u] \/ user[u].strong \/ (~user[u].eligible /\ ~AdminActive(u))

CredentialRead(q) ==
  LET u == req[q].user
      read == req[q].read
  IN  /\ req[q].kind = "LOGIN" /\ ~overlapped[u] =>
           /\ read.eligible => read.strong
           /\ read.epoch = user[u].epoch => (read.strong <=> user[u].strong)
      /\ req[q].kind = "SESSION" /\ ~overlapped[u] =>
           (read.epoch = user[u].epoch /\ AdminActive(u) => read.admin)

CredentialInv ==
  /\ TypeInv
  /\ \A u \in Users : CredentialStands(u)
  /\ \A q \in Requests : CredentialRead(q)

\* Either an event makes what was read older than the account, or the account is as read.
LEMMA CredentialAssembled ==
  ASSUME CredentialInv, TypeInv', Forward, \A u \in Users : CredentialStands(u)',
         \A u \in Users :
           \/ era[u] < era'[u]
           \/ /\ user'[u].epoch = user[u].epoch /\ user'[u].strong = user[u].strong
              /\ AdminActive(u)' => AdminActive(u),
         \A q \in Requests :
           \/ req'[q] \in {req[q], NoRequest} \/ req'[q].kind \notin {"LOGIN", "SESSION"}
           \/ CredentialRead(q)'
  PROVE  CredentialInv'
<1>0. TypeInv
  BY DEF CredentialInv
<1>1. ASSUME NEW q \in Requests
      PROVE  CredentialRead(q)'
  <2>1. CASE req'[q] = NoRequest
    BY <2>1 DEF CredentialRead, NoRequest
  <2>2. CASE req'[q].kind \notin {"LOGIN", "SESSION"}
    BY <2>2 DEF CredentialRead
  <2>3. CASE req'[q] = req[q] /\ req[q].kind \in {"LOGIN", "SESSION"}
    <3>1. PICK u \in Users : u = req[q].user /\ req[q].read.epoch <= era[u] + 1
      BY <1>0, <2>3 DEF TypeInv, RequestSound
    <3>2. CredentialRead(q) /\ (overlapped[u] => overlapped'[u])
      BY DEF CredentialInv, Forward
    <3>3. req'[q].user = u /\ req'[q].read = req[q].read /\ req'[q].kind = req[q].kind
      BY <2>3, <3>1
    <3>4. CASE era[u] < era'[u]
      <4>1. UserSound(u)'
        BY DEF TypeInv
      <4>2. era[u] \in Nat /\ era'[u] \in Nat /\ req[q].read.epoch \in Nat
        BY <1>0, FieldTypes, SessionsAssumption DEF TypeInv, TypeOK, Request, ReadSet, Epoch
      <4>3. ~overlapped'[u] => req[q].read.epoch # user'[u].epoch
        BY <3>1, <3>4, <4>1, <4>2 DEF UserSound
      <4> QED
        BY <3>1, <3>2, <3>3, <4>3 DEF CredentialRead
    <3>5. CASE /\ user'[u].epoch = user[u].epoch /\ user'[u].strong = user[u].strong
               /\ AdminActive(u)' => AdminActive(u)
      <4>1. /\ req[q].kind = "LOGIN" /\ ~overlapped[u] =>
                 /\ req[q].read.eligible => req[q].read.strong
                 /\ req[q].read.epoch = user[u].epoch =>
                      (req[q].read.strong <=> user[u].strong)
            /\ req[q].kind = "SESSION" /\ ~overlapped[u] =>
                 (req[q].read.epoch = user[u].epoch /\ AdminActive(u) => req[q].read.admin)
        BY <3>1, <3>2 DEF CredentialRead
      <4>2. /\ req'[q].kind = "LOGIN" /\ ~overlapped'[u] =>
                 /\ req'[q].read.eligible => req'[q].read.strong
                 /\ req'[q].read.epoch = user'[u].epoch =>
                      (req'[q].read.strong <=> user'[u].strong)
            /\ req'[q].kind = "SESSION" /\ ~overlapped'[u] =>
                 (req'[q].read.epoch = user'[u].epoch /\ AdminActive(u)' => req'[q].read.admin)
        BY <3>2, <3>3, <3>5, <4>1
      <4> QED
        BY <3>3, <4>2 DEF CredentialRead, AdminActive
    <3> QED
      BY <3>4, <3>5
  <2> QED
    BY <2>1, <2>2, <2>3
<1> QED
  BY <1>1 DEF CredentialInv

LEMMA CredentialQuiet ==
  ASSUME CredentialInv, TypeInv', Forward, UNCHANGED <<user, grant>>,
         \A q \in Requests :
           \/ req'[q] \in {req[q], NoRequest} \/ req'[q].kind \notin {"LOGIN", "SESSION"}
           \/ CredentialRead(q)'
  PROVE  CredentialInv'
<1>1. \A u \in Users : AdminActive(u)' => AdminActive(u)
  BY DEF AdminActive
<1>2. \A u \in Users : CredentialStands(u)'
  BY DEF CredentialInv, CredentialStands, AdminActive, Forward
<1> QED
  BY <1>1, <1>2, CredentialAssembled

\* An event: one account's row is written.
LEMMA CredentialEnding ==
  ASSUME CredentialInv, TypeInv', Forward, NEW u \in Users, era'[u] = era[u] + 1,
         \A x \in Users \ {u} : user'[x] = user[x] /\ grant'[x] = grant[x],
         CredentialStands(u)',
         \A q \in Requests :
           req'[q] \in {req[q], NoRequest} \/ req'[q].kind \notin {"LOGIN", "SESSION"}
  PROVE  CredentialInv'
<1>1. era[u] < era'[u]
  BY DEF CredentialInv, TypeInv, TypeOK
<1>2. \A x \in Users \ {u} : AdminActive(x)' <=> AdminActive(x)
  BY DEF AdminActive
<1>3. \A x \in Users \ {u} : CredentialStands(x)'
  BY <1>2 DEF CredentialInv, CredentialStands, Forward
<1> QED
  BY <1>1, <1>2, <1>3, CredentialAssembled

LEMMA CredentialReads ==
  ASSUME CredentialInv, TypeInv', Forward, NEW q \in Requests,
         \/ \E u \in Users : LoginRead(q, u) \/ PasskeyRead(q, u) \/ ResetRead(q, u)
         \/ \E c \in Challenges : TotpRead(q, c)
         \/ RouteReads(q) \/ \E d \in Devices : Enter(q, d)
  PROVE  CredentialInv'
<1>0. TypeInv /\ req \in [Requests -> Request]
  BY DEF CredentialInv, TypeInv, TypeOK
<1>1. UNCHANGED <<user, grant>> /\ UNCHANGED overlapped
  BY DEF LoginRead, PasskeyRead, ResetRead, TotpRead, Enter, RouteReads, rows, history
<1>2. \A x \in Requests \ {q} : req'[x] = req[x]
  BY <1>0 DEF LoginRead, PasskeyRead, ResetRead, TotpRead, Enter, RouteReads
<1>3. req'[q].kind \notin {"LOGIN", "SESSION"} \/ CredentialRead(q)'
  <2>1. CASE \/ \E u \in Users : PasskeyRead(q, u) \/ ResetRead(q, u)
             \/ \E c \in Challenges : TotpRead(q, c)
    BY <1>0, <2>1 DEF PasskeyRead, ResetRead, TotpRead, NoRequest
  <2>2. ASSUME NEW u \in Users, LoginRead(q, u)
        PROVE  CredentialRead(q)'
    <3>1. req'[q].user = u /\ req'[q].read = Read(u) /\ req'[q].kind = "LOGIN"
      BY <1>0, <2>2 DEF LoginRead, NoRequest
    <3>2. Read(u).eligible = user[u].eligible /\ Read(u).strong = user[u].strong
      BY DEF Read
    <3>3. ~overlapped[u] /\ user[u].eligible => user[u].strong
      BY DEF CredentialInv, CredentialStands
    <3> QED
      BY <1>1, <3>1, <3>2, <3>3 DEF CredentialRead
  <2>3. ASSUME NEW d \in Devices, Enter(q, d)
        PROVE  CredentialRead(q)'
    <3>1. PICK u : u = device[d].user
      OBVIOUS
    <3>2. req'[q].user = u /\ req'[q].read = Read(u) /\ req'[q].kind = "SESSION"
      BY <1>0, <2>3, <3>1 DEF Enter, NoRequest
    <3>3. AdminActive(u)' => Read(u).admin
      BY <1>1 DEF Read, AdminActive
    <3> QED
      BY <3>2, <3>3 DEF CredentialRead, AdminActive
  <2>4. ASSUME RouteReads(q)
        PROVE  CredentialRead(q)'
    <3>1. PICK u \in Users : /\ req'[q].user = u /\ req'[q].read = Read(u)
                             /\ req'[q].kind = "SESSION"
      BY <1>0, <2>4, RouteRequest
    <3>2. AdminActive(u)' => Read(u).admin
      BY <1>1 DEF Read, AdminActive
    <3> QED
      BY <3>1, <3>2 DEF CredentialRead, AdminActive
  <2> QED
    BY <2>1, <2>2, <2>3, <2>4
<1> QED
  BY <1>1, <1>2, <1>3, CredentialQuiet

\* The rest of a sign-in may correct the row, and only does so by a credential that is
\* the account's; the other steps of requests leave credential and grants alone.
LEMMA CredentialSignIn ==
  ASSUME CredentialInv, TypeInv', Forward, NEW q \in Requests,
         \/ \E d \in Devices :
              \/ LoginFinish(q, d) \/ PasskeyFinish(q, d)
              \/ \E n \in 1 .. MaxCounter : TotpAccept(q, d, n)
              \/ \E c \in RecoveryCodes : RecoveryAccept(q, d, c)
         \/ \E c \in Challenges : LoginChallenge(q, c)
         \/ LoginWithoutFactor(q) \/ TotpRefused(q) \/ Abandon(q)
         \/ \E d \in Devices : RevokeOwnDevice(q, d)
         \/ Logout(q) \/ RevokeOtherDevices(q) \/ RevokeAllDevices(q)
         \/ \E t \in Resets : CreateReset(q, t)
         \/ BeginTotp(q)
  PROVE  CredentialInv'
<1>0. /\ TypeInv /\ user \in [Users -> User] /\ overlapped \in [Users -> BOOLEAN]
      /\ req[q].kind # "NONE" => req[q].user \in Users
  BY DEF CredentialInv, TypeInv, TypeOK, RequestSound
<1>1. CASE \/ \E d \in Devices :
                \/ PasskeyFinish(q, d) \/ \E n \in 1 .. MaxCounter : TotpAccept(q, d, n)
                \/ \E c \in RecoveryCodes : RecoveryAccept(q, d, c)
           \/ TotpRefused(q) \/ Abandon(q)
           \/ \E d \in Devices : RevokeOwnDevice(q, d)
           \/ Logout(q) \/ RevokeOtherDevices(q) \/ RevokeAllDevices(q)
           \/ \E t \in Resets : CreateReset(q, t)
           \/ BeginTotp(q)
  <2>1. UNCHANGED <<user, grant>> /\ Done(q)
    BY <1>1 DEF PasskeyFinish, TotpAccept, RecoveryAccept, OpenSession, TotpRefused, Abandon,
                RevokeOwnDevice, Logout, RevokeOtherDevices, RevokeAllDevices, RevokeDevices,
                CreateReset, BeginTotp, rows, history
  <2> QED
    BY <1>0, <2>1, DoneType, CredentialQuiet
<1>2. CASE \/ \E d \in Devices : LoginFinish(q, d)
           \/ \E c \in Challenges : LoginChallenge(q, c)
           \/ LoginWithoutFactor(q)
  <2>1. /\ req[q].kind \in {"LOGIN", "ACTIVATED"} /\ Done(q) /\ FinishRow(q) /\ UNCHANGED grant
    BY <1>2 DEF LoginFinish, LoginChallenge, LoginWithoutFactor, ReadyToFinish, OpenSession
  <2>2. PICK u \in Users : u = req[q].user
    BY <1>0, <2>1
  <2>3. /\ user' = [user EXCEPT ![u] = FinalRow(q)]
        /\ ~overlapped'[u] =>
             ~overlapped[u] /\ (FinalRow(q) = user[u] \/ req[q].read.epoch = user[u].epoch)
    <3> DEFINE o == overlapped[u] \/ (FinalRow(q) # user[u] /\ req[q].read.epoch # user[u].epoch)
    <3>1. /\ user' = [user EXCEPT ![u] = FinalRow(q)]
          /\ overlapped' = [overlapped EXCEPT ![u] = o]
      BY <2>1, <2>2 DEF FinishRow
    <3>2. ~o => ~overlapped[u] /\ (FinalRow(q) = user[u] \/ req[q].read.epoch = user[u].epoch)
      OBVIOUS
    <3> HIDE DEF o
    <3> QED
      BY <1>0, <3>1, <3>2
  <2>4. /\ FinalRow(q).epoch = user[u].epoch /\ FinalRow(q).strong = user[u].strong
        /\ FinalRow(q) = user[u] \/
             /\ req[q].kind = "LOGIN"
             /\ FinalRow(q).eligible => user[u].eligible \/ req[q].read.strong
    <3>1. CASE req[q].kind = "LOGIN"
      <4> DEFINE b == user[u].eligible \/ (req[q].read.strong /\ ~req[q].read.eligible)
      <4>1. FinalRow(q) = [user[u] EXCEPT !.eligible = b]
        BY <2>2, <3>1 DEF FinalRow, Corrected
      <4>2. b => user[u].eligible \/ req[q].read.strong
        OBVIOUS
      <4> HIDE DEF b
      <4>3. user[u] \in User
        BY <1>0
      <4> QED
        BY <3>1, <4>1, <4>2, <4>3 DEF User
    <3>2. CASE req[q].kind # "LOGIN"
      BY <2>2, <3>2 DEF FinalRow
    <3> QED
      BY <3>1, <3>2
  <2>5. /\ user'[u] = FinalRow(q) /\ \A x \in Users \ {u} : user'[x] = user[x]
        /\ \A x \in Users : AdminActive(x)' <=> AdminActive(x)
    BY <1>0, <2>1, <2>3 DEF AdminActive
  <2>6. /\ CredentialStands(u) /\ CredentialRead(q)
        /\ \A x \in Users : CredentialStands(x) /\ (overlapped[x] => overlapped'[x])
    BY DEF CredentialInv, Forward
  <2>7. CredentialStands(u)'
    <3>1. ASSUME ~overlapped'[u], ~user[u].strong
          PROVE  ~FinalRow(q).eligible /\ ~AdminActive(u)
      <4>1. ~overlapped[u] /\ ~user[u].eligible /\ ~AdminActive(u)
        BY <2>3, <2>6, <3>1 DEF CredentialStands
      <4>2. CASE FinalRow(q) # user[u]
        BY <2>2, <2>3, <2>4, <2>6, <3>1, <4>1, <4>2 DEF CredentialRead
      <4> QED
        BY <4>1, <4>2
    <3> QED
      BY <2>4, <2>5, <3>1 DEF CredentialStands
  <2>8. \A x \in Users \ {u} : CredentialStands(x)'
    BY <2>5, <2>6 DEF CredentialStands
  <2>9. \A x \in Users : user'[x].epoch = user[x].epoch /\ user'[x].strong = user[x].strong
    BY <2>4, <2>5
  <2>10. \A x \in Requests : req'[x] \in {req[x], NoRequest}
    BY <1>0, <2>1, DoneType
  <2> QED
    BY <2>5, <2>7, <2>8, <2>9, <2>10, CredentialAssembled
<1> QED
  BY <1>1, <1>2

LEMMA CredentialGrants ==
  ASSUME CredentialInv, TypeInv', Forward,
         \/ \E d \in Devices : DeviceEnds(d)
         \/ \E u \in Users : \/ AdminRevokeDevices(u)
                             \/ \E r \in Roles : GrantRole(u, r) \/ RevokePending(u, r)
  PROVE  CredentialInv'
<1>1. UNCHANGED <<user, req>>
  BY DEF DeviceEnds, AdminRevokeDevices, GrantRole, RevokePending, history
<1>2. grant \in [Users -> Grant]
  BY DEF CredentialInv, TypeInv, TypeOK
<1>3. ASSUME NEW x \in Users, AdminActive(x)'
      PROVE  AdminActive(x)
  <2>1. CASE UNCHANGED grant
    BY <1>3, <2>1 DEF AdminActive
  <2>2. ASSUME NEW u \in Users, NEW r \in Roles, GrantRole(u, r) \/ RevokePending(u, r)
        PROVE  AdminActive(x)
    <3>1. PICK v \in {"NONE", "PENDING"} : grant' = [grant EXCEPT ![u][r] = v]
      BY <2>2 DEF GrantRole, RevokePending
    <3>2. grant[u] \in [Roles -> {"NONE", "PENDING", "ACTIVE"}]
      BY <1>2 DEF Grant
    <3>3. /\ grant'[u][r] = v
          /\ \A k \in Roles \ {r} : grant'[u][k] = grant[u][k]
          /\ \A y \in Users \ {u} : grant'[y] = grant[y]
      BY <1>2, <3>1, <3>2
    <3> QED
      BY <1>3, <3>3 DEF AdminActive
  <2> QED
    BY <2>1, <2>2 DEF DeviceEnds, AdminRevokeDevices, history
<1>4. \A x \in Users : CredentialStands(x)'
  BY <1>1, <1>3 DEF CredentialInv, CredentialStands, Forward
<1> QED
  BY <1>1, <1>3, <1>4, CredentialAssembled

LEMMA CredentialEvents ==
  ASSUME CredentialInv, TypeInv', Forward,
         \/ \E u \in Users : \/ \E s \in {"ACTIVE", "DISABLED"} : SetStatus(u, s)
                             \/ \E r \in Roles : RevokeActive(u, r)
         \/ \E strong \in BOOLEAN : \/ \E u \in Users : CliReset(u, strong)
                                    \/ \E t \in Resets : ConsumeReset(t, strong)
  PROVE  CredentialInv'
<1>0. /\ TypeInv /\ TypeOK /\ user \in [Users -> User] /\ grant \in [Users -> Grant]
      /\ \A u \in Users : user[u] \in User
      /\ \A u \in Users : CredentialStands(u) /\ (overlapped[u] => overlapped'[u])
  BY DEF CredentialInv, TypeInv, TypeOK, Forward
<1>1. ASSUME NEW u \in Users, NEW s \in {"ACTIVE", "DISABLED"}, SetStatus(u, s)
      PROVE  CredentialInv'
  <2>1. /\ Ends(u, user[u].epoch, FALSE) /\ UNCHANGED <<req, grant>>
        /\ user' = [user EXCEPT ![u] = [user[u] EXCEPT !.status = s, !.epoch = user[u].epoch + 1]]
    BY <1>0, <1>1 DEF SetStatus, EndedBy
  <2>2. /\ user'[u].strong = user[u].strong /\ user'[u].eligible = user[u].eligible
        /\ \A x \in Users \ {u} : user'[x] = user[x]
    BY <1>0, <2>1 DEF User
  <2>3. CredentialStands(u)'
    BY <1>0, <2>1, <2>2 DEF CredentialStands, AdminActive
  <2> QED
    BY <1>0, <2>1, <2>2, <2>3, EndsType, CredentialEnding
<1>2. ASSUME NEW u \in Users, NEW r \in Roles, RevokeActive(u, r)
      PROVE  CredentialInv'
  <2>1. /\ Ends(u, user[u].epoch, FALSE) /\ UNCHANGED req
        /\ user' = [user EXCEPT ![u] = [user[u] EXCEPT !.epoch = user[u].epoch + 1]]
        /\ grant' = [grant EXCEPT ![u][r] = "NONE"]
    BY <1>0, <1>2 DEF RevokeActive, EndedBy
  <2>2. /\ user'[u].strong = user[u].strong /\ user'[u].eligible = user[u].eligible
        /\ \A x \in Users \ {u} : user'[x] = user[x] /\ grant'[x] = grant[x]
    BY <1>0, <2>1 DEF User
  <2>3. AdminActive(u)' => AdminActive(u)
    BY <1>0, <2>1 DEF AdminActive, Grant
  <2>4. CredentialStands(u)'
    BY <1>0, <2>2, <2>3 DEF CredentialStands
  <2> QED
    BY <1>0, <2>1, <2>2, <2>4, EndsType, CredentialEnding
<1>3. ASSUME NEW u \in Users, NEW strong \in BOOLEAN, NewCredential(u, strong),
             UNCHANGED <<grant, req>>
      PROVE  CredentialInv'
  <2>1. /\ Ends(u, user[u].epoch, FALSE) /\ (AdminStaged(u) => strong)
        /\ user' = [user EXCEPT ![u] = [user[u] EXCEPT !.strong = strong, !.eligible = strong,
                                                       !.epoch = user[u].epoch + 1]]
    BY <1>0, <1>3 DEF NewCredential
  <2>2. /\ user'[u].strong = strong /\ user'[u].eligible = strong
        /\ \A x \in Users \ {u} : user'[x] = user[x]
    BY <1>0, <2>1 DEF User
  <2>3. AdminActive(u)' => strong
    BY <1>3, <2>1 DEF AdminActive, AdminStaged
  <2>4. CredentialStands(u)'
    BY <2>2, <2>3 DEF CredentialStands
  <2> QED
    BY <1>0, <1>3, <2>1, <2>2, <2>4, EndsType, CredentialEnding
<1>4. ASSUME NEW strong \in BOOLEAN, \/ \E u \in Users : CliReset(u, strong)
                                    \/ \E t \in Resets : ConsumeReset(t, strong)
      PROVE  CredentialInv'
  <2>1. \A t \in Resets : reset[t].state = "OPEN" => reset[t].user \in Users
    BY <1>0, FieldTypes DEF TypeInv, ArtifactsSound, Reset
  <2> QED
    BY <1>3, <1>4, <2>1 DEF CliReset, ConsumeReset
<1> QED
  BY <1>1, <1>2, <1>4

\* activate_pending_grants: an Admin grant becomes active by a credential that was
\* strong when it was read, and that still is the account's if the epoch is.
LEMMA CredentialActivates ==
  ASSUME CredentialInv, TypeInv', Forward, NEW q \in Requests, LoginActivate(q)
  PROVE  CredentialInv'
<1>0. /\ TypeInv /\ TypeOK /\ user \in [Users -> User] /\ grant \in [Users -> Grant]
      /\ req \in [Requests -> Request] /\ req[q].kind = "LOGIN" /\ req[q].user \in Users
  BY DEF CredentialInv, TypeInv, TypeOK, RequestSound, LoginActivate
<1>1. PICK u \in Users : u = req[q].user
  BY <1>0
<1>2. PICK e : e = req[q].read.epoch
  OBVIOUS
<1> DEFINE row == Corrected(q, user[u])
           given == [r \in Roles |-> IF r \in Activatable(q) THEN "ACTIVE" ELSE grant[u][r]]
<1>3. /\ grant' = [grant EXCEPT ![u] = given]
      /\ user' = [user EXCEPT ![u] = [row EXCEPT !.epoch = e + 1]]
      /\ Ends(u, e, FALSE)
  BY <1>1, <1>2 DEF LoginActivate
<1>4. row \in User /\ row.strong = user[u].strong
        /\ (row.eligible => user[u].eligible \/ req[q].read.strong)
  <2> DEFINE b == user[u].eligible \/ (req[q].read.strong /\ ~req[q].read.eligible)
  <2>1. row = [user[u] EXCEPT !.eligible = b]
    BY DEF Corrected
  <2>2. b \in BOOLEAN /\ (b => user[u].eligible \/ req[q].read.strong)
    OBVIOUS
  <2>3. user[u] \in User
    BY <1>0
  <2> HIDE DEF b, row
  <2> QED
    BY <2>1, <2>2, <2>3 DEF User
<1>5. "ADMIN" \in Roles /\ given["ADMIN"] = "ACTIVE" =>
        AdminActive(u) \/ req[q].read.eligible \/ req[q].read.strong
  BY DEF Activatable, AdminActive
<1> HIDE DEF row, given
<1>6. /\ user'[u].strong = user[u].strong
      /\ user'[u].eligible => user[u].eligible \/ req[q].read.strong
      /\ grant'[u] = given
      /\ \A x \in Users \ {u} : user'[x] = user[x] /\ grant'[x] = grant[x]
  BY <1>0, <1>3, <1>4 DEF User
<1>7. era'[u] = era[u] + 1 /\ (overlapped[u] => overlapped'[u])
        /\ (e # user[u].epoch => overlapped'[u])
  BY <1>0, <1>3, EndsType
<1>8. CredentialStands(u)'
  <2>1. ASSUME ~overlapped'[u], ~user[u].strong
        PROVE  ~user'[u].eligible /\ ~AdminActive(u)'
    <3>1. ~overlapped[u] /\ e = user[u].epoch
      BY <1>7, <2>1
    <3>2. ~user[u].eligible /\ ~AdminActive(u)
      BY <2>1, <3>1 DEF CredentialInv, CredentialStands
    <3>3. CredentialRead(q)
      BY DEF CredentialInv
    <3>4. ~req[q].read.strong /\ ~req[q].read.eligible
      BY <1>0, <1>1, <1>2, <2>1, <3>1, <3>3 DEF CredentialRead
    <3> QED
      BY <1>5, <1>6, <3>2, <3>4 DEF AdminActive
  <2> QED
    BY <1>6, <2>1 DEF CredentialStands
<1>9. req'[q].kind = "ACTIVATED" /\ \A x \in Requests \ {q} : req'[x] = req[x]
  BY <1>0 DEF LoginActivate, Request
<1> QED
  BY <1>6, <1>7, <1>8, <1>9, CredentialEnding

\* update_credential: a session that has seen no Admin grant may choose a weaker
\* credential, and then there is none, or its epoch is stale.
LEMMA CredentialUpdated ==
  ASSUME CredentialInv, TypeInv', Forward, NEW q \in Requests, NEW atOnce \in BOOLEAN,
         NEW strong \in BOOLEAN, UpdateCredential(q, atOnce, strong)
  PROVE  CredentialInv'
<1>0. TypeInv /\ TypeOK /\ user \in [Users -> User] /\ Session(q)
  BY DEF CredentialInv, TypeInv, TypeOK, UpdateCredential
<1>1. PICK u \in Users : u = req[q].user
  BY <1>0, SeenType
<1>2. PICK e : e = req[q].read.epoch
  OBVIOUS
<1>3. /\ Seen(q, atOnce).admin => strong
      /\ Ends(u, e, TRUE) /\ UNCHANGED grant /\ Done(q)
      /\ user' = [user EXCEPT ![u] = [user[u] EXCEPT !.strong = strong, !.eligible = strong,
                                                     !.epoch = e + 1]]
  BY <1>0, <1>1, <1>2 DEF UpdateCredential
<1>4. /\ user'[u].strong = strong /\ user'[u].eligible = strong
      /\ \A x \in Users \ {u} : user'[x] = user[x]
  BY <1>0, <1>3 DEF User
<1>5. era'[u] = era[u] + 1 /\ (overlapped[u] => overlapped'[u])
        /\ (e # user[u].epoch => overlapped'[u])
  BY <1>0, <1>3, EndsType
<1>6. ASSUME ~overlapped'[u], AdminActive(u)
      PROVE  strong
  <2>1. ~overlapped[u] /\ e = user[u].epoch
    BY <1>5, <1>6
  <2>2. CASE atOnce
    <3>1. Seen(q, atOnce) = req[q].read
      BY <2>2 DEF Seen
    <3>2. CredentialRead(q) /\ req[q].kind = "SESSION"
      BY <1>0 DEF CredentialInv, Session
    <3> QED
      BY <1>1, <1>2, <1>3, <1>6, <2>1, <3>1, <3>2 DEF CredentialRead
  <2>3. CASE ~atOnce
    <3>1. Seen(q, atOnce) = Read(u)
      BY <1>1, <2>3 DEF Seen
    <3>2. Read(u).admin
      BY <1>6 DEF Read, AdminActive
    <3> QED
      BY <1>3, <3>1, <3>2
  <2> QED
    BY <2>2, <2>3
<1>7. CredentialStands(u)'
  <2>1. AdminActive(u)' => AdminActive(u)
    BY <1>3 DEF AdminActive
  <2> QED
    BY <1>4, <1>6, <2>1 DEF CredentialStands
<1>8. \A x \in Requests : req'[x] \in {req[x], NoRequest}
  BY <1>0, <1>3, DoneType
<1> QED
  BY <1>3, <1>4, <1>5, <1>7, <1>8, CredentialEnding

\* _record_security_change writes the epoch only.
LEMMA CredentialChanges ==
  ASSUME CredentialInv, TypeInv', Forward, NEW q \in Requests, NEW atOnce \in BOOLEAN,
         SecurityChange(q, Seen(q, atOnce))
  PROVE  CredentialInv'
<1>0. TypeInv /\ TypeOK /\ user \in [Users -> User] /\ Session(q)
  BY DEF CredentialInv, TypeInv, TypeOK, SecurityChange
<1>1. PICK u \in Users : u = req[q].user
  BY <1>0, SeenType
<1>2. PICK e : e = Seen(q, atOnce).epoch
  OBVIOUS
<1>3. /\ Ends(u, e, TRUE) /\ UNCHANGED grant /\ Done(q)
      /\ user' = [user EXCEPT ![u] = [user[u] EXCEPT !.epoch = e + 1]]
  BY <1>0, <1>1, <1>2 DEF SecurityChange
<1>4. /\ user'[u].strong = user[u].strong /\ user'[u].eligible = user[u].eligible
      /\ \A x \in Users \ {u} : user'[x] = user[x]
  BY <1>0, <1>3 DEF User
<1>5. era'[u] = era[u] + 1 /\ (overlapped[u] => overlapped'[u])
  BY <1>0, <1>3, EndsType
<1>6. CredentialStands(u)'
  <2>1. CredentialStands(u)
    BY DEF CredentialInv
  <2> QED
    BY <1>3, <1>4, <1>5, <2>1 DEF CredentialStands, AdminActive
<1>7. \A x \in Requests : req'[x] \in {req[x], NoRequest}
  BY <1>0, <1>3, DoneType
<1> QED
  BY <1>3, <1>4, <1>5, <1>6, <1>7, CredentialEnding

LEMMA CredentialStep ==
  ASSUME CredentialInv, [Next]_vars
  PROVE  CredentialInv'
<1>0. TypeInv' /\ Forward
  BY TypeStep DEF CredentialInv
<1>1. CASE SignIn
  <2>1. PICK q \in Requests :
          \/ \E u \in Users : LoginRead(q, u) \/ PasskeyRead(q, u)
          \/ LoginActivate(q) \/ LoginWithoutFactor(q) \/ TotpRefused(q) \/ Abandon(q)
          \/ \E c \in Challenges : LoginChallenge(q, c) \/ TotpRead(q, c)
          \/ \E d \in Devices :
               \/ LoginFinish(q, d) \/ PasskeyFinish(q, d)
               \/ \E n \in 1 .. MaxCounter : TotpAccept(q, d, n)
               \/ \E c \in RecoveryCodes : RecoveryAccept(q, d, c)
    BY <1>1 DEF SignIn
  <2> QED
    BY <1>0, <2>1, CredentialReads, CredentialActivates, CredentialSignIn
<1>2. CASE FromSession
  <2>1. PICK q \in Requests :
          \/ \E d \in Devices : Enter(q, d) \/ RevokeOwnDevice(q, d)
          \/ RouteReads(q)
          \/ Logout(q) \/ RevokeOtherDevices(q) \/ RevokeAllDevices(q) \/ BeginTotp(q)
          \/ \E atOnce \in BOOLEAN :
               \/ \E strong \in BOOLEAN : UpdateCredential(q, atOnce, strong)
               \/ SecurityChange(q, Seen(q, atOnce))
    BY <1>2 DEF FromSession, RegisterPasskey, RemovePasskey, ConfirmTotp, RegenerateCodes,
                RemoveCodes, DisableTotp
  <2> QED
    BY <1>0, <2>1, CredentialReads, CredentialSignIn, CredentialUpdated, CredentialChanges
<1>3. CASE ByOthers
  BY <1>0, <1>3, CredentialReads, CredentialEvents, CredentialSignIn, CredentialGrants DEF ByOthers
<1>4. CASE UNCHANGED vars
  BY <1>0, <1>4, CredentialQuiet DEF vars, rows, history
<1> QED
  BY <1>1, <1>2, <1>3, <1>4 DEF Next

\* An account whose Admin grant is active has a credential that meets the Admin policy,
\* whichever of staging, sign-in, settings and reset came first (activate_pending_grants,
\* update_credential, _apply_credential_reset), unless its row was written from attributes
\* that another transaction had overtaken.
THEOREM AdminsAlwaysEligible == Spec => []AdminsEligible
<1>1. Init => CredentialInv
  <2>1. ASSUME Init
        PROVE  CredentialInv
    <3>1. \A u \in Users : ~AdminActive(u) /\ ~user[u].eligible
      BY <2>1 DEF Init, AdminActive
    <3>2. \A q \in Requests : req[q].kind = "NONE"
      BY <2>1 DEF Init, NoRequest
    <3> QED
      BY <2>1, <3>1, <3>2, TypeInit DEF CredentialInv, CredentialStands, CredentialRead
  <2> QED
    BY <2>1
<1>2. CredentialInv /\ [Next]_vars => CredentialInv'
  BY CredentialStep
<1>3. CredentialInv => AdminsEligible
  BY DEF CredentialInv, CredentialStands, AdminsEligible, AdminActive
<1> QED
  BY <1>1, <1>2, <1>3, PTL DEF Spec

=============================================================================
