SPECIFICATION PeopleSpec
CONSTANTS
  People = {p1, p2}
  Users = {u1}
  Emails = {e1, e2}
  Invites = {i1, i2}
  Signups = {s1}
  Requests = {q1}
  NoEmail = NoEmail
  NoPerson = NoPerson
  NoInvite = NoInvite
  NoSignup = NoSignup
  MaxExceptions = 1
SYMMETRY Symmetry
INVARIANTS LinkedEmailsAgree OneOpenInvitation
CHECK_DEADLOCK FALSE
