----------------------------- MODULE MCSessions -----------------------------
(* Sessions for TLC: the rows that are only names are interchangeable, and   *)
(* states that differ only in what no action and no property reads are one.  *)
EXTENDS Sessions, TLC

Symmetry == Permutations(Devices) \cup Permutations(Requests)

\* Of a revoked device only its user and the code that opened it are read.
DeviceRead(d) ==
  IF device[d].revoked THEN [device[d] EXCEPT !.epoch = 0, !.era = 0] ELSE device[d]

\* Of a consumed challenge, only that it is one.
ChallengeRead(c) ==
  IF challenge[c].state = "CONSUMED" THEN [challenge[c] EXCEPT !.era = 0]
  ELSE challenge[c]

\* Of what a request read of its user, what its commit uses.
RequestRead(q) ==
  CASE req[q].kind = "SESSION" ->
         [req[q] EXCEPT !.read.eligible = FALSE, !.read.strong = FALSE]
    [] req[q].kind \in {"ACTIVATED", "TOTP", "PASSKEY"} ->
         [req[q] EXCEPT !.read = [NoRead EXCEPT !.epoch = req[q].read.epoch]]
    [] req[q].kind = "LOGIN" ->
         [req[q] EXCEPT !.read.admin = FALSE, !.read.policy = FALSE]
    [] OTHER -> req[q]

View ==
  <<user, grant, [d \in Devices |-> DeviceRead(d)],
    [c \in Challenges |-> ChallengeRead(c)], reset, factor,
    [q \in Requests |-> RequestRead(q)], history>>

=============================================================================
