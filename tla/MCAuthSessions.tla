--------------------------- MODULE MCAuthSessions ---------------------------
(* Small instances of AuthSessions for TLC. *)
EXTENDS AuthSessions, TLC

CONSTANTS u1, u2, p1, p2, o1, o2, r1, r2, r3

\* The account of u1 has the password p1, an open session and two reset links,
\* as two overlapping forgot_password leave them.  u2 has no account yet.
OpenSession ==
  /\ account = [u \in User |-> IF u = u1 THEN p1 ELSE NoPassword]
  /\ owner = [i \in Id |-> IF i = o1 THEN u1 ELSE NoUser]
  /\ linkOwner = [i \in Id |-> IF i \in Past THEN u1 ELSE NoUser]
  /\ live = {o1} /\ links = Past /\ used = {}

MCInit == OpenSession /\ Init
MCSpec == MCInit /\ [][Next]_vars
MCFairSpec == MCSpec /\ Fairness

Interchangeable == Permutations(Req)
=============================================================================
