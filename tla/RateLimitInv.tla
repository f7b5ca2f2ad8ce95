---------------------------- MODULE RateLimitInv ----------------------------
(***************************************************************************)
(* The inductive invariant of RateLimit: what a bucket holds is what the   *)
(* limit leaves, up to rounding.                                           *)
(***************************************************************************)
EXTENDS RateLimit

\* What a limit of rate tokens a tick leaves at time t to a client whose requests
\* passed at the times of the sequence a, counted from the i-th of them.
Left(rate, t, a, i) == Full + rate * (t - a[i]) - (Len(a) - i + 1) * Token

\* The tokens of a bucket b are within every such limit, if all refills were
\* rounded up ...
Affordable(b, a) == \A i \in 1..Len(a) :
  /\ a[i] <= b.lastRefill
  /\ b.tokens <= Left(PerTick + Rounding, b.lastRefill, a, i)

\* ... and no less than one of them leaves if all were rounded down, unless the
\* bucket is full.
NoneWithheld(b, a) ==
  \/ b.tokens = Full
  \/ \E i \in 1..Len(a) : b.tokens >= Left(PerTick - Rounding, b.lastRefill, a, i)

Budget == \A k \in Key : IF buckets[k] = NoBucket THEN admitted[k] = <<>>
                         ELSE /\ Affordable(buckets[k], admitted[k])
                              /\ NoneWithheld(buckets[k], admitted[k])

\* A request is refused only for want of a token.
RefusedLacksToken == \A k \in Key : reply[k] = "refused" =>
                       buckets[k] # NoBucket /\ buckets[k].tokens < Token

IndInv == TypeOK /\ Budget /\ RefusedLacksToken /\ WithinLimit
=============================================================================
