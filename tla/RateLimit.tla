------------------------------ MODULE RateLimit ------------------------------
(***************************************************************************)
(* The token buckets of the Bun back end,                                  *)
(* bun_hono/src/middleware/rateLimit.ts.                                   *)
(*                                                                         *)
(* The middleware runs without an await from the lookup of a client's      *)
(* bucket to its update, so a request is one action.  A token is counted   *)
(* as Second * Grain units, of which the clock adds PerSecond * Grain at   *)
(* every tick.  The code keeps its tokens in a float: a refill may come    *)
(* out up to Rounding units above or below the exact sum.  Taking a token  *)
(* is exact.  Date.now() is the wall clock, which may be set back.         *)
(***************************************************************************)
EXTENDS Integers, Sequences

CONSTANTS Key,        \* the addresses clients are told apart by
          Second,     \* ticks of the clock in a second (1000)
          PerSecond,  \* RATE_LIMIT_PER_SECOND
          Burst,      \* RATE_LIMIT_BURST
          Grain,      \* units in the part of a token that a tick can add
          Rounding,   \* units a refill may be off by
          MaxTime,    \* bound on the clock
          NoBucket

ASSUME LimitAssumption ==
  /\ Second \in Nat \ {0}
  /\ PerSecond \in Nat \ {0}  \* parsePositiveInt
  /\ Burst \in Nat \ {0}      \* parsePositiveInt
  /\ Grain \in Nat \ {0} /\ Rounding \in Nat
  /\ MaxTime \in Nat
  /\ NoBucket \notin [tokens : 0..(Burst * (Second * Grain)), lastRefill : Int]

VARIABLES
  now,      \* the clock
  buckets,  \* a client's bucket, once it has sent a request
  reply,    \* how its last request was answered
  admitted  \* history: for its requests that passed, the latest clock reading
            \* it had caused by then

vars == <<now, buckets, reply, admitted>>

Token == Second * Grain
PerTick == PerSecond * Grain
Full == Burst * Token
Bucket == [tokens : 0..Full, lastRefill : Int]

TypeOK ==
  /\ now \in Int
  /\ buckets \in [Key -> Bucket \cup {NoBucket}]
  /\ reply \in [Key -> {"none", "passed", "refused"}]
  /\ admitted \in [Key -> Seq(Int)]

Init ==
  /\ now = 0
  /\ buckets = [k \in Key |-> NoBucket]
  /\ reply = [k \in Key |-> "none"]
  /\ admitted = [k \in Key |-> <<>>]

-----------------------------------------------------------------------------
Found(k) == IF buckets[k] = NoBucket
            THEN [tokens |-> Full, lastRefill |-> now] ELSE buckets[k]

AtMostFull(n) == IF n > Full THEN Full ELSE n

\* What bucket.tokens + elapsed * refillRate may be.  A sum that is rounded is not
\* less than what is added to.
Sums(b) == LET exact == b.tokens + PerTick * (now - b.lastRefill)
           IN {n \in (exact - Rounding)..(exact + Rounding) : n >= b.tokens}

\* Mutant: no Math.min.
RefilledFreely(b) ==
  IF now > b.lastRefill
  THEN {[tokens |-> n, lastRefill |-> now] : n \in Sums(b)} ELSE {b}

\* Mutant: the same time is counted again by the next request.
RefilledAgain(b) ==
  IF now > b.lastRefill
  THEN {[tokens |-> AtMostFull(n), lastRefill |-> b.lastRefill] : n \in Sums(b)} ELSE {b}

\* Mutant: whole tokens only, and the rest of the time is forgotten.
RefilledByTokens(b) ==
  IF now > b.lastRefill
  THEN {[tokens |-> AtMostFull(b.tokens + Token * ((n - b.tokens) \div Token)),
         lastRefill |-> now] : n \in Sums(b)} ELSE {b}

\* Time that has passed fills the bucket; a clock that was set back does not.
Refilled(b) ==
  IF now > b.lastRefill
  THEN {[tokens |-> AtMostFull(n), lastRefill |-> now] : n \in Sums(b)} ELSE {b}

Pass(k) == \E b \in Refilled(Found(k)) :
  /\ b.tokens >= Token
  /\ buckets' = [buckets EXCEPT ![k] = [b EXCEPT !.tokens = b.tokens - Token]]
  /\ reply' = [reply EXCEPT ![k] = "passed"]
  /\ admitted' = [admitted EXCEPT ![k] = Append(@, b.lastRefill)]
  /\ UNCHANGED now

\* 429.  The bucket that was found is refilled in place; a new one, which would
\* not be stored, is full and never gets here.
Refuse(k) == \E b \in Refilled(Found(k)) :
  /\ b.tokens < Token
  /\ buckets' = [buckets EXCEPT ![k] = b]
  /\ reply' = [reply EXCEPT ![k] = "refused"]
  /\ UNCHANGED <<now, admitted>>

Tick == now < MaxTime /\ now' = now + 1 /\ UNCHANGED <<buckets, reply, admitted>>

\* An administrator, or the time service, sets the clock back.
SetBack == \E t \in 0..(now - 1) :
              now' = t /\ UNCHANGED <<buckets, reply, admitted>>

Next == Tick \/ SetBack \/ \E k \in Key : Pass(k) \/ Refuse(k)

Spec == Init /\ [][Next]_vars

-----------------------------------------------------------------------------
(* Properties *)

\* The limit: of the requests of a client that passed, those from the i-th to
\* the j-th are no more than a burst and what the time between the two allows,
\* whatever the clock does.  A refill needs a later reading of the clock, so what
\* is rounded in the client's favour is Rounding for every tick at most.
WithinLimit ==
  \A k \in Key : \A i, j \in 1..Len(admitted[k]) : i <= j =>
    (j - i + 1) * Token
      <= Full + (PerTick + Rounding) * (admitted[k][j] - admitted[k][i])

\* Nobody is refused without cause: had the refused request passed, it would
\* have exceeded the limit counted from one of the requests that did, of a rate
\* that is lower by what may be rounded off in a tick.
RefusalHasCause ==
  \A k \in Key : reply[k] = "refused" =>
    \E i \in 1..Len(admitted[k]) :
      (Len(admitted[k]) - i + 2) * Token
        > Full + (PerTick - Rounding) * (buckets[k].lastRefill - admitted[k][i])

\* Both without rounding.  The limit is exact as long as less than a Grain can be
\* rounded in the time between: tokens come in such parts.
LimitInTokens ==
  \A k \in Key : \A i, j \in 1..Len(admitted[k]) :
    LET elapsed == admitted[k][j] - admitted[k][i] IN
    i <= j /\ Rounding * elapsed < Grain =>
      (j - i + 1) * Second <= Burst * Second + PerSecond * elapsed

\* And a request is refused one tick too late at most, as long as what a tick adds
\* cannot have been rounded off since its client's requests that passed.
RefusedATickLate ==
  \A k \in Key :
    /\ reply[k] = "refused"
    /\ \A i \in 1..Len(admitted[k]) :
         Rounding * (buckets[k].lastRefill - admitted[k][i]) <= PerTick
    => \E i \in 1..Len(admitted[k]) :
         (Len(admitted[k]) - i + 2) * Second
           > Burst * Second + PerSecond * (buckets[k].lastRefill - admitted[k][i] - 1)
=============================================================================
