--------------------------- MODULE RateLimitProofs ---------------------------
(***************************************************************************)
(* That the limiter of RateLimit is neither too generous nor too strict,   *)
(* for every rate, every burst and every behaviour of the clock.           *)
(***************************************************************************)
EXTENDS RateLimitInv, TLAPS

\* The units are numbers, and a full bucket holds a token at least.
LEMMA Constants == /\ Second \in Nat \ {0} /\ PerSecond \in Nat \ {0} /\ Burst \in Nat \ {0}
                   /\ Grain \in Nat \ {0} /\ Rounding \in Nat
                   /\ Token \in Nat \ {0} /\ PerTick \in Nat \ {0}
                   /\ Full \in Nat /\ Token <= Full
                   /\ PerTick + Rounding \in Int /\ PerTick - Rounding \in Int
                   /\ NoBucket \notin Bucket
<1>1. /\ Burst \in Nat \ {0} /\ Second \in Nat \ {0} /\ PerSecond \in Nat \ {0}
      /\ Grain \in Nat \ {0} /\ Rounding \in Nat
  BY LimitAssumption
<1>2. Token \in Nat \ {0} /\ PerTick \in Nat \ {0}
  BY <1>1 DEF Token, PerTick
<1>3. Full \in Nat /\ Token <= Full
  BY <1>1, <1>2 DEF Full
<1>4. NoBucket \notin Bucket
  BY LimitAssumption DEF Bucket, Full, Token
<1> QED
  BY <1>1, <1>2, <1>3, <1>4

\* Refilling never takes a token away or lets the bucket overflow, and adds what
\* the time since the last refill pays for, up to rounding.
LEMMA RefillBounds ==
  ASSUME NEW b \in Bucket, now \in Int, NEW c \in Refilled(b)
  PROVE  /\ c \in Bucket
         /\ c.lastRefill >= b.lastRefill /\ c.tokens >= b.tokens
         /\ \/ c.tokens = Full
            \/ c.tokens >= b.tokens + (PerTick - Rounding) * (c.lastRefill - b.lastRefill)
         /\ c.tokens <= b.tokens + (PerTick + Rounding) * (c.lastRefill - b.lastRefill)
<1>1. b.tokens \in Nat /\ b.tokens <= Full /\ b.lastRefill \in Int
  BY Constants DEF Bucket
<1>2. CASE now > b.lastRefill
  <2> DEFINE d == now - b.lastRefill
             r == Rounding * d
             p == PerTick * d
  <2>1. d \in Nat /\ d >= 1 /\ p \in Nat /\ r \in Nat
    BY <1>1, <1>2, Constants
  <2>2. r >= Rounding
    BY <2>1, Constants
  <2>3. (PerTick + Rounding) * d = p + r /\ (PerTick - Rounding) * d = p - r
    BY <2>1, Constants
  <2>4. PICK n \in Sums(b) : c = [tokens |-> AtMostFull(n), lastRefill |-> now]
    BY <1>2 DEF Refilled
  <2>5. n \in Int /\ n >= b.tokens /\ n <= b.tokens + p + Rounding
        /\ n >= b.tokens + p - Rounding
    BY <1>1, <2>1, Constants DEF Sums
  <2>6. c.lastRefill - b.lastRefill = d /\ c.lastRefill = now /\ c.tokens = AtMostFull(n)
    BY <2>4
  <2> HIDE DEF d, p, r
  <2>7. /\ AtMostFull(n) \in 0..Full /\ AtMostFull(n) <= n
        /\ AtMostFull(n) = Full \/ AtMostFull(n) = n
    BY <1>1, <2>5, Constants DEF AtMostFull
  <2>8. c \in Bucket
    BY <2>4, <2>7 DEF Bucket
  <2>9. /\ c.tokens >= b.tokens
        /\ c.tokens = Full \/ c.tokens >= b.tokens + (p - r)
        /\ c.tokens <= b.tokens + (p + r)
    BY <1>1, <2>1, <2>2, <2>5, <2>6, <2>7, Constants
  <2>10. c.lastRefill >= b.lastRefill
    BY <1>1, <1>2, <2>6
  <2> QED
    BY <2>3, <2>6, <2>8, <2>9, <2>10
<1>3. CASE ~(now > b.lastRefill)
  <2>1. /\ c = b /\ b.lastRefill - b.lastRefill = 0
        /\ (PerTick + Rounding) * 0 = 0 /\ (PerTick - Rounding) * 0 = 0
    BY <1>1, <1>3, Constants DEF Refilled
  <2> QED
    BY <1>1, <2>1
<1> QED
  BY <1>2, <1>3

\* A longer interval allows as much more as it is longer.
LEMMA Spread ==
  ASSUME NEW rate \in Int, NEW x \in Int, NEW y \in Int, NEW z \in Int
  PROVE  rate * (z - x) = rate * (y - x) + rate * (z - y)
OBVIOUS

-----------------------------------------------------------------------------
(* What the limit leaves *)

\* What the limit leaves is a number, negative when it is exceeded.
LEMMA LeftType ==
  ASSUME NEW rate \in Int, NEW t \in Int, NEW a \in Seq(Int), NEW i \in 1..Len(a)
  PROVE  Left(rate, t, a, i) \in Int
BY Constants DEF Left

\* Time adds to it.
LEMMA LeftLater ==
  ASSUME NEW rate \in Int, NEW t \in Int, NEW u \in Int,
         NEW a \in Seq(Int), NEW i \in 1..Len(a)
  PROVE  Left(rate, u, a, i) = Left(rate, t, a, i) + rate * (u - t)
<1>1. a[i] \in Int
  OBVIOUS
<1>2. rate * (u - a[i]) = rate * (t - a[i]) + rate * (u - t)
  BY <1>1, Spread
<1>3. /\ rate * (u - a[i]) \in Int /\ rate * (t - a[i]) \in Int
      /\ rate * (u - t) \in Int
      /\ (Len(a) - i + 1) * Token \in Int /\ Full \in Int
  BY <1>1, Constants
<1> DEFINE x == rate * (u - a[i])
           y == rate * (t - a[i])
           z == rate * (u - t)
           m == (Len(a) - i + 1) * Token
<1>4. Left(rate, u, a, i) = Full + x - m /\ Left(rate, t, a, i) = Full + y - m
  BY DEF Left
<1> HIDE DEF x, y, z, m
<1>5. Left(rate, u, a, i) = Left(rate, t, a, i) + z
  BY <1>2, <1>3, <1>4 DEF x, y, z, m
<1> QED
  BY <1>5 DEF z

\* A request that passes takes a token from it ...
LEMMA LeftAfterPass ==
  ASSUME NEW rate \in Int, NEW t \in Int, NEW x \in Int,
         NEW a \in Seq(Int), NEW i \in 1..Len(a)
  PROVE  Left(rate, t, Append(a, x), i) = Left(rate, t, a, i) - Token
<1>1. /\ Append(a, x)[i] = a[i] /\ Len(Append(a, x)) = Len(a) + 1
      /\ a[i] \in Int /\ Len(a) \in Nat /\ i \in Nat
  OBVIOUS
<1>2. (Len(a) + 1 - i + 1) * Token = (Len(a) - i + 1) * Token + Token
  BY <1>1, Constants
<1>3. /\ rate * (t - a[i]) \in Int /\ (Len(a) - i + 1) * Token \in Int
      /\ Full \in Int /\ Token \in Int
  BY <1>1, Constants
<1> QED
  BY <1>1, <1>2, <1>3 DEF Left

\* ... and starts a limit of its own.
LEMMA LeftOfNew ==
  ASSUME NEW rate \in Int, NEW t \in Int, NEW a \in Seq(Int)
  PROVE  Left(rate, t, Append(a, t), Len(a) + 1) = Full - Token
<1>1. /\ Append(a, t)[Len(a) + 1] = t /\ Len(Append(a, t)) = Len(a) + 1
      /\ Len(a) \in Nat
  OBVIOUS
<1>2. /\ rate * (t - t) = 0 /\ (Len(a) + 1 - (Len(a) + 1) + 1) * Token = Token
  BY <1>1, Constants
<1> QED
  BY <1>1, <1>2, Constants DEF Left

-----------------------------------------------------------------------------
(* A request *)

\* The bucket a request decides on holds what the limit leaves.
LEMMA RefilledFits ==
  ASSUME IndInv, NEW k \in Key, NEW b \in Refilled(Found(k))
  PROVE  /\ b \in Bucket
         /\ Affordable(b, admitted[k])
         /\ NoneWithheld(b, admitted[k])
<1> DEFINE a == admitted[k]
           f == Found(k)
           up == PerTick + Rounding
           down == PerTick - Rounding
<1>1. /\ now \in Int /\ a \in Seq(Int) /\ buckets[k] \in Bucket \cup {NoBucket}
      /\ IF buckets[k] = NoBucket THEN a = <<>>
         ELSE Affordable(buckets[k], a) /\ NoneWithheld(buckets[k], a)
  BY DEF IndInv, TypeOK, Budget
<1>2. /\ f \in Bucket /\ Affordable(f, a) /\ NoneWithheld(f, a)
  <2>1. CASE buckets[k] = NoBucket
    BY <1>1, <2>1, Constants DEF Found, Bucket, Affordable, NoneWithheld
  <2>2. CASE buckets[k] # NoBucket
    BY <1>1, <2>2 DEF Found
  <2> QED
    BY <2>1, <2>2
<1>3. b \in Refilled(f)
  OBVIOUS
<1> HIDE DEF f
<1> DEFINE d == b.lastRefill - f.lastRefill
<1>4. /\ b \in Bucket /\ b.lastRefill >= f.lastRefill /\ b.tokens >= f.tokens
      /\ b.tokens = Full \/ b.tokens >= f.tokens + down * d
      /\ b.tokens <= f.tokens + up * d
  BY <1>1, <1>2, <1>3, RefillBounds
<1>5. /\ b.tokens \in 0..Full /\ b.lastRefill \in Int
      /\ f.tokens \in 0..Full /\ f.lastRefill \in Int
  BY <1>2, <1>4 DEF Bucket
<1>6. d \in Nat /\ up \in Nat /\ down \in Int /\ up * d \in Nat /\ down * d \in Int
  BY <1>4, <1>5, Constants
<1> HIDE DEF a
<1>7. ASSUME NEW rate \in {up, down}, NEW i \in 1..Len(a)
      PROVE  /\ Left(rate, b.lastRefill, a, i) = Left(rate, f.lastRefill, a, i) + rate * d
             /\ Left(rate, f.lastRefill, a, i) \in Int /\ a[i] \in Int
  <2>1. rate \in Int
    BY <1>6
  <2>2. Left(rate, b.lastRefill, a, i) = Left(rate, f.lastRefill, a, i) + rate * d
    BY <2>1, <1>1, <1>5, LeftLater
  <2>3. Left(rate, f.lastRefill, a, i) \in Int
    BY <2>1, <1>1, <1>5, LeftType
  <2>4. a[i] \in Int
    BY <1>1
  <2> QED
    BY <2>2, <2>3, <2>4
<1>8. Affordable(b, a)
  <2> SUFFICES ASSUME NEW i \in 1..Len(a)
               PROVE  a[i] <= b.lastRefill /\ b.tokens <= Left(up, b.lastRefill, a, i)
    BY DEF Affordable
  <2>1. a[i] <= f.lastRefill /\ f.tokens <= Left(up, f.lastRefill, a, i)
    BY <1>2 DEF Affordable
  <2>2. /\ Left(up, b.lastRefill, a, i) = Left(up, f.lastRefill, a, i) + up * d
        /\ Left(up, f.lastRefill, a, i) \in Int /\ a[i] \in Int
    BY <1>7
  <2> HIDE DEF d, up
  <2> QED
    BY <2>1, <2>2, <1>4, <1>5, <1>6, Constants
<1>9. NoneWithheld(b, a)
  <2>1. CASE b.tokens = Full
    BY <2>1 DEF NoneWithheld
  <2>2. CASE f.tokens = Full
    BY <2>2, <1>4, <1>5, Constants DEF NoneWithheld
  <2>3. CASE /\ b.tokens >= f.tokens + down * d
             /\ \E i \in 1..Len(a) : f.tokens >= Left(down, f.lastRefill, a, i)
    <3>1. PICK i \in 1..Len(a) : f.tokens >= Left(down, f.lastRefill, a, i)
      BY <2>3
    <3>2. /\ Left(down, b.lastRefill, a, i) = Left(down, f.lastRefill, a, i) + down * d
          /\ Left(down, f.lastRefill, a, i) \in Int
      BY <1>7
    <3> HIDE DEF d, down
    <3>3. b.tokens >= Left(down, b.lastRefill, a, i)
      BY <3>1, <3>2, <2>3, <1>5, <1>6, Constants
    <3> QED
      BY <3>3 DEF NoneWithheld, down
  <2> QED
    BY <1>2, <1>4, <2>1, <2>2, <2>3 DEF NoneWithheld
<1> QED
  BY <1>4, <1>8, <1>9 DEF a

\* A request that passes keeps the buckets exact and the limit kept.
LEMMA PassStep ==
  ASSUME IndInv, NEW k \in Key, Pass(k)
  PROVE  IndInv'
<1> DEFINE a == admitted[k]
           n == Len(a)
           up == PerTick + Rounding
           down == PerTick - Rounding
<1>1. /\ now \in Int /\ a \in Seq(Int) /\ n \in Nat
  BY DEF IndInv, TypeOK
<1>2. PICK b \in Refilled(Found(k)) :
        /\ Token <= b.tokens
        /\ buckets' = [buckets EXCEPT ![k] = [b EXCEPT !.tokens = b.tokens - Token]]
        /\ reply' = [reply EXCEPT ![k] = "passed"]
        /\ admitted' = [admitted EXCEPT ![k] = Append(a, b.lastRefill)]
        /\ now' = now
  <2>1. PICK b \in Refilled(Found(k)) :
        /\ b.tokens >= Token
        /\ buckets' = [buckets EXCEPT ![k] = [b EXCEPT !.tokens = b.tokens - Token]]
        /\ reply' = [reply EXCEPT ![k] = "passed"]
        /\ admitted' = [admitted EXCEPT ![k] = Append(a, b.lastRefill)]
        /\ now' = now
    BY DEF Pass
  <2>2. b.tokens \in Int /\ Token \in Int
    BY RefilledFits, Constants DEF Bucket
  <2> QED
    BY <2>1, <2>2
<1> DEFINE c == [b EXCEPT !.tokens = b.tokens - Token]
           e == Append(a, b.lastRefill)
<1>3. b \in Bucket /\ Affordable(b, a) /\ NoneWithheld(b, a)
  BY RefilledFits
<1>4. /\ b.tokens \in 0..Full /\ b.lastRefill \in Int
      /\ c \in Bucket /\ c.tokens = b.tokens - Token /\ c.lastRefill = b.lastRefill
      /\ c # NoBucket
  <2>1. b.tokens \in 0..Full /\ b.lastRefill \in Int
    BY <1>3 DEF Bucket
  <2>2. b.tokens - Token \in 0..Full
    BY <2>1, <1>2, Constants
  <2>3. c \in Bucket /\ c.tokens = b.tokens - Token /\ c.lastRefill = b.lastRefill
    BY <2>2, <1>3 DEF Bucket
  <2> QED
    BY <2>1, <2>3, Constants
<1>5. /\ e \in Seq(Int) /\ Len(e) = n + 1
      /\ e[n + 1] = b.lastRefill /\ \A i \in 1..n : e[i] = a[i]
  BY <1>1, <1>4
<1>6. ASSUME NEW rate \in {up, down}
      PROVE  /\ Left(rate, c.lastRefill, e, n + 1) = Full - Token
             /\ \A i \in 1..n :
                  /\ Left(rate, c.lastRefill, e, i) = Left(rate, b.lastRefill, a, i) - Token
                  /\ Left(rate, b.lastRefill, a, i) \in Int
  <2>1. rate \in Int
    BY Constants
  <2>2. Left(rate, c.lastRefill, e, n + 1) = Full - Token
    BY <2>1, <1>1, <1>4, LeftOfNew
  <2>3. ASSUME NEW i \in 1..n
        PROVE  /\ Left(rate, c.lastRefill, e, i) = Left(rate, b.lastRefill, a, i) - Token
               /\ Left(rate, b.lastRefill, a, i) \in Int
    <3>1. /\ i \in 1..Len(a) /\ a \in Seq(Int)
          /\ b.lastRefill \in Int /\ c.lastRefill = b.lastRefill
      BY <1>1, <1>4
    <3>2. Left(rate, b.lastRefill, e, i) = Left(rate, b.lastRefill, a, i) - Token
      BY <3>1, <2>1, LeftAfterPass
    <3>3. Left(rate, b.lastRefill, a, i) \in Int
      BY <3>1, <2>1, LeftType
    <3> QED
      BY <3>1, <3>2, <3>3
  <2> QED
    BY <2>2, <2>3
<1>7. up \in Int /\ down \in Int
  BY Constants
<1> HIDE DEF c, e, a
<1>8. Affordable(c, e)
  <2> SUFFICES ASSUME NEW i \in 1..Len(e)
               PROVE  e[i] <= c.lastRefill /\ c.tokens <= Left(up, c.lastRefill, e, i)
    BY DEF Affordable
  <2>1. CASE i = n + 1
    BY <2>1, <1>4, <1>5, <1>6, Constants
  <2>2. CASE i \in 1..n
    <3>1. a[i] <= b.lastRefill /\ b.tokens <= Left(up, b.lastRefill, a, i)
      BY <2>2, <1>3 DEF Affordable
    <3>2. /\ Left(up, c.lastRefill, e, i) = Left(up, b.lastRefill, a, i) - Token
          /\ Left(up, b.lastRefill, a, i) \in Int
      BY <2>2, <1>6
    <3> QED
      BY <2>2, <3>1, <3>2, <1>4, <1>5, Constants
  <2> QED
    BY <2>1, <2>2, <1>1, <1>5
<1>9. NoneWithheld(c, e)
  <2>1. CASE b.tokens = Full
    <3>1. n + 1 \in 1..Len(e) /\ c.tokens = Left(down, c.lastRefill, e, n + 1)
      BY <2>1, <1>1, <1>4, <1>5, <1>6
    <3>2. c.tokens \in Int
      BY <1>4 DEF Bucket
    <3> QED
      BY <3>1, <3>2 DEF NoneWithheld
  <2>2. CASE \E i \in 1..n : b.tokens >= Left(down, b.lastRefill, a, i)
    <3>1. PICK i \in 1..n : b.tokens >= Left(down, b.lastRefill, a, i)
      BY <2>2
    <3>2. /\ Left(down, c.lastRefill, e, i) = Left(down, b.lastRefill, a, i) - Token
          /\ Left(down, b.lastRefill, a, i) \in Int
      BY <1>6
    <3>3. i \in 1..Len(e) /\ c.tokens >= Left(down, c.lastRefill, e, i)
      BY <3>1, <3>2, <1>1, <1>4, <1>5, Constants
    <3> QED
      BY <3>3 DEF NoneWithheld
  <2> QED
    BY <1>3, <2>1, <2>2 DEF NoneWithheld
<1>10. TypeOK'
  BY <1>2, <1>4, <1>5 DEF IndInv, TypeOK, c, e
<1>11. Budget'
  BY <1>2, <1>4, <1>8, <1>9 DEF IndInv, TypeOK, Budget, c, e
<1>12. RefusedLacksToken'
  BY <1>2 DEF IndInv, TypeOK, RefusedLacksToken
<1>13. \A i, j \in 1..Len(e) : i <= j =>
         (j - i + 1) * Token <= Full + up * (e[j] - e[i])
  <2> SUFFICES ASSUME NEW i \in 1..Len(e), NEW j \in 1..Len(e), i <= j
               PROVE  (j - i + 1) * Token <= Full + up * (e[j] - e[i])
    OBVIOUS
  <2>1. CASE j = n + 1
    <3>1. 0 <= Left(up, c.lastRefill, e, i) /\ e[j] = c.lastRefill /\ Len(e) = j
      <4>1. c.tokens <= Left(up, c.lastRefill, e, i)
        BY <1>8 DEF Affordable
      <4>2. c.tokens \in Nat /\ c.lastRefill \in Int
        BY <1>4, Constants DEF Bucket
      <4>3. Left(up, c.lastRefill, e, i) \in Int
        BY <4>2, <1>5, <1>7, LeftType
      <4> QED
        BY <2>1, <1>1, <1>4, <1>5, <4>1, <4>2, <4>3
    <3>2. (j - i + 1) * Token \in Int /\ up * (e[j] - e[i]) \in Int
      BY <1>5, <1>7, Constants
    <3> HIDE DEF up
    <3> QED
      BY <3>1, <3>2, Constants DEF Left
  <2>2. CASE i \in 1..n /\ j \in 1..n
    BY <2>2, <1>5 DEF IndInv, WithinLimit, a
  <2> QED
    BY <1>1, <1>5, <2>1, <2>2
<1>14. WithinLimit'
  BY <1>2, <1>13 DEF IndInv, TypeOK, WithinLimit, e, a
<1> QED
  BY <1>10, <1>11, <1>12, <1>14 DEF IndInv

\* So does a request that is refused, which only refills its bucket.
LEMMA RefuseStep ==
  ASSUME IndInv, NEW k \in Key, Refuse(k)
  PROVE  IndInv'
<1>1. PICK b \in Refilled(Found(k)) :
        /\ b.tokens < Token
        /\ buckets' = [buckets EXCEPT ![k] = b]
        /\ reply' = [reply EXCEPT ![k] = "refused"]
        /\ admitted' = admitted /\ now' = now
  BY DEF Refuse
<1>2. /\ b \in Bucket /\ Affordable(b, admitted[k]) /\ NoneWithheld(b, admitted[k])
      /\ b # NoBucket
  BY RefilledFits, Constants
<1>3. TypeOK'
  BY <1>1, <1>2 DEF IndInv, TypeOK
<1>4. Budget'
  BY <1>1, <1>2 DEF IndInv, TypeOK, Budget
<1>5. RefusedLacksToken'
  BY <1>1, <1>2 DEF IndInv, TypeOK, RefusedLacksToken
<1>6. WithinLimit'
  BY <1>1 DEF IndInv, WithinLimit
<1> QED
  BY <1>3, <1>4, <1>5, <1>6 DEF IndInv

-----------------------------------------------------------------------------
\* The invariant holds in every state: the tokens of a bucket are what the limit
\* leaves to the client, neither more nor less than rounding explains.
THEOREM Inductive == Spec => []IndInv
<1>1. Init => IndInv
  BY DEF Init, IndInv, TypeOK, Budget, RefusedLacksToken, WithinLimit
<1>2. IndInv /\ [Next]_vars => IndInv'
  <2> SUFFICES ASSUME IndInv, [Next]_vars
               PROVE  IndInv'
    OBVIOUS
  <2>1. CASE \E k \in Key : Pass(k) \/ Refuse(k)
    BY <2>1, PassStep, RefuseStep
  <2>2. CASE Tick \/ SetBack \/ UNCHANGED vars
    <3>1. /\ now' \in Int /\ buckets' = buckets
          /\ reply' = reply /\ admitted' = admitted
      BY <2>2 DEF Tick, SetBack, vars, IndInv, TypeOK
    <3> QED
      BY <3>1 DEF IndInv, TypeOK, Budget, RefusedLacksToken, WithinLimit
  <2> QED
    BY <2>1, <2>2 DEF Next
<1> QED
  BY <1>1, <1>2, PTL DEF Spec

\* Values stay within their types: no bucket is overdrawn or overfull.
THEOREM TypeCorrect == Spec => []TypeOK
BY Inductive, PTL DEF IndInv

\* In no interval do more requests of a client pass than a burst and what the
\* interval allows, with what rounding can add.
THEOREM LimitHolds == Spec => []WithinLimit
BY Inductive, PTL DEF IndInv

\* A bucket that lacks a token has given it to requests that passed.
LEMMA LackHasCause ==
  ASSUME IndInv
  PROVE  RefusalHasCause
<1> SUFFICES ASSUME NEW k \in Key, reply[k] = "refused"
             PROVE  \E i \in 1..Len(admitted[k]) :
                      (Len(admitted[k]) - i + 2) * Token
                        > Full + (PerTick - Rounding)
                                   * (buckets[k].lastRefill - admitted[k][i])
  BY DEF RefusalHasCause
<1> DEFINE a == admitted[k]
           t == buckets[k].lastRefill
           down == PerTick - Rounding
<1>1. /\ buckets[k] \in Bucket /\ buckets[k].tokens < Token
      /\ NoneWithheld(buckets[k], a) /\ a \in Seq(Int)
  BY DEF IndInv, TypeOK, Budget, RefusedLacksToken
<1>2. PICK i \in 1..Len(a) : buckets[k].tokens >= Left(down, t, a, i)
  BY <1>1, Constants DEF NoneWithheld, Bucket
<1>3. /\ t \in Int /\ a[i] \in Int /\ Len(a) \in Nat /\ i \in Nat
      /\ buckets[k].tokens \in Int
  BY <1>1 DEF Bucket
<1>4. down \in Int
  BY Constants
<1> HIDE DEF a, t, down
<1>5. /\ down * (t - a[i]) \in Int /\ (Len(a) - i + 1) * Token \in Int
      /\ (Len(a) - i + 2) * Token = (Len(a) - i + 1) * Token + Token
  BY <1>3, <1>4, Constants
<1>6. (Len(a) - i + 2) * Token > Full + down * (t - a[i])
  BY <1>1, <1>2, <1>3, <1>5, Constants DEF Left
<1> QED
  BY <1>6 DEF a, t, down

\* A request is refused only if passing would have exceeded the limit of a rate
\* that is lower by the rounding of a tick.
THEOREM NoFalseRefusal == Spec => []RefusalHasCause
BY LackHasCause, Inductive, PTL

-----------------------------------------------------------------------------
(* The same in whole tokens *)

\* Sums that are compared in units are compared in parts of a token, if what is
\* rounded is less than one.
LEMMA InParts ==
  ASSUME NEW p \in Int, NEW q \in Int, NEW r \in Int,
         p * Grain <= q * Grain + r, r < Grain
  PROVE  p <= q
<1> SUFFICES ASSUME p >= q + 1 PROVE FALSE
  OBVIOUS
<1>1. Grain \in Nat \ {0}
  BY Constants
<1>2. p * Grain >= (q + 1) * Grain /\ (q + 1) * Grain = q * Grain + Grain
  BY <1>1
<1>3. p * Grain \in Int /\ q * Grain \in Int
  BY <1>1
<1> QED
  BY <1>1, <1>2, <1>3

\* Parts of a token are ordered as their units are.
LEMMA Ordered ==
  ASSUME NEW p \in Int, NEW q \in Int, p <= q
  PROVE  p * Grain <= q * Grain
BY Constants

\* Both sides of the limit in parts of a token.
LEMMA SidesInParts ==
  ASSUME NEW n \in Int, NEW d \in Int
  PROVE  /\ n * Token = (n * Second) * Grain
         /\ Full + PerTick * d = (Burst * Second + PerSecond * d) * Grain
         /\ n * Second \in Int /\ Burst * Second + PerSecond * d \in Int
<1>1. n * (Second * Grain) = (n * Second) * Grain
  BY Constants
<1>2. Burst * (Second * Grain) = (Burst * Second) * Grain
  BY Constants
<1>3. (PerSecond * Grain) * d = (PerSecond * d) * Grain
  BY Constants
<1>4. n * Second \in Int /\ Burst * Second \in Int /\ PerSecond * d \in Int
  BY Constants
<1>5. (Burst * Second + PerSecond * d) * Grain
        = (Burst * Second) * Grain + (PerSecond * d) * Grain
  BY <1>4, Constants
<1> QED
  BY <1>1, <1>2, <1>3, <1>4, <1>5 DEF Token, Full, PerTick

\* The limit is exact as long as less than a part of a token can be rounded.
THEOREM LimitIsExact == Spec => []LimitInTokens
<1>1. IndInv => LimitInTokens
  <2> SUFFICES ASSUME IndInv, NEW k \in Key,
                      NEW i \in 1..Len(admitted[k]), NEW j \in 1..Len(admitted[k]),
                      i <= j, Rounding * (admitted[k][j] - admitted[k][i]) < Grain
               PROVE  (j - i + 1) * Second
                        <= Burst * Second + PerSecond * (admitted[k][j] - admitted[k][i])
    BY DEF LimitInTokens
  <2> DEFINE d == admitted[k][j] - admitted[k][i]
             n == j - i + 1
  <2>1. d \in Int /\ n \in Int
    BY DEF IndInv, TypeOK
  <2>2. n * Token <= Full + (PerTick + Rounding) * d
    BY DEF IndInv, WithinLimit
  <2> HIDE DEF d, n
  <2>3. (PerTick + Rounding) * d = PerTick * d + Rounding * d
        /\ PerTick * d \in Int /\ Rounding * d \in Int
    BY <2>1, Constants
  <2> DEFINE p == n * Second
             q == Burst * Second + PerSecond * d
  <2>4. /\ n * Token = p * Grain /\ Full + PerTick * d = q * Grain
        /\ p \in Int /\ q \in Int
    BY <2>1, SidesInParts
  <2>5. Rounding * d < Grain
    BY DEF d
  <2> HIDE DEF p, q
  <2>6. p * Grain <= q * Grain + Rounding * d
    BY <2>2, <2>3, <2>4, Constants
  <2>7. p <= q
    BY <2>3, <2>4, <2>5, <2>6, InParts
  <2> QED
    BY <2>7 DEF d, n, p, q
<1> QED
  BY <1>1, Inductive, PTL

\* A request is refused one tick too late at most, as long as what a tick adds
\* cannot have been rounded off since its client's requests that passed.
THEOREM RefusalsEnd == Spec => []RefusedATickLate
<1>1. IndInv => RefusedATickLate
  <2> SUFFICES ASSUME IndInv, NEW k \in Key, reply[k] = "refused",
                      \A i \in 1..Len(admitted[k]) :
                        Rounding * (buckets[k].lastRefill - admitted[k][i]) <= PerTick
               PROVE  \E i \in 1..Len(admitted[k]) :
                        (Len(admitted[k]) - i + 2) * Second
                          > Burst * Second
                              + PerSecond * (buckets[k].lastRefill - admitted[k][i] - 1)
    BY DEF RefusedATickLate
  <2> DEFINE a == admitted[k]
             t == buckets[k].lastRefill
  <2>1. PICK i \in 1..Len(a) :
          (Len(a) - i + 2) * Token > Full + (PerTick - Rounding) * (t - a[i])
    BY LackHasCause DEF RefusalHasCause
  <2> DEFINE d == t - a[i]
             n == Len(a) - i + 2
  <2>2. d \in Int /\ n \in Int
    BY DEF IndInv, TypeOK, RefusedLacksToken, Bucket
  <2>3. Rounding * d <= PerTick /\ n * Token > Full + (PerTick - Rounding) * d
    BY <2>1
  <2>4. SUFFICES n * Second > Burst * Second + PerSecond * (d - 1)
    OBVIOUS
  <2> HIDE DEF d, n
  <2>5. /\ (PerTick - Rounding) * d = PerTick * d - Rounding * d
        /\ PerTick * (d - 1) = PerTick * d - PerTick
        /\ PerTick * d \in Int /\ Rounding * d \in Int
    BY <2>2, Constants
  <2>6. n * Token > Full + PerTick * (d - 1)
    BY <2>2, <2>3, <2>5, Constants
  <2> DEFINE p == n * Second
             q == Burst * Second + PerSecond * (d - 1)
  <2>7. /\ n * Token = p * Grain /\ Full + PerTick * (d - 1) = q * Grain
        /\ p \in Int /\ q \in Int
    <3>1. d - 1 \in Int
      BY <2>2
    <3> QED
      BY <2>2, <3>1, SidesInParts
  <2>8. SUFFICES p > q
    OBVIOUS
  <2> HIDE DEF p, q
  <2>9. CASE p <= q
    <3>1. p * Grain <= q * Grain
      BY <2>7, <2>9, Ordered
    <3>2. p * Grain \in Int /\ q * Grain \in Int
      BY <2>7, Constants
    <3> QED
      BY <2>6, <2>7, <3>1, <3>2
  <2> QED
    BY <2>7, <2>9
<1> QED
  BY <1>1, Inductive, PTL
=============================================================================
