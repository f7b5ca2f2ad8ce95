--------------------------- MODULE RealtimeHubProofs ---------------------------
(* Theorems of RealtimeHub for any users, connections and broadcasts.  The     *)
(* properties count the copies of an event in a sequence, so the lemmas about  *)
(* counting come first.                                                        *)
EXTENDS RealtimeHub, FiniteSetTheorems, TLAPS

At(s, e) == {i \in DOMAIN s : s[i] = e}
Times(s, e) == Cardinality(At(s, e))
Rising(s) == \A i, j \in DOMAIN s : i <= j => s[i] <= s[j]

-----------------------------------------------------------------------------
(* Counting *)

\* The copies of an event in a sequence can be counted.
LEMMA TimesFinite ==
  ASSUME NEW s \in Seq(Nat), NEW e
  PROVE  IsFiniteSet(At(s, e)) /\ Times(s, e) \in Nat
<1>1. IsFiniteSet(1..Len(s))
  BY FS_Interval
<1>2. At(s, e) \in SUBSET (1..Len(s))
  BY DEF At
<1> QED BY <1>1, <1>2, FS_Subset, FS_CardinalityType DEF Times

\* Counts of a concatenation add up.
LEMMA TimesConcat ==
  ASSUME NEW s \in Seq(Nat), NEW t \in Seq(Nat), NEW e
  PROVE  Times(s \o t, e) = Times(s, e) + Times(t, e)
<1> DEFINE moved == {i \in (Len(s) + 1)..(Len(s) + Len(t)) : t[i - Len(s)] = e}
           shift == [i \in At(t, e) |-> i + Len(s)]
<1>1. At(s \o t, e) = At(s, e) \cup moved
  BY DEF At
<1>2. At(s, e) \cap moved = {}
  BY DEF At
<1>3. shift \in Bijection(At(t, e), moved)
  <2>1. shift \in [At(t, e) -> moved]
    BY DEF At
  <2>2. \A i, j \in At(t, e) : shift[i] = shift[j] => i = j
    BY DEF At
  <2>3. \A k \in moved : \E i \in At(t, e) : shift[i] = k
    <3> SUFFICES ASSUME NEW k \in moved PROVE \E i \in At(t, e) : shift[i] = k
      OBVIOUS
    <3>1. k - Len(s) \in At(t, e) /\ shift[k - Len(s)] = k
      BY DEF At
    <3> QED BY <3>1
  <2> QED BY <2>1, <2>2, <2>3 DEF Bijection, Injection, Surjection, IsInjective
<1>4. IsFiniteSet(moved) /\ Cardinality(moved) = Times(t, e)
  BY <1>3, TimesFinite, FS_Bijection DEF ExistsBijection, Times
<1>5. Cardinality(At(s, e) \cup moved) =
        Cardinality(At(s, e)) + Cardinality(moved) - Cardinality(At(s, e) \cap moved)
  BY <1>4, TimesFinite, FS_Union
<1>6. Times(s, e) \in Nat /\ Times(t, e) \in Nat /\ Cardinality({}) = 0
  BY TimesFinite, FS_EmptySet
<1>7. Cardinality(At(s \o t, e)) = Cardinality(At(s, e)) + Cardinality(moved) - 0
  BY <1>1, <1>2, <1>5, <1>6, Zenon
<1> HIDE DEF moved
<1> QED BY <1>4, <1>6, <1>7 DEF Times

\* Concatenation is associative.
LEMMA ConcatAssociative ==
  ASSUME NEW r \in Seq(Nat), NEW s \in Seq(Nat), NEW t \in Seq(Nat)
  PROVE  r \o (s \o t) = (r \o s) \o t
OBVIOUS

\* An event that is not in a sequence is counted zero times.
LEMMA TimesAbsent ==
  ASSUME NEW s, NEW e, \A i \in DOMAIN s : s[i] # e
  PROVE  Times(s, e) = 0
<1>1. At(s, e) = {}
  BY DEF At
<1> QED BY <1>1, FS_EmptySet DEF Times

\* n copies are counted n times.
LEMMA TimesCopies ==
  ASSUME NEW n \in Nat, NEW e
  PROVE  Times([i \in 1..n |-> e], e) = n
<1>1. At([i \in 1..n |-> e], e) = 1..n
  BY DEF At
<1> QED BY <1>1, FS_Interval DEF Times

\* What the send task takes from a channel, and what it leaves.
LEMMA TakeHead ==
  ASSUME NEW S, NEW q \in Seq(S), q # <<>>, NEW s \in Seq(S)
  PROVE  Tail(q) \in Seq(S) /\ Append(s, Head(q)) \in Seq(S)
OBVIOUS

\* The head and the tail of a channel are the channel.
LEMMA HeadTail ==
  ASSUME NEW q \in Seq(Nat), q # <<>>
  PROVE  /\ Tail(q) \in Seq(Nat) /\ <<Head(q)>> \in Seq(Nat)
         /\ q = <<Head(q)>> \o Tail(q)
<1>1. Len(<<Head(q)>> \o Tail(q)) = Len(q)
  OBVIOUS
<1>2. \A i \in 1..Len(q) : (<<Head(q)>> \o Tail(q))[i] = q[i]
  OBVIOUS
<1> QED BY <1>1, <1>2

\* What the send task forwards was in the channel, and is with the peer then.
LEMMA ForwardKeeps ==
  ASSUME NEW s \in Seq(Nat), NEW q \in Seq(Nat), q # <<>>
  PROVE  Append(s, Head(q)) \o Tail(q) = s \o q
<1>1. /\ Append(s, Head(q)) \o Tail(q) \in Seq(Nat) /\ s \o q \in Seq(Nat)
      /\ Len(Append(s, Head(q)) \o Tail(q)) = Len(s \o q)
  OBVIOUS
<1>2. \A i \in 1..Len(s \o q) : (Append(s, Head(q)) \o Tail(q))[i] = (s \o q)[i]
  OBVIOUS
<1> QED BY <1>1, <1>2

\* Without its channel a stream rises as before and repeats nothing more often.
LEMMA NothingLeft ==
  ASSUME NEW s \in Seq(Nat), NEW q \in Seq(Nat), Rising(s \o q)
  PROVE  /\ <<>> \in Seq(Nat) /\ Rising(s \o <<>>)
         /\ \A e : Times(s \o <<>>, e) <= Times(s \o q, e)
<1>1. \A i \in DOMAIN s : i \in DOMAIN (s \o q) /\ (s \o q)[i] = s[i]
  OBVIOUS
<1>2. s \o <<>> = s
  OBVIOUS
<1>3. Rising(s)
  BY <1>1 DEF Rising
<1>4. ASSUME NEW e PROVE Times(s, e) <= Times(s \o q, e)
  <2>1. Times(s \o q, e) = Times(s, e) + Times(q, e)
    BY TimesConcat
  <2>2. Times(s, e) \in Nat /\ Times(q, e) \in Nat
    BY TimesFinite
  <2> QED BY <2>1, <2>2
<1> QED BY <1>2, <1>3, <1>4

\* The same without the head of the channel.
LEMMA TailLeft ==
  ASSUME NEW s \in Seq(Nat), NEW q \in Seq(Nat), q # <<>>, Rising(s \o q)
  PROVE  /\ Tail(q) \in Seq(Nat) /\ Rising(s \o Tail(q))
         /\ \A e : Times(s \o Tail(q), e) <= Times(s \o q, e)
<1> DEFINE n == Len(s)
           before == s \o q
           after == s \o Tail(q)
<1>1. Tail(q) \in Seq(Nat) /\ <<Head(q)>> \in Seq(Nat) /\ q = <<Head(q)>> \o Tail(q)
  BY HeadTail
<1>2. n \in Nat /\ DOMAIN after \subseteq Nat
  BY <1>1
<1>3. ASSUME NEW i \in DOMAIN after
      PROVE  /\ i \in DOMAIN before /\ i + 1 \in DOMAIN before
             /\ after[i] = IF i <= n THEN before[i] ELSE before[i + 1]
  OBVIOUS
<1>4. \A i, j \in DOMAIN before : i <= j => before[i] <= before[j]
  BY DEF Rising
<1> HIDE DEF before, after, n
<1>5. ASSUME NEW i \in DOMAIN after, NEW j \in DOMAIN after, i <= j
      PROVE  after[i] <= after[j]
  <2>1. i \in Nat /\ j \in Nat /\ i <= j + 1 /\ i + 1 <= j + 1
    BY <1>2, <1>5
  <2>2. CASE j <= n
    <3>1. i <= n
      BY <1>2, <1>5, <2>1, <2>2
    <3> QED BY <1>3, <1>4, <1>5, <2>2, <3>1
  <2>3. CASE i <= n /\ ~(j <= n)
    BY <1>3, <1>4, <2>1, <2>3
  <2>4. CASE ~(i <= n)
    <3>1. ~(j <= n)
      BY <1>2, <1>5, <2>1, <2>4
    <3> QED BY <1>3, <1>4, <2>1, <2>4, <3>1
  <2> QED BY <2>2, <2>3, <2>4
<1>6. ASSUME NEW e PROVE Times(s \o Tail(q), e) <= Times(s \o q, e)
  <2>1. /\ Times(s \o Tail(q), e) = Times(s, e) + Times(Tail(q), e)
        /\ Times(s \o q, e) = Times(s, e) + Times(q, e)
    BY <1>1, TimesConcat
  <2>2. Times(<<Head(q)>> \o Tail(q), e) = Times(<<Head(q)>>, e) + Times(Tail(q), e)
    BY <1>1, TimesConcat
  <2>3. /\ Times(s, e) \in Nat /\ Times(q, e) \in Nat
        /\ Times(Tail(q), e) \in Nat /\ Times(<<Head(q)>>, e) \in Nat
    BY <1>1, TimesFinite
  <2>4. Times(q, e) = Times(<<Head(q)>> \o Tail(q), e)
    BY <1>1
  <2> QED BY <2>1, <2>2, <2>3, <2>4
<1> QED BY <1>1, <1>5, <1>6 DEF Rising, after

\* A channel that gets n copies of a later event rises, and only the count of that
\* event changes.
LEMMA CopiesAdded ==
  ASSUME NEW s \in Seq(Nat), NEW d \in Nat, NEW n \in Nat,
         Rising(s), \A i \in DOMAIN s : s[i] < d
  PROVE  /\ Rising(s \o [i \in 1..n |-> d])
         /\ Times(s \o [i \in 1..n |-> d], d) = n
         /\ \A e : e # d => Times(s \o [i \in 1..n |-> d], e) = Times(s, e)
<1> DEFINE added == [i \in 1..n |-> d]
           t == s \o added
<1>1. added \in Seq(Nat)
  OBVIOUS
<1>2. Rising(t)
  <2>1. \A i \in DOMAIN t : t[i] = IF i <= Len(s) THEN s[i] ELSE d
    OBVIOUS
  <2>2. \A i \in DOMAIN t : i \in Nat /\ (i <= Len(s) => i \in DOMAIN s)
    OBVIOUS
  <2>3. \A i \in DOMAIN s : s[i] \in Nat
    OBVIOUS
  <2> HIDE DEF t
  <2> SUFFICES ASSUME NEW i \in DOMAIN t, NEW j \in DOMAIN t, i <= j
               PROVE  t[i] <= t[j]
    BY DEF Rising
  <2>4. CASE j <= Len(s)
    <3>1. i <= Len(s)
      BY <2>2, <2>4
    <3> QED BY <2>1, <2>2, <2>4, <3>1 DEF Rising
  <2>5. CASE ~(j <= Len(s))
    BY <2>1, <2>2, <2>3, <2>5
  <2> QED BY <2>4, <2>5
<1> HIDE DEF added
<1>3. \A e : Times(t, e) = Times(s, e) + Times(added, e)
  BY <1>1, TimesConcat
<1>4. Times(s, d) = 0
  <2>1. \A i \in DOMAIN s : s[i] # d
    OBVIOUS
  <2> QED BY <2>1, TimesAbsent
<1>5. Times(added, d) = n
  BY TimesCopies DEF added
<1>6. ASSUME NEW e, e # d PROVE Times(added, e) = 0
  <2>1. \A i \in DOMAIN added : added[i] # e
    BY <1>6 DEF added
  <2> QED BY <2>1, TimesAbsent
<1>7. \A e : Times(s, e) \in Nat
  BY TimesFinite
<1>8. Times(t, d) = n
  BY <1>3, <1>4, <1>5
<1>9. ASSUME NEW e, e # d PROVE Times(t, e) = Times(s, e)
  BY <1>3, <1>6, <1>7, <1>9
<1> QED BY <1>2, <1>8, <1>9 DEF added

-----------------------------------------------------------------------------
(* The invariant *)

\* A connection that was not opened has nothing; one that is open and subscribed
\* has its send task.
TasksFit ==
  \A c \in Conn :
    /\ sock[c] = "new" => /\ task[c] = "none" /\ ~Subscribed(c)
                          /\ queue[c] = <<>> /\ seen[c] = <<>>
    /\ sock[c] = "open" /\ Subscribed(c) => task[c] = "running"

\* Of a broadcast a connection was sent at most the copies of its user, and all of
\* them while it is subscribed.
Sent(c) == \A e \in 1..Len(log) :
  Times(Received(c), e) <= IF e > since[c] THEN log[e][UserOf[c]] ELSE 0
Complete(c) == sock[c] = "open" /\ Subscribed(c) =>
  \A e \in (since[c] + 1)..Len(log) : Times(Received(c), e) = log[e][UserOf[c]]

StreamFits(c) == Rising(Received(c)) /\ Sent(c) /\ Complete(c)

HubInv == TypeOK /\ TasksFit /\ \A c \in Conn : StreamFits(c)

\* The names of the broadcasts in a channel, or at a peer, are numbers.
LEMMA Events ==
  ASSUME TypeOK, NEW c \in Conn
  PROVE  /\ queue[c] \in Seq(Nat) /\ seen[c] \in Seq(Nat) /\ Received(c) \in Seq(Nat)
         /\ Len(log) \in Nat /\ since[c] \in Nat
         /\ \A i \in DOMAIN Received(c) : Received(c)[i] \in 1..Len(log)
         /\ UserOf[c] \in User
         /\ \A e \in 1..Len(log) : log[e][UserOf[c]] \in Nat
<1>1. queue[c] \in Seq(1..Len(log)) /\ seen[c] \in Seq(1..Len(log))
  BY DEF TypeOK
<1>2. Len(log) \in Nat /\ since[c] \in Nat
  BY DEF TypeOK
<1>3. queue[c] \in Seq(Nat) /\ seen[c] \in Seq(Nat)
  BY <1>1, <1>2
<1>4. Received(c) \in Seq(1..Len(log)) /\ Received(c) \in Seq(Nat)
  BY <1>1, <1>3 DEF Received
<1>5. \A i \in DOMAIN Received(c) : Received(c)[i] \in 1..Len(log)
  BY <1>4
<1>6. UserOf[c] \in User
  BY HubAssumption
<1>7. \A e \in 1..Len(log) : log[e] \in [User -> Nat]
  BY DEF TypeOK
<1> QED BY <1>2, <1>3, <1>4, <1>5, <1>6, <1>7

\* What a user is sent of a broadcast is a number of copies.
LEMMA CopiesType ==
  ASSUME NEW actor \in User, NEW targets \in Targets, NEW u \in User
  PROVE  Copies(actor, targets, u) \in Nat
<1>1. targets \in Seq(User)
  <2>1. CASE targets = <<>>
    BY <2>1
  <2>2. ASSUME NEW v \in User, NEW w \in User, targets = <<v, w>>
        PROVE  targets \in Seq(User)
    BY <2>2
  <2> QED BY <2>1, <2>2 DEF Targets
<1>2. IsFiniteSet(1..Len(targets))
  BY <1>1, FS_Interval
<1>3. {i \in DOMAIN targets : targets[i] = u} \in SUBSET (1..Len(targets))
  BY <1>1
<1>4. Cardinality({i \in DOMAIN targets : targets[i] = u}) \in Nat
  BY <1>2, <1>3, FS_Subset, FS_CardinalityType
<1> QED BY <1>4 DEF Copies

\* The initial state has no connection.
LEMMA InitHub == Init => HubInv
<1> SUFFICES ASSUME Init PROVE HubInv
  OBVIOUS
<1>1. TypeOK
  BY HubAssumption DEF Init, TypeOK
<1>2. TasksFit
  BY HubAssumption DEF Init, TasksFit, Subscribed
<1>3. ASSUME NEW c \in Conn PROVE StreamFits(c)
  <2>1. Received(c) = <<>> /\ Len(log) = 0
    BY DEF Init, Received
  <2> QED BY <2>1 DEF Init, StreamFits, Rising, Sent, Complete
<1> QED BY <1>1, <1>2, <1>3 DEF HubInv

-----------------------------------------------------------------------------
(* Types and tasks *)

\* Every action keeps the types.
LEMMA TypeStep ==
  ASSUME TypeOK, [Next]_vars
  PROVE  TypeOK'
<1>1. ASSUME NEW c \in Conn, Subscribe(c) PROVE TypeOK'
  <2>1. UserOf[c] \in User /\ Len(log) \in 0..Len(log)
    BY HubAssumption DEF TypeOK
  <2> QED BY <1>1, <2>1 DEF Subscribe, TypeOK
<1>2. ASSUME NEW c \in Conn, PeerCloses(c) PROVE TypeOK'
  BY <1>2 DEF PeerCloses, TypeOK
<1>3. ASSUME NEW c \in Conn, Forward(c) PROVE TypeOK'
  <2>1. queue[c] \in Seq(1..Len(log)) /\ queue[c] # <<>> /\ seen[c] \in Seq(1..Len(log))
    BY <1>3 DEF Forward, TypeOK
  <2> DEFINE E == 1..Len(log)
  <2>2. queue[c] \in Seq(E) /\ seen[c] \in Seq(E) /\ queue[c] # <<>>
    BY <2>1
  <2> HIDE DEF E
  <2>3. Tail(queue[c]) \in Seq(E) /\ Append(seen[c], Head(queue[c])) \in Seq(E)
    BY <2>2, TakeHead
  <2>4. <<>> \in Seq(E)
    OBVIOUS
  <2> QED BY <1>3, <2>3, <2>4 DEF Forward, TypeOK, E
<1>4. ASSUME NEW c \in Conn, ChannelCloses(c) PROVE TypeOK'
  BY <1>4 DEF ChannelCloses, TypeOK
<1>5. ASSUME NEW c \in Conn, StopSending(c) PROVE TypeOK'
  BY <1>5 DEF StopSending, TypeOK
<1>6. ASSUME NEW c \in Conn, RemoveAll(c) PROVE TypeOK'
  BY <1>6 DEF RemoveAll, TypeOK
<1>7. ASSUME NEW actor \in User, NEW targets \in Targets, Broadcast(actor, targets)
      PROVE  TypeOK'
  <2> DEFINE copies == [u \in User |-> Copies(actor, targets, u)]
  <2>1. copies \in [User -> Nat]
    BY CopiesType
  <2>2. log' = Append(log, copies) /\ Len(log) < MaxEvents
    BY <1>7 DEF Broadcast
  <2>3. log' \in Seq([User -> Nat]) /\ Len(log') = Len(log) + 1 /\ Len(log) \in Nat
    BY <2>1, <2>2 DEF TypeOK
  <2>4. ASSUME NEW c \in Conn
        PROVE  /\ queue[c] \in Seq(1..Len(log')) /\ seen[c] \in Seq(1..Len(log'))
               /\ queue[c] \o [i \in 1..copies[UserOf[c]] |-> Len(log) + 1]
                    \in Seq(1..Len(log'))
               /\ since[c] \in 0..Len(log')
    <3>1. copies[UserOf[c]] \in Nat
      BY <2>1, HubAssumption
    <3>2. queue[c] \in Seq(1..Len(log)) /\ seen[c] \in Seq(1..Len(log)) /\ since[c] \in 0..Len(log)
      BY DEF TypeOK
    <3>3. queue[c] \in Seq(1..Len(log')) /\ seen[c] \in Seq(1..Len(log')) /\ since[c] \in 0..Len(log')
      BY <2>3, <3>2
    <3>4. Len(log) + 1 \in 1..Len(log')
      BY <2>3
    <3> HIDE DEF copies
    <3>5. [i \in 1..copies[UserOf[c]] |-> Len(log) + 1] \in Seq(1..Len(log'))
      BY <3>1, <3>4
    <3> QED BY <3>3, <3>5
  <2>5. queue' \in [Conn -> Seq(1..Len(log'))]
    BY <1>7, <2>4 DEF Broadcast
  <2>6. /\ clients' \in [User -> SUBSET Conn]
        /\ \A u \in User : \A c \in clients'[u] : UserOf[c] = u
    BY <1>7 DEF Broadcast, TypeOK
  <2>7. UNCHANGED <<sock, task, seen, since>>
    BY <1>7 DEF Broadcast
  <2>8. MaxEvents \in Nat
    BY HubAssumption
  <2>9. seen' \in [Conn -> Seq(1..Len(log'))] /\ since' \in [Conn -> 0..Len(log')]
    BY <2>4, <2>7 DEF TypeOK
  <2> QED BY <2>2, <2>3, <2>5, <2>6, <2>7, <2>8, <2>9 DEF TypeOK
<1>8. CASE UNCHANGED vars
  BY <1>8 DEF vars, TypeOK
<1> QED BY <1>1, <1>2, <1>3, <1>4, <1>5, <1>6, <1>7, <1>8 DEF Next, Serve

\* Every action keeps a subscribed, open connection with its send task, and what
\* was not opened without one.
LEMMA TasksStep ==
  ASSUME TypeOK, TasksFit, [Next]_vars
  PROVE  TasksFit'
<1>1. ASSUME NEW c \in Conn, Subscribe(c) PROVE TasksFit'
  BY <1>1, HubAssumption DEF Subscribe, TypeOK, TasksFit, Subscribed
<1>2. ASSUME NEW c \in Conn, PeerCloses(c) PROVE TasksFit'
  BY <1>2 DEF PeerCloses, TypeOK, TasksFit, Subscribed
<1>3. ASSUME NEW c \in Conn, Forward(c) PROVE TasksFit'
  BY <1>3 DEF Forward, TypeOK, TasksFit, Subscribed
<1>4. ASSUME NEW c \in Conn, ChannelCloses(c) PROVE TasksFit'
  BY <1>4 DEF ChannelCloses, TypeOK, TasksFit, Subscribed
<1>5. ASSUME NEW c \in Conn, StopSending(c) PROVE TasksFit'
  BY <1>5 DEF StopSending, TypeOK, TasksFit, Subscribed
<1>6. ASSUME NEW c \in Conn, RemoveAll(c) PROVE TasksFit'
  BY <1>6, HubAssumption DEF RemoveAll, TypeOK, TasksFit, Subscribed
<1>7. ASSUME NEW actor \in User, NEW targets \in Targets, Broadcast(actor, targets)
      PROVE  TasksFit'
  <2>1. ASSUME NEW c \in Conn PROVE Subscribed(c)' => Subscribed(c)
    BY <1>7, HubAssumption DEF Broadcast, Subscribed, TypeOK
  <2>2. UNCHANGED <<sock, task, seen>>
    BY <1>7 DEF Broadcast
  <2>3. ASSUME NEW c \in Conn, ~Subscribed(c) PROVE queue'[c] = queue[c]
    BY <1>7, <2>3 DEF Broadcast
  <2> QED BY <2>1, <2>2, <2>3 DEF TasksFit
<1>8. CASE UNCHANGED vars
  BY <1>8 DEF vars, TasksFit, Subscribed
<1> QED BY <1>1, <1>2, <1>3, <1>4, <1>5, <1>6, <1>7, <1>8 DEF Next, Serve

-----------------------------------------------------------------------------
(* What a connection is sent *)

\* What was sent to a connection is the same, and it is not subscribed anew.
LEMMA SameStream ==
  ASSUME NEW c \in Conn, StreamFits(c), Received(c)' = Received(c), log' = log,
         since'[c] = since[c],
         sock'[c] = "open" /\ Subscribed(c)' => sock[c] = "open" /\ Subscribed(c)
  PROVE  StreamFits(c)'
BY DEF StreamFits, Rising, Sent, Complete

\* A connection whose peer is gone loses the head of its channel, or all of it.
LEMMA LessInChannel ==
  ASSUME NEW c \in Conn, TypeOK, StreamFits(c), log' = log, since'[c] = since[c],
         seen'[c] = seen[c], sock'[c] # "open",
         \/ queue[c] # <<>> /\ queue'[c] = Tail(queue[c])
         \/ queue'[c] = <<>>
  PROVE  StreamFits(c)'
<1>1. queue[c] \in Seq(Nat) /\ seen[c] \in Seq(Nat)
  BY Events
<1>2. Received(c) = seen[c] \o queue[c] /\ Received(c)' = seen[c] \o queue'[c]
  BY DEF Received
<1>3. Rising(seen[c] \o queue[c])
  BY <1>2 DEF StreamFits
<1>4. /\ queue'[c] \in Seq(Nat) /\ Rising(seen[c] \o queue'[c])
      /\ \A e : Times(seen[c] \o queue'[c], e) <= Times(seen[c] \o queue[c], e)
  <2>1. CASE queue'[c] = <<>>
    BY <1>1, <1>3, <2>1, NothingLeft
  <2>2. CASE queue[c] # <<>> /\ queue'[c] = Tail(queue[c])
    BY <1>1, <1>3, <2>2, TailLeft
  <2> QED BY <2>1, <2>2
<1>5. Sent(c)'
  <2> SUFFICES ASSUME NEW e \in 1..Len(log)
               PROVE  Times(seen[c] \o queue'[c], e)
                        <= IF e > since[c] THEN log[e][UserOf[c]] ELSE 0
    BY <1>2 DEF Sent
  <2>1. Times(seen[c] \o queue[c], e) <= IF e > since[c] THEN log[e][UserOf[c]] ELSE 0
    BY <1>2 DEF StreamFits, Sent
  <2>2. seen[c] \o queue[c] \in Seq(Nat) /\ seen[c] \o queue'[c] \in Seq(Nat)
    BY <1>1, <1>4
  <2>3. /\ Times(seen[c] \o queue[c], e) \in Nat /\ Times(seen[c] \o queue'[c], e) \in Nat
        /\ log[e][UserOf[c]] \in Nat
    BY <2>2, Events, TimesFinite
  <2>4. Times(seen[c] \o queue'[c], e) <= Times(seen[c] \o queue[c], e)
    BY <1>4
  <2> QED BY <2>1, <2>3, <2>4
<1>6. Rising(Received(c))'
  BY <1>2, <1>4 DEF Rising
<1> QED BY <1>5, <1>6 DEF StreamFits, Complete

\* A broadcast adds the copies of its user to a subscribed connection, and nothing
\* to another.
LEMMA BroadcastStream ==
  ASSUME HubInv, NEW actor \in User, NEW targets \in Targets,
         Broadcast(actor, targets), NEW c \in Conn
  PROVE  StreamFits(c)'
<1> DEFINE copies == [u \in User |-> Copies(actor, targets, u)]
           n == copies[UserOf[c]]
           d == Len(log) + 1
<1>1. TypeOK /\ TasksFit /\ StreamFits(c)
  BY DEF HubInv
<1>2. n \in Nat /\ d \in Nat
  BY <1>1, CopiesType, Events
<1>3. /\ log' = Append(log, copies) /\ UNCHANGED <<sock, seen, since>>
      /\ queue'[c] = IF Subscribed(c) /\ task[c] = "running"
                     THEN queue[c] \o [i \in 1..n |-> d] ELSE queue[c]
      /\ Subscribed(c)' => Subscribed(c)
  <2>1. UserOf[c] \in User /\ clients \in [User -> SUBSET Conn]
    BY <1>1, Events DEF TypeOK
  <2> QED BY <2>1 DEF Broadcast, Subscribed
<1>4. /\ Len(log') = d /\ log'[d] = copies
      /\ \A e \in 1..Len(log) : e \in 1..Len(log') /\ log'[e] = log[e] /\ e # d
      /\ \A e \in 1..Len(log') : e = d \/ e \in 1..Len(log)
  <2>1. log \in Seq([User -> Nat])
    BY <1>1 DEF TypeOK
  <2> HIDE DEF copies
  <2> QED BY <1>3, <2>1
<1> DEFINE old == Received(c)
           now == Received(c)'
<1>5. /\ queue[c] \in Seq(Nat) /\ seen[c] \in Seq(Nat) /\ old \in Seq(Nat)
      /\ since[c] \in Nat /\ since[c] < d
      /\ \A i \in DOMAIN old : old[i] < d
  <2>1. since[c] \in 0..Len(log)
    BY <1>1 DEF TypeOK
  <2>2. \A i \in DOMAIN old : old[i] \in 1..Len(log)
    BY <1>1, Events
  <2>3. Len(log) \in Nat
    BY <1>1, Events
  <2> QED BY <1>1, <2>1, <2>2, <2>3, Events
<1> HIDE DEF d, n, copies
<1>6. now = IF Subscribed(c) /\ task[c] = "running"
            THEN old \o [i \in 1..n |-> d] ELSE old
  <2>1. CASE ~(Subscribed(c) /\ task[c] = "running")
    BY <1>3, <2>1 DEF Received
  <2>2. CASE Subscribed(c) /\ task[c] = "running"
    <3> DEFINE added == [i \in 1..n |-> d]
    <3>1. added \in Seq(Nat)
      BY <1>2
    <3>2. now = seen[c] \o (queue[c] \o added)
      BY <1>3, <2>2 DEF Received
    <3> HIDE DEF added
    <3>3. seen[c] \o (queue[c] \o added) = (seen[c] \o queue[c]) \o added
      BY <1>5, <3>1, ConcatAssociative
    <3> QED BY <2>2, <3>2, <3>3 DEF Received, added
  <2> QED BY <2>1, <2>2
<1>7. Rising(old)
  BY <1>1 DEF StreamFits
<1>8. /\ Rising(now) /\ \A e \in 1..Len(log) : Times(now, e) = Times(old, e)
      /\ Times(now, d) <= n
      /\ Subscribed(c) /\ task[c] = "running" => Times(now, d) = n
  <2>1. CASE Subscribed(c) /\ task[c] = "running"
    <3>1. now = old \o [i \in 1..n |-> d]
      BY <1>6, <2>1
    <3>2. /\ Rising(old \o [i \in 1..n |-> d]) /\ Times(old \o [i \in 1..n |-> d], d) = n
          /\ \A e : e # d => Times(old \o [i \in 1..n |-> d], e) = Times(old, e)
      <4> HIDE DEF old
      <4> QED BY <1>2, <1>5, <1>7, CopiesAdded
    <3> HIDE DEF old, now
    <3>3. Rising(now) /\ Times(now, d) = n
      BY <3>1, <3>2
    <3>4. \A e : e # d => Times(now, e) = Times(old, e)
      BY <3>1, <3>2
    <3> QED BY <1>2, <1>4, <3>3, <3>4
  <2>2. CASE ~(Subscribed(c) /\ task[c] = "running")
    <3>1. now = old
      BY <1>6, <2>2
    <3>2. \A i \in DOMAIN old : old[i] # d
      BY <1>2, <1>5
    <3>3. Times(old, d) = 0
      BY <3>2, TimesAbsent
    <3> QED BY <1>2, <1>7, <2>2, <3>1, <3>3
  <2> QED BY <2>1, <2>2
<1>9. log'[d][UserOf[c]] = n
  BY <1>4 DEF n
<1>10. Sent(c)'
  <2> SUFFICES ASSUME NEW e \in 1..Len(log')
               PROVE  Times(now, e) <= IF e > since[c] THEN log'[e][UserOf[c]] ELSE 0
    BY <1>3 DEF Sent
  <2>1. CASE e = d
    BY <1>2, <1>5, <1>8, <1>9, <2>1
  <2>2. CASE e \in 1..Len(log)
    BY <1>1, <1>4, <1>8, <2>2 DEF StreamFits, Sent
  <2> QED BY <1>4, <2>1, <2>2
<1>11. Complete(c)'
  <2> SUFFICES ASSUME sock[c] = "open", Subscribed(c), NEW e \in (since[c] + 1)..Len(log')
               PROVE  Times(now, e) = log'[e][UserOf[c]]
    BY <1>3 DEF Complete
  <2>1. task[c] = "running"
    BY <1>1 DEF TasksFit
  <2>2. CASE e = d
    BY <1>8, <1>9, <2>1, <2>2
  <2>3. CASE e # d
    <3>1. e \in 1..Len(log) /\ e \in (since[c] + 1)..Len(log)
      BY <1>2, <1>4, <1>5, <2>3
    <3>2. Times(old, e) = log[e][UserOf[c]]
      BY <1>1, <3>1 DEF StreamFits, Complete
    <3> QED BY <1>4, <1>8, <3>1, <3>2
  <2> QED BY <2>2, <2>3
<1> QED BY <1>8, <1>10, <1>11 DEF StreamFits, Rising

\* Every action keeps what the connections were sent in order and complete.
LEMMA StreamStep ==
  ASSUME HubInv, [Next]_vars, NEW c \in Conn
  PROVE  StreamFits(c)'
<1>1. TypeOK /\ TasksFit /\ StreamFits(c)
  BY DEF HubInv
<1>2. ASSUME NEW d \in Conn, Subscribe(d) PROVE StreamFits(c)'
  <2>1. CASE d # c
    <3>1. /\ Received(c)' = Received(c) /\ log' = log /\ since'[c] = since[c]
          /\ sock'[c] = sock[c] /\ Subscribed(c)' = Subscribed(c)
      <4>1. clients \in [User -> SUBSET Conn] /\ UserOf[c] \in User
        BY <1>1, Events DEF TypeOK
      <4> QED BY <1>2, <2>1, <4>1 DEF Subscribe, Received, Subscribed
    <3> QED BY <1>1, <3>1, SameStream
  <2>2. CASE d = c
    <3>1. /\ Received(c)' = <<>> /\ log' = log /\ since'[c] = Len(log)
      BY <1>1, <1>2, <2>2 DEF Subscribe, Received, TasksFit, TypeOK
    <3>2. Rising(Received(c))'
      BY <3>1 DEF Rising
    <3>3. Sent(c)'
      <4>1. \A e : Times(<<>>, e) = 0
        BY TimesAbsent
      <4>2. Len(log) \in Nat
        BY <1>1, Events
      <4> QED BY <3>1, <4>1, <4>2 DEF Sent
    <3>4. Complete(c)'
      <4>1. (Len(log) + 1)..Len(log) = {}
        BY <1>1, Events
      <4> QED BY <3>1, <4>1 DEF Complete
    <3> QED BY <3>2, <3>3, <3>4 DEF StreamFits
  <2> QED BY <2>1, <2>2
<1>3. ASSUME NEW d \in Conn, PeerCloses(d) PROVE StreamFits(c)'
  <2>1. /\ Received(c)' = Received(c) /\ log' = log /\ since'[c] = since[c]
        /\ sock'[c] = "open" => sock[c] = "open"
        /\ Subscribed(c)' = Subscribed(c)
    BY <1>1, <1>3 DEF PeerCloses, Received, Subscribed, TypeOK
  <2> QED BY <1>1, <2>1, SameStream
<1>4. ASSUME NEW d \in Conn, Forward(d) PROVE StreamFits(c)'
  <2>1. /\ log' = log /\ since'[c] = since[c] /\ sock'[c] = sock[c]
        /\ Subscribed(c)' = Subscribed(c)
    BY <1>4 DEF Forward, Subscribed
  <2>2. CASE d # c
    <3>1. Received(c)' = Received(c)
      BY <1>1, <1>4, <2>2 DEF Forward, Received, TypeOK
    <3> QED BY <1>1, <2>1, <3>1, SameStream
  <2>3. CASE d = c /\ sock[c] = "open"
    <3>1. /\ seen'[c] = Append(seen[c], Head(queue[c])) /\ queue'[c] = Tail(queue[c])
          /\ queue[c] # <<>>
      BY <1>1, <1>4, <2>3 DEF Forward, TypeOK
    <3>2. /\ queue[c] \in Seq(Nat) /\ seen[c] \in Seq(Nat)
      BY <1>1, Events
    <3>3. Append(seen[c], Head(queue[c])) \o Tail(queue[c]) = seen[c] \o queue[c]
      BY <3>1, <3>2, ForwardKeeps
    <3>4. Received(c)' = Received(c)
      BY <3>1, <3>3 DEF Received
    <3> QED BY <1>1, <2>1, <3>4, SameStream
  <2>4. CASE d = c /\ sock[c] # "open"
    <3>1. /\ seen'[c] = seen[c] /\ queue[c] # <<>>
          /\ queue'[c] = Tail(queue[c]) \/ queue'[c] = <<>>
      BY <1>1, <1>4, <2>4 DEF Forward, TypeOK
    <3> QED BY <1>1, <2>1, <2>4, <3>1, LessInChannel
  <2> QED BY <2>2, <2>3, <2>4
<1>5. ASSUME NEW d \in Conn, ChannelCloses(d) PROVE StreamFits(c)'
  <2>1. /\ Received(c)' = Received(c) /\ log' = log /\ since'[c] = since[c]
        /\ sock'[c] = sock[c] /\ Subscribed(c)' = Subscribed(c)
    BY <1>5 DEF ChannelCloses, Received, Subscribed
  <2> QED BY <1>1, <2>1, SameStream
<1>6. ASSUME NEW d \in Conn, StopSending(d) PROVE StreamFits(c)'
  <2>1. /\ log' = log /\ since'[c] = since[c] /\ seen'[c] = seen[c]
        /\ Subscribed(c)' = Subscribed(c)
    BY <1>6 DEF StopSending, Subscribed
  <2>2. CASE d # c
    <3>1. Received(c)' = Received(c) /\ sock'[c] = sock[c]
      BY <1>1, <1>6, <2>2 DEF StopSending, Received, TypeOK
    <3> QED BY <1>1, <2>1, <3>1, SameStream
  <2>3. CASE d = c
    <3>1. sock'[c] # "open" /\ queue'[c] = <<>>
      BY <1>1, <1>6, <2>3 DEF StopSending, TypeOK
    <3> QED BY <1>1, <2>1, <3>1, LessInChannel
  <2> QED BY <2>2, <2>3
<1>7. ASSUME NEW d \in Conn, RemoveAll(d) PROVE StreamFits(c)'
  <2>1. /\ Received(c)' = Received(c) /\ log' = log /\ since'[c] = since[c]
        /\ sock'[c] = "open" => sock[c] = "open"
        /\ Subscribed(c)' => Subscribed(c)
    <3>1. UserOf[c] \in User /\ UserOf[d] \in User
      BY HubAssumption
    <3> QED BY <1>1, <1>7, <3>1 DEF RemoveAll, Received, Subscribed, TypeOK
  <2> QED BY <1>1, <2>1, SameStream
<1>8. ASSUME NEW actor \in User, NEW targets \in Targets, Broadcast(actor, targets)
      PROVE  StreamFits(c)'
  BY <1>8, BroadcastStream
<1>9. CASE UNCHANGED vars
  <2>1. /\ Received(c)' = Received(c) /\ log' = log /\ since'[c] = since[c]
        /\ sock'[c] = sock[c] /\ Subscribed(c)' = Subscribed(c)
    BY <1>9 DEF vars, Received, Subscribed
  <2> QED BY <1>1, <2>1, SameStream
<1> QED BY <1>2, <1>3, <1>4, <1>5, <1>6, <1>7, <1>8, <1>9 DEF Next, Serve

-----------------------------------------------------------------------------
(* Theorems *)

\* The invariant holds in every reachable state.
THEOREM Inductive == Spec => []HubInv
<1>1. Init => HubInv
  BY InitHub
<1>2. HubInv /\ [Next]_vars => HubInv'
  <2> SUFFICES ASSUME HubInv, [Next]_vars PROVE HubInv'
    OBVIOUS
  <2>1. TypeOK' /\ TasksFit'
    BY TypeStep, TasksStep DEF HubInv
  <2>2. \A c \in Conn : StreamFits(c)'
    BY StreamStep
  <2> QED BY <2>1, <2>2 DEF HubInv
<1> QED BY <1>1, <1>2, PTL DEF Spec

\* The hub, the tasks and the channels of todo_realtime_service.rs and
\* todo_realtime_controller.rs stay within their types.
THEOREM TypeCorrect == Spec => []TypeOK
<1>1. HubInv => TypeOK
  BY DEF HubInv
<1> QED BY <1>1, Inductive, PTL

\* A connection is sent its own user's events only, in the order of the broadcasts,
\* and none more often than broadcast_todo_change sent it.
THEOREM StreamsAreOwnInOrder == Spec => []OnlyOwnInOrder
<1>1. HubInv => OnlyOwnInOrder
  BY DEF HubInv, StreamFits, Rising, Sent, Times, At, OnlyOwnInOrder
<1> QED BY <1>1, Inductive, PTL

\* An open connection whose sender the hub holds misses no event of its user.
THEOREM SubscribersMissNothing == Spec => []SubscribedMissesNothing
<1>1. HubInv => SubscribedMissesNothing
  BY DEF HubInv, StreamFits, Complete, Times, At, SubscribedMissesNothing
<1> QED BY <1>1, Inductive, PTL
=============================================================================
