---------------------------- MODULE BoardPageProofs ----------------------------
(* Theorems of BoardPage for any todos, positions and bounds.  What a drop       *)
(* sends is shown to be the board with one card moved: the places of a column   *)
(* are counted, so that no sorting need be reasoned about.  The invariant of    *)
(* BoardPageInv is shown to be inductive, one lemma per action.                 *)
EXTENDS BoardPageInv, FiniteSetTheorems, TLAPS

Status == ToSet(columnOrder)

\* The columns the user drops on are columns.
LEMMA TargetStatus == Target \subseteq Status
<1>1. \A n \in 1..3 : ToSet(statusSections[n]) \subseteq Status
  BY DEF statusSections, columnOrder, Status, ToSet
<1> QED BY <1>1, PageAssumption DEF PageAssumption

\* The index of a card in a list is that of a card.
LEMMA CardAt ==
  ASSUME NEW cards \in Seq(Card)
  PROVE  /\ DOMAIN cards \subseteq Nat /\ IsFiniteSet(DOMAIN cards)
         /\ \A i \in DOMAIN cards :
              /\ cards[i] \in Card /\ cards[i].id \in Todo
              /\ cards[i].status \in Status /\ cards[i].position \in Nat
<1>1. DOMAIN cards = 1..Len(cards) /\ Len(cards) \in Nat
  OBVIOUS
<1>2. \A i \in DOMAIN cards : cards[i] \in Card
  OBVIOUS
<1>3. IsFiniteSet(1..Len(cards))
  BY <1>1, FS_Interval
<1> QED BY <1>1, <1>2, <1>3 DEF Card, Status

\* A column is a finite set of indexes.
LEMMA ColumnAt ==
  ASSUME NEW cards \in Seq(Card), NEW t, NEW s
  PROVE  /\ IsFiniteSet(todosByStatus(cards, s))
         /\ Others(cards, t, s) \subseteq todosByStatus(cards, s)
         /\ IsFiniteSet(Others(cards, t, s))
         /\ Cardinality(Others(cards, t, s)) \in Nat
<1>1. /\ todosByStatus(cards, s) \subseteq DOMAIN cards
      /\ Others(cards, t, s) \subseteq todosByStatus(cards, s)
  BY DEF todosByStatus, Others
<1>2. IsFiniteSet(todosByStatus(cards, s))
  BY <1>1, CardAt, FS_Subset
<1>3. IsFiniteSet(Others(cards, t, s))
  BY <1>1, <1>2, FS_Subset
<1> QED BY <1>1, <1>2, <1>3, FS_CardinalityType

\* A card comes after fewer of its column than a later one, and a column of n has
\* the places 0 to n - 1, each of them taken.
LEMMA PlacesCount ==
  ASSUME NEW cards \in Seq(Card), NEW S \in SUBSET DOMAIN cards
  PROVE  /\ Cardinality(S) \in Nat
         /\ \A i \in S : Place(cards, S, i) \in 0..Cardinality(S) - 1
         /\ \A i, j \in S : Place(cards, S, i) < Place(cards, S, j) <=> Before(cards, i, j)
         /\ \A i, j \in S : Place(cards, S, i) = Place(cards, S, j) => i = j
         /\ \A p \in 0..Cardinality(S) - 1 : \E i \in S : Place(cards, S, i) = p
<1> DEFINE Prior(i) == {j \in S : Before(cards, j, i)}
           n == Cardinality(S)
<1>1. IsFiniteSet(S) /\ n \in Nat
  BY CardAt, FS_Subset, FS_CardinalityType
<1>2. \A i \in S : i \in Nat /\ cards[i].position \in Nat
  BY CardAt
<1>3. \A i, j \in S : Before(cards, i, j) \/ Before(cards, j, i) \/ i = j
  BY <1>2 DEF Before
<1>4. \A i, j \in S : ~(Before(cards, i, j) /\ Before(cards, j, i))
  BY <1>2 DEF Before
<1>5. \A i, j, k \in S : Before(cards, i, j) /\ Before(cards, j, k) => Before(cards, i, k)
  BY <1>2 DEF Before
<1>6. \A i \in S : IsFiniteSet(Prior(i)) /\ Place(cards, S, i) = Cardinality(Prior(i))
                   /\ Cardinality(Prior(i)) \in Nat
  BY <1>1, FS_Subset, FS_CardinalityType DEF Place
<1>7. ASSUME NEW i \in S PROVE Place(cards, S, i) \in 0..n - 1
  <2>1. Prior(i) \subseteq S \ {i}
    BY <1>4
  <2>2. IsFiniteSet(S \ {i}) /\ Cardinality(S \ {i}) = n - 1
    BY <1>1, FS_RemoveElement
  <2>3. Cardinality(Prior(i)) <= n - 1
    BY <2>1, <2>2, FS_Subset
  <2>4. Place(cards, S, i) = Cardinality(Prior(i)) /\ Cardinality(Prior(i)) \in Nat
    BY <1>6
  <2> HIDE DEF Prior
  <2> QED BY <1>1, <2>3, <2>4
<1>8. ASSUME NEW i \in S, NEW j \in S, Before(cards, i, j)
      PROVE  Place(cards, S, i) < Place(cards, S, j)
  <2>1. Prior(i) \subseteq Prior(j)
    BY <1>5, <1>8
  <2>2. i \in Prior(j) /\ i \notin Prior(i)
    BY <1>4, <1>8
  <2>3. Cardinality(Prior(i)) <= Cardinality(Prior(j))
        /\ Cardinality(Prior(i)) # Cardinality(Prior(j))
    BY <1>6, <2>1, <2>2, FS_Subset
  <2>4. /\ Place(cards, S, i) = Cardinality(Prior(i)) /\ Cardinality(Prior(i)) \in Nat
        /\ Place(cards, S, j) = Cardinality(Prior(j)) /\ Cardinality(Prior(j)) \in Nat
    BY <1>6
  <2> HIDE DEF Prior
  <2> QED BY <2>3, <2>4
<1>9. \A i, j \in S : Place(cards, S, i) < Place(cards, S, j) <=> Before(cards, i, j)
  <2> SUFFICES ASSUME NEW i \in S, NEW j \in S,
                      Place(cards, S, i) < Place(cards, S, j), ~Before(cards, i, j)
               PROVE  FALSE
    BY <1>8
  <2>1. Place(cards, S, i) \in Int /\ Place(cards, S, j) \in Int
    BY <1>7
  <2> QED BY <1>3, <1>8, <2>1
<1>10. \A i, j \in S : Place(cards, S, i) = Place(cards, S, j) => i = j
  <2> SUFFICES ASSUME NEW i \in S, NEW j \in S,
                      Place(cards, S, i) = Place(cards, S, j), i # j
               PROVE  FALSE
    OBVIOUS
  <2>1. Place(cards, S, i) \in Int /\ Place(cards, S, j) \in Int
    BY <1>7
  <2> QED BY <1>3, <1>8, <2>1
<1>11. \A p \in 0..n - 1 : \E i \in S : Place(cards, S, i) = p
  <2> DEFINE place == [i \in S |-> Place(cards, S, i)]
  <2>1. place \in Injection(S, 0..n - 1)
    <3>1. place \in [S -> 0..n - 1]
      BY <1>7
    <3>2. \A i, j \in S : place[i] = place[j] => i = j
      BY <1>10
    <3> HIDE DEF place
    <3> QED BY <3>1, <3>2 DEF Injection, IsInjective
  <2>2. IsFiniteSet(0..n - 1) /\ Cardinality(0..n - 1) = n
    <3>1. 0 \in Int /\ n - 1 \in Int /\ (0 > n - 1 <=> n = 0)
      BY <1>1
    <3> HIDE DEF n
    <3> QED BY <1>1, <3>1, FS_Interval
  <2>3. place \in Surjection(S, 0..n - 1)
    <3> HIDE DEF place
    <3> QED BY <2>1, <2>2, FS_Injection
  <2>4. \A p \in 0..n - 1 : \E i \in S : place[i] = p
    <3> HIDE DEF place
    <3> QED BY <2>3 DEF Surjection
  <2> QED BY <2>4
<1> QED BY <1>1, <1>7, <1>9, <1>10, <1>11

-----------------------------------------------------------------------------
(* What a drop sends *)

\* A card keeps its status for a column, for every card has one the page knows.
LEMMA ColumnOfCard ==
  ASSUME NEW cards \in Seq(Card), NEW t, NEW c \in Status
  PROVE  /\ todosByStatus(cards, c) = {i \in DOMAIN cards : cards[i].status = c}
         /\ Others(cards, t, c) = {i \in DOMAIN cards : cards[i].status = c /\ cards[i].id # t}
<1>1. \A i \in DOMAIN cards : ColumnOf(cards[i].status) = cards[i].status
  BY CardAt DEF ColumnOf, Status
<1> QED BY <1>1 DEF todosByStatus, Others

\* The place a card that was not moved is sent with, and its item.
SentPlace(cards, t, s, index, i) ==
  LET p == Place(cards, Others(cards, t, cards[i].status), i) IN
  IF cards[i].status = s /\ p >= clampedIndex(cards, t, s, index) THEN p + 1 ELSE p
SentItem(cards, t, s, index, i) ==
  [id |-> cards[i].id, status |-> cards[i].status,
   position |-> SentPlace(cards, t, s, index, i)]
MovedItem(cards, t, s, index) ==
  [id |-> t, status |-> s, position |-> clampedIndex(cards, t, s, index)]

\* DropItems sends one item for the moved card and one for each other card.
LEMMA ItemsOfDrop ==
  ASSUME NEW cards \in Seq(Card), NEW t, NEW s, NEW index
  PROVE  DropItems(cards, t, s, index) =
           {MovedItem(cards, t, s, index)} \cup
           {SentItem(cards, t, s, index, i) : i \in {j \in DOMAIN cards : cards[j].id # t}}
<1> DEFINE clamped == clampedIndex(cards, t, s, index)
           Shifted(c, p) == IF c = s /\ p >= clamped THEN p + 1 ELSE p
           Item(c, i) == [id |-> cards[i].id, status |-> c,
                          position |-> Shifted(c, Place(cards, Others(cards, t, c), i))]
           Sent(i) == SentItem(cards, t, s, index, i)
           moved == MovedItem(cards, t, s, index)
           rest == {j \in DOMAIN cards : cards[j].id # t}
<1>1. DropItems(cards, t, s, index) =
        {moved} \cup UNION {{Item(c, i) : i \in Others(cards, t, c)} : c \in Status}
  BY DEF DropItems, MovedItem, Status
<1>2. ASSUME NEW c \in Status, NEW i \in Others(cards, t, c)
      PROVE  i \in rest /\ Item(c, i) = Sent(i)
  <2>1. i \in rest /\ cards[i].status = c
    BY ColumnOfCard
  <2>2. Item(c, i) = Item(cards[i].status, i)
    BY <2>1
  <2> QED BY <2>1, <2>2 DEF SentItem, SentPlace
<1>3. ASSUME NEW i \in rest
      PROVE  cards[i].status \in Status /\ i \in Others(cards, t, cards[i].status)
  BY CardAt, ColumnOfCard
<1> HIDE DEF Item, Sent, rest, moved
<1>4. UNION {{Item(c, i) : i \in Others(cards, t, c)} : c \in Status} = {Sent(i) : i \in rest}
  BY <1>2, <1>3
<1> QED BY <1>1, <1>4 DEF Sent, rest, moved

\* The place of the moved card is its index, or the end, and lies within its column.
LEMMA MovedPlace ==
  ASSUME NEW cards \in Seq(Card), NEW t \in Ids(ToSet(cards)), NEW s \in Status,
         NEW index \in {None} \cup 0..Cardinality(todosByStatus(cards, s)) - 1,
         Distinct(cards)
  PROVE  LET length == Cardinality(Others(cards, t, s))
             clamped == clampedIndex(cards, t, s, index)
         IN  length \in Nat /\ clamped \in 0..length
             /\ clamped = IF index = None THEN length ELSE index
<1> DEFINE column == todosByStatus(cards, s)
           others == Others(cards, t, s)
<1>1. IsFiniteSet(column) /\ IsFiniteSet(others) /\ Cardinality(others) \in Nat
      /\ Cardinality(column) \in Nat
  BY ColumnAt, FS_CardinalityType
<1>2. Cardinality(column) <= Cardinality(others) + 1
  <2>1. PICK i \in DOMAIN cards : cards[i].id = t
    BY DEF Ids, ToSet
  <2>2. others = column \ {i}
    BY <2>1 DEF Others, todosByStatus, Distinct
  <2>3. Cardinality(column \ {i}) = IF i \in column THEN Cardinality(column) - 1
                                   ELSE Cardinality(column)
    <3> HIDE DEF column
    <3> QED BY <1>1, FS_RemoveElement
  <2> QED BY <1>1, <2>2, <2>3
<1>3. ASSUME index # None PROVE index \in Nat /\ index <= Cardinality(others)
  <2>1. index \in 0..Cardinality(column) - 1
    BY <1>3
  <2> HIDE DEF column, others
  <2> QED BY <1>1, <1>2, <2>1
<1>4. clampedIndex(cards, t, s, index) =
        IF index = None \/ index > Cardinality(others) THEN Cardinality(others) ELSE index
  BY DEF clampedIndex
<1> HIDE DEF column, others
<1> QED BY <1>1, <1>3, <1>4 DEF others

\* The places of the cards that were not moved: they leave the moved card's free,
\* keep the order of each column, and take every other one.
LEMMA SentPlaces ==
  ASSUME NEW cards \in Seq(Card), NEW t \in Ids(ToSet(cards)), NEW s \in Status,
         NEW index \in {None} \cup 0..Cardinality(todosByStatus(cards, s)) - 1,
         Distinct(cards), NEW c \in Status
  PROVE  LET others == Others(cards, t, c)
             clamped == clampedIndex(cards, t, s, index)
             place(i) == SentPlace(cards, t, s, index, i)
             last == IF c = s THEN Cardinality(others) ELSE Cardinality(others) - 1
         IN /\ Cardinality(others) \in Nat /\ clamped \in Nat
            /\ \A i \in others : place(i) \in 0..last /\ (c = s => place(i) # clamped)
            /\ \A i, j \in others : place(i) < place(j) <=> Before(cards, i, j)
            /\ \A i, j \in others : place(i) = place(j) => i = j
            /\ \A p \in 0..last : (c = s /\ p = clamped) \/ \E i \in others : place(i) = p
            /\ c = s => clamped \in 0..last
<1> DEFINE others == Others(cards, t, c)
           n == Cardinality(others)
           clamped == clampedIndex(cards, t, s, index)
           sent(i) == SentPlace(cards, t, s, index, i)
           rank(i) == Place(cards, others, i)
           last == IF c = s THEN n ELSE n - 1
<1>1. others \in SUBSET DOMAIN cards /\ \A i \in others : cards[i].status = c
  BY ColumnOfCard
<1>2. /\ n \in Nat
      /\ \A i \in others : rank(i) \in 0..n - 1
      /\ \A i, j \in others : rank(i) < rank(j) <=> Before(cards, i, j)
      /\ \A i, j \in others : rank(i) = rank(j) => i = j
      /\ \A p \in 0..n - 1 : \E i \in others : rank(i) = p
  <2> HIDE DEF others
  <2> QED BY <1>1, PlacesCount
<1>3. \A i \in others : sent(i) = IF c = s /\ rank(i) >= clamped THEN rank(i) + 1 ELSE rank(i)
  BY <1>1 DEF SentPlace
<1>4. clamped \in Nat /\ (c = s => clamped \in 0..n)
  BY MovedPlace
<1> HIDE DEF others, n, clamped, sent, rank
<1>5. \A i \in others : sent(i) \in 0..last /\ (c = s => sent(i) # clamped)
  BY <1>2, <1>3, <1>4
<1>6. \A i, j \in others : (sent(i) < sent(j) <=> rank(i) < rank(j))
                           /\ (sent(i) = sent(j) => rank(i) = rank(j))
  BY <1>2, <1>3, <1>4
<1>7. ASSUME NEW p \in 0..last
      PROVE  (c = s /\ p = clamped) \/ \E i \in others : sent(i) = p
  <2>1. CASE c = s /\ p > clamped
    <3>1. p - 1 \in 0..n - 1 /\ p - 1 >= clamped
      BY <1>2, <1>4, <2>1
    <3>2. PICK i \in others : rank(i) = p - 1
      BY <1>2, <3>1
    <3> QED BY <1>3, <2>1, <3>1, <3>2
  <2>2. CASE c # s \/ p < clamped
    <3>1. p \in 0..n - 1
      BY <1>2, <1>4, <2>2
    <3>2. PICK i \in others : rank(i) = p
      BY <1>2, <3>1
    <3> QED BY <1>3, <1>4, <2>2, <3>1, <3>2
  <2> QED BY <1>2, <1>4, <2>1, <2>2
<1>8. c = s => clamped \in 0..last
  BY <1>4
<1> QED BY <1>2, <1>4, <1>5, <1>6, <1>7, <1>8 DEF others, n, clamped, sent, rank

\* What a drop sends are cards, one per card of the list.  Those that were not moved
\* are sent with the status the list has.
LEMMA DropSends ==
  ASSUME NEW cards \in Seq(Card), NEW t \in Ids(ToSet(cards)), NEW s \in Status,
         NEW index \in {None} \cup 0..Cardinality(todosByStatus(cards, s)) - 1,
         Distinct(cards)
  PROVE  LET items == DropItems(cards, t, s, index) IN
         /\ items \subseteq Card
         /\ Ids(items) = Ids(ToSet(cards))
         /\ \A a, b \in items : a.id = b.id => a = b
         /\ \A a \in items : a.id # t => \E c \in ToSet(cards) : c.id = a.id /\ c.status = a.status
<1> DEFINE items == DropItems(cards, t, s, index)
           rest == {j \in DOMAIN cards : cards[j].id # t}
           moved == MovedItem(cards, t, s, index)
           Sent(i) == SentItem(cards, t, s, index, i)
<1>1. items = {moved} \cup {Sent(i) : i \in rest}
  BY ItemsOfDrop
<1>2. t \in Todo /\ moved \in Card /\ moved.id = t
  <2>1. t \in Todo
    BY CardAt DEF Ids, ToSet
  <2>2. clampedIndex(cards, t, s, index) \in Nat
    BY MovedPlace
  <2> QED BY <2>1, <2>2 DEF MovedItem, Card, Status
<1>3. ASSUME NEW i \in rest
      PROVE  /\ Sent(i) \in Card /\ Sent(i).id = cards[i].id
             /\ Sent(i).status = cards[i].status
  <2>1. /\ cards[i].status \in Status /\ i \in Others(cards, t, cards[i].status)
        /\ cards[i].id \in Todo
    BY CardAt, ColumnOfCard
  <2>2. SentPlace(cards, t, s, index, i) \in Nat
    BY <2>1, SentPlaces
  <2> QED BY <2>1, <2>2 DEF SentItem, Card, Status
<1> HIDE DEF items, moved, Sent
<1>4. items \subseteq Card
  BY <1>1, <1>2, <1>3
<1>5. Ids(items) = Ids(ToSet(cards))
  <2>1. Ids(items) = {t} \cup {cards[i].id : i \in rest}
    BY <1>1, <1>2, <1>3 DEF Ids
  <2> QED BY <2>1 DEF Ids, ToSet
<1>6. \A a, b \in items : a.id = b.id => a = b
  <2>1. \A i, j \in rest : Sent(i).id = Sent(j).id => Sent(i) = Sent(j)
    BY <1>3 DEF Distinct
  <2> QED BY <1>1, <1>2, <1>3, <2>1
<1>7. \A a \in items : a.id # t => \E c \in ToSet(cards) : c.id = a.id /\ c.status = a.status
  BY <1>1, <1>2, <1>3 DEF ToSet
<1> QED BY <1>4, <1>5, <1>6, <1>7 DEF items

\* What a drop sends is the board with one card moved.
LEMMA DropMovesOne ==
  ASSUME NEW cards \in Seq(Card), NEW t \in Ids(ToSet(cards)), NEW s \in Status,
         NEW index \in {None} \cup 0..Cardinality(todosByStatus(cards, s)) - 1,
         Distinct(cards)
  PROVE  OneCardMoved(cards, [items |-> DropItems(cards, t, s, index), moved |-> t,
                              status |-> s, index |-> index])
<1> DEFINE items == DropItems(cards, t, s, index)
           rest == {j \in DOMAIN cards : cards[j].id # t}
           moved == MovedItem(cards, t, s, index)
           clamped == clampedIndex(cards, t, s, index)
           Sent(i) == SentItem(cards, t, s, index, i)
           place(i) == SentPlace(cards, t, s, index, i)
           n(c) == Cardinality(Others(cards, t, c))
           last(c) == IF c = s THEN n(c) ELSE n(c) - 1
           Shows(a, i) == cards[i].id = a.id
<1>1. /\ items = {moved} \cup {Sent(i) : i \in rest}
      /\ Ids(items) = Ids(ToSet(cards))
      /\ \A a, b \in items : a.id = b.id => a = b
  BY ItemsOfDrop, DropSends
<1>2. moved.id = t /\ moved.status = s /\ moved.position = clamped
  BY DEF MovedItem
<1>3. \A i \in rest : /\ Sent(i).id = cards[i].id /\ Sent(i).status = cards[i].status
                      /\ Sent(i).position = place(i) /\ Sent(i).id # t
  BY DEF SentItem
<1>4. \A i \in rest : cards[i].status \in Status
  BY CardAt
<1>5. \A c \in Status : \A i : i \in Others(cards, t, c) <=> i \in rest /\ cards[i].status = c
  BY ColumnOfCard
<1>6. /\ clamped \in Nat /\ n(s) \in Nat /\ clamped \in 0..n(s)
      /\ clamped = IF index = None THEN n(s) ELSE index
  BY MovedPlace
<1>7. \A c \in Status :
        /\ n(c) \in Nat
        /\ \A i \in rest : cards[i].status = c =>
             place(i) \in 0..last(c) /\ (c = s => place(i) # clamped)
        /\ \A i, j \in rest : cards[i].status = c /\ cards[j].status = c =>
             /\ place(i) < place(j) <=> Before(cards, i, j)
             /\ place(i) = place(j) => i = j
        /\ \A p \in 0..last(c) : (c = s /\ p = clamped)
                               \/ \E i \in rest : cards[i].status = c /\ place(i) = p
  BY <1>5, SentPlaces
<1> HIDE DEF items, moved, clamped, Sent, place, n, rest
<1>8. ASSUME NEW a \in items, NEW b \in items,
             <<a.status, a.position>> = <<b.status, b.position>>
      PROVE  a = b
  <2>1. \A i \in rest : <<Sent(i).status, Sent(i).position>> # <<moved.status, moved.position>>
    BY <1>2, <1>3, <1>4, <1>7
  <2>2. \A i, j \in rest : <<Sent(i).status, Sent(i).position>>
                           = <<Sent(j).status, Sent(j).position>> => i = j
    BY <1>3, <1>4, <1>7
  <2> QED BY <1>1, <1>8, <2>1, <2>2
<1>9. ASSUME NEW a \in items, NEW b \in items, a.status = b.status, t \notin {a.id, b.id},
             NEW i \in DOMAIN cards, NEW j \in DOMAIN cards, Shows(a, i), Shows(b, j)
      PROVE  a.position < b.position <=> Before(cards, i, j)
  <2>1. i \in rest /\ j \in rest
    BY <1>9 DEF rest
  <2>2. a = Sent(i) /\ b = Sent(j)
    BY <1>1, <1>3, <1>9, <2>1
  <2> QED BY <1>3, <1>4, <1>7, <1>9, <2>1, <2>2
<1>10. ASSUME NEW a \in items, NEW p \in 0..a.position
       PROVE  \E b \in items : b.status = a.status /\ b.position = p
  <2>1. a.status \in Status /\ a.position \in 0..last(a.status)
    BY <1>1, <1>2, <1>3, <1>4, <1>6, <1>7
  <2>2. p \in 0..last(a.status)
    BY <2>1, <1>7
  <2>3. CASE a.status = s /\ p = clamped
    BY <1>1, <1>2, <2>3
  <2>4. CASE \E i \in rest : cards[i].status = a.status /\ place(i) = p
    BY <1>1, <1>3, <2>4
  <2> QED BY <1>7, <2>1, <2>2, <2>3, <2>4
<1>11. ASSUME NEW a \in items, a.id = t
       PROVE  /\ a.status = s
              /\ IF index = None
                 THEN \A b \in items : b.status = a.status => b.position <= a.position
                 ELSE a.position = index
  <2>1. a = moved
    BY <1>1, <1>2, <1>11
  <2>2. ASSUME index = None, NEW b \in items, b.status = s PROVE b.position <= clamped
    BY <1>1, <1>2, <1>3, <1>6, <1>7, <2>2
  <2> QED BY <1>2, <1>6, <2>1, <2>2
<1>12. ASSUME NEW a \in items, a.id # t
       PROVE  \E i \in todosByStatus(cards, a.status) : Shows(a, i)
  <2>1. PICK i \in rest : a = Sent(i)
    BY <1>1, <1>2, <1>12
  <2>2. i \in todosByStatus(cards, cards[i].status)
    BY <1>4, ColumnOfCard DEF rest
  <2> QED BY <1>3, <2>1, <2>2
<1> QED BY <1>1, <1>8, <1>9, <1>10, <1>11, <1>12 DEF OneCardMoved, items

-----------------------------------------------------------------------------
(* The end of a column *)

\* A finite set of numbers that is not empty has a largest one.
LEMMA LargestNumber ==
  ASSUME NEW S \in SUBSET Nat, IsFiniteSet(S), S # {}
  PROVE  Max(S) \in S /\ \A p \in S : p <= Max(S)
<1> DEFINE Above(p) == {q \in S : q > p}
           Counts == {Cardinality(Above(p)) : p \in S}
           Less == {p \in Nat \X Nat : p[1] < p[2]}
<1>1. \A p \in S : IsFiniteSet(Above(p)) /\ Cardinality(Above(p)) \in Nat
  BY FS_Subset, FS_CardinalityType
<1>2. Counts \subseteq Nat /\ Counts # {}
  BY <1>1
<1>3. IsWellFoundedOn(Less, Nat)
  BY NatLessThanWellFounded DEF OpToRel
<1>4. PICK least \in Counts : \A c \in Counts : <<c, least>> \notin Less
  <2> HIDE DEF Counts, Less
  <2> QED BY <1>2, <1>3, WFMin
<1>5. PICK last \in S : least = Cardinality(Above(last))
  OBVIOUS
<1>6. ASSUME NEW p \in S PROVE last >= p
  <2> SUFFICES ASSUME p > last PROVE FALSE
    OBVIOUS
  <2>1. Above(p) \subseteq Above(last) /\ p \in Above(last) /\ p \notin Above(p)
    <3>1. p \in Nat /\ last \in Nat /\ \A q \in S : q \in Nat
      OBVIOUS
    <3>2. ~(p > p) /\ \A q \in S : q > p => q > last
      BY <3>1
    <3> QED BY <3>2
  <2>2. /\ Cardinality(Above(p)) <= Cardinality(Above(last))
        /\ Cardinality(Above(p)) # Cardinality(Above(last))
    BY <1>1, <2>1, FS_Subset
  <2>3. Cardinality(Above(p)) \in Counts /\ Cardinality(Above(p)) \in Nat /\ least \in Nat
    BY <1>1, <1>2
  <2>4. <<Cardinality(Above(p)), least>> \in Less
    <3> HIDE DEF Above
    <3> QED BY <1>5, <2>2, <2>3
  <2> QED BY <1>4, <2>3, <2>4
<1> QED BY <1>6 DEF Max

\* A new card has a place.
LEMMA EndIsPosition ==
  ASSUME TypeOK, NEW s PROVE EndOf(s) \in Nat
<1> DEFINE column == {t \in Visible : board[t].status = s}
           S == {board[t].position : t \in column}
<1>1. \A t \in Visible : board[t] \in Row
  BY DEF TypeOK, Visible
<1>2. IsFiniteSet(column)
  BY PageAssumption, FS_Subset DEF PageAssumption, Visible
<1>3. IsFiniteSet(S)
  <2> DEFINE at == [t \in column |-> board[t].position]
  <2>1. at \in Surjection(column, S)
    BY DEF Surjection
  <2> HIDE DEF at, column, S
  <2> QED BY <1>2, <2>1, FS_Surjection
<1>4. S \subseteq Nat
  BY <1>1 DEF Row
<1>5. CASE column = {}
  BY <1>5 DEF EndOf
<1>6. CASE column # {}
  <2>1. S # {}
    BY <1>6
  <2>2. Max(S) \in Nat
    <3> HIDE DEF S
    <3> QED BY <1>3, <1>4, <2>1, LargestNumber
  <2>3. EndOf(s) = Max(S) + 1
    BY <1>6 DEF EndOf
  <2> HIDE DEF S
  <2> QED BY <2>2, <2>3
<1> QED BY <1>5, <1>6

-----------------------------------------------------------------------------
(* What the steps of the invariant share *)

\* A mutation moves to another phase, and the others stay.
LEMMA PhaseStep ==
  ASSUME Types, NEW k \in Kind, NEW p \in {"idle", "sent", "done", "refused", "settling"},
         mutation' = [mutation EXCEPT ![k].phase = p]
  PROVE  /\ mutation' \in [Kind -> Mutation]
         /\ mutation'[k].phase = p /\ mutation'[k].arg = mutation[k].arg
         /\ \A j \in Kind \ {k} : mutation'[j] = mutation[j]
<1>1. mutation \in [Kind -> Mutation] /\ mutation[k] \in Mutation
  BY DEF Types
<1>2. [mutation[k] EXCEPT !.phase = p] \in Mutation
      /\ [mutation[k] EXCEPT !.phase = p].phase = p
      /\ [mutation[k] EXCEPT !.phase = p].arg = mutation[k].arg
  BY <1>1 DEF Mutation
<1>3. mutation' = [mutation EXCEPT ![k] = [mutation[k] EXCEPT !.phase = p]]
  OBVIOUS
<1> QED BY <1>1, <1>2, <1>3

\* A mutation is called or forgotten, and the others stay.
LEMMA CallStep ==
  ASSUME Types, NEW k \in Kind, NEW m \in Mutation, mutation' = [mutation EXCEPT ![k] = m]
  PROVE  /\ mutation' \in [Kind -> Mutation] /\ mutation'[k] = m
         /\ \A j \in Kind \ {k} : mutation'[j] = mutation[j]
BY DEF Types

LEMMA IdleIsMutation == Idle \in Mutation /\ Idle.phase = "idle"
BY DEF Idle, Mutation

\* The mutations that waited for the refetch are idle, and the others stay.
LEMMA SettleStep ==
  ASSUME Types, Settle
  PROVE  /\ mutation' \in [Kind -> Mutation] /\ isCreateOpen' \in BOOLEAN
         /\ \A k \in Kind : IF mutation[k].phase = "settling" THEN mutation'[k].phase = "idle"
                            ELSE mutation'[k] = mutation[k]
<1>1. mutation' \in [Kind -> Mutation]
  BY IdleIsMutation DEF Types, Settle
<1>2. isCreateOpen' \in BOOLEAN
  BY DEF Types, TypeOK, Settle
<1> QED BY <1>1, <1>2, IdleIsMutation DEF Settle

\* A copy stays sound as long as no todo is uncreated.
LEMMA SoundStays ==
  ASSUME NEW cards \in Seq(Card), Sound(cards),
         \A t \in Todo : board[t] # None => board'[t] # None
  PROVE  Distinct(cards) /\ \A t \in Ids(ToSet(cards)) : board'[t] # None
<1>1. Ids(ToSet(cards)) \subseteq Todo
  BY CardAt DEF Ids, ToSet
<1> QED BY <1>1 DEF Sound

LEMMA CopiesStay ==
  ASSUME Types, CopiesFit, UNCHANGED <<list, fetch>>,
         \A t \in Todo : board[t] # None => board'[t] # None
  PROVE  CopiesFit'
<1>1. ASSUME list # None PROVE Sound(list)'
  <2>1. list \in Seq(Card) /\ Sound(list)
    BY <1>1 DEF Types, TypeOK, CopiesFit
  <2> QED BY <2>1, SoundStays DEF Sound, Distinct
<1>2. ASSUME fetch.phase = "answered" PROVE fetch.cards \in Seq(Card) /\ Sound(fetch.cards)'
  <2>1. fetch.cards \in Seq(Card) /\ Sound(fetch.cards)
    BY <1>2 DEF CopiesFit
  <2> QED BY <2>1, SoundStays DEF Sound, Distinct
<1> QED BY <1>1, <1>2 DEF CopiesFit

\* The todos of the copies and of a drop are created ones.
LEMMA CopiedCards ==
  ASSUME Types, CopiesFit, ReorderFits
  PROVE  /\ list # None => \A c \in ToSet(list) : c \in Card /\ c.id \in Todo /\ board[c.id] # None
         /\ fetch.phase = "answered" =>
              \A c \in ToSet(fetch.cards) : c \in Card /\ c.id \in Todo /\ board[c.id] # None
         /\ Pending("reorder") =>
              \A a \in mutation["reorder"].arg.items :
                a \in Card /\ a.id \in Todo /\ board[a.id] # None
<1>1. ASSUME NEW cards \in Seq(Card), Sound(cards), NEW c \in ToSet(cards)
      PROVE  c \in Card /\ c.id \in Todo /\ board[c.id] # None
  <2>1. c \in Card
    BY CardAt DEF ToSet
  <2> QED BY <1>1, <2>1 DEF Sound, Ids, Card
<1>2. list # None => list \in Seq(Card) /\ Sound(list)
  BY DEF Types, TypeOK, CopiesFit
<1>3. fetch.phase = "answered" => fetch.cards \in Seq(Card) /\ Sound(fetch.cards)
  BY DEF CopiesFit
<1>4. Pending("reorder") => mutation["reorder"].arg.items \subseteq Card
  BY DEF ReorderFits, Drop
<1> QED BY <1>1, <1>2, <1>3, <1>4 DEF ReorderFits, Card

\* A card that strays after a write that left its todo in its column, or took it out
\* of sight, strayed before.
LEMMA StrayedBefore ==
  ASSUME NEW c, board'[c.id] = board[c.id] \/ board'[c.id] = Gone, Elsewhere(c)'
  PROVE  Elsewhere(c) /\ board'[c.id] = board[c.id]
BY DEF Elsewhere, Visible

-----------------------------------------------------------------------------
(* The query *)

\* The server answers with the list it has at that moment.
LEMMA ServeListStep ==
  ASSUME IndInv, ServeList PROVE IndInv'
<1> USE DEF IndInv
<1>1. PICK o \in SetToSeqs(Visible) :
        fetch' = [phase |-> "answered", cards |-> [n \in DOMAIN o |-> CardOf(o[n])]]
  BY DEF ServeList
<1> DEFINE n == Cardinality(Visible)
           cards == [i \in DOMAIN o |-> CardOf(o[i])]
<1>2. IsFiniteSet(Visible) /\ n \in Nat
  BY PageAssumption, FS_Subset, FS_CardinalityType DEF PageAssumption, Visible
<1>3. /\ DOMAIN o = 1..n /\ \A i \in 1..n : o[i] \in Visible
      /\ \A i, j \in 1..n : o[i] = o[j] => i = j
  BY DEF SetToSeqs
<1>4. \A t \in Visible : t \in Todo /\ board[t] \in Row /\ board[t] # None
  BY DEF Types, TypeOK, Visible
<1>5. \A t \in Visible : CardOf(t) \in Card /\ CardOf(t).id = t /\ ~Elsewhere(CardOf(t))
  BY <1>4 DEF CardOf, Card, Row, Elsewhere
<1> HIDE DEF n
<1>6. cards \in [1..n -> Card] /\ cards \in Seq(Card) /\ DOMAIN cards = 1..n
  BY <1>2, <1>3, <1>5
<1>7. \A i \in 1..n : cards[i] = CardOf(o[i])
  BY <1>3
<1> HIDE DEF cards
<1>8. Sound(cards)
  <2>1. Distinct(cards)
    BY <1>3, <1>5, <1>6, <1>7 DEF Distinct
  <2>2. \A t \in Ids(ToSet(cards)) : board[t] # None
    BY <1>3, <1>4, <1>5, <1>6, <1>7 DEF Ids, ToSet
  <2> QED BY <2>1, <2>2 DEF Sound
<1>9. \A c \in ToSet(cards) : ~Elsewhere(c)
  BY <1>3, <1>5, <1>6, <1>7 DEF ToSet
<1>10. fetch' = [phase |-> "answered", cards |-> cards] /\ fetch'.phase = "answered"
       /\ fetch'.cards = cards
  BY <1>1 DEF cards
<1>11. UNCHANGED <<board, list, mutation, page, bounds, excuse>>
       /\ news'["list"] = news["list"] /\ news'["drop"] = news["drop"]
       /\ behind'["list"] = behind["list"] /\ ~behind'["fetch"]
  BY DEF ServeList, Types, TypeOK
<1>12. Types'
  <2>1. news' \in [{"list", "fetch", "drop"} -> SUBSET Todo]
    BY DEF ServeList, Types, TypeOK
  <2>2. behind' \in [{"list", "fetch"} -> BOOLEAN]
    BY DEF ServeList, Types, TypeOK
  <2> QED BY <1>6, <1>10, <1>11, <2>1, <2>2 DEF Types, TypeOK, page, bounds
<1>13. CopiesFit'
  <2>1. ASSUME list # None PROVE Sound(list)'
    BY <1>11, <2>1 DEF CopiesFit, Sound, Distinct
  <2>2. Sound(fetch.cards)'
    BY <1>8, <1>10, <1>11 DEF Sound, Distinct
  <2> QED BY <1>6, <1>10, <1>11, <2>1, <2>2 DEF CopiesFit
<1>14. ReorderFits'
  BY <1>11 DEF ReorderFits, Pending
<1>15. ListIsBehind' /\ FetchIsBehind'
  BY <1>11 DEF ListIsBehind, FetchIsBehind, Unseen
<1>16. ListStrays' /\ DropStrays'
  BY <1>11 DEF ListStrays, DropStrays, Elsewhere, Visible
<1>17. FetchStrays'
  BY <1>9, <1>10, <1>11 DEF FetchStrays, Elsewhere, Visible
<1> QED BY <1>12, <1>13, <1>14, <1>15, <1>16, <1>17

\* The page takes the answer for its list, and the mutations settle.
LEMMA FetchAnsweredStep ==
  ASSUME IndInv, FetchAnswered PROVE IndInv'
<1> USE DEF IndInv
<1>1. fetch.phase = "answered" /\ list' = fetch.cards /\ fetch.cards \in Seq(Card)
      /\ Sound(fetch.cards) /\ fetch' = [phase |-> "none", cards |-> None]
      /\ UNCHANGED <<board, draggingId, events, acts>>
  BY DEF FetchAnswered, CopiesFit, bounds
<1>2. /\ mutation' \in [Kind -> Mutation] /\ isCreateOpen' \in BOOLEAN
      /\ \A k \in Kind : IF mutation[k].phase = "settling" THEN mutation'[k].phase = "idle"
                         ELSE mutation'[k] = mutation[k]
  BY SettleStep DEF FetchAnswered
<1>3. /\ news' \in [{"list", "fetch", "drop"} -> SUBSET Todo]
      /\ news'["list"] = news["fetch"] /\ news'["drop"] = news["drop"]
  BY DEF FetchAnswered, Types, TypeOK
<1>4. behind' \in [{"list", "fetch"} -> BOOLEAN] /\ behind'["list"] = behind["fetch"]
  BY Zenon DEF FetchAnswered, Types, TypeOK
<1>5. /\ excuse' \in [{"list", "drop"} -> BOOLEAN] /\ excuse'["drop"] = excuse["drop"]
      /\ excuse'["list"] = (excuse["list"] /\ behind["fetch"])
  <2>1. excuse \in [{"list", "drop"} -> BOOLEAN]
        /\ excuse' = [excuse EXCEPT !["list"] = excuse["list"] /\ behind["fetch"]]
    BY DEF FetchAnswered, Types, TypeOK
  <2>2. (excuse["list"] /\ behind["fetch"]) \in BOOLEAN
    OBVIOUS
  <2> QED BY <2>1, <2>2, Zenon
<1>6. Types'
  BY <1>1, <1>2, <1>3, <1>4, <1>5 DEF Types, TypeOK
<1>7. CopiesFit'
  BY <1>1 DEF CopiesFit, Sound, Distinct
<1>8. "reorder" \in Kind
  BY DEF Kind
<1>9. ReorderFits'
  BY <1>1, <1>2, <1>8 DEF ReorderFits, Pending
<1>10. ListIsBehind' /\ FetchIsBehind'
  BY <1>1, <1>2, <1>4, <1>5 DEF ListIsBehind, FetchIsBehind, Unseen
<1>11. ListStrays'
  BY <1>1, <1>2, <1>3, <1>5, <1>8 DEF ListStrays, FetchStrays, Elsewhere, Visible
<1>12. FetchStrays' /\ DropStrays'
  BY <1>1, <1>2, <1>3, <1>5, <1>8 DEF FetchStrays, DropStrays, Elsewhere, Visible
<1> QED BY <1>6, <1>7, <1>9, <1>10, <1>11, <1>12

\* A fetch fails or another one starts.
LEMMA FetchFailsStep ==
  ASSUME IndInv, FetchFails PROVE IndInv'
<1> USE DEF IndInv
<1>1. /\ fetch' = [phase |-> "none", cards |-> None]
      /\ UNCHANGED <<board, list, draggingId, acts, news, behind>>
      /\ events' \in 0..MaxEvents
  BY PageAssumption DEF FetchFails, PageAssumption, Event, Types, TypeOK
<1>2. /\ mutation' \in [Kind -> Mutation] /\ isCreateOpen' \in BOOLEAN
      /\ \A k \in Kind : IF mutation[k].phase = "settling" THEN mutation'[k].phase = "idle"
                         ELSE mutation'[k] = mutation[k]
  BY SettleStep DEF FetchFails
<1>3. /\ excuse' \in [{"list", "drop"} -> BOOLEAN] /\ excuse'["drop"] = excuse["drop"]
      /\ excuse'["list"]
  BY Zenon DEF FetchFails, Types, TypeOK
<1>4. "reorder" \in Kind
  BY DEF Kind
<1>5. Types'
  BY <1>1, <1>2, <1>3 DEF Types, TypeOK
<1>6. CopiesFit'
  BY <1>1 DEF CopiesFit, Sound, Distinct
<1>7. ReorderFits'
  BY <1>1, <1>2, <1>4 DEF ReorderFits, Pending
<1>8. ListIsBehind' /\ FetchIsBehind' /\ ListStrays' /\ FetchStrays'
  BY <1>1, <1>3 DEF ListIsBehind, FetchIsBehind, ListStrays, FetchStrays
<1>9. DropStrays'
  BY <1>1, <1>2, <1>3, <1>4 DEF DropStrays, Elsewhere, Visible
<1> QED BY <1>5, <1>6, <1>7, <1>8, <1>9

LEMMA ReconnectStep ==
  ASSUME IndInv, Reconnect PROVE IndInv'
<1> USE DEF IndInv
<1>1. /\ fetch' = [phase |-> "sent", cards |-> None]
      /\ UNCHANGED <<board, list, mutation, draggingId, isCreateOpen, acts, news, behind, excuse>>
      /\ events' \in 0..MaxEvents
  BY PageAssumption DEF Reconnect, PageAssumption, Event, Types, TypeOK, page, history
<1>2. Types' /\ ReorderFits'
  BY <1>1 DEF Types, TypeOK, ReorderFits, Pending
<1>3. CopiesFit'
  BY <1>1 DEF CopiesFit, Sound, Distinct
<1>4. ListIsBehind' /\ FetchIsBehind' /\ ListStrays' /\ FetchStrays' /\ DropStrays'
  BY <1>1 DEF ListIsBehind, FetchIsBehind, ListStrays, FetchStrays, DropStrays, Unseen,
              Elsewhere, Visible
<1> QED BY <1>2, <1>3, <1>4

-----------------------------------------------------------------------------
(* The server *)

\* What every answer of the server leaves as it was.
LEMMA ServedStep ==
  ASSUME Types, NEW k \in Kind, NEW p \in {"done", "refused"}, Served(k, p)
  PROVE  /\ UNCHANGED <<list, fetch, draggingId, isCreateOpen, events, acts, news, excuse>>
         /\ mutation' \in [Kind -> Mutation]
         /\ mutation[k].phase = "sent" /\ mutation'[k].phase = p
         /\ mutation'[k].arg = mutation[k].arg
         /\ \A j \in Kind \ {k} : mutation'[j] = mutation[j]
BY PhaseStep DEF Served, page, bounds

\* A refusal changes nothing else.
LEMMA RefusedStep ==
  ASSUME IndInv, NEW k \in Kind, Refused(k) PROVE IndInv'
<1> USE DEF IndInv
<1>1. /\ UNCHANGED <<board, list, fetch, draggingId, isCreateOpen, events, acts, news,
                     behind, excuse>>
      /\ mutation' \in [Kind -> Mutation]
      /\ mutation[k].phase = "sent" /\ mutation'[k].phase = "refused"
      /\ mutation'[k].arg = mutation[k].arg
      /\ \A j \in Kind \ {k} : mutation'[j] = mutation[j]
  BY ServedStep DEF Refused
<1>2. "reorder" \in Kind
  BY DEF Kind
<1>3. Types' /\ CopiesFit'
  BY <1>1 DEF Types, TypeOK, CopiesFit, Sound, Distinct
<1>4. ReorderFits'
  BY <1>1, <1>2 DEF ReorderFits, Pending
<1>5. ListIsBehind' /\ FetchIsBehind'
  BY <1>1 DEF ListIsBehind, FetchIsBehind, Unseen
<1>6. ListStrays' /\ FetchStrays' /\ DropStrays'
  BY <1>1, <1>2 DEF ListStrays, FetchStrays, DropStrays, Elsewhere, Visible
<1> QED BY <1>3, <1>4, <1>5, <1>6

\* A write that succeeds, and keeps every todo in its column or takes it out of sight,
\* leaves every copy behind and none astray.
LEMMA QuietWriteStep ==
  ASSUME IndInv, NEW k \in Kind \ {"reorder"}, Served(k, "done"),
         NEW b, OwnWrite(b), b \in [Todo -> Row \cup {None, Gone}],
         \A t \in Todo : board[t] # None => b[t] \in {board[t], Gone}
  PROVE  IndInv'
<1> USE DEF IndInv
<1>1. /\ UNCHANGED <<list, fetch, draggingId, isCreateOpen, events, acts, news, excuse>>
      /\ mutation' \in [Kind -> Mutation]
      /\ mutation[k].phase = "sent" /\ mutation'[k].phase = "done"
      /\ \A j \in Kind \ {k} : mutation'[j] = mutation[j]
  BY ServedStep
<1>2. board' \in [Todo -> Row \cup {None, Gone}] /\ behind' \in [{"list", "fetch"} -> BOOLEAN]
  BY DEF OwnWrite
<1>3. \A t \in Todo : board[t] # None =>
        board'[t] # None /\ (board'[t] = board[t] \/ board'[t] = Gone)
  BY PageAssumption DEF OwnWrite, PageAssumption
<1>4. mutation'["reorder"] = mutation["reorder"]
  BY <1>1 DEF Kind
<1>5. Types' /\ CopiesFit'
  BY <1>1, <1>2, <1>3, CopiesStay DEF Types, TypeOK
<1>6. ReorderFits'
  BY <1>3, <1>4, CopiedCards DEF ReorderFits, Pending
<1>7. ListIsBehind' /\ FetchIsBehind'
  BY <1>1 DEF ListIsBehind, FetchIsBehind, Unseen
<1>8. behind'["fetch"]
  BY DEF OwnWrite
<1>9. ListStrays'
  BY <1>1, <1>3, <1>4, CopiedCards, StrayedBefore DEF ListStrays
<1>10. FetchStrays'
  BY <1>1, <1>3, <1>4, <1>8, CopiedCards, StrayedBefore DEF FetchStrays
<1>11. DropStrays'
  BY <1>1, <1>3, <1>4, CopiedCards, StrayedBefore DEF DropStrays, Pending
<1> QED BY <1>5, <1>6, <1>7, <1>9, <1>10, <1>11

LEMMA ServeCreateStep ==
  ASSUME IndInv, ServeCreate PROVE IndInv'
<1>1. "create" \in Kind \ {"reorder"} /\ Types /\ TypeOK
  BY DEF Kind, IndInv, Types
<1>2. CASE Refused("create")
  BY <1>1, <1>2, RefusedStep
<1>3. ASSUME Served("create", "done"), NEW t \in Todo, board[t] = None,
             OwnWrite([board EXCEPT ![t] = [status |-> "todo", position |-> EndOf("todo")]])
      PROVE  IndInv'
  <2> DEFINE row == [status |-> "todo", position |-> EndOf("todo")]
  <2>1. row \in Row
    BY <1>1, EndIsPosition DEF Row, columnOrder, ToSet
  <2> HIDE DEF row
  <2>2. [board EXCEPT ![t] = row] \in [Todo -> Row \cup {None, Gone}]
    BY <1>1, <2>1 DEF TypeOK
  <2>3. \A u \in Todo : board[u] # None => [board EXCEPT ![t] = row][u] \in {board[u], Gone}
    BY <1>1, <1>3 DEF TypeOK
  <2>4. OwnWrite([board EXCEPT ![t] = row])
    BY <1>3 DEF row
  <2> QED BY <1>1, <1>3, <2>2, <2>3, <2>4, QuietWriteStep
<1> QED BY <1>2, <1>3 DEF ServeCreate

\* A todo that is deleted, or goes out of sight with its new assignee.
LEMMA GoneStep ==
  ASSUME IndInv, NEW k \in Kind \ {"reorder"}, NEW t \in Visible, Served(k, "done"),
         NEW b \in {board, [board EXCEPT ![t] = Gone]}, OwnWrite(b)
  PROVE  IndInv'
<1>1. board \in [Todo -> Row \cup {None, Gone}] /\ t \in Todo
  BY DEF IndInv, Types, TypeOK, Visible
<1>2. b \in [Todo -> Row \cup {None, Gone}]
  BY <1>1
<1>3. \A u \in Todo : board[u] # None => b[u] \in {board[u], Gone}
  BY <1>1
<1> QED BY <1>2, <1>3, QuietWriteStep

LEMMA ServeUpdateStep ==
  ASSUME IndInv, ServeUpdate PROVE IndInv'
<1>1. "update" \in Kind \ {"reorder"}
  BY DEF Kind
<1> QED BY <1>1, RefusedStep, GoneStep DEF ServeUpdate

LEMMA ServeDeleteStep ==
  ASSUME IndInv, ServeDelete PROVE IndInv'
<1>1. "delete" \in Kind \ {"reorder"}
  BY DEF Kind
<1> QED BY <1>1, RefusedStep, GoneStep DEF ServeDelete

\* The items of a drop are written: the cards that stray now do so for the user's own
\* drop, whose answer is still to come.
LEMMA ServeReorderStep ==
  ASSUME IndInv, ServeReorder PROVE IndInv'
<1> USE DEF IndInv
<1> DEFINE items == mutation["reorder"].arg.items
           item(t) == CHOOSE i \in items : i.id = t
           b == [t \in Todo |-> IF t \in Ids(items)
                               THEN [status |-> item(t).status, position |-> item(t).position]
                               ELSE board[t]]
<1>1. "reorder" \in Kind
  BY DEF Kind
<1>2. CASE Refused("reorder")
  BY <1>1, <1>2, RefusedStep
<1>3. CASE Served("reorder", "done") /\ Ids(items) \subseteq Visible /\ OwnWrite(b)
  <2>1. /\ UNCHANGED <<list, fetch, draggingId, isCreateOpen, events, acts, news, excuse>>
        /\ mutation' \in [Kind -> Mutation]
        /\ mutation["reorder"].phase = "sent" /\ mutation'["reorder"].phase = "done"
        /\ mutation'["reorder"].arg = mutation["reorder"].arg
        /\ \A j \in Kind \ {"reorder"} : mutation'[j] = mutation[j]
    BY <1>1, <1>3, ServedStep
  <2>2. Pending("reorder") /\ items \subseteq Card
    BY <2>1 DEF Pending, ReorderFits, Drop
  <2>3. ASSUME NEW t \in Ids(items)
        PROVE  [status |-> item(t).status, position |-> item(t).position] \in Row
    <3>1. item(t) \in items
      BY DEF Ids
    <3> HIDE DEF item
    <3> QED BY <2>2, <3>1 DEF Card, Row
  <2>4. board' = b /\ behind'["list"] /\ behind'["fetch"]
        /\ behind' \in [{"list", "fetch"} -> BOOLEAN]
    BY <1>3 DEF OwnWrite
  <2>5. board' \in [Todo -> Row \cup {None, Gone}]
    <3> HIDE DEF item, items
    <3> QED BY <2>3, <2>4 DEF Types, TypeOK
  <2>6. \A t \in Todo : board[t] # None => board'[t] # None
    <3> HIDE DEF item, items
    <3> QED BY <2>3, <2>4, PageAssumption DEF PageAssumption
  <2>7. Types' /\ CopiesFit'
    BY <2>1, <2>4, <2>5, <2>6, CopiesStay DEF Types, TypeOK
  <2>8. ReorderFits'
    BY <2>1, <2>2, <2>6, CopiedCards DEF ReorderFits, Pending
  <2>9. ListIsBehind' /\ FetchIsBehind' /\ ListStrays' /\ FetchStrays' /\ DropStrays'
    BY <1>1, <2>1, <2>4 DEF ListIsBehind, FetchIsBehind, ListStrays, FetchStrays, DropStrays,
                            Unseen
  <2> QED BY <2>7, <2>8, <2>9
<1> QED BY <1>2, <1>3 DEF ServeReorder

-----------------------------------------------------------------------------
(* The answers of mutations *)

\* A success that is shown starts a fetch, or joins the first one, which may have been
\* answered before it.
LEMMA SuccessShownStep ==
  ASSUME IndInv, NEW k \in Kind, mutation[k].phase = "done", Invalidate, Await(k),
         UNCHANGED <<board, list, page, bounds, news, behind>>
  PROVE  IndInv'
<1> USE DEF IndInv
<1>1. /\ UNCHANGED <<board, list, draggingId, isCreateOpen, events, acts, news, behind>>
      /\ mutation' \in [Kind -> Mutation]
      /\ mutation'[k].phase = "settling" /\ mutation'[k].arg = mutation[k].arg
      /\ \A j \in Kind \ {k} : mutation'[j] = mutation[j]
  BY PhaseStep DEF Await, page, bounds
<1>2. "reorder" \in Kind
  BY DEF Kind
<1>3. ReorderFits'
  BY <1>1, <1>2 DEF ReorderFits, Pending
<1>4. DropStrays' /\ ListIsBehind'
  <2>1. /\ excuse["list"] => excuse'["list"]
        /\ excuse'["drop"] = excuse["drop"]
    BY Zenon DEF Invalidate, Types, TypeOK
  <2> QED BY <1>1, <1>2, <2>1 DEF DropStrays, ListIsBehind, Unseen, Elsewhere, Visible
<1>5. CASE fetch' = [phase |-> "sent", cards |-> None] /\ UNCHANGED excuse
  <2>1. Types'
    BY <1>1, <1>5 DEF Types, TypeOK
  <2>2. CopiesFit'
    BY <1>1, <1>5 DEF CopiesFit, Sound, Distinct
  <2>3. FetchIsBehind' /\ FetchStrays'
    BY <1>5 DEF FetchIsBehind, FetchStrays
  <2>4. ListStrays'
    BY <1>1, <1>2, <1>5 DEF ListStrays, Elsewhere, Visible
  <2> QED BY <1>3, <1>4, <2>1, <2>2, <2>3, <2>4
<1>6. CASE /\ list = None /\ UNCHANGED fetch
           /\ excuse' = [excuse EXCEPT !["list"] = excuse["list"] \/ behind["fetch"]]
  <2>1. excuse' \in [{"list", "drop"} -> BOOLEAN]
        /\ excuse'["list"] = (excuse["list"] \/ behind["fetch"])
    <3>1. (excuse["list"] \/ behind["fetch"]) \in BOOLEAN
          /\ excuse \in [{"list", "drop"} -> BOOLEAN]
      BY DEF Types, TypeOK
    <3> QED BY <1>6, <3>1, Zenon
  <2>2. Types'
    BY <1>1, <1>6, <2>1 DEF Types, TypeOK
  <2>3. CopiesFit'
    BY <1>1, <1>6, CopiesStay
  <2>4. FetchIsBehind'
    BY <1>1, <1>6, <2>1 DEF FetchIsBehind
  <2>5. FetchStrays'
    BY <1>1, <1>2, <1>6, <2>1 DEF FetchStrays, Elsewhere, Visible
  <2>6. ListStrays'
    BY <1>1, <1>6 DEF ListStrays
  <2> QED BY <1>3, <1>4, <2>2, <2>3, <2>4, <2>5, <2>6
<1> QED BY <1>5, <1>6 DEF Invalidate

\* A mutation is forgotten: refused, or lost.  When it was done at the server the list
\* has its excuse.
LEMMA ForgottenStep ==
  ASSUME IndInv, NEW k \in Kind, mutation' = [mutation EXCEPT ![k] = Idle],
         UNCHANGED <<board, list, fetch, page, acts, news, behind>>, events' \in 0..MaxEvents,
         \/ mutation[k].phase \in {"sent", "refused"} /\ UNCHANGED excuse
         \/ mutation[k].phase = "done" /\ excuse' = [excuse EXCEPT !["list"] = TRUE]
  PROVE  IndInv'
<1> USE DEF IndInv
<1>1. /\ UNCHANGED <<board, list, fetch, draggingId, isCreateOpen, acts, news, behind>>
      /\ mutation' \in [Kind -> Mutation] /\ mutation'[k].phase = "idle"
      /\ \A j \in Kind \ {k} : mutation'[j] = mutation[j]
  BY CallStep, IdleIsMutation DEF page
<1>2. /\ excuse' \in [{"list", "drop"} -> BOOLEAN]
      /\ excuse'["drop"] = excuse["drop"]
      /\ excuse["list"] => excuse'["list"]
      /\ excuse'["list"] \/ mutation[k].phase \in {"sent", "refused"}
  BY Zenon DEF Types, TypeOK
<1>3. "reorder" \in Kind
  BY DEF Kind
<1>4. Types' /\ CopiesFit'
  BY <1>1, <1>2, CopiesStay DEF Types, TypeOK
<1>5. ReorderFits'
  BY <1>1, <1>3 DEF ReorderFits, Pending
<1>6. ListIsBehind' /\ FetchIsBehind'
  BY <1>1, <1>2 DEF ListIsBehind, FetchIsBehind, Unseen
<1>7. ListStrays' /\ FetchStrays'
  BY <1>1, <1>2, <1>3 DEF ListStrays, FetchStrays, Elsewhere, Visible
<1>8. DropStrays'
  BY <1>1, <1>2, <1>3 DEF DropStrays, Elsewhere, Visible
<1> QED BY <1>4, <1>5, <1>6, <1>7, <1>8

LEMMA MutationAnsweredStep ==
  ASSUME IndInv, NEW k \in Kind, MutationAnswered(k) PROVE IndInv'
<1>1. CASE mutation[k].phase = "done" /\ Invalidate /\ Await(k)
  BY <1>1, SuccessShownStep DEF MutationAnswered
<1>2. CASE /\ mutation[k].phase = "refused"
           /\ mutation' = [mutation EXCEPT ![k] = Idle] /\ UNCHANGED <<fetch, excuse>>
  <2>1. events' \in 0..MaxEvents /\ UNCHANGED <<board, list, fetch, page, acts, news, behind>>
    BY <1>2 DEF MutationAnswered, bounds, IndInv, Types, TypeOK
  <2>2. mutation' = [mutation EXCEPT ![k] = Idle]
        /\ mutation[k].phase \in {"sent", "refused"} /\ UNCHANGED excuse
    BY <1>2
  <2> QED BY <2>1, <2>2, ForgottenStep
<1> QED BY <1>1, <1>2 DEF MutationAnswered

LEMMA MutationLostStep ==
  ASSUME IndInv, NEW k \in Kind, MutationLost(k) PROVE IndInv'
<1>1. events' \in 0..MaxEvents
  BY PageAssumption DEF MutationLost, Event, IndInv, Types, TypeOK, PageAssumption
<1>2. CASE mutation[k].phase = "done"
  <2>1. excuse' = [excuse EXCEPT !["list"] = TRUE]
    BY <1>2 DEF MutationLost, IndInv, Types, TypeOK
  <2> QED BY <1>1, <1>2, <2>1, ForgottenStep DEF MutationLost
<1>3. CASE mutation[k].phase # "done"
  <2>1. excuse' = [excuse EXCEPT !["list"] = excuse["list"]]
    <3>1. (excuse["list"] \/ mutation[k].phase = "done") = excuse["list"]
      BY <1>3, Zenon DEF IndInv, Types, TypeOK
    <3> QED BY <3>1, Zenon DEF MutationLost
  <2>2. UNCHANGED excuse
    BY <2>1 DEF IndInv, Types, TypeOK
  <2>3. /\ mutation' = [mutation EXCEPT ![k] = Idle]
        /\ UNCHANGED <<board, list, fetch, page, acts, news, behind>>
        /\ mutation[k].phase \in {"sent", "refused"}
    BY <1>3 DEF MutationLost
  <2> QED BY <1>1, <2>2, <2>3, ForgottenStep
<1> QED BY <1>2, <1>3

-----------------------------------------------------------------------------
(* The other writers *)

\* What others write is news to every copy.
LEMMA OtherWriteStep ==
  ASSUME IndInv, NEW t \in Todo, NEW value \in Row \cup {Gone}, OtherWrite(t, value)
  PROVE  IndInv'
<1> USE DEF IndInv
<1>1. /\ UNCHANGED <<list, fetch, mutation, draggingId, isCreateOpen, acts, behind, excuse>>
      /\ board' = [board EXCEPT ![t] = value] /\ events' \in 0..MaxEvents
  BY PageAssumption DEF OtherWrite, Event, page, Types, TypeOK, PageAssumption
<1>2. news' \in [{"list", "fetch", "drop"} -> SUBSET Todo]
      /\ \A c \in {"list", "fetch", "drop"} : news'[c] = news[c] \cup {t}
  BY DEF OtherWrite, Types, TypeOK
<1>3. /\ board' \in [Todo -> Row \cup {None, Gone}]
      /\ board'[t] = value /\ \A u \in Todo \ {t} : board'[u] = board[u]
  BY <1>1 DEF Types, TypeOK
<1>4. \A u \in Todo : board[u] # None => board'[u] # None
  BY <1>3, PageAssumption DEF PageAssumption
<1>5. Types' /\ CopiesFit'
  BY <1>1, <1>2, <1>3, <1>4, CopiesStay DEF Types, TypeOK
<1>6. ReorderFits'
  BY <1>1, <1>4, CopiedCards DEF ReorderFits, Pending
<1>7. ListIsBehind' /\ FetchIsBehind'
  BY <1>1 DEF ListIsBehind, FetchIsBehind, Unseen
<1>8. ListStrays' /\ FetchStrays'
  BY <1>1, <1>2, <1>3, CopiedCards, StrayedBefore DEF ListStrays, FetchStrays
<1>9. DropStrays'
  BY <1>1, <1>2, <1>3, CopiedCards, StrayedBefore DEF DropStrays, Pending
<1> QED BY <1>5, <1>6, <1>7, <1>8, <1>9

LEMMA OthersStep ==
  ASSUME IndInv, OtherAdds \/ OtherMoves \/ OtherRemoves PROVE IndInv'
<1>1. CASE OtherAdds
  <2>1. [status |-> "todo", position |-> EndOf("todo")] \in Row
    BY EndIsPosition DEF Row, columnOrder, ToSet, IndInv, Types
  <2> QED BY <1>1, <2>1, OtherWriteStep DEF OtherAdds
<1>2. CASE OtherMoves
  <2>1. PICK t \in Visible, s \in Target, p \in 0..MaxPosition :
          OtherWrite(t, [status |-> s, position |-> p])
    BY <1>2 DEF OtherMoves
  <2>2. [status |-> s, position |-> p] \in Row
    BY TargetStatus DEF Row, Status
  <2> QED BY <2>1, <2>2, OtherWriteStep DEF Visible
<1>3. CASE OtherRemoves
  BY <1>3, OtherWriteStep DEF OtherRemoves, Visible
<1> QED BY <1>1, <1>2, <1>3

-----------------------------------------------------------------------------
(* The user *)

\* The modal, and the card that is dragged, are the page's alone.
LEMMA PageStep ==
  ASSUME IndInv, UNCHANGED <<data, bounds, history>>,
         draggingId' \in Todo \cup {None}, isCreateOpen' \in BOOLEAN
  PROVE  IndInv'
<1> USE DEF IndInv
<1>1. UNCHANGED <<board, list, fetch, mutation, events, acts, news, behind, excuse>>
  BY DEF data, bounds, history
<1>2. Types' /\ CopiesFit'
  BY <1>1, CopiesStay DEF Types, TypeOK
<1>3. ReorderFits' /\ ListIsBehind' /\ FetchIsBehind'
  BY <1>1 DEF ReorderFits, Pending, ListIsBehind, FetchIsBehind, Unseen
<1>4. ListStrays' /\ FetchStrays' /\ DropStrays'
  BY <1>1 DEF ListStrays, FetchStrays, DropStrays, Elsewhere, Visible
<1> QED BY <1>2, <1>3, <1>4

\* A mutation that does not move cards is called.
LEMMA CalledStep ==
  ASSUME IndInv, NEW k \in Kind \ {"reorder"}, NEW arg \in {None} \cup Todo,
         ~Pending(k), Mutate(k, arg), UNCHANGED <<board, list, fetch, page, events, history>>
  PROVE  IndInv'
<1> USE DEF IndInv
<1>1. /\ UNCHANGED <<board, list, fetch, draggingId, isCreateOpen, events, news, behind, excuse>>
      /\ acts' \in 0..MaxActs
  BY PageAssumption DEF Mutate, page, history, Types, TypeOK, PageAssumption
<1>2. /\ mutation' \in [Kind -> Mutation]
      /\ mutation[k].phase = "idle" /\ mutation'[k].phase = "sent"
      /\ \A j \in Kind \ {k} : mutation'[j] = mutation[j]
  <2>1. [phase |-> "sent", arg |-> arg] \in Mutation
    BY DEF Mutation
  <2> QED BY <2>1, CallStep DEF Mutate, Pending
<1>3. mutation'["reorder"] = mutation["reorder"]
  BY <1>2 DEF Kind
<1>4. Types' /\ CopiesFit'
  BY <1>1, <1>2, CopiesStay DEF Types, TypeOK
<1>5. ReorderFits'
  BY <1>1, <1>3 DEF ReorderFits, Pending
<1>6. ListIsBehind' /\ FetchIsBehind'
  BY <1>1, <1>2 DEF ListIsBehind, FetchIsBehind, Unseen
<1>7. ListStrays' /\ FetchStrays' /\ DropStrays'
  BY <1>1, <1>3 DEF ListStrays, FetchStrays, DropStrays, Elsewhere, Visible
<1> QED BY <1>4, <1>5, <1>6, <1>7

\* What the page lists is in the cached list.
LEMMA ListedIsCached ==
  ASSUME Types, NEW t \in Listed
  PROVE  list # None /\ list \in Seq(Card) /\ Todos = list /\ t \in Ids(ToSet(list)) /\ t \in Todo
<1>1. list # None
  <2> SUFFICES ASSUME list = None PROVE FALSE
    OBVIOUS
  <2>1. ToSet(Todos) = {}
    BY DEF Todos, ToSet
  <2> QED BY <2>1 DEF Listed, Ids
<1>2. list \in Seq(Card) /\ Todos = list
  BY <1>1 DEF Types, TypeOK, Todos
<1> QED BY <1>1, <1>2, CardAt DEF Listed, Ids, ToSet

\* A drop sends cards that stray only as those of the list do.
LEMMA DropStep ==
  ASSUME IndInv, NEW s \in Target,
         NEW index \in {None} \cup 0..Cardinality(todosByStatus(Todos, s)) - 1,
         handleDrop(s, index)
  PROVE  IndInv' /\ OneCardMoved(list, mutation'["reorder"].arg)
<1> USE DEF IndInv
<1> DEFINE t == draggingId
           items == DropItems(list, t, s, index)
           drop == [items |-> items, moved |-> t, status |-> s, index |-> index]
<1>1. /\ list # None /\ list \in Seq(Card) /\ t \in Ids(ToSet(list)) /\ t \in Todo
      /\ index \in {None} \cup 0..Cardinality(todosByStatus(list, s)) - 1
      /\ s \in Status /\ Distinct(list) /\ Sound(list)
  BY ListedIsCached, TargetStatus DEF handleDrop, Accepts, CopiesFit, Sound
<1>2. /\ items \subseteq Card
      /\ Ids(items) = Ids(ToSet(list))
      /\ \A a, b \in items : a.id = b.id => a = b
      /\ \A a \in items : a.id # t => \E c \in ToSet(list) : c.id = a.id /\ c.status = a.status
  BY <1>1, DropSends
<1>3. OneCardMoved(list, drop)
  BY <1>1, DropMovesOne
<1>4. drop \in Drop
  <2>1. index \in Nat \cup {None}
    BY <1>1, ColumnAt, FS_CardinalityType
  <2> HIDE DEF items
  <2> QED BY <1>1, <1>2, <2>1 DEF Drop, Status
<1>5. /\ drop.items = items /\ drop.moved = t
      /\ mutation["reorder"].phase = "idle"
      /\ mutation' = [mutation EXCEPT !["reorder"] = [phase |-> "sent", arg |-> drop]]
  BY DEF handleDrop, Mutate, Accepts, Pending
<1> HIDE DEF items, drop
<1>6. /\ mutation' \in [Kind -> Mutation]
      /\ mutation'["reorder"].phase = "sent" /\ mutation'["reorder"].arg = drop
      /\ \A j \in Kind \ {"reorder"} : mutation'[j] = mutation[j]
  <2>1. "reorder" \in Kind /\ [phase |-> "sent", arg |-> drop] \in Mutation
    BY <1>4 DEF Kind, Mutation
  <2> QED BY <1>5, <2>1, CallStep
<1>7. /\ UNCHANGED <<board, list, fetch, isCreateOpen, events, behind>>
      /\ acts' \in 0..MaxActs /\ draggingId' = None
  BY PageAssumption DEF handleDrop, Mutate, Types, TypeOK, PageAssumption
<1>8. /\ news' \in [{"list", "fetch", "drop"} -> SUBSET Todo]
      /\ news'["drop"] = news["list"]
      /\ news'["list"] = news["list"] /\ news'["fetch"] = news["fetch"]
  BY DEF handleDrop, Types, TypeOK
<1>9. /\ excuse' \in [{"list", "drop"} -> BOOLEAN]
      /\ excuse'["drop"] = excuse["list"] /\ excuse'["list"] = excuse["list"]
  <2>1. excuse["list"] \in BOOLEAN /\ excuse \in [{"list", "drop"} -> BOOLEAN]
        /\ excuse' = [excuse EXCEPT !["drop"] = excuse["list"]]
    BY DEF handleDrop, Types, TypeOK
  <2> QED BY <2>1, Zenon
<1>10. Types' /\ CopiesFit'
  BY <1>6, <1>7, <1>8, <1>9, CopiesStay DEF Types, TypeOK
<1>11. ReorderFits'
  <2>1. \A a \in items : board[a.id] # None
    BY <1>1, <1>2 DEF Sound, Ids
  <2> QED BY <1>2, <1>4, <1>5, <1>6, <1>7, <2>1 DEF ReorderFits
<1>12. "reorder" \in Kind
  BY DEF Kind
<1>13. ListIsBehind' /\ FetchIsBehind'
  BY <1>5, <1>6, <1>7, <1>9, <1>12 DEF ListIsBehind, FetchIsBehind, Unseen
<1>14. ListStrays' /\ FetchStrays'
  BY <1>5, <1>7, <1>8, <1>9 DEF ListStrays, FetchStrays, Elsewhere, Visible
<1>15. DropStrays'
  <2>1. ASSUME NEW a \in items, a.id # t, Elsewhere(a)
        PROVE  a.id \in news["list"] \/ excuse["list"]
    <3>1. PICK c \in ToSet(list) : c.id = a.id /\ c.status = a.status
      BY <1>2, <2>1
    <3>2. Elsewhere(c)
      BY <2>1, <3>1 DEF Elsewhere
    <3> QED BY <1>1, <1>5, <3>1, <3>2 DEF ListStrays
  <2> QED BY <1>5, <1>6, <1>7, <1>8, <1>9, <2>1 DEF DropStrays, Elsewhere, Visible
<1> QED BY <1>3, <1>6, <1>10, <1>11, <1>13, <1>14, <1>15

LEMMA UserStep ==
  ASSUME IndInv, User PROVE IndInv'
<1> USE DEF IndInv
<1>1. {"create", "update", "delete"} \subseteq Kind \ {"reorder"}
  BY DEF Kind
<1>2. CASE OpenCreate \/ CloseCreate \/ DragEnd
  BY <1>2, PageStep DEF OpenCreate, CloseCreate, DragEnd, Types, TypeOK
<1>3. CASE handleCreate
  BY <1>1, <1>3, CalledStep DEF handleCreate
<1>4. ASSUME NEW t \in Todo, DeleteTodo(t) PROVE IndInv'
  BY <1>1, <1>4, CalledStep DEF DeleteTodo
<1>5. ASSUME NEW t \in Todo, AssignTodo(t) PROVE IndInv'
  BY <1>1, <1>5, CalledStep DEF AssignTodo
<1>6. ASSUME NEW t \in Todo, DragStart(t) PROVE IndInv'
  BY <1>6, PageStep DEF DragStart, Types, TypeOK
<1>7. CASE DropOnColumn
  BY <1>7, DropStep DEF DropOnColumn
<1>8. CASE DropOnCard
  BY <1>8, DropStep DEF DropOnCard
<1> QED BY <1>2, <1>3, <1>4, <1>5, <1>6, <1>7, <1>8 DEF User

-----------------------------------------------------------------------------
(* The theorems *)

LEMMA InitInv ==
  ASSUME Init PROVE IndInv
<1>1. Types
  <2>1. board \in [Todo -> Row \cup {None, Gone}]
    <3>1. [status : Target, position : 0..MaxPosition] \subseteq Row
      BY TargetStatus, PageAssumption DEF PageAssumption, Row, Status
    <3> QED BY <3>1 DEF Init
  <2>2. mutation \in [Kind -> Mutation]
    BY IdleIsMutation DEF Init
  <2>3. \A k \in Kind : mutation[k].phase \in {"idle", "sent", "done", "refused", "settling"}
    BY IdleIsMutation DEF Init
  <2>4. events \in 0..MaxEvents /\ acts \in 0..MaxActs
    BY PageAssumption DEF Init, PageAssumption
  <2> QED BY <2>1, <2>2, <2>3, <2>4 DEF Init, Types, TypeOK
<1>2. mutation["reorder"].phase = "idle"
  BY IdleIsMutation DEF Init, Kind
<1> QED BY <1>1, <1>2 DEF Init, IndInv, CopiesFit, ReorderFits, Pending, ListIsBehind,
                          FetchIsBehind, ListStrays, FetchStrays, DropStrays

\* The invariant is inductive: every step of the page, the network, the server and the
\* other writers preserves it.
THEOREM Inductive == Spec => []IndInv
<1>1. Init => IndInv
  BY InitInv
<1>2. IndInv /\ [Next]_vars => IndInv'
  <2> SUFFICES ASSUME IndInv, [Next]_vars PROVE IndInv'
    OBVIOUS
  <2>1. CASE UNCHANGED vars
    BY <2>1, PageStep DEF vars, page, IndInv, Types, TypeOK
  <2>2. CASE Network
    BY <2>2, ServeListStep, FetchAnsweredStep, FetchFailsStep DEF Network
  <2>3. CASE Reconnect
    BY <2>3, ReconnectStep
  <2>4. CASE User
    BY <2>4, UserStep
  <2>5. ASSUME NEW k \in Kind, Progress(k) PROVE IndInv'
    BY <2>5, ServeCreateStep, ServeUpdateStep, ServeDeleteStep, ServeReorderStep,
       MutationAnsweredStep, MutationLostStep DEF Progress, Serve
  <2>6. CASE OtherAdds \/ OtherMoves \/ OtherRemoves
    BY <2>6, OthersStep
  <2> QED BY <2>1, <2>2, <2>3, <2>4, <2>5, <2>6 DEF Next
<1> QED BY <1>1, <1>2, PTL DEF Spec

\* Every variable keeps its type; a new card's place is a number.
THEOREM TypeCorrect == Spec => []TypeOK
<1>1. IndInv => TypeOK
  BY DEF IndInv, Types
<1> QED BY <1>1, Inductive, PTL

\* When no mutation of TodoPage.tsx is pending, the list of useTodos.ts shows all the user
\* did, unless a fetch failed, an answer was lost or the first fetch was joined.
THEOREM SettledLists == Spec => []SettledIsShown
<1>1. IndInv => SettledIsShown
  BY DEF IndInv, ListIsBehind, SettledIsShown, Unseen, Pending
<1> QED BY <1>1, Inductive, PTL

\* A mutation is sent by a call only, and a drop's is done by ServeReorder only.
LEMMA ReorderPhase ==
  ASSUME IndInv, Next
  PROVE  /\ \/ ~(~Pending("reorder") /\ mutation'["reorder"].phase = "sent")
            \/ DropOnColumn \/ DropOnCard
         /\ \/ ~(mutation["reorder"].phase = "sent" /\ mutation'["reorder"].phase = "done")
            \/ ServeReorder
<1> DEFINE Same == mutation'["reorder"].phase \in {mutation["reorder"].phase, "idle", "settling"}
<1> USE DEF IndInv
<1>1. "reorder" \in Kind /\ {"create", "update", "delete"} \subseteq Kind \ {"reorder"}
  BY DEF Kind
<1>2. UNCHANGED mutation => Same
  OBVIOUS
<1>3. Settle => Same
  BY <1>1, SettleStep
<1>4. ASSUME NEW k \in Kind, NEW m \in Mutation, k # "reorder" \/ m = Idle,
             mutation' = [mutation EXCEPT ![k] = m]
      PROVE  Same
  BY <1>1, <1>4, CallStep, IdleIsMutation
<1>5. ASSUME NEW k \in Kind, Await(k) PROVE Same
  BY <1>1, <1>5, PhaseStep DEF Await
<1>6. ASSUME NEW k \in {"create", "update", "delete"}, NEW p \in {"done", "refused"},
             Served(k, p)
      PROVE  Same
  BY <1>1, <1>6, ServedStep
<1>7. ASSUME NEW k \in {"create", "update", "delete"}, NEW arg \in {None} \cup Todo,
             Mutate(k, arg)
      PROVE  Same
  <2>1. [phase |-> "sent", arg |-> arg] \in Mutation
    BY DEF Mutation
  <2> QED BY <1>1, <1>4, <1>7, <2>1 DEF Mutate
<1> HIDE DEF Same
<1>8. ASSUME Network \/ Reconnect \/ OtherAdds \/ OtherMoves \/ OtherRemoves PROVE Same
  <2>1. UNCHANGED mutation \/ Settle
    BY <1>8 DEF Network, ServeList, FetchAnswered, FetchFails, Reconnect, OtherAdds,
                OtherMoves, OtherRemoves, OtherWrite
  <2> QED BY <1>2, <1>3, <2>1
<1>9. ASSUME NEW k \in Kind, MutationAnswered(k) \/ MutationLost(k) PROVE Same
  <2>1. Await(k) \/ mutation' = [mutation EXCEPT ![k] = Idle]
    BY <1>9 DEF MutationAnswered, MutationLost
  <2> QED BY <1>4, <1>5, <2>1, IdleIsMutation
<1>10. ASSUME ServeCreate \/ ServeUpdate \/ ServeDelete PROVE Same
  <2>1. PICK k \in {"create", "update", "delete"}, p \in {"done", "refused"} : Served(k, p)
    BY <1>10 DEF ServeCreate, ServeUpdate, ServeDelete, Refused
  <2> QED BY <1>6, <2>1
<1>11. User => Same \/ DropOnColumn \/ DropOnCard
  <2>1. OpenCreate \/ CloseCreate \/ DragEnd \/ (\E t \in Todo : DragStart(t)) => Same
    BY <1>2 DEF OpenCreate, CloseCreate, DragEnd, DragStart, data
  <2>2. handleCreate => Same
    BY <1>7 DEF handleCreate
  <2>3. ASSUME NEW t \in Todo, DeleteTodo(t) \/ AssignTodo(t) PROVE Same
    BY <1>7, <2>3 DEF DeleteTodo, AssignTodo
  <2> QED BY <2>1, <2>2, <2>3 DEF User
<1>12. Same \/ ServeReorder \/ DropOnColumn \/ DropOnCard
  BY <1>8, <1>9, <1>10, <1>11 DEF Next, Progress, Serve
<1>13. ServeReorder => Pending("reorder")
  BY DEF ServeReorder, Served, Refused, Pending
<1>14. DropOnColumn \/ DropOnCard => mutation["reorder"].phase = "idle"
  BY DEF DropOnColumn, DropOnCard, handleDrop, Accepts, Pending
<1> QED BY <1>12, <1>13, <1>14 DEF Pending, Same

\* handleDrop sends the board the user saw with one card moved, however many todos and
\* whatever their positions.
THEOREM DropsMoveOneCard == Spec => DropMovesOneCard
<1> DEFINE Moves == ~Pending("reorder") /\ mutation'["reorder"].phase = "sent" =>
                      OneCardMoved(list, mutation'["reorder"].arg)
<1>1. IndInv /\ [Next]_vars => [Moves]_vars
  <2> SUFFICES ASSUME IndInv, Next PROVE Moves
    OBVIOUS
  <2> SUFFICES ASSUME DropOnColumn \/ DropOnCard
               PROVE  OneCardMoved(list, mutation'["reorder"].arg)
    BY ReorderPhase
  <2> QED BY DropStep DEF DropOnColumn, DropOnCard
<1> QED BY <1>1, Inductive, PTL DEF Spec, DropMovesOneCard

\* The only cards a drop takes back to another column are those others moved since the list
\* was read, or those of a list that missed an own write for a reason: reorderMutation's
\* isPending keeps the user's own last drop.
THEOREM RevertsHaveCause == Spec => RevertNeedsCause
<1> DEFINE Caused == board' # board /\ mutation["reorder"].phase = "sent"
                       /\ mutation'["reorder"].phase = "done" =>
                     \A t \in Visible \ {mutation["reorder"].arg.moved} :
                       board'[t].status # board[t].status =>
                         t \in news["drop"] \/ excuse["drop"]
<1>1. IndInv /\ [Next]_vars => [Caused]_vars
  <2> SUFFICES ASSUME IndInv, Next, mutation["reorder"].phase = "sent",
                      mutation'["reorder"].phase = "done",
                      NEW t \in Visible, t # mutation["reorder"].arg.moved,
                      board'[t].status # board[t].status
               PROVE  t \in news["drop"] \/ excuse["drop"]
    OBVIOUS
  <2> DEFINE items == mutation["reorder"].arg.items
             item == CHOOSE i \in items : i.id = t
  <2>1. ServeReorder
    BY ReorderPhase
  <2>2. ~Refused("reorder")
    <3>1. ASSUME Refused("reorder") PROVE mutation'["reorder"].phase = "refused"
      BY <3>1, ServedStep DEF Refused, IndInv, Kind
    <3> QED BY <3>1
  <2>3. t \in Todo /\ t \in Ids(items) /\ board'[t].status = item.status
    BY <2>1, <2>2 DEF ServeReorder, OwnWrite, Visible
  <2>4. item \in items /\ item.id = t
    BY <2>3 DEF Ids
  <2>5. Elsewhere(item)
    BY <2>3, <2>4 DEF Elsewhere
  <2> HIDE DEF item
  <2> QED BY <2>4, <2>5 DEF IndInv, DropStrays
<1> QED BY <1>1, Inductive, PTL DEF Spec, RevertNeedsCause
=============================================================================
