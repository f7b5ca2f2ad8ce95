----------------------------- MODULE BoardPageInv -----------------------------
(***************************************************************************)
(* The inductive invariant of BoardPage: what the page and the requests    *)
(* under way may hold, and by which route every status the page shows, or  *)
(* is about to send, has come to differ from the server's.                 *)
(***************************************************************************)
EXTENDS BoardPage

Drop == [items : SUBSET Card, moved : Todo, status : ToSet(columnOrder),
         index : Nat \cup {None}]
Mutation == [phase : {"idle", "sent", "done", "refused", "settling"},
             arg : {None} \cup Todo \cup Drop]

\* No two cards show the same todo.
Distinct(cards) == \A i, j \in DOMAIN cards : cards[i].id = cards[j].id => i = j

\* A copy of the list names todos that were created, each of them once.
Sound(cards) == Distinct(cards) /\ \A t \in Ids(ToSet(cards)) : board[t] # None

\* A card the user may still see is in another column at the server.
Elsewhere(card) == card.id \in Visible /\ card.status # board[card.id].status

\* The own writes that no fetch has been started after, or none has answered.
Unseen(phases) == \E k \in Kind : mutation[k].phase \in phases

-----------------------------------------------------------------------------
Types ==
  /\ TypeOK
  /\ fetch \in [phase : {"none", "sent", "answered"}, cards : Seq(Card) \cup {None}]
  /\ mutation \in [Kind -> Mutation]

CopiesFit ==
  /\ list # None => Sound(list)
  /\ fetch.phase = "answered" => fetch.cards \in Seq(Card) /\ Sound(fetch.cards)

ReorderFits ==
  Pending("reorder") =>
    /\ mutation["reorder"].arg \in Drop
    /\ \A a, b \in mutation["reorder"].arg.items : a.id = b.id => a = b
    /\ \A a \in mutation["reorder"].arg.items : board[a.id] # None

\* The list lacks an own write only until the mutation has settled, and the answer
\* that is about to replace it only if the mutation's own answer is still to come.
ListIsBehind ==
  list # None /\ behind["list"] /\ ~excuse["list"] => Unseen({"done", "settling"})
FetchIsBehind ==
  fetch.phase = "answered" /\ behind["fetch"] /\ ~excuse["list"] => Unseen({"done"})

\* Why a card of the list is in another column than its todo.
ListStrays ==
  list # None => \A c \in ToSet(list) : Elsewhere(c) =>
    \/ c.id \in news["list"] \/ excuse["list"]
    \/ mutation["reorder"].phase \in {"done", "settling"}

\* The same of the answer under way.
FetchStrays ==
  fetch.phase = "answered" => \A c \in ToSet(fetch.cards) : Elsewhere(c) =>
    \/ c.id \in news["fetch"]
    \/ behind["fetch"] /\ (excuse["list"] \/ mutation["reorder"].phase = "done")

\* The same of the items a drop has sent.
DropStrays ==
  LET reorder == mutation["reorder"] IN
  reorder.phase = "sent" =>
    \A a \in reorder.arg.items : a.id # reorder.arg.moved /\ Elsewhere(a) =>
      a.id \in news["drop"] \/ excuse["drop"]

IndInv == /\ Types /\ CopiesFit /\ ReorderFits
          /\ ListIsBehind /\ FetchIsBehind
          /\ ListStrays /\ FetchStrays /\ DropStrays
=============================================================================
