------------------------------ MODULE BoardPage ------------------------------
(***************************************************************************)
(* The board of the front end: TodoPage.tsx on the query cache of          *)
(* useTodos.ts, in one tab of a signed-in user, over a server whose todos  *)
(* other writers (other users, other tabs, the AI assistant) change too.   *)
(*                                                                         *)
(* The page works on a cached list.  A drop computes the positions of the  *)
(* whole board from that list and sends them all; every mutation that      *)
(* succeeds invalidates the list and stays pending until the refetch this  *)
(* starts has settled.  The user goes on working meanwhile, and the list   *)
(* may be replaced under a card that is being dragged.                     *)
(*                                                                         *)
(* The server's tables are TodoBoard's; here a request takes effect in one *)
(* step.  board holds what the user may see.  Titles, e-mail addresses and *)
(* which user a todo is assigned to are left out.                          *)
(***************************************************************************)
EXTENDS Integers, SequencesExt

CONSTANTS Todo,       \* the names of todos, those to come included
          Target,     \* the columns the user drops on, and others move to
          MaxPosition,
          MaxEvents,  \* bounds what befalls the page: writes of others, faults
          MaxActs,    \* bounds the mutations the user starts
          Gone,       \* deleted, or out of the user's sight for good
          None

columnOrder == <<"todo", "planned", "in_progress", "fixing", "waiting_test",
                 "done", "failed">>
statusSections == << <<"todo", "planned">>,
                     <<"in_progress", "fixing", "waiting_test">>,
                     <<"done", "failed">> >>
Kind == {"create", "update", "reorder", "delete"}

Row == [status : ToSet(columnOrder), position : Nat]
Card == [id : Todo, status : ToSet(columnOrder), position : Nat]

ASSUME PageAssumption ==
  /\ Target \subseteq UNION {ToSet(statusSections[n]) : n \in 1..3}
  /\ {MaxPosition, MaxEvents, MaxActs} \subseteq Nat
  /\ IsFiniteSet(Todo)
  /\ None \notin Todo \cup Row /\ Gone \notin Row \cup {None}

VARIABLES
  board,        \* server: a row, None (not created yet) or Gone
  list,         \* the cached response, a sequence of cards, or None
  fetch,        \* the fetch of the list, and the response under way
  mutation,     \* per kind: its phase, and what it was called with
  draggingId, isCreateOpen,
  events, acts, \* bounds
  news,         \* history: what others wrote since a copy was read
  behind,       \* history: the user's own writes are newer than a copy
  excuse        \* history: why the list may lack an own write

page == <<draggingId, isCreateOpen>>
data == <<board, list, fetch, mutation>>
bounds == <<events, acts>>
history == <<news, behind, excuse>>
vars == <<data, page, bounds, history>>

Idle == [phase |-> "idle", arg |-> None]
Pending(k) == mutation[k].phase # "idle"
Todos == IF list = None THEN <<>> ELSE list
Ids(cards) == {c.id : c \in cards}
Listed == Ids(ToSet(Todos))

TypeOK ==
  /\ board \in [Todo -> Row \cup {None, Gone}]
  /\ list = None \/ list \in Seq(Card)
  /\ fetch.phase \in {"none", "sent", "answered"}
  /\ fetch.cards = None \/ fetch.cards \in Seq(Card)
  /\ DOMAIN mutation = Kind
  /\ \A k \in Kind :
       mutation[k].phase \in {"idle", "sent", "done", "refused", "settling"}
  /\ draggingId \in Todo \cup {None} /\ isCreateOpen \in BOOLEAN
  /\ events \in 0..MaxEvents /\ acts \in 0..MaxActs
  /\ news \in [{"list", "fetch", "drop"} -> SUBSET Todo]
  /\ behind \in [{"list", "fetch"} -> BOOLEAN]
  /\ excuse \in [{"list", "drop"} -> BOOLEAN]

-----------------------------------------------------------------------------
(* The columns the page shows, and what a drop makes of them *)

\* todosByStatus: an unknown status is "todo"; a column is sorted by position,
\* ties as they come.  Columns and places are given by the indexes in the list.
ColumnOf(status) == IF status \in ToSet(columnOrder) THEN status ELSE "todo"

todosByStatus(cards, s) == {i \in DOMAIN cards : ColumnOf(cards[i].status) = s}

Before(cards, i, j) == \/ cards[i].position < cards[j].position
                       \/ cards[i].position = cards[j].position /\ i < j

\* Counted from 0, as JavaScript does.
Place(cards, column, i) == Cardinality({j \in column : Before(cards, j, i)})

\* handleDrop: take the card out of its column, put it into the target at the
\* index, clamped, or at the end, and number every column from 0.
Others(cards, t, c) == {i \in todosByStatus(cards, c) : cards[i].id # t}

clampedIndex(cards, t, s, index) ==
  LET length == Cardinality(Others(cards, t, s)) IN
  IF index = None \/ index > length THEN length ELSE index

DropItems(cards, t, s, index) ==
  LET clamped == clampedIndex(cards, t, s, index)
      Shifted(c, p) == IF c = s /\ p >= clamped THEN p + 1 ELSE p
  IN {[id |-> t, status |-> s, position |-> clamped]} \cup
     UNION {{[id |-> cards[i].id, status |-> c,
              position |-> Shifted(c, Place(cards, Others(cards, t, c), i))]
             : i \in Others(cards, t, c)} : c \in ToSet(columnOrder)}

-----------------------------------------------------------------------------
Visible == {t \in Todo : board[t] \notin {None, Gone}}

Init ==
  /\ board \in [Todo -> [status : Target, position : 0..MaxPosition] \cup {None}]
  /\ list = None
  /\ fetch = [phase |-> "sent", cards |-> None]
  /\ mutation = [k \in Kind |-> Idle]
  /\ draggingId = None /\ isCreateOpen = FALSE
  /\ events = 0 /\ acts = 0
  /\ news = [c \in {"list", "fetch", "drop"} |-> {}]
  /\ behind = [c \in {"list", "fetch"} |-> FALSE]
  /\ excuse = [c \in {"list", "drop"} |-> FALSE]

-----------------------------------------------------------------------------
(* The query ['todos'] *)

Event == events < MaxEvents /\ events' = events + 1

\* ORDER BY status, position, updated_at: ties in any order.
Listing(cards) ==
  /\ Len(cards) = Cardinality(Visible) /\ Ids(ToSet(cards)) = Visible
  /\ \A i \in DOMAIN cards :
       /\ [status |-> cards[i].status, position |-> cards[i].position]
            = board[cards[i].id]
       /\ i > 1 => LET Rank(c) == SelectInSeq(columnOrder, LAMBDA s : s = c.status)
                       prev == cards[i - 1] IN
            \/ Rank(prev) < Rank(cards[i])
            \/ prev.status = cards[i].status /\ prev.position <= cards[i].position

CardOf(t) == [id |-> t, status |-> board[t].status, position |-> board[t].position]

ServeList ==
  /\ fetch.phase = "sent"
  /\ \E cards \in {[n \in DOMAIN o |-> CardOf(o[n])] : o \in SetToSeqs(Visible)} :
       Listing(cards) /\ fetch' = [phase |-> "answered", cards |-> cards]
  /\ news' = [news EXCEPT !["fetch"] = {}]
  /\ behind' = [behind EXCEPT !["fetch"] = FALSE]
  /\ UNCHANGED <<board, list, mutation, page, bounds, excuse>>

\* The mutations that wait for the refetch succeed, and with create the form is
\* cleared and closed, whatever was typed into it since.
Settle ==
  /\ mutation' = [k \in Kind |-> IF mutation[k].phase = "settling" THEN Idle
                                 ELSE mutation[k]]
  /\ isCreateOpen' = (isCreateOpen /\ mutation["create"].phase # "settling")

FetchAnswered ==
  /\ fetch.phase = "answered"
  /\ list' = fetch.cards
  /\ fetch' = [phase |-> "none", cards |-> None]
  /\ Settle
  /\ news' = [news EXCEPT !["list"] = news["fetch"]]
  /\ behind' = [behind EXCEPT !["list"] = behind["fetch"]]
  /\ excuse' = [excuse EXCEPT !["list"] = @ /\ behind["fetch"]]
  /\ UNCHANGED <<board, draggingId, bounds>>

\* The fetch and its one retry fail.  The cached list stays, and so does the
\* success of the mutations that waited.
FetchFails ==
  /\ fetch.phase # "none" /\ Event
  /\ fetch' = [phase |-> "none", cards |-> None]
  /\ Settle
  /\ excuse' = [excuse EXCEPT !["list"] = TRUE]
  /\ UNCHANGED <<board, list, draggingId, acts, news, behind>>

\* The browser is online again.
Reconnect ==
  /\ fetch.phase = "none" /\ Event
  /\ fetch' = [phase |-> "sent", cards |-> None]
  /\ UNCHANGED <<board, list, mutation, page, acts, history>>

\* Mutant: the fetch under way is cancelled and none is started.
InvalidateOnly ==
  /\ fetch' = [phase |-> "none", cards |-> None]
  /\ UNCHANGED excuse

\* invalidateQueries: a fetch under way is given up for a new one, but the first
\* one, when nothing is cached yet, is joined, although the server may have
\* answered it before the mutation.
Invalidate ==
  IF list = None /\ fetch.phase # "none"
  THEN UNCHANGED fetch /\ excuse' = [excuse EXCEPT !["list"] = @ \/ behind["fetch"]]
  ELSE fetch' = [phase |-> "sent", cards |-> None] /\ UNCHANGED excuse

-----------------------------------------------------------------------------
(* The mutations at the server.  Its refusals are the ones of TodoBoard. *)

OwnWrite(b) == /\ board' = b
               /\ behind' = [c \in {"list", "fetch"} |-> TRUE]

Served(k, outcome) ==
  /\ mutation[k].phase = "sent"
  /\ mutation' = [mutation EXCEPT ![k].phase = outcome]
  /\ UNCHANGED <<list, fetch, page, bounds, news, excuse>>

Refused(k) == Served(k, "refused") /\ UNCHANGED <<board, behind>>

\* Mutant: a new card goes before the first of its column.
StartOf(s) == LET column == {t \in Visible : board[t].status = s} IN
              IF column = {} THEN 0 ELSE Min({board[t].position : t \in column}) - 1

EndOf(s) == LET column == {t \in Visible : board[t].status = s} IN
            IF column = {} THEN 0 ELSE Max({board[t].position : t \in column}) + 1

ServeCreate ==
  \/ /\ Served("create", "done")
     /\ \E t \in Todo : board[t] = None
                        /\ OwnWrite([board EXCEPT ![t] =
                             [status |-> "todo", position |-> EndOf("todo")]])
  \/ Refused("create")

\* A new assignee: the todo stays in view if the user is its reporter.
ServeUpdate ==
  LET t == mutation["update"].arg IN
  \/ /\ t \in Visible /\ Served("update", "done")
     /\ \E b \in {board, [board EXCEPT ![t] = Gone]} : OwnWrite(b)
  \/ t \notin Visible /\ Refused("update")

ServeDelete ==
  LET t == mutation["delete"].arg IN
  \/ /\ t \in Visible /\ Served("delete", "done")
     /\ OwnWrite([board EXCEPT ![t] = Gone])
  \/ t \notin Visible /\ Refused("delete")

ServeReorder ==
  LET items == mutation["reorder"].arg.items IN
  \/ /\ Served("reorder", "done") /\ Ids(items) \subseteq Visible
     /\ OwnWrite([t \in Todo |->
          IF t \in Ids(items)
          THEN LET item == CHOOSE i \in items : i.id = t IN
               [status |-> item.status, position |-> item.position]
          ELSE board[t]])
  \/ Refused("reorder") /\ ~(Ids(items) \subseteq Visible)

\* Mutant: onSuccess does not return the promise of invalidateQueries.
NotAwaited(k) == mutation' = [mutation EXCEPT ![k] = Idle]

\* onSuccess returns the promise of invalidateQueries: the mutation is pending
\* until the refetch has settled.
Await(k) == mutation' = [mutation EXCEPT ![k].phase = "settling"]

MutationAnswered(k) ==
  /\ \/ mutation[k].phase = "done" /\ Invalidate /\ Await(k)
     \/ /\ mutation[k].phase = "refused"
        /\ mutation' = [mutation EXCEPT ![k] = Idle] /\ UNCHANGED <<fetch, excuse>>
  /\ UNCHANGED <<board, list, page, bounds, news, behind>>

\* The request or its answer is lost.  A mutation is not retried, and its error
\* does not invalidate the list.
MutationLost(k) ==
  /\ mutation[k].phase \in {"sent", "done", "refused"} /\ Event
  /\ excuse' = [excuse EXCEPT !["list"] = @ \/ mutation[k].phase = "done"]
  /\ mutation' = [mutation EXCEPT ![k] = Idle]
  /\ UNCHANGED <<board, list, fetch, page, acts, news, behind>>

-----------------------------------------------------------------------------
(* Other writers *)

OtherWrite(t, value) ==
  /\ Event
  /\ board' = [board EXCEPT ![t] = value]
  /\ news' = [c \in DOMAIN news |-> news[c] \cup {t}]
  /\ UNCHANGED <<list, fetch, mutation, page, acts, behind, excuse>>

OtherAdds == \E t \in Todo : board[t] = None
               /\ OtherWrite(t, [status |-> "todo", position |-> EndOf("todo")])
OtherMoves == \E t \in Visible, s \in Target, p \in 0..MaxPosition :
                OtherWrite(t, [status |-> s, position |-> p])
OtherRemoves == \E t \in Visible : OtherWrite(t, Gone)

-----------------------------------------------------------------------------
(* The user.  The modal covers the cards, and a drag keeps the pointer. *)

OnCards == ~isCreateOpen /\ draggingId = None

Mutate(k, arg) ==
  /\ acts < MaxActs /\ acts' = acts + 1
  /\ mutation' = [mutation EXCEPT ![k] = [phase |-> "sent", arg |-> arg]]

\* The button, or Ctrl-K; Escape, the backdrop or the button of the modal.
OpenCreate == OnCards /\ isCreateOpen' = TRUE
              /\ UNCHANGED <<data, draggingId, bounds, history>>
CloseCreate == isCreateOpen /\ isCreateOpen' = FALSE
               /\ UNCHANGED <<data, draggingId, bounds, history>>

\* With a title.  The button is disabled, and what is typed is not, while an
\* earlier create is pending.
handleCreate ==
  /\ isCreateOpen /\ ~Pending("create")
  /\ Mutate("create", None)
  /\ UNCHANGED <<board, list, fetch, page, events, history>>

\* The button and the select of a card of the board, or of the detail in the list
\* view, where any todo of the list can be selected.
DeleteTodo(t) ==
  /\ OnCards /\ t \in Listed /\ ~Pending("delete") /\ ~Pending("reorder")
  /\ Mutate("delete", t)
  /\ UNCHANGED <<board, list, fetch, page, events, history>>

AssignTodo(t) ==
  /\ OnCards /\ t \in Listed /\ ~Pending("update")
  /\ Mutate("update", t)
  /\ UNCHANGED <<board, list, fetch, page, events, history>>

DragStart(t) == OnCards /\ t \in Listed /\ draggingId' = t
                /\ UNCHANGED <<data, isCreateOpen, bounds, history>>
DragEnd == draggingId # None /\ draggingId' = None
           /\ UNCHANGED <<data, isCreateOpen, bounds, history>>

\* Mutant: a drop is accepted while an earlier one is being saved.
AcceptsAll == draggingId \in Listed

Accepts == draggingId \in Listed /\ ~Pending("reorder")

\* Mutant: a card dropped on another one goes after it.
handleDropAfter(s, index) ==
  /\ draggingId # None /\ Accepts
  /\ Mutate("reorder", [items |-> DropItems(list, draggingId, s,
                                          IF index = None THEN None ELSE index + 1),
                        moved |-> draggingId, status |-> s, index |-> index])
  /\ draggingId' = None
  /\ news' = [news EXCEPT !["drop"] = news["list"]]
  /\ excuse' = [excuse EXCEPT !["drop"] = excuse["list"]]
  /\ UNCHANGED <<board, list, fetch, isCreateOpen, events, behind>>

handleDrop(s, index) ==
  /\ draggingId # None /\ Accepts
  /\ Mutate("reorder", [items |-> DropItems(list, draggingId, s, index),
                        moved |-> draggingId, status |-> s, index |-> index])
  /\ draggingId' = None
  /\ news' = [news EXCEPT !["drop"] = news["list"]]
  /\ excuse' = [excuse EXCEPT !["drop"] = excuse["list"]]
  /\ UNCHANGED <<board, list, fetch, isCreateOpen, events, behind>>

\* Beside the cards: dropTarget has no index, for the dragover of a card bubbles
\* to its column, whose handler runs last.
DropOnColumn == \E s \in Target : handleDrop(s, None)
DropOnCard == \E s \in Target : \E i \in 0..Cardinality(todosByStatus(Todos, s)) - 1 :
                 handleDrop(s, i)

-----------------------------------------------------------------------------
Network == ServeList \/ FetchAnswered \/ FetchFails
Serve(k) == \/ k = "create" /\ ServeCreate
            \/ k = "update" /\ ServeUpdate
            \/ k = "delete" /\ ServeDelete
            \/ k = "reorder" /\ ServeReorder
Progress(k) == Serve(k) \/ MutationAnswered(k) \/ MutationLost(k)

User == \/ OpenCreate \/ CloseCreate \/ handleCreate
        \/ \E t \in Todo : DeleteTodo(t) \/ AssignTodo(t) \/ DragStart(t)
        \/ DragEnd \/ DropOnColumn \/ DropOnCard

Next == \/ Network \/ Reconnect \/ User
        \/ \E k \in Kind : Progress(k)
        \/ OtherAdds \/ OtherMoves \/ OtherRemoves

Spec == Init /\ [][Next]_vars

\* A fetch gets its answer or fails, and so does a mutation.  The user does
\* nothing that has to be done.
Fairness == WF_vars(Network) /\ \A k \in Kind : WF_vars(Progress(k))

FairSpec == Spec /\ Fairness

-----------------------------------------------------------------------------
(* Properties *)

\* Every card is sent once.  The others stay in their column and among each other
\* in the order they were shown in; every column is numbered from 0 without a gap;
\* the moved card is where it was dropped.
OneCardMoved(cards, drop) ==
  LET items == drop.items
      Shows(a, i) == cards[i].id = a.id
  IN /\ Ids(items) = Ids(ToSet(cards))
     /\ \A a, b \in items :
          /\ a.id = b.id \/ <<a.status, a.position>> = <<b.status, b.position>> => a = b
          /\ a.status = b.status /\ drop.moved \notin {a.id, b.id} =>
               \A i, j \in DOMAIN cards : Shows(a, i) /\ Shows(b, j) =>
                 (a.position < b.position <=> Before(cards, i, j))
     /\ \A a \in items :
          /\ \A p \in 0..a.position : \E b \in items : b.status = a.status /\ b.position = p
          /\ IF a.id = drop.moved
             THEN /\ a.status = drop.status
                  /\ IF drop.index = None
                     THEN \A b \in items : b.status = a.status => b.position <= a.position
                     ELSE a.position = drop.index
             ELSE \E i \in todosByStatus(cards, a.status) : Shows(a, i)

\* What a drop sends is the board the user saw with one card moved: every card
\* once, in the column and the order it was shown in, each column numbered from 0,
\* and the moved card in the column, and at the place, it was dropped on.
DropMovesOneCard ==
  [][~Pending("reorder") /\ mutation'["reorder"].phase = "sent" =>
       OneCardMoved(list, mutation'["reorder"].arg)]_vars

\* A drop takes a card that its user did not move to another column only if
\* somebody else moved it after the list was read, or the refetch after an
\* earlier mutation failed: it never undoes the user's own last drop.
RevertNeedsCause ==
  [][board' # board /\ mutation["reorder"].phase = "sent"
        /\ mutation'["reorder"].phase = "done" =>
       \A t \in Visible \ {mutation["reorder"].arg.moved} :
         board'[t].status # board[t].status => t \in news["drop"] \/ excuse["drop"]
     ]_vars

\* When no mutation is pending any more the list shows all the user did, unless a
\* fetch failed, an answer was lost, or the first fetch was under way.
SettledIsShown ==
  list # None /\ behind["list"] /\ ~excuse["list"] => \E k \in Kind : Pending(k)

\* Every mutation settles, and its controls are enabled again, although each
\* other mutation that succeeds gives up the refetch this one waits for.
EveryMutationSettles == \A k \in Kind : Pending(k) ~> ~Pending(k)
=============================================================================
