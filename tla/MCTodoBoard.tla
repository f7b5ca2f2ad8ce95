----------------------------- MODULE MCTodoBoard -----------------------------
(* A small instance of TodoBoard for TLC. *)
EXTENDS TodoBoard

CONSTANTS u1, u2, o1, o2, r1, r2

Items == {[id |-> o1, status |-> "done", position |-> 0],
          [id |-> o2, status |-> "todo", position |-> 1]}

SomeCreates == {[status |-> "todo", assignee |-> a] : a \in {None, u2}}

\* Move to a column, or to one of u2 that Bun does not know; finish with the flag,
\* or not; take the todo away from u2, who may have a request on it under way; the
\* largest position; both status and flag.
NoChange == [status |-> None, completed |-> None, position |-> None, assignee |-> None]
SomeUpdates ==
  {[NoChange EXCEPT !.status = "todo"], [NoChange EXCEPT !.status = "failed", !.assignee = u2],
   [NoChange EXCEPT !.completed = TRUE], [NoChange EXCEPT !.completed = FALSE],
   [NoChange EXCEPT !.assignee = u1], [NoChange EXCEPT !.position = MaxPosition],
   [NoChange EXCEPT !.status = "done", !.completed = FALSE]}

\* Two rows in either order, one row twice, and a status that is refused after
\* a row was updated, by both or by Bun.
SomeReorders ==
  {<<x, y>> : x \in Items, y \in Items}
     \cup {<<x, [x EXCEPT !.status = s]>> : x \in Items, s \in {None, "failed"}}

\* o1 is shared by u1 and u2, o2 is u1's alone.
TwoTodos ==
  todos = [t \in Id |->
    CASE t = o1 -> [reporter |-> u1, assignee |-> u2, status |-> "todo",
                    completed |-> FALSE, position |-> 0]
      [] t = o2 -> [reporter |-> u1, assignee |-> u1, status |-> "todo",
                    completed |-> FALSE, position |-> 0]
      [] OTHER -> None]

MCInit == TwoTodos /\ Init
MCSpec == MCInit /\ [][Next]_vars
MCFairSpec == MCSpec /\ Fairness
=============================================================================
