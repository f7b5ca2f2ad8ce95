---------------------------- MODULE MCBoardPage ----------------------------
(* A small instance of BoardPage for TLC. *)
EXTENDS BoardPage

CONSTANTS t1, t2

\* Two todos in one column, at one position, or in two columns; or only t1, and
\* t2 is yet to come.
SomeBoards ==
  /\ board[t1] = [status |-> "todo", position |-> 0]
  /\ board[t2] \in {None, [status |-> "todo", position |-> 0],
                    [status |-> "todo", position |-> 1],
                    [status |-> "done", position |-> 0]}

\* The same of every drop on every list of three cards, whatever the positions the
\* server gave them.
ASSUME EveryDropMovesOneCard ==
  \A places \in [1..3 -> [status : Target, position : 0..2]], t \in 1..3, s \in Target :
    LET cards == [n \in 1..3 |-> [id |-> n, status |-> places[n].status,
                                 position |-> places[n].position]] IN
    \A index \in {None} \cup 0..Cardinality(todosByStatus(cards, s)) - 1 :
      OneCardMoved(cards, [items |-> DropItems(cards, t, s, index), moved |-> t,
                           status |-> s, index |-> index])

MCInit == Init /\ SomeBoards
MCFairSpec == MCInit /\ [][Next]_vars /\ Fairness
=============================================================================
