------------------------------ MODULE TodoLedger ------------------------------
(***************************************************************************)
(* What the todo services promise each request, without their statements,  *)
(* locks and transactions: a request takes effect at most once and in one   *)
(* step, between its arrival and its answer.                                *)
(*                                                                         *)
(*   - it takes effect with the rights its user has at that moment;         *)
(*   - its effect is all of what it asks for: no field it names is lost,    *)
(*     none that it leaves alone changes, no other todo is touched;         *)
(*   - "ok" is answered only after the effect, "denied" only without it;    *)
(*     "failed" leaves the client in doubt.                                 *)
(*                                                                         *)
(* Which position a request gets that names none is left open.              *)
(***************************************************************************)
EXTENDS Integers

CONSTANTS User, Req, Id, Row,
          Final,                       \* the statuses of a completed todo
          Creates, Updates, Reorders,  \* the payloads
          None

VARIABLES
  todos,                 \* the table
  state,                 \* how far a request is
  op, user, todo, ask    \* its endpoint, actor, todo and payload

asked == <<op, user, todo, ask>>
ledger == <<todos, state, asked>>

Related(u, t) == todos[t] # None /\ u \in {todos[t].reporter, todos[t].assignee}

Keep(new, old) == IF new = None THEN old ELSE new

-----------------------------------------------------------------------------
Init ==
  /\ todos \in [Id -> Row \cup {None}]
  /\ \A r \in Req : todos[r] = None
  /\ state = [r \in Req |-> "idle"]
  /\ op = [r \in Req |-> None]
  /\ user = [r \in Req |-> None]
  /\ todo = [r \in Req |-> None]
  /\ ask = [r \in Req |-> None]

Arrive(r, o, u, t, a) ==
  /\ state[r] = "idle"
  /\ state' = [state EXCEPT ![r] = "pending"]
  /\ op' = [op EXCEPT ![r] = o]
  /\ user' = [user EXCEPT ![r] = u]
  /\ todo' = [todo EXCEPT ![r] = t]
  /\ ask' = [ask EXCEPT ![r] = a]
  /\ UNCHANGED todos

Request(r) == \E u \in User :
  \/ \E a \in Creates : Arrive(r, "create", u, r, a)
  \/ \E t \in Id : \/ Arrive(r, "delete", u, t, None)
                  \/ \E a \in Updates : Arrive(r, "update", u, t, a)
  \/ \E a \in Reorders : Arrive(r, "reorder", u, None, a)

Add(r) ==
  /\ op[r] = "create" /\ todos[r] = None
  /\ \E row \in Row :
        /\ row.reporter = user[r]
        /\ row.assignee = Keep(ask[r].assignee, user[r])
        /\ row.status = ask[r].status
        /\ row.completed = (row.status \in Final)
        /\ todos' = [todos EXCEPT ![r] = row]

\* new is the row old as an update asks for it.  The status and the flag follow
\* one another unless it names both.
Meets(a, old, new) ==
  /\ new.reporter = old.reporter
  /\ new.assignee = Keep(a.assignee, old.assignee)
  /\ a.status # None => new.status = a.status
  /\ a.completed # None => new.completed = a.completed
  /\ a.position # None => new.position = a.position
  /\ IF a.status = None /\ a.completed = None
     THEN /\ new.status = old.status /\ new.completed = old.completed
          /\ a.position = None => new.position = old.position
     ELSE a.status = None \/ a.completed = None =>
            new.completed = (new.status \in Final)

Change(r) ==
  /\ op[r] = "update" /\ Related(user[r], todo[r])
  /\ \E row \in Row : /\ Meets(ask[r], todos[todo[r]], row)
                      /\ todos' = [todos EXCEPT ![todo[r]] = row]

Remove(r) ==
  /\ op[r] = "delete" /\ Related(user[r], todo[r])
  /\ todos' = [todos EXCEPT ![todo[r]] = None]

ItemsFor(r, t) == {i \in DOMAIN ask[r] : ask[r][i].id = t}

\* The last item for a todo counts.
LastFor(r, t) == CHOOSE i \in ItemsFor(r, t) : \A j \in ItemsFor(r, t) : j <= i

Rearranged(r, t) ==
  LET item == ask[r][LastFor(r, t)] IN
  [todos[t] EXCEPT !.status = item.status, !.position = item.position,
                   !.completed = item.status \in Final]

Rearrange(r) ==
  /\ op[r] = "reorder"
  /\ \A i \in DOMAIN ask[r] : Related(user[r], ask[r][i].id)
  /\ todos' = [t \in Id |-> IF ItemsFor(r, t) = {} THEN todos[t] ELSE Rearranged(r, t)]

Effect(r) == Add(r) \/ Change(r) \/ Remove(r) \/ Rearrange(r)

\* The request takes effect; its answer may be on its way already.
Take(r) ==
  /\ state[r] = "pending"
  /\ \E next \in {"applied", "ok", "failed"} : state' = [state EXCEPT ![r] = next]
  /\ Effect(r) /\ UNCHANGED asked

Refuse(r) ==
  /\ state[r] = "pending"
  /\ \E next \in {"denied", "failed"} : state' = [state EXCEPT ![r] = next]
  /\ UNCHANGED <<todos, asked>>

Answer(r) ==
  /\ state[r] = "applied"
  /\ \E next \in {"ok", "failed"} : state' = [state EXCEPT ![r] = next]
  /\ UNCHANGED <<todos, asked>>

Next == \E r \in Req : Request(r) \/ Take(r) \/ Refuse(r) \/ Answer(r)

Spec == Init /\ [][Next]_ledger
=============================================================================
