------------------------------ MODULE TodoBoard ------------------------------
(***************************************************************************)
(* The todos table under concurrent requests to the Rust back end and to    *)
(* the Bun back end, which may run on one database: create, update, delete  *)
(* and reorder of back-end/src/services/todo_service.rs and of              *)
(* bun_hono/src/services/todoService.ts.                                    *)
(*                                                                         *)
(* Every request is a process and every SQL statement an action.  create   *)
(* and update read the end of a column in one statement and write the row  *)
(* in a later one; the Rust delete reads the row before it deletes it;      *)
(* reorder updates its rows one by one in a transaction whose writes are    *)
(* invisible until it commits, and whose rows stay locked for it.  Bun      *)
(* knows fewer statuses, completes another way, and streams nothing.        *)
(*                                                                         *)
(* A todo is named after the request that creates it, or after a request   *)
(* of Past if it was in the table before.  Its title is left out.          *)
(***************************************************************************)
EXTENDS Integers, Sequences, FiniteSets, FiniteSetsExt

CONSTANTS User, Req, Past,
          Backend,                     \* the back ends that run
          Status,                      \* the statuses in use
          MaxPosition,                 \* the largest INTEGER
          Creates, Updates, Reorders,  \* the payloads the clients send
          None

\* What either normalize_status lets through, and what it counts as completed.
TODO_STATUSES(b) == IF b = "bun" THEN {"todo", "in_progress", "done"}
                    ELSE {"todo", "planned", "in_progress", "fixing", "waiting_test",
                          "done", "failed"}
Closed(b) == IF b = "bun" THEN {"done"} ELSE {"done", "failed"}
Id == Req \cup Past
Position == (-MaxPosition - 1)..MaxPosition

Row == [reporter : User, assignee : User, status : Status,
        completed : BOOLEAN, position : Position]
Op == {"create", "update", "delete", "reorder"}

CreatePayload == [status : Status, assignee : User \cup {None}]
UpdatePayload == [status : Status \cup {None}, completed : BOOLEAN \cup {None},
                  position : Position \cup {None}, assignee : User \cup {None}]
\* None stands for a status that both reject.
Item == [id : Id, status : Status \cup {None}, position : Position]

ASSUME BoardAssumption ==
  /\ {"todo", "in_progress", "done"} \subseteq Status
  /\ Status \subseteq TODO_STATUSES("rust")
  /\ Backend \subseteq {"rust", "bun"} /\ None \notin Backend
  /\ MaxPosition \in Nat
  /\ Req \cap Past = {}
  /\ None \notin User \cup Id \cup TODO_STATUSES("rust")
  /\ None \notin BOOLEAN /\ None \notin Int
  /\ None \notin Op /\ None \notin Row
  /\ Creates \subseteq CreatePayload /\ Updates \subseteq UpdatePayload
  /\ Reorders \subseteq Seq(Item) \ {<<>>}

VARIABLES
  todos,    \* the committed rows
  pc, via, op, user, \* a request's next statement, back end, endpoint and actor
  todo,     \* the todo it names or creates
  ask,      \* its payload
  seen,     \* the row it read, or its last statement returned
  place,    \* the position it computed
  at,       \* reorder: the item it updates next
  draft,    \* reorder: the rows it has updated and not yet committed
  told,     \* the users its broadcast went to
  placedBy, \* history: the request that appended a row to its column
  before    \* history: the requests answered before this one arrived

request == <<via, op, user, todo, ask, before>>
vars == <<todos, pc, request, seen, place, at, draft, told, placedBy>>

Answer == {"ok", "denied", "failed"}
Running == {"append", "insert", "find", "write", "find_row", "erase", "apply",
            "commit", "notify"}

Payloads(o) == CASE o = "create" -> Creates
                 [] o = "update" -> Updates
                 [] o = "reorder" -> Reorders
                 [] OTHER -> {None}

RequestsTyped ==
  /\ via \in [Req -> Backend \cup {None}]
  /\ op \in [Req -> Op \cup {None}]
  /\ user \in [Req -> User \cup {None}]
  /\ todo \in [Req -> Id \cup {None}]
  /\ DOMAIN ask = Req
  /\ \A r \in Req : ask[r] \in Payloads(op[r])
  /\ before \in [Req -> SUBSET Id]

TypeOK ==
  /\ todos \in [Id -> Row \cup {None}]
  /\ pc \in [Req -> {"idle"} \cup Running \cup Answer]
  /\ RequestsTyped
  /\ seen \in [Req -> Row \cup {None}]
  /\ place \in [Req -> Position \cup {None}]
  /\ at \in [Req -> Nat]
  /\ draft \in [Req -> [Id -> Row \cup {None}]]
  /\ told \in [Req -> SUBSET User]
  /\ placedBy \in [Id -> Req \cup {None}]

Answered == {r \in Req : pc[r] \in Answer}

-----------------------------------------------------------------------------
(* Rows, columns and row locks *)

Allowed(u, row) == row # None /\ u \in {row.reporter, row.assignee}

Column(u, s) == {t \in Id : /\ todos[t] # None
                            /\ todos[t].assignee = u /\ todos[t].status = s}

\* Mutant: the last position of the column, not the one after it.
LastOf(u, s) == IF Column(u, s) = {} THEN 0
                ELSE Max({todos[t].position : t \in Column(u, s)})

\* COALESCE(MAX(position), -1) + 1
EndOf(u, s) == IF Column(u, s) = {} THEN 0
               ELSE Max({todos[t].position : t \in Column(u, s)}) + 1

Locked(t, r) == \E q \in Req \ {r} :
                   pc[q] \in {"apply", "commit"} /\ draft[q][t] # None

\* Mutant: the reorder does not lock what it updates.
NeverWaits(t, r) == FALSE

\* A statement on a row it finds waits until no other transaction holds it.
MustWait(t, r) == Allowed(user[r], todos[t]) /\ Locked(t, r)

IsAppended(t) == todos[t] # None /\ placedBy[t] # None

-----------------------------------------------------------------------------
(* What a handler makes of a payload *)

\* Mutant: Bun passes every status on to the table.
AcceptsAny(r, s) == s # None

Accepts(r, s) == s \in TODO_STATUSES(via[r])

Completes(r, s) == s \in Closed(via[r])

\* A todo that is not completed any more goes to a column that depends on the
\* back end.
AskedStatus(r) == IF ask[r].status = None /\ ask[r].completed # None
                  THEN IF ask[r].completed THEN "done"
                       ELSE IF via[r] = "bun" THEN "todo" ELSE "in_progress"
                  ELSE ask[r].status

AskedCompleted(r) == IF ask[r].completed = None /\ ask[r].status # None
                     THEN Completes(r, ask[r].status)
                     ELSE ask[r].completed

Appends(r) == AskedStatus(r) # None /\ ask[r].position = None

Coalesce(new, old) == IF new = None THEN old ELSE new

\* Mutant: the row is written back as it was read.
UpdatedFromRead(r, row) ==
  [reporter |-> row.reporter,
   assignee |-> Coalesce(ask[r].assignee, seen[r].assignee),
   status |-> Coalesce(AskedStatus(r), seen[r].status),
   completed |-> Coalesce(AskedCompleted(r), seen[r].completed),
   position |-> Coalesce(place[r], seen[r].position)]

Updated(r, row) ==
  [reporter |-> row.reporter,
   assignee |-> Coalesce(ask[r].assignee, row.assignee),
   status |-> Coalesce(AskedStatus(r), row.status),
   completed |-> Coalesce(AskedCompleted(r), row.completed),
   position |-> Coalesce(place[r], row.position)]

Reordered(r, row, item) ==
  [row EXCEPT !.status = item.status, !.position = item.position,
              !.completed = Completes(r, item.status)]

-----------------------------------------------------------------------------
Init ==
  /\ todos \in [Id -> Row \cup {None}]
  /\ \A t \in Id : todos[t] # None =>
        t \in Past /\ todos[t].completed = (todos[t].status \in Closed("rust"))
  /\ pc = [r \in Req |-> "idle"]
  /\ via = [r \in Req |-> None]
  /\ op = [r \in Req |-> None]
  /\ user = [r \in Req |-> None]
  /\ todo = [r \in Req |-> None]
  /\ ask = [r \in Req |-> None]
  /\ seen = [r \in Req |-> None]
  /\ place = [r \in Req |-> None]
  /\ at = [r \in Req |-> 1]
  /\ draft = [r \in Req |-> [t \in Id |-> None]]
  /\ told = [r \in Req |-> {}]
  /\ placedBy = [t \in Id |-> None]
  /\ before = [r \in Req |-> {}]

Arrive(r, b, o, u, t, a, first) ==
  /\ pc[r] = "idle"
  /\ pc' = [pc EXCEPT ![r] = first]
  /\ via' = [via EXCEPT ![r] = b]
  /\ op' = [op EXCEPT ![r] = o]
  /\ user' = [user EXCEPT ![r] = u]
  /\ todo' = [todo EXCEPT ![r] = t]
  /\ ask' = [ask EXCEPT ![r] = a]
  /\ before' = [before EXCEPT ![r] = Past \cup Answered]
  /\ UNCHANGED <<todos, seen, place, at, draft, told, placedBy>>

Go(r, next) == pc' = [pc EXCEPT ![r] = next] /\ UNCHANGED request

\* 404, or 400 for a bad status: a transaction rolls back.
Deny(r) == /\ Go(r, "denied")
           /\ draft' = [draft EXCEPT ![r] = [t \in Id |-> None]]
           /\ UNCHANGED <<todos, seen, place, at, told, placedBy>>

\* Requests.  Payloads that are refused before any statement are left out, and
\* so are an assignee that does not exist and a todo that is not in the table
\* when its id is sent (it may have gone by the time the handler looks).  Bun's
\* delete has one statement.
CreateTodo(r) == \E b \in Backend, u \in User, a \in Creates :
                    /\ a.status \in TODO_STATUSES(b)
                    /\ Arrive(r, b, "create", u, r, a, "append")
UpdateTodo(r) == \E b \in Backend, u \in User, t \in Id, a \in Updates :
                    /\ todos[t] # None
                    /\ Arrive(r, b, "update", u, t, a, "find")
DeleteTodo(r) == \E b \in Backend, u \in User, t \in Id :
                    /\ todos[t] # None
                    /\ Arrive(r, b, "delete", u, t, None,
                              IF b = "bun" THEN "erase" ELSE "find_row")
ReorderTodos(r) == \E b \in Backend, u \in User, a \in Reorders :
                      Arrive(r, b, "reorder", u, None, a, "apply")

\* Only the Rust back end has a stream.
Done(r) == IF via[r] = "bun" THEN "ok" ELSE "notify"

-----------------------------------------------------------------------------
(* create_todo and update_todo *)

\* The column a request appends to.  update_todo takes the assignee it read
\* when the payload names none.
Owner(r) == IF ask[r].assignee # None THEN ask[r].assignee
            ELSE IF op[r] = "create" THEN user[r] ELSE seen[r].assignee
Target(r) == IF op[r] = "create" THEN ask[r].status ELSE AskedStatus(r)

\* Mutant: the sum is computed in a wider type and stored as it is.
ReadEndUnbounded(r) ==
  /\ pc[r] = "append"
  /\ place' = [place EXCEPT ![r] = EndOf(Owner(r), Target(r))]
  /\ Go(r, IF op[r] = "create" THEN "insert" ELSE "write")
  /\ UNCHANGED <<todos, seen, at, draft, told, placedBy>>

\* MAX + 1 does not fit an INTEGER when the column holds the largest one.
ReadEnd(r) ==
  /\ pc[r] = "append"
  /\ \/ /\ EndOf(Owner(r), Target(r)) \in Position
        /\ place' = [place EXCEPT ![r] = EndOf(Owner(r), Target(r))]
        /\ Go(r, IF op[r] = "create" THEN "insert" ELSE "write")
     \/ /\ EndOf(Owner(r), Target(r)) \notin Position
        /\ Go(r, "failed") /\ UNCHANGED place
  /\ UNCHANGED <<todos, seen, at, draft, told, placedBy>>

NewRow(r) == [reporter |-> user[r], assignee |-> Owner(r), status |-> ask[r].status,
              completed |-> Completes(r, ask[r].status), position |-> place[r]]

InsertTodo(r) ==
  /\ pc[r] = "insert"
  /\ todos' = [todos EXCEPT ![r] = NewRow(r)]
  /\ seen' = [seen EXCEPT ![r] = NewRow(r)]
  /\ placedBy' = [placedBy EXCEPT ![r] = r]
  /\ Go(r, Done(r)) /\ UNCHANGED <<place, at, draft, told>>

\* Of the row that was read only the assignee is used.  The status is looked at
\* after this statement.
FindAssignee(r) ==
  /\ pc[r] = "find"
  /\ LET found == /\ Allowed(user[r], todos[todo[r]])
                  /\ ask[r].status # None => Accepts(r, ask[r].status)
     IN \/ /\ found
           /\ seen' = [seen EXCEPT ![r] = todos[todo[r]]]
           /\ place' = [place EXCEPT ![r] = ask[r].position]
           /\ Go(r, IF Appends(r) THEN "append" ELSE "write")
           /\ UNCHANGED <<todos, at, draft, told, placedBy>>
        \/ ~found /\ Deny(r)

\* r leaves a row where it appended it, or elsewhere, or where it was.
PlacedBy(r, old, new) ==
  IF Appends(r) THEN IF new.assignee = Owner(r) THEN r ELSE None
  ELSE IF <<new.assignee, new.status, new.position>>
            = <<old.assignee, old.status, old.position>>
       THEN placedBy[todo[r]] ELSE None

\* Mutant: the UPDATE has no access condition, the first SELECT had.
WriteAnyTodo(r) ==
  /\ pc[r] = "write"
  /\ ~MustWait(todo[r], r)
  /\ \/ /\ todos[todo[r]] # None
        /\ todos' = [todos EXCEPT
             ![todo[r]] = Updated(r, todos[todo[r]])]
        /\ Go(r, Done(r))
        /\ UNCHANGED <<seen, place, at, draft, told, placedBy>>
     \/ todos[todo[r]] = None /\ Deny(r)

\* The access is checked again in the statement that writes.
WriteTodo(r) ==
  /\ pc[r] = "write"
  /\ ~MustWait(todo[r], r)
  /\ \/ /\ Allowed(user[r], todos[todo[r]])
        /\ LET old == todos[todo[r]]
               new == Updated(r, old)
           IN /\ todos' = [todos EXCEPT ![todo[r]] = new]
              /\ seen' = [seen EXCEPT ![r] = new]
              /\ placedBy' = [placedBy EXCEPT ![todo[r]] = PlacedBy(r, old, new)]
        /\ Go(r, Done(r)) /\ UNCHANGED <<place, at, draft, told>>
     \/ ~Allowed(user[r], todos[todo[r]]) /\ Deny(r)

-----------------------------------------------------------------------------
(* delete_todo *)

FindTodo(r) ==
  /\ pc[r] = "find_row"
  /\ \/ /\ Allowed(user[r], todos[todo[r]])
        /\ seen' = [seen EXCEPT ![r] = todos[todo[r]]]
        /\ Go(r, "erase")
        /\ UNCHANGED <<todos, place, at, draft, told, placedBy>>
     \/ ~Allowed(user[r], todos[todo[r]]) /\ Deny(r)

EraseTodo(r) ==
  /\ pc[r] = "erase"
  /\ ~MustWait(todo[r], r)
  /\ \/ /\ Allowed(user[r], todos[todo[r]])
        /\ todos' = [todos EXCEPT ![todo[r]] = None]
        /\ placedBy' = [placedBy EXCEPT ![todo[r]] = None]
        /\ Go(r, Done(r)) /\ UNCHANGED <<seen, place, at, draft, told>>
     \/ ~Allowed(user[r], todos[todo[r]]) /\ Deny(r)

-----------------------------------------------------------------------------
(* reorder_todos: one transaction *)

NextItem(r) == ask[r][at[r]]

\* A transaction sees its own writes.
Visible(r, t) == IF draft[r][t] # None THEN draft[r][t] ELSE todos[t]

\* Mutant: the UPDATE goes to the pool and not to the transaction.
ApplyItemAtOnce(r) ==
  /\ pc[r] = "apply"
  /\ LET t == NextItem(r).id IN
     \/ /\ Accepts(r, NextItem(r).status) /\ Allowed(user[r], todos[t])
        /\ todos' = [todos EXCEPT ![t] = Reordered(r, todos[t], NextItem(r))]
        /\ at' = [at EXCEPT ![r] = at[r] + 1]
        /\ Go(r, IF at[r] = Len(ask[r]) THEN "commit" ELSE "apply")
        /\ UNCHANGED <<seen, place, draft, told, placedBy>>
     \/ (~Accepts(r, NextItem(r).status) \/ ~Allowed(user[r], todos[t])) /\ Deny(r)

\* Mutant: no row affected is taken for a row not there yet, and tried again.
ApplyItemRetries(r) ==
  /\ pc[r] = "apply"
  /\ LET t == NextItem(r).id IN
     /\ Allowed(user[r], Visible(r, t)) /\ ~MustWait(t, r)
     /\ draft' = [draft EXCEPT ![r][t] = Reordered(r, Visible(r, t), NextItem(r))]
  /\ at' = [at EXCEPT ![r] = at[r] + 1]
  /\ Go(r, IF at[r] = Len(ask[r]) THEN "commit" ELSE "apply")
  /\ UNCHANGED <<todos, seen, place, told, placedBy>>

ApplyItem(r) ==
  /\ pc[r] = "apply"
  /\ LET t == NextItem(r).id
         row == Visible(r, t)
     IN \/ /\ Accepts(r, NextItem(r).status) /\ Allowed(user[r], row)
           /\ ~MustWait(t, r)
           /\ draft' = [draft EXCEPT ![r][t] = Reordered(r, row, NextItem(r))]
           /\ at' = [at EXCEPT ![r] = at[r] + 1]
           /\ Go(r, IF at[r] = Len(ask[r]) THEN "commit" ELSE "apply")
           /\ UNCHANGED <<todos, seen, place, told, placedBy>>
        \/ (~Accepts(r, NextItem(r).status) \/ ~Allowed(user[r], row)) /\ Deny(r)

Commit(r) ==
  /\ pc[r] = "commit"
  /\ todos' = [t \in Id |-> Visible(r, t)]
  /\ placedBy' = [t \in Id |-> IF draft[r][t] # None THEN None ELSE placedBy[t]]
  /\ \E next \in {Done(r), "failed"} : Go(r, next)
  /\ UNCHANGED <<seen, place, at, draft, told>>

\* r waits for the row that q holds.
WaitsFor(r, q) ==
  LET t == IF pc[r] = "apply" THEN NextItem(r).id ELSE todo[r] IN
  /\ pc[r] \in {"apply", "write", "erase"} /\ r # q
  /\ pc[q] \in {"apply", "commit"} /\ draft[q][t] # None
  /\ pc[r] = "apply" => Accepts(r, NextItem(r).status)
  /\ Allowed(user[r], IF pc[r] = "apply" THEN Visible(r, t) ELSE todos[t])

\* The database breaks a cycle of transactions that wait for one another by
\* rolling one of them back.
BreakDeadlock(r) ==
  /\ \E S \in SUBSET Req : /\ r \in S
                           /\ \A p \in S : \E q \in S : WaitsFor(p, q)
  /\ Go(r, "failed")
  /\ draft' = [draft EXCEPT ![r] = [t \in Id |-> None]]
  /\ UNCHANGED <<todos, seen, place, at, told, placedBy>>

-----------------------------------------------------------------------------
\* broadcast_todo_event: the reporter and the assignee of the row the request
\* has at hand, and the actor.  reorder_todos has no row at hand.
Notify(r) ==
  /\ pc[r] = "notify"
  /\ told' = [told EXCEPT ![r] = {user[r]} \cup
        IF op[r] = "reorder" THEN {} ELSE {seen[r].reporter, seen[r].assignee}]
  /\ Go(r, "ok") /\ UNCHANGED <<todos, seen, place, at, draft, placedBy>>

\* A statement fails, or the client disconnects and the handler is dropped at
\* its await: an open transaction is rolled back, nobody is notified.
Abort(r) ==
  /\ pc[r] \in Running
  /\ Go(r, "failed")
  /\ draft' = [draft EXCEPT ![r] = [t \in Id |-> None]]
  /\ UNCHANGED <<todos, seen, place, at, told, placedBy>>

Request(r) == CreateTodo(r) \/ UpdateTodo(r) \/ DeleteTodo(r) \/ ReorderTodos(r)

Step(r) ==
  \/ ReadEnd(r) \/ InsertTodo(r) \/ FindAssignee(r) \/ WriteTodo(r)
  \/ FindTodo(r) \/ EraseTodo(r) \/ ApplyItem(r) \/ Commit(r)
  \/ BreakDeadlock(r) \/ Notify(r)

Finished == Answered = Req /\ UNCHANGED vars

Next == \/ \E r \in Req : Request(r) \/ Step(r) \/ Abort(r)
        \/ Finished

Spec == Init /\ [][Next]_vars

\* The runtime polls a ready handler, the database grants a free row lock and
\* looks for deadlocks.
Fairness == \A r \in Req : WF_vars(Step(r))

FairSpec == Spec /\ Fairness

-----------------------------------------------------------------------------
(* Properties *)

\* completed says whether the status is a closed one, whichever back ends have
\* written the row, one of which does not know all statuses.  It says something
\* else only in a row that an update gave both, and that disagree.
CompletedFollowsStatus ==
  \A t \in Id : todos[t] # None =>
    \/ todos[t].completed = (todos[t].status \in Closed("rust"))
    \/ \E r \in Req : /\ op[r] = "update" /\ todo[r] = t
                      /\ pc[r] \in {"notify", "ok", "failed"}
                      /\ ask[r].status # None /\ ask[r].completed # None
                      /\ ask[r].completed # (ask[r].status \in Closed("rust"))

\* A row is changed, or deleted, on behalf of a user who is its reporter or its
\* assignee at that time, not only when the request looked it up.
OnlyRelatedWrite ==
  [][\A t \in Id : todos[t] \notin {None, todos'[t]} =>
       \E r \in Req : pc'[r] # pc[r] /\ Allowed(user[r], todos[t])]_vars

\* A reorder applies all of its items or none: when its step changes the board
\* every item holds, the last one where two name the same todo.
ReorderAllOrNothing ==
  [][\A r \in Req :
       op[r] = "reorder" /\ <<pc'[r], at'[r]>> # <<pc[r], at[r]>> /\ todos' # todos =>
         \A i \in DOMAIN ask[r] :
           \/ \E j \in DOMAIN ask[r] : j > i /\ ask[r][j].id = ask[r][i].id
           \/ /\ todos'[ask[r][i].id] # None
              /\ todos'[ask[r][i].id] = Reordered(r, todos'[ask[r][i].id], ask[r][i])
     ]_vars

\* What a reorder is about to commit rests on the rows as they are: no other
\* request has deleted or reassigned them since it updated them.
DraftIsCurrent ==
  \A r \in Req, t \in Id : pc[r] \in {"apply", "commit"} /\ draft[r][t] # None =>
    /\ todos[t] # None
    /\ <<todos[t].reporter, todos[t].assignee>>
         = <<draft[r][t].reporter, draft[r][t].assignee>>

\* Two todos that were appended to the same column share a position only if
\* the requests that appended them overlap.  (MAX is read in one statement and
\* written in another.)
SharedPositionNeedsOverlap ==
  \A t, v \in Id :
    /\ t # v /\ IsAppended(t) /\ IsAppended(v)
    /\ todos[t].assignee = todos[v].assignee /\ todos[t].status = todos[v].status
    /\ todos[t].position = todos[v].position
    => placedBy[t] \notin before[placedBy[v]]

\* No request waits for ever, also when reorders lock rows in opposite orders.
EveryRequestAnswered ==
  \A r \in Req : pc[r] # "idle" ~> pc[r] \in Answer

\* How far a request is, to whoever sees only the table and its answer: between
\* the statement that changes the table and the answer there is the broadcast.
Progress(r) == IF pc[r] = "notify" THEN "applied"
               ELSE IF pc[r] \in Running THEN "pending" ELSE pc[r]

\* However the statements interleave, a request takes effect at most once and in
\* one step, with the rights its user has then and as its payload asks; "ok" is
\* answered only after that and "denied" only without it.
Ledger == INSTANCE TodoLedger
            WITH Final <- Closed("rust"), state <- [r \in Req |-> Progress(r)],
                 todos <- todos, op <- op, user <- user, todo <- todo, ask <- ask
LedgerSpec == Ledger!Spec

\* README.md: the stream carries "real-time todo changes for reporter/assignee
\* related users".  reorder_todos tells only the user who reordered.
ReorderIsStreamed ==
  \A r \in Req, t \in Id : op[r] = "reorder" /\ pc[r] = "ok" /\ draft[r][t] # None =>
    {draft[r][t].reporter, draft[r][t].assignee} \subseteq told[r]
=============================================================================
