--------------------------- MODULE TodoBoardProofs ---------------------------
(***************************************************************************)
(* Proofs about TodoBoard, for any number of users, todos and requests to  *)
(* either back end.  One lemma per part of the inductive invariant IndInv   *)
(* says that every step preserves it, with one case per statement; the     *)
(* theorems follow from IndInv.                                            *)
(***************************************************************************)
EXTENDS TodoBoardInv, WellFoundedInduction, TLAPS

-----------------------------------------------------------------------------
(* Rows *)

\* What update_todo writes is a row.
LEMMA UpdatedIsRow ==
  ASSUME TypeOK, NEW r \in Req, op[r] = "update", NEW row \in Row
  PROVE  Updated(r, row) \in Row
<1>1. ask[r] \in UpdatePayload
  BY BoardAssumption DEF TypeOK, RequestsTyped, Payloads
<1>2. /\ ask[r].status \in Status \cup {None} /\ ask[r].completed \in BOOLEAN \cup {None}
      /\ ask[r].assignee \in User \cup {None}
  BY <1>1 DEF UpdatePayload
<1>3. place[r] \in Position \cup {None}
  BY DEF TypeOK
<1>4. AskedStatus(r) \in Status \cup {None}
  BY <1>2, BoardAssumption DEF AskedStatus
<1>5. AskedCompleted(r) \in BOOLEAN \cup {None}
  BY <1>2 DEF AskedCompleted, Completes
<1>6. Coalesce(AskedCompleted(r), row.completed) \in BOOLEAN
  BY <1>5 DEF Coalesce, Row
<1> QED
  BY <1>2, <1>3, <1>4, <1>6 DEF Updated, Coalesce, Row

\* What reorder_todos writes is a row, with the people it had.
LEMMA ReorderedIsRow ==
  ASSUME NEW r \in Req, NEW row \in Row, NEW item \in Item, Accepts(r, item.status)
  PROVE  /\ Reordered(r, row, item) \in Row
         /\ Reordered(r, row, item).reporter = row.reporter
         /\ Reordered(r, row, item).assignee = row.assignee
         /\ Reordered(r, row, item).status = item.status
         /\ Reordered(r, row, item).position = item.position
         /\ Reordered(r, row, item).completed = Completes(r, item.status)
<1>1. item.status \in Status /\ item.position \in Position
  BY BoardAssumption DEF Accepts, TODO_STATUSES, Item
<1>2. Completes(r, item.status) \in BOOLEAN
  BY DEF Completes
<1> QED
  BY <1>1, <1>2 DEF Reordered, Row

\* The item a reorder is at, and the row it sees.
LEMMA NextIsItem ==
  ASSUME TypeOK, Shape, NEW r \in Req, pc[r] = "apply"
  PROVE  /\ NextItem(r) \in Item /\ NextItem(r).id \in Id
         /\ ask[r] \in Seq(Item) /\ op[r] = "reorder" /\ user[r] \in User
         /\ \A t \in Id : Visible(r, t) \in Row \cup {None}
<1>1. op[r] = "reorder"
  BY DEF Shape, OwnSteps, OwnStep, StepsOf, TypeOK, RequestsTyped, Op, Answer
<1>2. ask[r] \in Seq(Item)
  BY <1>1, BoardAssumption DEF TypeOK, RequestsTyped, Payloads
<1>3. NextItem(r) \in Item
  BY <1>2 DEF NextItem, Shape, Known, KnownBy
<1>4. user[r] \in User
  BY <1>1, BoardAssumption DEF Shape, OwnSteps, OwnStep, Op
<1>5. \A t \in Id : Visible(r, t) \in Row \cup {None}
  BY DEF Visible, TypeOK
<1> QED
  BY <1>1, <1>2, <1>3, <1>4, <1>5 DEF Item

\* The row that an append or insert writes to a column, and its owner.
LEMMA OwnerIsUser ==
  ASSUME TypeOK, Shape, NEW r \in Req, pc[r] \in {"append", "insert", "write"}
  PROVE  /\ op[r] = "create" \/ op[r] = "update"
         /\ pc[r] # "write" => Owner(r) \in User
         /\ pc[r] = "insert" => NewRow(r) \in Row /\ op[r] = "create"
         /\ pc[r] = "write" => op[r] = "update"
<1>1. op[r] = "create" \/ op[r] = "update"
  BY DEF Shape, OwnSteps, OwnStep, StepsOf, TypeOK, RequestsTyped, Op, Answer
<1>2. pc[r] = "insert" => op[r] = "create"
  BY <1>1 DEF Shape, OwnSteps, OwnStep, StepsOf, Answer
<1>3. pc[r] = "write" => op[r] = "update"
  BY <1>1 DEF Shape, OwnSteps, OwnStep, StepsOf, Answer
<1>4. user[r] \in User
  BY <1>1, BoardAssumption DEF Shape, OwnSteps, OwnStep, Op
<1>5. op[r] = "create" => ask[r] \in CreatePayload
  BY BoardAssumption DEF TypeOK, RequestsTyped, Payloads
<1>6. op[r] = "update" => ask[r] \in UpdatePayload
  BY BoardAssumption DEF TypeOK, RequestsTyped, Payloads
<1>7. pc[r] # "write" => Owner(r) \in User
  BY <1>1, <1>2, <1>4, <1>5, <1>6
     DEF Owner, CreatePayload, UpdatePayload, Shape, Known, KnownBy, TypeOK, Row
<1>8. pc[r] = "insert" => NewRow(r) \in Row
  <2> SUFFICES ASSUME pc[r] = "insert" PROVE NewRow(r) \in Row
    OBVIOUS
  <2>1. place[r] \in Position
    BY DEF TypeOK, Shape, Known, KnownBy
  <2>2. ask[r].status \in Status
    BY <1>2, <1>5 DEF CreatePayload
  <2>3. Completes(r, ask[r].status) \in BOOLEAN
    BY DEF Completes
  <2> QED
    BY <1>4, <1>7, <2>1, <2>2, <2>3 DEF NewRow, Row
<1> QED
  BY <1>1, <1>2, <1>3, <1>7, <1>8

-----------------------------------------------------------------------------
(* Types *)

\* A request that arrives is of its type.
LEMMA ArriveTyped ==
  ASSUME TypeOK, NEW r \in Req, NEW b \in Backend, NEW o \in Op, NEW u \in User,
         NEW t \in Id \cup {None}, NEW a \in Payloads(o), NEW first \in Running,
         Arrive(r, b, o, u, t, a, first)
  PROVE  TypeOK'
<1>1. (pc \in [Req -> {"idle"} \cup Running \cup Answer])'
  BY DEF TypeOK, Arrive
<1>2. Past \cup Answered \in SUBSET Id
  BY DEF Answered, Id
<1>3. RequestsTyped'
  BY <1>2 DEF TypeOK, RequestsTyped, Arrive
<1> QED
  BY <1>1, <1>3 DEF TypeOK, Arrive

\* Every request that arrives is of its type, whichever endpoint it is for.
LEMMA RequestTyped ==
  ASSUME TypeOK, NEW r \in Req, Request(r)
  PROVE  TypeOK'
<1> USE DEF Op, Payloads, Running, Id
<1>1. CASE CreateTodo(r)
  <2>1. PICK b \in Backend, u \in User, a \in Creates :
          Arrive(r, b, "create", u, r, a, "append")
    BY <1>1 DEF CreateTodo
  <2>2. "create" \in Op /\ r \in Id /\ a \in Payloads("create") /\ "append" \in Running
    OBVIOUS
  <2> HIDE DEF Op, Payloads, Running, Id
  <2> QED
    BY <2>1, <2>2, ArriveTyped
<1>2. CASE UpdateTodo(r)
  <2>1. PICK b \in Backend, u \in User, t \in Id, a \in Updates :
          Arrive(r, b, "update", u, t, a, "find")
    BY <1>2 DEF UpdateTodo
  <2>2. "update" \in Op /\ a \in Payloads("update") /\ "find" \in Running
    OBVIOUS
  <2> HIDE DEF Op, Payloads, Running, Id
  <2> QED
    BY <2>1, <2>2, ArriveTyped
<1>3. CASE DeleteTodo(r)
  <2>1. PICK b \in Backend, u \in User, t \in Id :
          Arrive(r, b, "delete", u, t, None, IF b = "bun" THEN "erase" ELSE "find_row")
    BY <1>3 DEF DeleteTodo
  <2>2. /\ "delete" \in Op /\ None \in Payloads("delete")
        /\ "erase" \in Running /\ "find_row" \in Running
    OBVIOUS
  <2> HIDE DEF Op, Payloads, Running, Id
  <2> QED
    BY <2>1, <2>2, ArriveTyped
<1>4. CASE ReorderTodos(r)
  <2>1. PICK b \in Backend, u \in User, a \in Reorders :
          Arrive(r, b, "reorder", u, None, a, "apply")
    BY <1>4 DEF ReorderTodos
  <2>2. "reorder" \in Op /\ a \in Payloads("reorder") /\ "apply" \in Running
    OBVIOUS
  <2> HIDE DEF Op, Payloads, Running, Id
  <2> QED
    BY <2>1, <2>2, ArriveTyped
<1> QED
  BY <1>1, <1>2, <1>3, <1>4 DEF Request

\* A step to a statement or an answer.
LEMMA GoTyped ==
  ASSUME TypeOK, NEW r \in Req, NEW next \in Running \cup Answer, Go(r, next)
  PROVE  /\ (pc \in [Req -> {"idle"} \cup Running \cup Answer])'
         /\ RequestsTyped'
<1>1. (pc \in [Req -> {"idle"} \cup Running \cup Answer])'
  BY DEF TypeOK, Go
<1>2. RequestsTyped'
  BY DEF TypeOK, RequestsTyped, Go, request
<1> QED
  BY <1>1, <1>2

\* A refusal keeps the types.
LEMMA DenyTyped ==
  ASSUME TypeOK, NEW r \in Req, Deny(r)
  PROVE  TypeOK'
<1>1. "denied" \in Running \cup Answer
  BY DEF Answer
<1> QED
  BY <1>1, GoTyped DEF Deny, TypeOK

\* Every statement leaves every variable in its type.
LEMMA StepTyped ==
  ASSUME TypeOK, Shape, NEW r \in Req, Step(r) \/ Abort(r)
  PROVE  TypeOK'
<1>0. /\ Running \cup Answer = {"append", "insert", "find", "write", "find_row", "erase",
           "apply", "commit", "notify", "ok", "denied", "failed"}
      /\ Done(r) \in Running \cup Answer
  BY DEF Running, Answer, Done
<1>1. CASE ReadEnd(r)
  <2>1. PICK next \in Running \cup Answer : Go(r, next)
    BY <1>0, <1>1 DEF ReadEnd
  <2>2. (place \in [Req -> Position \cup {None}])'
    BY <1>1 DEF ReadEnd, TypeOK
  <2> QED
    BY <1>1, <2>1, <2>2, GoTyped DEF ReadEnd, TypeOK
<1>2. CASE InsertTodo(r)
  <2>1. NewRow(r) \in Row /\ r \in Id
    BY <1>2, OwnerIsUser DEF InsertTodo, Id
  <2>2. Go(r, Done(r))
    BY <1>2 DEF InsertTodo
  <2> QED
    BY <1>0, <1>2, <2>1, <2>2, GoTyped DEF InsertTodo, TypeOK
<1>3. CASE FindAssignee(r)
  <2>1. op[r] = "update"
    BY <1>3 DEF FindAssignee, Shape, OwnSteps, OwnStep, StepsOf, Answer
  <2>2. ask[r] \in UpdatePayload /\ todo[r] \in Id
    BY <2>1, BoardAssumption DEF TypeOK, RequestsTyped, Payloads, Shape, Known, KnownBy
  <2>3. ask[r].position \in Position \cup {None}
    BY <2>2 DEF UpdatePayload
  <2>4. CASE Deny(r)
    BY <2>4, DenyTyped
  <2>5. CASE Go(r, IF Appends(r) THEN "append" ELSE "write") /\ ~Deny(r)
    <3>1. (RequestsTyped /\ pc \in [Req -> {"idle"} \cup Running \cup Answer])'
      BY <1>0, <2>5, GoTyped
    <3> QED
      BY <1>3, <2>2, <2>3, <2>5, <3>1 DEF FindAssignee, TypeOK
  <2> QED
    BY <1>3, <2>4, <2>5 DEF FindAssignee
<1>4. CASE WriteTodo(r)
  <2>1. op[r] = "update" /\ todo[r] \in Id
    BY <1>4, OwnerIsUser DEF WriteTodo, Shape, Known, KnownBy
  <2>2. todos[todo[r]] # None => Updated(r, todos[todo[r]]) \in Row
    BY <2>1, UpdatedIsRow DEF TypeOK
  <2>3. PlacedBy(r, todos[todo[r]], Updated(r, todos[todo[r]])) \in Req \cup {None}
    BY <2>1 DEF PlacedBy, TypeOK
  <2>4. CASE Deny(r)
    BY <2>4, DenyTyped
  <2>5. CASE Go(r, Done(r)) /\ ~Deny(r)
    <3>1. (RequestsTyped /\ pc \in [Req -> {"idle"} \cup Running \cup Answer])'
      BY <1>0, <2>5, GoTyped
    <3>2. LET old == todos[todo[r]] IN
          /\ old # None
          /\ todos' = [todos EXCEPT ![todo[r]] = Updated(r, old)]
          /\ seen' = [seen EXCEPT ![r] = Updated(r, old)]
          /\ placedBy' = [placedBy EXCEPT ![todo[r]] = PlacedBy(r, old, Updated(r, old))]
          /\ UNCHANGED <<place, at, draft, told>>
      BY <1>4, <2>5 DEF WriteTodo, Allowed
    <3> QED
      BY <2>1, <2>2, <2>3, <3>1, <3>2 DEF TypeOK
  <2> QED
    BY <1>4, <2>4, <2>5 DEF WriteTodo
<1>5. CASE FindTodo(r)
  <2>1. todo[r] \in Id
    BY <1>5 DEF FindTodo, Shape, Known, KnownBy, OwnSteps, OwnStep, StepsOf, Answer, TypeOK,
                RequestsTyped, Op
  <2>2. CASE Deny(r)
    BY <2>2, DenyTyped
  <2>3. CASE Go(r, "erase") /\ ~Deny(r)
    <3>1. (RequestsTyped /\ pc \in [Req -> {"idle"} \cup Running \cup Answer])'
      BY <1>0, <2>3, GoTyped
    <3> QED
      BY <1>5, <2>1, <2>3, <3>1 DEF FindTodo, TypeOK
  <2> QED
    BY <1>5, <2>2, <2>3 DEF FindTodo
<1>6. CASE EraseTodo(r)
  <2>1. CASE Deny(r)
    BY <2>1, DenyTyped
  <2>2. CASE Go(r, Done(r)) /\ ~Deny(r)
    <3>1. (RequestsTyped /\ pc \in [Req -> {"idle"} \cup Running \cup Answer])'
      BY <1>0, <2>2, GoTyped
    <3> QED
      BY <1>6, <2>2, <3>1 DEF EraseTodo, TypeOK
  <2> QED
    BY <1>6, <2>1, <2>2 DEF EraseTodo
<1>7. CASE ApplyItem(r)
  <2> DEFINE t == NextItem(r).id
  <2>1. pc[r] = "apply"
    BY <1>7 DEF ApplyItem
  <2>2. NextItem(r) \in Item /\ t \in Id /\ Visible(r, t) \in Row \cup {None}
    BY <2>1, NextIsItem
  <2>3. Allowed(user[r], Visible(r, t)) /\ Accepts(r, NextItem(r).status) =>
          Reordered(r, Visible(r, t), NextItem(r)) \in Row
    BY <2>2, ReorderedIsRow DEF Allowed
  <2>4. CASE Deny(r)
    BY <2>4, DenyTyped
  <2>5. CASE ~Deny(r)
    <3>1. PICK next \in Running \cup Answer : Go(r, next)
      BY <1>0, <1>7, <2>5 DEF ApplyItem
    <3>2. /\ Accepts(r, NextItem(r).status) /\ Allowed(user[r], Visible(r, t))
          /\ draft' = [draft EXCEPT ![r][t] = Reordered(r, Visible(r, t), NextItem(r))]
          /\ at' = [at EXCEPT ![r] = at[r] + 1]
          /\ UNCHANGED <<todos, seen, place, told, placedBy>>
      BY <1>7, <2>5 DEF ApplyItem
    <3> HIDE DEF t
    <3>3. (draft \in [Req -> [Id -> Row \cup {None}]])'
      BY <2>2, <2>3, <3>2 DEF TypeOK
    <3>4. (at \in [Req -> Nat])'
      BY <3>2 DEF TypeOK
    <3>5. (RequestsTyped /\ pc \in [Req -> {"idle"} \cup Running \cup Answer])'
      BY <3>1, GoTyped
    <3> QED
      BY <3>2, <3>3, <3>4, <3>5 DEF TypeOK
  <2> QED
    BY <2>4, <2>5
<1>8. CASE Commit(r)
  <2>1. (todos \in [Id -> Row \cup {None}])'
    BY <1>8 DEF Commit, Visible, TypeOK
  <2>2. PICK next \in Running \cup Answer : Go(r, next)
    BY <1>0, <1>8 DEF Commit
  <2> QED
    BY <1>8, <2>1, <2>2, GoTyped DEF Commit, TypeOK
<1>9. CASE BreakDeadlock(r) \/ Abort(r)
  <2>1. Go(r, "failed")
    BY <1>9 DEF BreakDeadlock, Abort
  <2> QED
    BY <1>0, <1>9, <2>1, GoTyped DEF BreakDeadlock, Abort, TypeOK
<1>10. CASE Notify(r)
  <2>1. op[r] # "reorder" => seen[r] \in Row
    BY <1>10 DEF Notify, Shape, Known, KnownBy, TypeOK
  <2>2. user[r] \in User
    BY <1>10, BoardAssumption
       DEF Notify, Shape, OwnSteps, OwnStep, StepsOf, Answer, TypeOK, RequestsTyped, Op
  <2>3. (told \in [Req -> SUBSET User])'
    BY <1>10, <2>1, <2>2 DEF Notify, Row, TypeOK
  <2>4. Go(r, "ok")
    BY <1>10 DEF Notify
  <2> QED
    BY <1>0, <1>10, <2>3, <2>4, GoTyped DEF Notify, TypeOK
<1> QED
  BY <1>1, <1>2, <1>3, <1>4, <1>5, <1>6, <1>7, <1>8, <1>9, <1>10 DEF Step

-----------------------------------------------------------------------------
(* The shape of a request on its way *)

\* What is q's alone does not change.
Untouched(q) ==
  /\ pc'[q] = pc[q] /\ via'[q] = via[q] /\ op'[q] = op[q] /\ user'[q] = user[q]
  /\ todo'[q] = todo[q] /\ ask'[q] = ask[q] /\ before'[q] = before[q]
  /\ seen'[q] = seen[q] /\ place'[q] = place[q] /\ at'[q] = at[q]
  /\ draft'[q] = draft[q]

\* A request that arrives.
LEMMA Arrived ==
  ASSUME TypeOK, NEW r \in Req, Request(r)
  PROVE  /\ pc[r] = "idle" /\ via'[r] \in Backend /\ user'[r] \in User
         /\ before'[r] = Past \cup Answered
         /\ UNCHANGED <<todos, seen, place, at, draft, told, placedBy>>
         /\ \A q \in Req \ {r} : Untouched(q)
         /\ \/ /\ op'[r] = "create" /\ pc'[r] = "append" /\ todo'[r] = r
               /\ ask'[r].status \in TODO_STATUSES(via'[r])
            \/ op'[r] = "update" /\ pc'[r] = "find" /\ todo'[r] \in Id
            \/ op'[r] = "delete" /\ pc'[r] = "find_row" /\ todo'[r] \in Id
            \/ /\ op'[r] = "delete" /\ pc'[r] = "erase" /\ todo'[r] \in Id
               /\ via'[r] = "bun"
            \/ op'[r] = "reorder" /\ pc'[r] = "apply" /\ ask'[r] \in Reorders
<1>1. ASSUME NEW b \in Backend, NEW o, NEW u \in User, NEW t, NEW a, NEW first,
             Arrive(r, b, o, u, t, a, first)
      PROVE  /\ pc[r] = "idle" /\ pc'[r] = first /\ via'[r] = b /\ op'[r] = o
             /\ user'[r] = u /\ todo'[r] = t /\ ask'[r] = a
             /\ before'[r] = Past \cup Answered
             /\ UNCHANGED <<todos, seen, place, at, draft, told, placedBy>>
             /\ \A q \in Req \ {r} : Untouched(q)
  BY <1>1 DEF Arrive, TypeOK, RequestsTyped, Untouched
<1>2. CASE CreateTodo(r)
  BY <1>1, <1>2 DEF CreateTodo
<1>3. CASE UpdateTodo(r)
  BY <1>1, <1>3 DEF UpdateTodo
<1>4. CASE DeleteTodo(r)
  BY <1>1, <1>4 DEF DeleteTodo
<1>5. CASE ReorderTodos(r)
  BY <1>1, <1>5 DEF ReorderTodos
<1> QED
  BY <1>2, <1>3, <1>4, <1>5 DEF Request

\* A statement of r changes what is another request's alone in no way.
LEMMA OthersKeep ==
  ASSUME TypeOK, NEW r \in Req, Step(r) \/ Abort(r)
  PROVE  /\ \A q \in Req \ {r} : Untouched(q)
         /\ UNCHANGED request
<1> USE DEF TypeOK, Untouched, Go, request
<1>1. CASE ReadEnd(r) \/ InsertTodo(r)
  BY <1>1 DEF ReadEnd, InsertTodo
<1>2. CASE FindAssignee(r)
  BY <1>2 DEF FindAssignee, Deny
<1>3. CASE WriteTodo(r)
  BY <1>3 DEF WriteTodo, Deny
<1>4. CASE FindTodo(r) \/ EraseTodo(r)
  BY <1>4 DEF FindTodo, EraseTodo, Deny
<1>5. CASE ApplyItem(r)
  BY <1>5 DEF ApplyItem, Deny
<1>6. CASE Commit(r) \/ BreakDeadlock(r) \/ Notify(r) \/ Abort(r)
  BY <1>6 DEF Commit, BreakDeadlock, Notify, Abort
<1> QED
  BY <1>1, <1>2, <1>3, <1>4, <1>5, <1>6 DEF Step

\* A request goes from statement to statement of its endpoint.
LEMMA OwnStepsStep ==
  ASSUME TypeOK, Shape, [Next]_vars
  PROVE  OwnSteps'
<1> USE DEF OwnStep, StepsOf, Answer, Op
<1>1. \A q \in Req : OwnStep(q) /\ op[q] \in Op \cup {None}
  BY DEF Shape, OwnSteps, TypeOK, RequestsTyped
<1>2. ASSUME NEW r \in Req, OwnStep(r)', \A q \in Req \ {r} : Untouched(q)
      PROVE  OwnSteps'
  BY <1>1, <1>2 DEF OwnSteps, Untouched
<1>3. ASSUME NEW r \in Req, Request(r) PROVE OwnSteps'
  <2>1. OwnStep(r)'
    BY <1>3, Arrived, BoardAssumption
  <2> QED
    BY <1>2, <1>3, <2>1, Arrived
<1>4. ASSUME NEW r \in Req, Step(r) \/ Abort(r) PROVE OwnSteps'
  <2>1. op'[r] = op[r] /\ via'[r] = via[r] /\ user'[r] = user[r]
    BY <1>4, OthersKeep DEF request
  <2>2. /\ OwnStep(r) /\ op[r] \in Op \cup {None} /\ None \notin Op
        /\ pc \in [Req -> {"idle"} \cup Running \cup Answer]
    BY <1>1, BoardAssumption DEF TypeOK
  <2> USE <2>1, <2>2 DEF Go
  <2>3. CASE ReadEnd(r) \/ InsertTodo(r)
    <3>1. OwnStep(r)'
      BY <2>3 DEF ReadEnd, InsertTodo, Done
    <3> QED
      BY <1>2, <1>4, <3>1, OthersKeep
  <2>4. CASE FindAssignee(r) \/ WriteTodo(r)
    <3>1. OwnStep(r)'
      BY <2>4 DEF FindAssignee, WriteTodo, Deny, Done
    <3> QED
      BY <1>2, <1>4, <3>1, OthersKeep
  <2>5. CASE FindTodo(r) \/ EraseTodo(r)
    <3>1. OwnStep(r)'
      BY <2>5 DEF FindTodo, EraseTodo, Deny, Done
    <3> QED
      BY <1>2, <1>4, <3>1, OthersKeep
  <2>6. CASE ApplyItem(r)
    <3>1. OwnStep(r)'
      BY <2>6 DEF ApplyItem, Deny
    <3> QED
      BY <1>2, <1>4, <3>1, OthersKeep
  <2>7. CASE Commit(r) \/ Notify(r)
    <3>1. OwnStep(r)'
      BY <2>7 DEF Commit, Notify, Done
    <3> QED
      BY <1>2, <1>4, <3>1, OthersKeep
  <2>8. CASE BreakDeadlock(r) \/ Abort(r)
    <3>1. pc[r] \in Running
      BY <2>8 DEF BreakDeadlock, WaitsFor, Abort, Running
    <3>2. OwnStep(r)'
      BY <2>8, <3>1 DEF BreakDeadlock, Abort, Running
    <3> QED
      BY <1>2, <1>4, <3>2, OthersKeep
  <2> QED
    BY <1>4, <2>3, <2>4, <2>5, <2>6, <2>7, <2>8 DEF Step
<1>5. CASE UNCHANGED vars
  BY <1>1, <1>5 DEF vars, request, OwnSteps
<1> QED
  BY <1>3, <1>4, <1>5 DEF Next, Finished

\* What a request knows stays true of it, and each statement learns what the next
\* one needs.
LEMMA KnownStep ==
  ASSUME TypeOK, Shape, [Next]_vars
  PROVE  Known'
<1>1. \A q \in Req : KnownBy(q)
  BY DEF Shape, Known
<1>2. ASSUME NEW r \in Req, KnownBy(r)', \A q \in Req \ {r} : Untouched(q)
      PROVE  Known'
  <2>1. ASSUME NEW q \in Req \ {r} PROVE KnownBy(q)'
    <3>1. KnownBy(q) /\ Untouched(q)
      BY <1>1, <1>2
    <3> QED
      BY <3>1 DEF KnownBy, Untouched, Accepts, Appends, AskedStatus
  <2> QED
    BY <1>2, <2>1 DEF Known
<1>3. ASSUME NEW r \in Req, Request(r) PROVE Known'
  <2>1. pc[r] = "idle" => at[r] = 1
    BY <1>1 DEF KnownBy
  <2>2. ask'[r] \in Reorders => 1 \in DOMAIN ask'[r]
    BY BoardAssumption
  <2>3. KnownBy(r)'
    BY <1>3, <2>1, <2>2, Arrived, BoardAssumption DEF KnownBy, Op
  <2> QED
    BY <1>2, <1>3, <2>3, Arrived
<1>4. ASSUME NEW r \in Req, Step(r) \/ Abort(r) PROVE Known'
  <2>1. /\ op'[r] = op[r] /\ via'[r] = via[r] /\ user'[r] = user[r]
        /\ todo'[r] = todo[r] /\ ask'[r] = ask[r]
    BY <1>4, OthersKeep DEF request
  <2>2. /\ KnownBy(r) /\ OwnStep(r) /\ op[r] \in Op \cup {None} /\ None \notin Op
        /\ pc \in [Req -> {"idle"} \cup Running \cup Answer]
    BY <1>1, BoardAssumption DEF TypeOK, RequestsTyped, Shape, OwnSteps
  <2>3. /\ \A s : Accepts(r, s)' = Accepts(r, s)
        /\ Appends(r)' = Appends(r)
    BY <2>1 DEF Accepts, Appends, AskedStatus
  <2>4. None \notin Position /\ None \notin Row
    BY BoardAssumption DEF Position
  <2>5. ASSUME KnownBy(r)' PROVE Known'
    BY <1>2, <1>4, <2>5, OthersKeep
  <2> USE <2>1, <2>2, <2>3, <2>4 DEF KnownBy, OwnStep, StepsOf, Op, Answer, Go
  <2>6. CASE ReadEnd(r)
    <3>1. KnownBy(r)'
      BY <2>6 DEF ReadEnd, TypeOK
    <3> QED
      BY <2>5, <3>1
  <2>7. CASE InsertTodo(r)
    <3>1. NewRow(r) \in Row
      BY <2>7, OwnerIsUser DEF InsertTodo
    <3>2. KnownBy(r)'
      BY <2>7, <3>1 DEF InsertTodo, TypeOK, Done
    <3> QED
      BY <2>5, <3>2
  <2>8. CASE FindAssignee(r)
    <3>1. KnownBy(r)'
      BY <2>8 DEF FindAssignee, Deny, Allowed, TypeOK
    <3> QED
      BY <2>5, <3>1
  <2>9. CASE WriteTodo(r)
    <3>1. op[r] = "update" /\ todo[r] \in Id
      BY <2>9, OwnerIsUser DEF WriteTodo
    <3>2. todos[todo[r]] # None => Updated(r, todos[todo[r]]) \in Row
      BY <3>1, UpdatedIsRow DEF TypeOK
    <3>3. KnownBy(r)'
      BY <2>9, <3>1, <3>2 DEF WriteTodo, Deny, Allowed, Done, TypeOK
    <3> QED
      BY <2>5, <3>3
  <2>10. CASE FindTodo(r) \/ EraseTodo(r)
    <3>1. KnownBy(r)'
      BY <2>10 DEF FindTodo, EraseTodo, Deny, Allowed, Done, TypeOK
    <3> QED
      BY <2>5, <3>1
  <2>11. CASE ApplyItem(r)
    <3>1. ask[r] \in Seq(Item) /\ at[r] \in 1..Len(ask[r])
      BY <2>11, NextIsItem DEF ApplyItem
    <3>2. KnownBy(r)'
      BY <2>11, <3>1 DEF ApplyItem, Deny, TypeOK
    <3> QED
      BY <2>5, <3>2
  <2>12. CASE Commit(r) \/ Notify(r)
    <3>1. KnownBy(r)'
      BY <2>12 DEF Commit, Notify, Done
    <3> QED
      BY <2>5, <3>1
  <2>13. CASE BreakDeadlock(r) \/ Abort(r)
    <3>1. KnownBy(r)'
      BY <2>13 DEF BreakDeadlock, Abort
    <3> QED
      BY <2>5, <3>1
  <2> QED
    BY <1>4, <2>6, <2>7, <2>8, <2>9, <2>10, <2>11, <2>12, <2>13 DEF Step
<1>5. CASE UNCHANGED vars
  BY <1>1, <1>5 DEF vars, request, Known, KnownBy, Accepts, Appends, AskedStatus
<1> QED
  BY <1>3, <1>4, <1>5 DEF Next, Finished

\* Answers are final.
LEMMA AnsweredStays ==
  ASSUME TypeOK, [Next]_vars
  PROVE  Answered \subseteq Answered'
<1>1. ASSUME NEW r \in Req, pc[r] \notin Answer, \A q \in Req \ {r} : pc'[q] = pc[q]
      PROVE  Answered \subseteq Answered'
  BY <1>1 DEF Answered
<1>2. ASSUME NEW r \in Req, Request(r) PROVE Answered \subseteq Answered'
  BY <1>1, <1>2, Arrived DEF Answer, Untouched
<1>3. ASSUME NEW r \in Req, Step(r) \/ Abort(r) PROVE Answered \subseteq Answered'
  <2>1. pc[r] \notin Answer
    BY <1>3 DEF Step, Abort, Running, Answer, ReadEnd, InsertTodo, FindAssignee, WriteTodo,
                FindTodo, EraseTodo, ApplyItem, Commit, BreakDeadlock, WaitsFor, Notify
  <2> QED
    BY <1>1, <1>3, <2>1, OthersKeep DEF Untouched
<1>4. CASE UNCHANGED vars
  BY <1>4 DEF vars, Answered
<1> QED
  BY <1>2, <1>3, <1>4 DEF Next, Finished

\* What was answered when a request arrived stays answered.
LEMMA BeforeStep ==
  ASSUME TypeOK, Shape, [Next]_vars
  PROVE  BeforeIsAnswered'
<1>1. ASSUME NEW r \in Req, Request(r) PROVE BeforeIsAnswered'
  <2>1. r \notin Answered /\ Past \cap Req = {}
    BY <1>1, Arrived, BoardAssumption DEF Answered, Answer
  <2> QED
    BY <1>1, <2>1, Arrived, AnsweredStays DEF Shape, BeforeIsAnswered, Untouched
<1>2. ASSUME UNCHANGED before PROVE BeforeIsAnswered'
  BY <1>2, AnsweredStays DEF Shape, BeforeIsAnswered
<1>3. ASSUME NEW r \in Req, Step(r) \/ Abort(r) PROVE UNCHANGED before
  BY <1>3, OthersKeep DEF request
<1> QED
  BY <1>1, <1>2, <1>3 DEF Next, Finished, vars, request

-----------------------------------------------------------------------------
(* Who writes which row *)

\* A statement changes a row only as the one that inserts, updates, deletes or
\* commits it.
LEMMA StepWrites ==
  ASSUME TypeOK, Shape, NEW r \in Req, Step(r) \/ Abort(r), NEW t \in Id
  PROVE  \/ todos'[t] = todos[t]
         \/ InsertTodo(r) /\ t = r /\ op[r] = "create" /\ todos'[t] = NewRow(r)
         \/ /\ WriteTodo(r) /\ t = todo[r] /\ pc'[r] = Done(r) /\ op[r] = "update"
            /\ Allowed(user[r], todos[t]) /\ ~Locked(t, r)
            /\ todos'[t] = Updated(r, todos[t])
         \/ /\ EraseTodo(r) /\ Allowed(user[r], todos[t]) /\ ~Locked(t, r)
            /\ todos'[t] = None
         \/ Commit(r) /\ op[r] = "reorder" /\ draft[r][t] # None /\ todos'[t] = draft[r][t]
<1> USE DEF TypeOK
<1>1. CASE InsertTodo(r)
  BY <1>1, OwnerIsUser DEF InsertTodo
<1>2. CASE WriteTodo(r)
  <2>1. op[r] = "update"
    BY <1>2, OwnerIsUser DEF WriteTodo
  <2>2. CASE Deny(r)
    BY <2>2 DEF Deny
  <2>3. CASE Allowed(user[r], todos[todo[r]]) /\ ~Deny(r)
    BY <1>2, <2>1, <2>3 DEF WriteTodo, MustWait, Go
  <2> QED
    BY <1>2, <2>2, <2>3 DEF WriteTodo
<1>3. CASE EraseTodo(r)
  BY <1>3 DEF EraseTodo, MustWait, Deny
<1>4. CASE Commit(r)
  <2>1. op[r] = "reorder"
    BY <1>4 DEF Commit, Shape, OwnSteps, OwnStep, StepsOf, RequestsTyped, Op, Answer
  <2> QED
    BY <1>4, <2>1 DEF Commit, Visible
<1>5. CASE ReadEnd(r) \/ FindAssignee(r) \/ FindTodo(r)
  BY <1>5 DEF ReadEnd, FindAssignee, FindTodo, Deny
<1>6. CASE ApplyItem(r)
  BY <1>6 DEF ApplyItem, Deny
<1>7. CASE BreakDeadlock(r) \/ Notify(r) \/ Abort(r)
  BY <1>7 DEF BreakDeadlock, Notify, Abort
<1> QED
  BY <1>1, <1>2, <1>3, <1>4, <1>5, <1>6, <1>7 DEF Step

\* A request that has arrived is never idle again.
LEMMA NotIdleAfter ==
  ASSUME TypeOK, NEW r \in Req, Step(r) \/ Abort(r)
  PROVE  pc'[r] # "idle"
<1> USE DEF TypeOK, Go
<1>1. CASE InsertTodo(r) \/ Commit(r) \/ BreakDeadlock(r) \/ Notify(r) \/ Abort(r)
  BY <1>1 DEF InsertTodo, Commit, BreakDeadlock, Notify, Abort, Done
<1>2. CASE WriteTodo(r) \/ EraseTodo(r) \/ FindTodo(r)
  BY <1>2 DEF WriteTodo, EraseTodo, FindTodo, Deny, Done
<1>3. CASE ApplyItem(r) \/ ReadEnd(r) \/ FindAssignee(r)
  BY <1>3 DEF ApplyItem, ReadEnd, FindAssignee, Deny
<1> QED
  BY <1>1, <1>2, <1>3 DEF Step

\* A transaction is open after a step of its request only if the step applied an
\* item.
LEMMA OpenAfter ==
  ASSUME TypeOK, Shape, NEW r \in Req, Step(r) \/ Abort(r),
         pc'[r] \in {"apply", "commit"}
  PROVE  /\ pc[r] = "apply" /\ UNCHANGED todos
         /\ Accepts(r, NextItem(r).status)
         /\ Allowed(user[r], Visible(r, NextItem(r).id))
         /\ draft' = [draft EXCEPT ![r][NextItem(r).id]
                         = Reordered(r, Visible(r, NextItem(r).id), NextItem(r))]
         /\ at'[r] = at[r] + 1
<1> USE DEF TypeOK, Go
<1>1. CASE ApplyItem(r)
  BY <1>1 DEF ApplyItem, Deny
<1>2. CASE ReadEnd(r) \/ FindAssignee(r) \/ FindTodo(r)
  BY <1>2 DEF ReadEnd, FindAssignee, FindTodo, Deny
<1>3. CASE InsertTodo(r) \/ Commit(r) \/ BreakDeadlock(r) \/ Notify(r) \/ Abort(r)
  BY <1>3 DEF InsertTodo, Commit, BreakDeadlock, Notify, Abort, Done
<1>4. CASE WriteTodo(r) \/ EraseTodo(r)
  BY <1>4 DEF WriteTodo, EraseTodo, Deny, Done
<1> QED
  BY <1>1, <1>2, <1>3, <1>4 DEF Step

\* A todo of a request to come, or on its way, is absent until its own insert.
LEMMA FreshStep ==
  ASSUME TypeOK, Shape, DraftIsCurrent, [Next]_vars
  PROVE  FreshIsAbsent'
<1> DEFINE Fresh(q) == pc[q] \in {"idle", "append", "insert"} /\ op[q] \in {"create", None}
<1>1. \A q \in Req : Fresh(q) => todos[q] = None
  BY DEF Shape, FreshIsAbsent
<1>2. ASSUME NEW r \in Req, Request(r) PROVE FreshIsAbsent'
  <2>1. pc[r] = "idle" => Fresh(r)
    BY BoardAssumption
       DEF Shape, OwnSteps, OwnStep, StepsOf, TypeOK, RequestsTyped, Op, Answer
  <2> QED
    BY <1>1, <1>2, <2>1, Arrived DEF FreshIsAbsent, Untouched
<1>3. ASSUME NEW r \in Req, Step(r) \/ Abort(r), NEW q \in Req, Fresh(q)'
      PROVE  todos'[q] = None
  <2>1. op'[r] = op[r] /\ \A p \in Req \ {r} : pc'[p] = pc[p] /\ op'[p] = op[p]
    BY <1>3, OthersKeep DEF Untouched, request
  <2>2. CASE ReadEnd(r)
    <3>1. todos' = todos /\ (r = q => Fresh(r))
      BY <1>3, <2>1, <2>2, OwnerIsUser DEF ReadEnd
    <3> QED
      BY <1>1, <1>3, <2>1, <3>1
  <2>3. CASE q = r /\ ~ReadEnd(r)
    <3>1. pc'[r] \notin {"idle", "append", "insert"} \/ FindAssignee(r)
      <4> USE DEF TypeOK, Go
      <4>1. CASE InsertTodo(r) \/ Commit(r) \/ BreakDeadlock(r) \/ Notify(r) \/ Abort(r)
        BY <4>1 DEF InsertTodo, Commit, BreakDeadlock, Notify, Abort, Done
      <4>2. CASE WriteTodo(r) \/ EraseTodo(r) \/ FindTodo(r)
        BY <4>2 DEF WriteTodo, EraseTodo, FindTodo, Deny, Done
      <4>3. CASE ApplyItem(r)
        BY <4>3 DEF ApplyItem, Deny
      <4> QED
        BY <1>3, <2>3, <4>1, <4>2, <4>3 DEF Step
    <3>2. FindAssignee(r) => op[r] = "update"
      BY DEF FindAssignee, Shape, OwnSteps, OwnStep, StepsOf, Answer
    <3> QED
      BY <1>3, <2>1, <2>3, <3>1, <3>2, BoardAssumption DEF Op
  <2>4. CASE q # r
    <3>1. Fresh(q)
      BY <1>3, <2>1, <2>4
    <3>2. todos[q] = None /\ q \in Id
      BY <1>1, <3>1 DEF Id
    <3>3. Commit(r) => draft[r][q] = None
      BY <3>2 DEF Commit, DraftIsCurrent
    <3> QED
      BY <1>3, <2>4, <3>2, <3>3, StepWrites DEF Allowed
  <2> QED
    BY <2>2, <2>3, <2>4
<1>4. CASE UNCHANGED vars
  BY <1>1, <1>4 DEF vars, request, FreshIsAbsent
<1> QED
  BY <1>2, <1>3, <1>4 DEF Next, Finished, FreshIsAbsent

-----------------------------------------------------------------------------
(* The rows of open reorders *)

\* No other request takes a row away from an open reorder, or its people: the
\* row is locked.
LEMMA CurrentStep ==
  ASSUME TypeOK, Shape, DraftIsCurrent, DraftIsApplied, [Next]_vars
  PROVE  DraftIsCurrent'
<1> DEFINE Open(q, t) == pc[q] \in {"apply", "commit"} /\ draft[q][t] # None
           People(row) == <<row.reporter, row.assignee>>
<1>1. ASSUME NEW q \in Req, NEW t \in Id, Open(q, t)
      PROVE  todos[t] # None /\ People(todos[t]) = People(draft[q][t])
  BY <1>1 DEF DraftIsCurrent
<1>2. ASSUME NEW r \in Req, Request(r) PROVE DraftIsCurrent'
  <2>1. \A t \in Id : draft'[r][t] = None
    BY <1>2, Arrived DEF DraftIsApplied, AppliedBy
  <2>2. ASSUME NEW q \in Req, NEW t \in Id, Open(q, t)' PROVE Open(q, t)
    BY <1>2, <2>1, <2>2, Arrived DEF Untouched
  <2> QED
    BY <1>1, <1>2, <2>2, Arrived DEF DraftIsCurrent
<1>3. ASSUME NEW r \in Req, Step(r) \/ Abort(r), NEW q \in Req, NEW t \in Id, Open(q, t)'
      PROVE  todos'[t] # None /\ People(todos'[t]) = People(draft'[q][t])
  <2>1. CASE q = r
    <3>1. /\ pc[r] = "apply" /\ todos' = todos
          /\ Accepts(r, NextItem(r).status)
          /\ Allowed(user[r], Visible(r, NextItem(r).id))
          /\ draft' = [draft EXCEPT ![r][NextItem(r).id]
                         = Reordered(r, Visible(r, NextItem(r).id), NextItem(r))]
      BY <1>3, <2>1, OpenAfter
    <3>2. /\ NextItem(r) \in Item /\ NextItem(r).id \in Id
          /\ Visible(r, NextItem(r).id) \in Row
      BY <3>1, NextIsItem DEF Allowed
    <3>3. CASE t = NextItem(r).id
      <4>1. draft'[r][t] = Reordered(r, Visible(r, t), NextItem(r))
        BY <3>1, <3>3 DEF TypeOK
      <4>2. People(draft'[r][t]) = People(Visible(r, t))
        BY <3>1, <3>2, <3>3, <4>1, ReorderedIsRow
      <4>3. draft[r][t] = None => Visible(r, t) = todos[t] /\ todos[t] # None
        BY <3>2, <3>3, BoardAssumption DEF Visible
      <4>4. draft[r][t] # None =>
              /\ todos[t] # None
              /\ People(todos[t]) = People(Visible(r, t))
        BY <1>1, <3>1 DEF Visible
      <4> QED
        BY <2>1, <3>1, <4>2, <4>3, <4>4
    <3>4. CASE t # NextItem(r).id
      <4>1. draft'[r][t] = draft[r][t]
        BY <3>1, <3>2, <3>4 DEF TypeOK
      <4>2. Open(r, t)
        BY <1>3, <2>1, <3>1, <4>1
      <4> QED
        BY <1>1, <2>1, <3>1, <4>1, <4>2
    <3> QED
      BY <3>3, <3>4
  <2>2. CASE q # r
    <3>1. Open(q, t) /\ draft'[q][t] = draft[q][t]
      BY <1>3, <2>2, OthersKeep DEF Untouched
    <3>2. todos[t] # None /\ People(todos[t]) = People(draft[q][t])
      BY <1>1, <3>1
    <3>3. Locked(t, r)
      BY <2>2, <3>1 DEF Locked
    <3>4. InsertTodo(r) /\ op[r] = "create" => todos[r] = None
      BY DEF InsertTodo, Shape, FreshIsAbsent
    <3>5. Commit(r) /\ draft[r][t] # None =>
            People(todos[t]) = People(draft[r][t]) /\ draft[r][t] # None
      BY <1>1 DEF Commit
    <3>6. \/ todos'[t] = todos[t]
          \/ Commit(r) /\ draft[r][t] # None /\ todos'[t] = draft[r][t]
      BY <1>3, <3>2, <3>3, <3>4, StepWrites
    <3> QED
      BY <3>1, <3>2, <3>5, <3>6
  <2> QED
    BY <2>1, <2>2
<1>4. CASE UNCHANGED vars
  BY <1>4 DEF vars, DraftIsCurrent
<1> QED
  BY <1>2, <1>3, <1>4 DEF Next, Finished, DraftIsCurrent

\* What both back ends make of a status they accept.
LEMMA CompletesAgrees ==
  ASSUME NEW r \in Req, NEW s, Accepts(r, s)
  PROVE  Completes(r, s) = (s \in Closed("rust"))
BY DEF Accepts, Completes, Closed, TODO_STATUSES

\* A step that leaves a reorder alone leaves what it has applied.
LEMMA AppliedKept ==
  ASSUME NEW q \in Req, AppliedBy(q), pc'[q] = pc[q], via'[q] = via[q],
         user'[q] = user[q], ask'[q] = ask[q], at'[q] = at[q], draft'[q] = draft[q]
  PROVE  AppliedBy(q)'
<1>1. ASSUME NEW i, HasApplied(q, i) PROVE HasApplied(q, i)'
  BY <1>1 DEF HasApplied, Reordered, Completes
<1>2. (\A t \in Id : pc[q] \in {"apply", "commit"} /\ draft[q][t] # None =>
        /\ Allowed(user[q], draft[q][t])
        /\ draft[q][t].completed = (draft[q][t].status \in Closed("rust"))
        /\ \E i \in DOMAIN ask[q] : i < at[q] /\ ask[q][i].id = t)'
  BY DEF AppliedBy, Allowed
<1> QED
  BY <1>1, <1>2 DEF AppliedBy

\* An open reorder has applied the items before the one it is at.
LEMMA AppliedStep ==
  ASSUME TypeOK, Shape, DraftIsApplied, [Next]_vars
  PROVE  DraftIsApplied'
<1>1. \A q \in Req : AppliedBy(q)
  BY DEF DraftIsApplied
<1>2. ASSUME NEW r \in Req, AppliedBy(r)', \A q \in Req \ {r} : Untouched(q)
      PROVE  DraftIsApplied'
  <2>1. ASSUME NEW q \in Req \ {r} PROVE AppliedBy(q)'
    <3>1. AppliedBy(q) /\ Untouched(q)
      BY <1>1, <1>2
    <3> QED
      BY <3>1, AppliedKept DEF Untouched
  <2> QED
    BY <1>2, <2>1 DEF DraftIsApplied
<1>3. ASSUME NEW r \in Req, Request(r) PROVE DraftIsApplied'
  <2>1. /\ \A t \in Id : draft'[r][t] = None
        /\ pc'[r] # "idle" /\ at'[r] = 1
    BY <1>1, <1>3, Arrived DEF AppliedBy, Shape, Known, KnownBy
  <2>2. pc'[r] \in {"apply", "commit"} => ask'[r] \in Seq(Item)
    BY <1>3, Arrived, BoardAssumption
  <2>3. AppliedBy(r)'
    BY <2>1, <2>2 DEF AppliedBy
  <2> QED
    BY <1>2, <1>3, <2>3, Arrived
<1>4. ASSUME NEW r \in Req, Step(r) \/ Abort(r) PROVE DraftIsApplied'
  <2>1. /\ op'[r] = op[r] /\ via'[r] = via[r] /\ user'[r] = user[r] /\ ask'[r] = ask[r]
        /\ pc'[r] # "idle"
    <3>1. UNCHANGED request
      BY <1>4, OthersKeep
    <3>2. pc'[r] # "idle"
      BY <1>4, NotIdleAfter
    <3> QED
      BY <3>1, <3>2 DEF request
  <2>2. CASE pc'[r] \notin {"apply", "commit"}
    <3>1. AppliedBy(r)'
      BY <2>1, <2>2 DEF AppliedBy
    <3> QED
      BY <1>2, <1>4, <3>1, OthersKeep
  <2>3. CASE pc'[r] \in {"apply", "commit"}
    <3> DEFINE item == NextItem(r)
               new == Reordered(r, Visible(r, item.id), item)
    <3>1. /\ pc[r] = "apply" /\ Accepts(r, item.status)
          /\ Allowed(user[r], Visible(r, item.id))
          /\ draft' = [draft EXCEPT ![r][item.id] = new]
          /\ at'[r] = at[r] + 1
      BY <1>4, <2>3, OpenAfter
    <3>2. /\ item \in Item /\ item.id \in Id /\ ask[r] \in Seq(Item)
          /\ Visible(r, item.id) \in Row /\ at[r] \in DOMAIN ask[r]
          /\ item = ask[r][at[r]]
      BY <3>1, NextIsItem DEF Allowed, Shape, Known, KnownBy, NextItem
    <3>3. /\ new \in Row /\ new.status = item.status
          /\ new.reporter = Visible(r, item.id).reporter
          /\ new.assignee = Visible(r, item.id).assignee
          /\ new.completed = (item.status \in Closed("rust"))
      BY <3>1, <3>2, ReorderedIsRow, CompletesAgrees
    <3>4. Reordered(r, new, item) = new
      BY <3>2 DEF Reordered, Row
    <3>5. /\ draft'[r][item.id] = new
          /\ \A t \in Id \ {item.id} : draft'[r][t] = draft[r][t]
      BY <3>1, <3>2 DEF TypeOK
    <3>6. Allowed(user[r], new) /\ new # None
      BY <3>1, <3>3, BoardAssumption DEF Allowed
    <3> HIDE DEF new, item
    <3>7. ASSUME NEW t \in Id, draft'[r][t] # None
          PROVE  /\ Allowed(user[r], draft'[r][t])
                 /\ draft'[r][t].completed = (draft'[r][t].status \in Closed("rust"))
                 /\ \E i \in DOMAIN ask[r] : i < at'[r] /\ ask[r][i].id = t
      <4>1. at[r] \in Nat /\ \A i \in DOMAIN ask[r] : i \in Nat
        BY <3>2 DEF TypeOK
      <4>2. \A i \in Nat : i < at[r] => i < at[r] + 1
        BY <4>1
      <4>3. CASE t = item.id
        BY <3>1, <3>2, <3>3, <3>5, <3>6, <4>1, <4>3
      <4>4. CASE t # item.id
        BY <1>1, <3>1, <3>5, <3>7, <4>1, <4>2, <4>4 DEF AppliedBy
      <4> QED
        BY <4>3, <4>4
    <3>8. ASSUME NEW i \in DOMAIN ask[r], i < at'[r]
          PROVE  \/ \E j \in DOMAIN ask[r] :
                      j > i /\ j < at'[r] /\ ask[r][j].id = ask[r][i].id
                 \/ /\ draft'[r][ask[r][i].id] # None
                    /\ draft'[r][ask[r][i].id]
                         = Reordered(r, draft'[r][ask[r][i].id], ask[r][i])
      <4>1. at[r] \in Nat /\ i \in Nat /\ ask[r][i].id \in Id
        <5>1. at[r] \in Nat
          BY DEF TypeOK
        <5>2. i \in Nat /\ ask[r][i] \in Item
          BY <3>2
        <5> QED
          BY <5>1, <5>2 DEF Item
      <4>2. CASE i = at[r]
        BY <3>2, <3>4, <3>5, <3>6, <4>2
      <4>3. CASE i < at[r] /\ ask[r][i].id = item.id
        BY <3>1, <3>2, <4>1, <4>3
      <4>4. CASE i < at[r] /\ ask[r][i].id # item.id
        <5>1. draft'[r][ask[r][i].id] = draft[r][ask[r][i].id]
          BY <3>5, <4>1, <4>4
        <5>2. \/ \E j \in DOMAIN ask[r] :
                   j > i /\ j < at[r] /\ ask[r][j].id = ask[r][i].id
              \/ /\ draft[r][ask[r][i].id] # None
                 /\ draft[r][ask[r][i].id]
                      = Reordered(r, draft[r][ask[r][i].id], ask[r][i])
          BY <1>1, <3>1, <4>4 DEF AppliedBy, HasApplied
        <5>3. \A j \in DOMAIN ask[r] : j < at[r] => j < at'[r]
          BY <3>1, <3>2, <4>1
        <5> QED
          BY <5>1, <5>2, <5>3
      <4> QED
        BY <3>1, <3>8, <4>1, <4>2, <4>3, <4>4
    <3>9. AppliedBy(r)'
      <4>1. (\A t \in Id : pc[r] \in {"apply", "commit"} /\ draft[r][t] # None =>
               /\ Allowed(user[r], draft[r][t])
               /\ draft[r][t].completed = (draft[r][t].status \in Closed("rust"))
               /\ \E i \in DOMAIN ask[r] : i < at[r] /\ ask[r][i].id = t)'
        BY <2>1, <3>7 DEF Allowed
      <4>2. (\A i \in DOMAIN ask[r] : i < at[r] => HasApplied(r, i))'
        <5> SUFFICES ASSUME NEW i \in DOMAIN ask[r], i < at'[r] PROVE HasApplied(r, i)'
          BY <2>1
        <5> QED
          BY <2>1, <3>8 DEF HasApplied, Reordered, Completes
      <4> QED
        BY <2>1, <4>1, <4>2 DEF AppliedBy
    <3> QED
      BY <1>2, <1>4, <3>9, OthersKeep
  <2> QED
    BY <2>2, <2>3
<1>5. CASE UNCHANGED vars
  BY <1>1, <1>5, AppliedKept DEF vars, request, DraftIsApplied
<1> QED
  BY <1>3, <1>4, <1>5 DEF Next, Finished

-----------------------------------------------------------------------------
(* The ends of columns *)

\* A nonempty set of positions has a largest one.
LEMMA PositionMax ==
  ASSUME NEW S \in SUBSET Position, S # {}
  PROVE  Max(S) \in S /\ \A p \in S : p <= Max(S)
<1> DEFINE Below == {MaxPosition - p : p \in S}
           Less == {p \in Nat \X Nat : p[1] < p[2]}
<1>1. \A p \in S : p \in Int /\ MaxPosition - p \in Nat
  BY BoardAssumption DEF Position
<1>2. Below \subseteq Nat /\ Below # {}
  BY <1>1
<1>3. IsWellFoundedOn(Less, Nat)
  BY NatLessThanWellFounded DEF OpToRel
<1>4. PICK least \in Below : \A b \in Below : <<b, least>> \notin Less
  <2> HIDE DEF Below, Less
  <2> QED
    BY <1>2, <1>3, WFMin
<1>5. PICK last \in S : least = MaxPosition - last
  OBVIOUS
<1>6. ASSUME NEW p \in S PROVE last >= p
  <2>1. MaxPosition - p \in Below /\ MaxPosition - p \in Nat /\ least \in Nat
    BY <1>1, <1>2
  <2>2. ~(MaxPosition - p < least)
    BY <1>4, <2>1
  <2> QED
    BY <1>1, <1>5, <2>2, BoardAssumption
<1>7. Max(S) \in S /\ \A p \in S : Max(S) >= p
  BY <1>6 DEF Max
<1> QED
  BY <1>1, <1>7

\* The end of a column lies after all of its rows.
LEMMA EndIsAfter ==
  ASSUME TypeOK, NEW u, NEW s, NEW t \in Column(u, s)
  PROVE  todos[t].position < EndOf(u, s)
<1> DEFINE S == {todos[v].position : v \in Column(u, s)}
<1>1. S \in SUBSET Position /\ todos[t].position \in S
  BY DEF TypeOK, Column, Row
<1>2. Max(S) \in Int /\ todos[t].position <= Max(S) /\ todos[t].position \in Int
  <2>1. \A p \in Position : p \in Int
    BY BoardAssumption DEF Position
  <2> HIDE DEF S
  <2> QED
    BY <1>1, <2>1, PositionMax
<1>3. EndOf(u, s) = Max(S) + 1
  BY DEF EndOf
<1> HIDE DEF S
<1> QED
  BY <1>2, <1>3

\* A step leaves t at its place, or r has appended it to a column.
Stays(t) ==
  /\ placedBy'[t] = placedBy[t]
  /\ todos'[t] # None => /\ todos[t] # None
                         /\ todos'[t].assignee = todos[t].assignee
                         /\ todos'[t].status = todos[t].status
                         /\ todos'[t].position = todos[t].position
AppendedBy(r, t) ==
  /\ Placing(r) /\ placedBy'[t] = r
  /\ todos'[t].assignee = Owner(r) /\ todos'[t].status = Target(r)
  /\ todos'[t].position = place[r]

\* A row is a request's to place only by that request's insert or update, which
\* leaves the others alone.
LEMMA StepPlaces ==
  ASSUME TypeOK, Shape, NEW r \in Req, Step(r) \/ Abort(r)
  PROVE  \/ \A t \in Id : Stays(t) \/ placedBy'[t] = None
         \/ \E t \in Id : AppendedBy(r, t) /\ \A v \in Id \ {t} : Stays(v)
<1> USE DEF TypeOK
<1>1. CASE InsertTodo(r)
  <2>1. op[r] = "create" /\ pc[r] = "insert" /\ r \in Id
    BY <1>1, OwnerIsUser DEF InsertTodo, Id
  <2>2. AppendedBy(r, r)
    BY <1>1, <2>1 DEF InsertTodo, AppendedBy, Placing, NewRow, Target
  <2>3. \A v \in Id \ {r} : Stays(v)
    BY <1>1, <2>1 DEF InsertTodo, Stays
  <2> QED
    BY <2>1, <2>2, <2>3
<1>2. CASE WriteTodo(r)
  <2>1. op[r] = "update" /\ pc[r] = "write" /\ todo[r] \in Id
    BY <1>2, OwnerIsUser DEF WriteTodo, Shape, Known, KnownBy
  <2>2. CASE Deny(r)
    BY <2>2 DEF Deny, Stays
  <2>3. CASE Allowed(user[r], todos[todo[r]]) /\ ~Deny(r)
    <3> DEFINE old == todos[todo[r]]
               new == Updated(r, old)
    <3>1. /\ old # None
          /\ todos' = [todos EXCEPT ![todo[r]] = new]
          /\ placedBy' = [placedBy EXCEPT ![todo[r]] = PlacedBy(r, old, new)]
      BY <1>2, <2>3 DEF WriteTodo, Allowed
    <3>2. \A v \in Id \ {todo[r]} : Stays(v)
      BY <2>1, <3>1 DEF Stays
    <3>3. todos'[todo[r]] = new /\ placedBy'[todo[r]] = PlacedBy(r, old, new)
      BY <2>1, <3>1
    <3>4. CASE Appends(r) /\ new.assignee = Owner(r)
      <4>1. AskedStatus(r) # None /\ place[r] # None
        BY <2>1, <3>4 DEF Appends, Shape, Known, KnownBy
      <4>2. new.status = AskedStatus(r) /\ new.position = place[r]
        BY <4>1 DEF Updated, Coalesce
      <4>3. AppendedBy(r, todo[r])
        BY <2>1, <3>3, <3>4, <4>2 DEF AppendedBy, Placing, PlacedBy, Target
      <4> QED
        BY <2>1, <3>2, <4>3
    <3>5. CASE Appends(r) /\ new.assignee # Owner(r)
      BY <3>2, <3>3, <3>5 DEF PlacedBy
    <3>6. CASE ~Appends(r)
      <4>1. Stays(todo[r]) \/ placedBy'[todo[r]] = None
        <5> HIDE DEF new
        <5> QED
          BY <3>1, <3>3, <3>6 DEF PlacedBy, Stays
      <4> QED
        BY <3>2, <4>1
    <3> QED
      BY <3>4, <3>5, <3>6
  <2> QED
    BY <1>2, <2>2, <2>3 DEF WriteTodo
<1>3. CASE EraseTodo(r)
  BY <1>3 DEF EraseTodo, Deny, Stays
<1>4. CASE Commit(r)
  BY <1>4 DEF Commit, Visible, Stays
<1>5. CASE ReadEnd(r) \/ FindAssignee(r) \/ FindTodo(r)
  BY <1>5 DEF ReadEnd, FindAssignee, FindTodo, Deny, Stays
<1>6. CASE ApplyItem(r)
  BY <1>6 DEF ApplyItem, Deny, Stays
<1>7. CASE BreakDeadlock(r) \/ Notify(r) \/ Abort(r)
  BY <1>7 DEF BreakDeadlock, Notify, Abort, Stays
<1> QED
  BY <1>1, <1>2, <1>3, <1>4, <1>5, <1>6, <1>7 DEF Step

\* A row is named after the request that appended it, which has arrived.
LEMMA PlacedStep ==
  ASSUME TypeOK, Shape, [Next]_vars
  PROVE  PlacedHasRun'
<1>1. \A t \in Id : /\ placedBy[t] \in Req \cup {None}
                    /\ placedBy[t] # None => pc[placedBy[t]] # "idle"
  BY DEF Shape, PlacedHasRun, TypeOK
<1>2. ASSUME NEW r \in Req, Request(r) PROVE PlacedHasRun'
  <2>1. \A q \in Req : pc[q] # "idle" => pc'[q] = pc[q]
    BY <1>2, Arrived DEF Untouched
  <2> QED
    BY <1>1, <1>2, <2>1, Arrived DEF PlacedHasRun
<1>3. ASSUME NEW r \in Req, Step(r) \/ Abort(r) PROVE PlacedHasRun'
  <2>1. /\ \A q \in Req \ {r} : pc'[q] = pc[q]
        /\ pc'[r] # "idle"
    BY <1>3, OthersKeep, NotIdleAfter DEF Untouched
  <2>2. \A t \in Id : placedBy'[t] \in {placedBy[t], r, None}
    BY <1>3, StepPlaces DEF Stays, AppendedBy
  <2> QED
    BY <1>1, <2>1, <2>2 DEF PlacedHasRun
<1>4. CASE UNCHANGED vars
  BY <1>1, <1>4 DEF vars, PlacedHasRun
<1> QED
  BY <1>2, <1>3, <1>4 DEF Next, Finished

\* A request is about to place a row right after it has read the column's end.
LEMMA PlacingAfter ==
  ASSUME TypeOK, Shape, NEW r \in Req, Step(r) \/ Abort(r), Placing(r)'
  PROVE  /\ place'[r] = EndOf(Owner(r), Target(r))
         /\ UNCHANGED <<todos, placedBy, seen>>
<1>1. UNCHANGED request
  BY OthersKeep
<1>2. Appends(r)' = Appends(r)
  BY <1>1 DEF Appends, AskedStatus, request
<1>3. (op[r] = "create" /\ pc'[r] = "insert") \/ (pc'[r] = "write" /\ Appends(r))
  BY <1>1, <1>2 DEF Placing, request
<1> USE DEF TypeOK, Go
<1>4. CASE ReadEnd(r)
  BY <1>3, <1>4, OwnerIsUser DEF ReadEnd
<1>5. CASE FindAssignee(r)
  BY <1>3, <1>5 DEF FindAssignee, Deny
<1>6. CASE InsertTodo(r) \/ Commit(r) \/ BreakDeadlock(r) \/ Notify(r) \/ Abort(r)
  BY <1>3, <1>6 DEF InsertTodo, Commit, BreakDeadlock, Notify, Abort, Done
<1>7. CASE WriteTodo(r) \/ EraseTodo(r) \/ FindTodo(r)
  BY <1>3, <1>7 DEF WriteTodo, EraseTodo, FindTodo, Deny, Done
<1>8. CASE ApplyItem(r)
  BY <1>3, <1>8 DEF ApplyItem, Deny
<1> QED
  BY <1>4, <1>5, <1>6, <1>7, <1>8 DEF Step

\* No request that was over when r arrived appends behind r's back.
LEMMA PlaceStep ==
  ASSUME TypeOK, Shape, PlaceIsAfter, [Next]_vars
  PROVE  PlaceIsAfter'
<1>1. ASSUME NEW q \in Req, Placing(q), NEW t \in Column(Owner(q), Target(q)),
             placedBy[t] \in before[q]
      PROVE  todos[t].position < place[q]
  BY <1>1 DEF PlaceIsAfter
<1>2. \A q \in Req : None \notin before[q]
  BY BoardAssumption DEF TypeOK, RequestsTyped
<1>3. ASSUME NEW q \in Req, Untouched(q)
      PROVE  Placing(q)' = Placing(q) /\ Owner(q)' = Owner(q) /\ Target(q)' = Target(q)
  <2>1. /\ op'[q] = op[q] /\ pc'[q] = pc[q] /\ ask'[q] = ask[q] /\ via'[q] = via[q]
        /\ seen'[q] = seen[q] /\ user'[q] = user[q]
    BY <1>3 DEF Untouched
  <2> QED
    BY <2>1 DEF Placing, Appends, AskedStatus, Owner, Target
<1>4. ASSUME NEW r \in Req, Request(r), NEW q \in Req, Placing(q)'
      PROVE  Untouched(q) /\ UNCHANGED <<todos, placedBy>>
  <2>1. ~Placing(r)'
    BY <1>4, Arrived DEF Placing
  <2> QED
    BY <1>4, <2>1, Arrived
<1>5. ASSUME NEW q \in Req, Untouched(q), UNCHANGED <<todos, placedBy>>, Placing(q)',
             NEW t \in Column(Owner(q), Target(q))', placedBy'[t] \in before'[q]
      PROVE  todos'[t].position < place'[q]
  <2>1. t \in Column(Owner(q), Target(q))
    BY <1>3, <1>5 DEF Column
  <2> QED
    BY <1>1, <1>3, <1>5, <2>1 DEF Untouched
<1>6. ASSUME NEW r \in Req, Step(r) \/ Abort(r), NEW q \in Req, Placing(q)',
             NEW t \in Column(Owner(q), Target(q))', placedBy'[t] \in before'[q]
      PROVE  todos'[t].position < place'[q]
  <2>1. CASE q = r
    <3>1. place'[r] = EndOf(Owner(r), Target(r)) /\ UNCHANGED <<todos, seen>>
      BY <1>6, <2>1, PlacingAfter
    <3>2. Owner(r)' = Owner(r) /\ Target(r)' = Target(r)
      <4>1. /\ op' = op /\ ask' = ask /\ via' = via /\ user' = user
        BY <1>6, OthersKeep DEF request
      <4> QED
        BY <3>1, <4>1 DEF Owner, Target, AskedStatus
    <3>3. t \in Column(Owner(r), Target(r))
      BY <1>6, <2>1, <3>1, <3>2 DEF Column
    <3> QED
      BY <2>1, <3>1, <3>3, EndIsAfter
  <2>2. CASE q # r
    <3>1. Untouched(q)
      BY <1>6, <2>2, OthersKeep
    <3>2. /\ Placing(q) /\ Owner(q)' = Owner(q) /\ Target(q)' = Target(q)
          /\ before'[q] = before[q] /\ place'[q] = place[q]
      BY <1>3, <1>6, <3>1 DEF Untouched
    <3>3. /\ t \in Id /\ todos'[t] # None /\ todos'[t].assignee = Owner(q)
          /\ todos'[t].status = Target(q)
      BY <1>6, <3>2 DEF Column
    <3>4. Placing(r) => r \notin before[q]
      BY DEF Placing, Shape, BeforeIsAnswered, Answered, Answer
    <3>5. Stays(t)
      BY <1>2, <1>6, <3>2, <3>3, <3>4, StepPlaces DEF AppendedBy
    <3>6. t \in Column(Owner(q), Target(q)) /\ todos'[t].position = todos[t].position
      BY <3>3, <3>5 DEF Stays, Column
    <3> QED
      BY <1>1, <1>6, <3>2, <3>5, <3>6 DEF Stays
  <2> QED
    BY <2>1, <2>2
<1>7. CASE UNCHANGED vars
  BY <1>5, <1>7 DEF vars, request, Untouched, PlaceIsAfter
<1> QED
  BY <1>4, <1>5, <1>6, <1>7 DEF Next, Finished, PlaceIsAfter

\* Two rows get the same place only from requests that overlap.
LEMMA SharedStep ==
  ASSUME TypeOK, Shape, PlaceIsAfter, SharedPositionNeedsOverlap, [Next]_vars
  PROVE  SharedPositionNeedsOverlap'
<1> DEFINE Same(t, v) == /\ t # v /\ IsAppended(t) /\ IsAppended(v)
                         /\ todos[t].assignee = todos[v].assignee
                         /\ todos[t].status = todos[v].status
                         /\ todos[t].position = todos[v].position
<1>1. \A t, v \in Id : Same(t, v) => placedBy[t] \notin before[placedBy[v]]
  BY DEF SharedPositionNeedsOverlap
<1>2. ASSUME NEW r \in Req, Request(r), NEW t \in Id, NEW v \in Id, Same(t, v)'
      PROVE  placedBy'[t] \notin before'[placedBy'[v]]
  <2>1. Same(t, v) /\ UNCHANGED placedBy
    BY <1>2, Arrived DEF IsAppended
  <2>2. placedBy[v] \in Req /\ pc[placedBy[v]] # "idle"
    BY <2>1 DEF IsAppended, Shape, PlacedHasRun, TypeOK
  <2>3. before'[placedBy[v]] = before[placedBy[v]]
    BY <1>2, <2>2, Arrived DEF Untouched
  <2> QED
    BY <1>1, <2>1, <2>3
<1>3. ASSUME NEW r \in Req, Step(r) \/ Abort(r), NEW t \in Id, NEW v \in Id, Same(t, v)'
      PROVE  placedBy'[t] \notin before'[placedBy'[v]]
  <2>1. before' = before
    BY <1>3, OthersKeep DEF request
  <2>2. CASE Stays(t) /\ Stays(v)
    <3>1. Same(t, v)
      BY <1>3, <2>2 DEF Stays, IsAppended
    <3> QED
      BY <1>1, <2>1, <2>2, <3>1 DEF Stays
  <2>3. CASE AppendedBy(r, t)
    <3>1. r \notin Answered
      BY <2>3 DEF AppendedBy, Placing, Answered, Answer
    <3>2. placedBy'[v] \in Req
      <4>1. placedBy'[v] # None /\ placedBy'[v] \in {placedBy[v], r, None}
        BY <1>3, StepPlaces DEF IsAppended, Stays, AppendedBy
      <4> QED
        BY <4>1 DEF TypeOK
    <3> QED
      BY <2>1, <2>3, <3>1, <3>2 DEF AppendedBy, Shape, BeforeIsAnswered
  <2>4. CASE AppendedBy(r, v) /\ Stays(t)
    <3>1. /\ todos[t] # None /\ todos[t].assignee = Owner(r) /\ todos[t].status = Target(r)
          /\ todos[t].position = place[r] /\ placedBy'[t] = placedBy[t]
      BY <1>3, <2>4 DEF AppendedBy, Stays, IsAppended
    <3>2. t \in Column(Owner(r), Target(r))
      BY <3>1 DEF Column
    <3>3. place[r] \in Int
      BY <3>1, BoardAssumption DEF TypeOK, Row, Position
    <3> QED
      BY <2>1, <2>4, <3>1, <3>2, <3>3 DEF AppendedBy, PlaceIsAfter
  <2>5. placedBy'[t] # None /\ placedBy'[v] # None /\ t # v
    BY <1>3 DEF IsAppended
  <2> QED
    BY <1>3, <2>2, <2>3, <2>4, <2>5, StepPlaces
<1>4. CASE UNCHANGED vars
  BY <1>4 DEF vars, request, SharedPositionNeedsOverlap, IsAppended
<1> QED
  BY <1>2, <1>3, <1>4 DEF Next, Finished, SharedPositionNeedsOverlap

-----------------------------------------------------------------------------
(* Status and completed flag *)

\* Every write leaves a row's flag and status in agreement, but for an update that
\* asks for both.
LEMMA CompletedStep ==
  ASSUME TypeOK, Shape, DraftIsApplied, CompletedFollowsStatus, [Next]_vars
  PROVE  CompletedFollowsStatus'
<1> DEFINE Agrees(row) == row.completed = (row.status \in Closed("rust"))
           Both(r, t) == /\ op[r] = "update" /\ todo[r] = t
                         /\ pc[r] \in {"notify", "ok", "failed"}
                         /\ ask[r].status # None /\ ask[r].completed # None
                         /\ ask[r].completed # (ask[r].status \in Closed("rust"))
<1>1. \A t \in Id : todos[t] # None => Agrees(todos[t]) \/ \E r \in Req : Both(r, t)
  BY DEF CompletedFollowsStatus
<1>2. ASSUME NEW r \in Req, Request(r), NEW t \in Id, todos'[t] # None
      PROVE  Agrees(todos'[t]) \/ \E q \in Req : Both(q, t)'
  <2>1. \A q \in Req : Both(q, t) => q # r /\ Both(q, t)'
    BY <1>2, Arrived DEF Untouched
  <2> QED
    BY <1>1, <1>2, <2>1, Arrived
<1>3. ASSUME NEW r \in Req, Step(r) \/ Abort(r), NEW t \in Id, todos'[t] # None
      PROVE  Agrees(todos'[t]) \/ \E q \in Req : Both(q, t)'
  <2>1. UNCHANGED request /\ \A q \in Req \ {r} : pc'[q] = pc[q]
    BY <1>3, OthersKeep DEF Untouched
  <2>2. \A q \in Req : Both(q, t) => Both(q, t)'
    <3>1. ASSUME Both(r, t) PROVE pc'[r] \in {"notify", "ok", "failed"}
      <4>1. pc[r] \in {"notify", "ok", "failed"}
        BY <3>1
      <4> HIDE DEF Both
      <4>2. Notify(r) \/ Abort(r)
        BY <1>3, <4>1
           DEF Step, ReadEnd, InsertTodo, FindAssignee, WriteTodo, FindTodo, EraseTodo,
               ApplyItem, Commit, BreakDeadlock, WaitsFor
      <4> QED
        BY <4>2 DEF Notify, Abort, Go, TypeOK
    <3> QED
      BY <2>1, <3>1 DEF request
  <2>3. CASE todos'[t] = todos[t]
    BY <1>1, <1>3, <2>2, <2>3
  <2>4. CASE InsertTodo(r) /\ op[r] = "create" /\ todos'[t] = NewRow(r)
    <3>1. Accepts(r, ask[r].status)
      BY <2>4 DEF Shape, Known, KnownBy, Accepts
    <3> QED
      BY <2>4, <3>1, CompletesAgrees DEF NewRow
  <2>5. CASE /\ WriteTodo(r) /\ t = todo[r] /\ pc'[r] = Done(r) /\ op[r] = "update"
             /\ todos'[t] = Updated(r, todos[t]) /\ Allowed(user[r], todos[t])
    <3> DEFINE row == Updated(r, todos[t])
    <3>1. /\ row.status = Coalesce(AskedStatus(r), todos[t].status)
          /\ row.completed = Coalesce(AskedCompleted(r), todos[t].completed)
      BY DEF Updated
    <3>2. ask[r].status # None => Accepts(r, ask[r].status)
      BY <2>5 DEF WriteTodo, Shape, Known, KnownBy
    <3>3. CASE ask[r].status # None /\ ask[r].completed # None
      <4>1. row.status = ask[r].status /\ row.completed = ask[r].completed
        BY <3>1, <3>3 DEF AskedStatus, AskedCompleted, Coalesce
      <4>2. CASE ask[r].completed = (ask[r].status \in Closed("rust"))
        BY <2>5, <4>1, <4>2
      <4>3. CASE ask[r].completed # (ask[r].status \in Closed("rust"))
        <5>1. Both(r, t)'
          BY <2>1, <2>5, <3>3, <4>3 DEF Done, request
        <5> QED
          BY <5>1
      <4> QED
        BY <4>2, <4>3
    <3>4. CASE ask[r].status # None /\ ask[r].completed = None
      <4>1. Completes(r, ask[r].status) = (ask[r].status \in Closed("rust"))
        BY <3>2, <3>4, CompletesAgrees
      <4>2. row.status = ask[r].status
        BY <3>1, <3>4 DEF AskedStatus, Coalesce
      <4>3. Completes(r, ask[r].status) # None
        <5>1. Completes(r, ask[r].status) \in BOOLEAN
          BY DEF Completes
        <5> QED
          BY <5>1, BoardAssumption
      <4>4. row.completed = Completes(r, ask[r].status)
        BY <3>1, <3>4, <4>3 DEF AskedCompleted, Coalesce
      <4> QED
        BY <2>5, <4>1, <4>2, <4>4
    <3>5. CASE ask[r].status = None /\ ask[r].completed # None
      <4>1. ask[r].completed \in BOOLEAN
        BY <2>5, <3>5, BoardAssumption DEF TypeOK, RequestsTyped, Payloads, UpdatePayload
      <4>2. row.completed = ask[r].completed
        BY <3>1, <3>5 DEF AskedCompleted, Coalesce
      <4>3. row.status \in {"done", "todo", "in_progress"}
            /\ (row.status = "done" <=> ask[r].completed)
        BY <3>1, <3>5, <4>1, BoardAssumption DEF AskedStatus, Coalesce
      <4>4. row.completed = (row.status \in Closed("rust"))
        BY <4>1, <4>2, <4>3 DEF Closed
      <4> QED
        BY <2>5, <4>4
    <3>6. CASE ask[r].status = None /\ ask[r].completed = None
      <4>1. row.status = todos[t].status /\ row.completed = todos[t].completed
        BY <3>1, <3>6 DEF AskedStatus, AskedCompleted, Coalesce
      <4>2. todos[t] # None
        BY <2>5 DEF Allowed
      <4> QED
        BY <1>1, <2>2, <2>5, <4>1, <4>2
    <3> QED
      BY <3>3, <3>4, <3>5, <3>6
  <2>6. CASE Commit(r) /\ draft[r][t] # None /\ todos'[t] = draft[r][t]
    BY <2>6 DEF Commit, DraftIsApplied, AppliedBy
  <2> HIDE DEF Agrees, Both
  <2> QED
    BY <1>3, <2>3, <2>4, <2>5, <2>6, StepWrites
<1>4. CASE UNCHANGED vars
  BY <1>1, <1>4 DEF vars, request, CompletedFollowsStatus
<1> QED
  BY <1>2, <1>3, <1>4 DEF Next, Finished, CompletedFollowsStatus

-----------------------------------------------------------------------------
(* The invariant *)

\* No request has arrived, nothing is open.
LEMMA InitInv == Init => IndInv
<1> SUFFICES ASSUME Init PROVE IndInv
  OBVIOUS
<1>1. TypeOK
  <2>1. None \in Payloads(None)
    BY BoardAssumption DEF Payloads, Op
  <2>2. RequestsTyped
    BY <2>1 DEF Init, RequestsTyped
  <2> QED
    BY <2>2 DEF Init, TypeOK
<1>2. OwnSteps /\ Known
  BY BoardAssumption DEF Init, OwnSteps, OwnStep, StepsOf, Answer, Known, KnownBy, Op
<1>3. FreshIsAbsent
  BY BoardAssumption DEF Init, FreshIsAbsent, Id
<1>4. BeforeIsAnswered /\ PlacedHasRun
  BY DEF Init, BeforeIsAnswered, PlacedHasRun
<1>5. DraftIsCurrent /\ DraftIsApplied
  BY DEF Init, DraftIsCurrent, DraftIsApplied, AppliedBy
<1>6. CompletedFollowsStatus /\ PlaceIsAfter /\ SharedPositionNeedsOverlap
  BY DEF Init, CompletedFollowsStatus, PlaceIsAfter, Placing, SharedPositionNeedsOverlap,
         IsAppended
<1> QED
  BY <1>1, <1>2, <1>3, <1>4, <1>5, <1>6 DEF IndInv, Shape

\* Every variable keeps its type.
LEMMA TypeStep ==
  ASSUME TypeOK, Shape, [Next]_vars
  PROVE  TypeOK'
<1>1. ASSUME UNCHANGED vars PROVE TypeOK'
  BY <1>1 DEF vars, request, TypeOK, RequestsTyped
<1> QED
  BY <1>1, RequestTyped, StepTyped DEF Next, Finished

\* IndInv is an invariant.
THEOREM Inductive == Spec => []IndInv
<1>1. Init => IndInv
  BY InitInv
<1>2. IndInv /\ [Next]_vars => IndInv'
  <2> SUFFICES ASSUME IndInv, [Next]_vars PROVE IndInv'
    OBVIOUS
  <2>1. /\ TypeOK /\ Shape /\ DraftIsCurrent /\ DraftIsApplied
        /\ CompletedFollowsStatus /\ PlaceIsAfter /\ SharedPositionNeedsOverlap
    BY DEF IndInv
  <2>2. TypeOK'
    BY <2>1, TypeStep
  <2>3. Shape'
    BY <2>1, OwnStepsStep, KnownStep, FreshStep, BeforeStep, PlacedStep DEF Shape
  <2>4. DraftIsCurrent' /\ DraftIsApplied'
    BY <2>1, CurrentStep, AppliedStep
  <2>5. CompletedFollowsStatus' /\ PlaceIsAfter' /\ SharedPositionNeedsOverlap'
    BY <2>1, CompletedStep, PlaceStep, SharedStep
  <2> QED
    BY <2>2, <2>3, <2>4, <2>5 DEF IndInv
<1> QED
  BY <1>1, <1>2, PTL DEF Spec

-----------------------------------------------------------------------------
\* Every row, request and position is of its type: no position leaves the INTEGER.
THEOREM TypeCorrect == Spec => []TypeOK
<1>1. IndInv => TypeOK
  BY DEF IndInv
<1> QED
  BY <1>1, Inductive, PTL

\* A reorder commits what rests on the rows as they are.
THEOREM DraftsAreCurrent == Spec => []DraftIsCurrent
<1>1. IndInv => DraftIsCurrent
  BY DEF IndInv
<1> QED
  BY <1>1, Inductive, PTL

\* completed agrees with the status, whichever back ends write the table.
THEOREM CompletedIsStatus == Spec => []CompletedFollowsStatus
<1>1. IndInv => CompletedFollowsStatus
  BY DEF IndInv
<1> QED
  BY <1>1, Inductive, PTL

\* Requests that do not overlap append at different positions.
THEOREM PositionsDiffer == Spec => []SharedPositionNeedsOverlap
<1>1. IndInv => SharedPositionNeedsOverlap
  BY DEF IndInv
<1> QED
  BY <1>1, Inductive, PTL

\* A row changes only for its reporter or its assignee of that moment.
THEOREM OnlyRelatedWrites == Spec => OnlyRelatedWrite
<1> DEFINE Related == \A t \in Id : todos[t] \notin {None, todos'[t]} =>
                        \E r \in Req : pc'[r] # pc[r] /\ Allowed(user[r], todos[t])
<1>1. IndInv /\ [Next]_vars => [Related]_vars
  <2> SUFFICES ASSUME IndInv, Next PROVE Related
    OBVIOUS
  <2>1. TypeOK /\ Shape /\ DraftIsCurrent /\ DraftIsApplied
    BY DEF IndInv
  <2>2. ASSUME NEW r \in Req, Request(r) PROVE Related
    BY <2>1, <2>2, Arrived
  <2>3. ASSUME NEW r \in Req, Step(r) \/ Abort(r), NEW t \in Id,
               todos[t] \notin {None, todos'[t]}
        PROVE  pc'[r] # pc[r] /\ Allowed(user[r], todos[t])
    <3>1. \/ WriteTodo(r) /\ Allowed(user[r], todos[t])
          \/ EraseTodo(r) /\ Allowed(user[r], todos[t])
          \/ Commit(r) /\ draft[r][t] # None
      <4>1. InsertTodo(r) /\ op[r] = "create" => todos[r] = None
        BY <2>1 DEF InsertTodo, Shape, FreshIsAbsent
      <4> QED
        BY <2>1, <2>3, <4>1, StepWrites
    <3>2. Commit(r) /\ draft[r][t] # None => Allowed(user[r], todos[t])
      BY <2>1 DEF Commit, DraftIsCurrent, DraftIsApplied, AppliedBy, Allowed
    <3>3. pc'[r] # pc[r]
      BY <2>1, <3>1 DEF WriteTodo, EraseTodo, Commit, Deny, Go, Done, TypeOK
    <3> QED
      BY <3>1, <3>2, <3>3
  <2> QED
    BY <2>2, <2>3 DEF Next, Finished, vars
<1> QED
  BY <1>1, Inductive, PTL DEF Spec, OnlyRelatedWrite

\* A reorder's items reach the table together.
THEOREM ReordersAreAtomic == Spec => ReorderAllOrNothing
<1> DEFINE Holds(r, i) == /\ todos'[ask[r][i].id] # None
                          /\ todos'[ask[r][i].id]
                               = Reordered(r, todos'[ask[r][i].id], ask[r][i])
           Atomic == \A r \in Req :
             op[r] = "reorder" /\ <<pc'[r], at'[r]>> # <<pc[r], at[r]>> /\ todos' # todos =>
               \A i \in DOMAIN ask[r] :
                 \/ \E j \in DOMAIN ask[r] : j > i /\ ask[r][j].id = ask[r][i].id
                 \/ Holds(r, i)
<1>1. IndInv /\ [Next]_vars => [Atomic]_vars
  <2> SUFFICES ASSUME IndInv, Next PROVE Atomic
    OBVIOUS
  <2>1. TypeOK /\ Shape /\ DraftIsApplied
    BY DEF IndInv
  <2>2. ASSUME NEW q \in Req, Request(q) PROVE todos' = todos
    BY <2>1, <2>2, Arrived
  <2>3. ASSUME NEW q \in Req, Step(q) \/ Abort(q), NEW r \in Req, op[r] = "reorder",
               <<pc'[r], at'[r]>> # <<pc[r], at[r]>>, todos' # todos,
               NEW i \in DOMAIN ask[r]
        PROVE  \/ \E j \in DOMAIN ask[r] : j > i /\ ask[r][j].id = ask[r][i].id
               \/ Holds(r, i)
    <3>1. q = r
      BY <2>1, <2>3, OthersKeep DEF Untouched
    <3>2. Commit(r)
      <4>1. pc[r] \in StepsOf("reorder") \cup Answer
        BY <2>1, <2>3 DEF Shape, OwnSteps, OwnStep
      <4>2. pc[r] \notin {"insert", "write", "erase"}
        BY <4>1 DEF StepsOf, Answer
      <4>3. PICK t \in Id : todos'[t] # todos[t]
        <5>1. TypeOK'
          BY <2>1, <2>3, StepTyped
        <5>2. DOMAIN todos = Id /\ DOMAIN todos' = Id
              /\ todos = [t \in Id |-> todos[t]] /\ todos' = [t \in Id |-> todos'[t]]
          BY <2>1, <5>1 DEF TypeOK
        <5> QED
          BY <2>3, <5>2
      <4> QED
        BY <2>1, <2>3, <3>1, <4>2, <4>3, StepWrites DEF InsertTodo, WriteTodo, EraseTodo
    <3>3. HasApplied(r, i) /\ ask[r][i].id \in Id
      <4>1. ask[r] \in Seq(Item) /\ at[r] = Len(ask[r]) + 1 /\ pc[r] = "commit"
        BY <2>1, <2>3, <3>2, BoardAssumption
           DEF Commit, TypeOK, RequestsTyped, Payloads, Shape, Known, KnownBy
      <4>2. i < at[r] /\ ask[r][i] \in Item
        BY <2>3, <4>1
      <4> QED
        BY <2>1, <4>1, <4>2 DEF DraftIsApplied, AppliedBy, Item
    <3>4. draft[r][ask[r][i].id] # None => todos'[ask[r][i].id] = draft[r][ask[r][i].id]
      BY <3>2, <3>3 DEF Commit, Visible
    <3> QED
      BY <3>3, <3>4 DEF HasApplied
  <2> QED
    BY <2>2, <2>3 DEF Next, Finished, vars
<1> QED
  BY <1>1, Inductive, PTL DEF Spec, ReorderAllOrNothing
=============================================================================
