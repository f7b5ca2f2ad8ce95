--------------------------- MODULE TodoLedgerProofs ---------------------------
(***************************************************************************)
(* TodoBoard implements TodoLedger: the statement that changes the table    *)
(* is the step in which a request takes effect, every other statement is   *)
(* a stuttering step, a refusal or an answer.  One lemma per endpoint shows *)
(* that what its last statement writes is what its payload asks for.        *)
(***************************************************************************)
EXTENDS TodoBoardProofs

\* A statement that is not the broadcast: its request has not taken effect.
Early == Running \ {"notify"}

-----------------------------------------------------------------------------
(* How far a request is *)

\* Only the request that moves gets any further.
LEMMA ProgressStep ==
  ASSUME TypeOK, NEW r \in Req, \A q \in Req \ {r} : pc'[q] = pc[q]
  PROVE  [q \in Req |-> Progress(q)]'
           = [[q \in Req |-> Progress(q)] EXCEPT ![r] = Progress(r)']
BY DEF Progress

\* Before the statement that changes the table a request is pending, and its
\* answer is what the client gets.
LEMMA ProgressIs ==
  ASSUME NEW r \in Req
  PROVE  /\ pc[r] \in Early => Progress(r) = "pending"
         /\ pc[r] = "notify" => Progress(r) = "applied"
         /\ pc[r] \in Answer \cup {"idle"} => Progress(r) = pc[r]
         /\ (pc[r] \in Early => Progress(r) = "pending")'
         /\ (pc[r] = "notify" => Progress(r) = "applied")'
         /\ (pc[r] \in Answer \cup {"idle"} => Progress(r) = pc[r])'
BY DEF Progress, Early, Running, Answer

\* The ledger starts with the rows the table starts with.
LEMMA LedgerInit == Init => Ledger!Init
<1> SUFFICES ASSUME Init PROVE Ledger!Init
  OBVIOUS
<1>1. \A r \in Req : r \in Id /\ r \notin Past
  BY BoardAssumption DEF Id
<1>2. \A r \in Req : todos[r] = None
  BY <1>1 DEF Init
<1>3. [r \in Req |-> Progress(r)] = [r \in Req |-> "idle"]
  BY DEF Init, Progress, Running
<1> QED
  BY <1>2, <1>3 DEF Init, Ledger!Init

\* A request arrives at the ledger when it arrives at a back end.
LEMMA LedgerRequest ==
  ASSUME TypeOK, NEW r \in Req, Request(r)
  PROVE  Ledger!Request(r)
<1>1. ASSUME NEW b, NEW o, NEW u, NEW t, NEW a, NEW first \in Early,
             Arrive(r, b, o, u, t, a, first)
      PROVE  Ledger!Arrive(r, o, u, t, a)
  <2>1. /\ pc[r] = "idle" /\ pc'[r] = first
        /\ \A q \in Req \ {r} : pc'[q] = pc[q]
    BY <1>1 DEF Arrive, TypeOK
  <2>2. /\ [q \in Req |-> Progress(q)][r] = "idle"
        /\ [q \in Req |-> Progress(q)]'
             = [[q \in Req |-> Progress(q)] EXCEPT ![r] = "pending"]
    BY <1>1, <2>1, ProgressStep, ProgressIs
  <2> QED
    BY <1>1, <2>2 DEF Arrive, Ledger!Arrive
<1>2. {"append", "find", "erase", "find_row", "apply"} \subseteq Early
  BY DEF Early, Running
<1>3. CASE CreateTodo(r)
  BY <1>1, <1>2, <1>3 DEF CreateTodo, Ledger!Request
<1>4. CASE UpdateTodo(r)
  BY <1>1, <1>2, <1>4 DEF UpdateTodo, Ledger!Request
<1>5. CASE DeleteTodo(r)
  BY <1>1, <1>2, <1>5 DEF DeleteTodo, Ledger!Request
<1>6. CASE ReorderTodos(r)
  BY <1>1, <1>2, <1>6 DEF ReorderTodos, Ledger!Request
<1> QED
  BY <1>3, <1>4, <1>5, <1>6 DEF Request

-----------------------------------------------------------------------------
(* The steps that leave the table alone *)

\* A statement that changes nothing and refuses nothing is invisible.
LEMMA LedgerQuiet ==
  ASSUME TypeOK, NEW r \in Req, Step(r) \/ Abort(r), UNCHANGED todos,
         pc[r] \in Early, pc'[r] \in Early
  PROVE  UNCHANGED Ledger!ledger
<1>1. UNCHANGED request /\ \A q \in Req \ {r} : pc'[q] = pc[q]
  BY OthersKeep DEF Untouched
<1>2. [q \in Req |-> Progress(q)]' = [q \in Req |-> Progress(q)]
  BY <1>1, ProgressStep, ProgressIs
<1> QED
  BY <1>1, <1>2 DEF request, Ledger!ledger, Ledger!asked

\* A request that ends before it has changed the table is refused.
LEMMA LedgerRefuse ==
  ASSUME TypeOK, NEW r \in Req, Step(r) \/ Abort(r), UNCHANGED todos,
         pc[r] \in Early, pc'[r] \in {"denied", "failed"}
  PROVE  Ledger!Refuse(r)
<1>1. UNCHANGED request /\ \A q \in Req \ {r} : pc'[q] = pc[q]
  BY OthersKeep DEF Untouched
<1>2. /\ [q \in Req |-> Progress(q)][r] = "pending"
      /\ [q \in Req |-> Progress(q)]'
           = [[q \in Req |-> Progress(q)] EXCEPT ![r] = pc'[r]]
  BY <1>1, ProgressStep, ProgressIs DEF Answer
<1> QED
  BY <1>1, <1>2 DEF request, Ledger!Refuse, Ledger!asked

\* Whether the broadcast is sent or not, the answer comes after the effect.
LEMMA LedgerAnswer ==
  ASSUME TypeOK, NEW r \in Req, Step(r) \/ Abort(r), UNCHANGED todos,
         pc[r] = "notify", pc'[r] \in {"ok", "failed"}
  PROVE  Ledger!Answer(r)
<1>1. UNCHANGED request /\ \A q \in Req \ {r} : pc'[q] = pc[q]
  BY OthersKeep DEF Untouched
<1>2. /\ [q \in Req |-> Progress(q)][r] = "applied"
      /\ [q \in Req |-> Progress(q)]'
           = [[q \in Req |-> Progress(q)] EXCEPT ![r] = pc'[r]]
  BY <1>1, ProgressStep, ProgressIs DEF Answer
<1> QED
  BY <1>1, <1>2 DEF request, Ledger!Answer, Ledger!asked

\* The statement that changes the table as the request asks takes effect.
LEMMA LedgerTake ==
  ASSUME TypeOK, NEW r \in Req, Step(r) \/ Abort(r), Ledger!Effect(r),
         pc[r] \in Early, pc'[r] \in {"notify", "ok", "failed"}
  PROVE  Ledger!Take(r)
<1>1. UNCHANGED request /\ \A q \in Req \ {r} : pc'[q] = pc[q]
  BY OthersKeep DEF Untouched
<1>2. /\ [q \in Req |-> Progress(q)][r] = "pending"
      /\ Progress(r)' \in {"applied", "ok", "failed"}
      /\ [q \in Req |-> Progress(q)]'
           = [[q \in Req |-> Progress(q)] EXCEPT ![r] = Progress(r)']
  BY <1>1, ProgressStep, ProgressIs DEF Answer
<1> QED
  BY <1>1, <1>2 DEF request, Ledger!Take, Ledger!asked

-----------------------------------------------------------------------------
(* The statements that change the table *)

\* The row that create_todo inserts is new and is the one that was asked for.
LEMMA InsertAdds ==
  ASSUME TypeOK, Shape, NEW r \in Req, InsertTodo(r)
  PROVE  Ledger!Add(r)
<1>1. NewRow(r) \in Row /\ op[r] = "create"
  BY OwnerIsUser DEF InsertTodo
<1>2. todos[r] = None
  BY <1>1 DEF InsertTodo, Shape, FreshIsAbsent
<1>3. Accepts(r, ask[r].status)
  BY <1>1 DEF Shape, Known, KnownBy, Accepts
<1>4. /\ NewRow(r).reporter = user[r] /\ NewRow(r).assignee = Owner(r)
      /\ NewRow(r).status = ask[r].status
      /\ NewRow(r).completed = Completes(r, ask[r].status)
  BY DEF NewRow
<1>5. Owner(r) = Ledger!Keep(ask[r].assignee, user[r])
  BY <1>1 DEF Owner, Ledger!Keep
<1>6. NewRow(r).completed = (NewRow(r).status \in Closed("rust"))
  BY <1>3, <1>4, CompletesAgrees
<1>7. todos' = [todos EXCEPT ![r] = NewRow(r)]
  BY DEF InsertTodo
<1> QED
  BY <1>1, <1>2, <1>4, <1>5, <1>6, <1>7 DEF Ledger!Add

\* What update_todo makes of a row, found when the statement runs and not when
\* the request looked it up, is what its payload asks of that row.
LEMMA UpdateMeets ==
  ASSUME TypeOK, Shape, NEW r \in Req, op[r] = "update", pc[r] = "write",
         NEW old \in Row
  PROVE  Ledger!Meets(ask[r], old, Updated(r, old))
<1> DEFINE a == ask[r]
           new == Updated(r, old)
<1>1. a \in UpdatePayload
  BY BoardAssumption DEF TypeOK, RequestsTyped, Payloads
<1>2. /\ a.status # None => Accepts(r, a.status)
      /\ Appends(r) => place[r] # None
      /\ ~Appends(r) => place[r] = a.position
  BY DEF Shape, Known, KnownBy
<1>3. /\ new.reporter = old.reporter
      /\ new.assignee = Coalesce(a.assignee, old.assignee)
      /\ new.status = Coalesce(AskedStatus(r), old.status)
      /\ new.completed = Coalesce(AskedCompleted(r), old.completed)
      /\ new.position = Coalesce(place[r], old.position)
  BY DEF Updated
<1>4. a.status # None => new.status = a.status
  BY <1>3 DEF AskedStatus, Coalesce
<1>5. a.completed # None => new.completed = a.completed
  BY <1>3 DEF AskedCompleted, Coalesce
<1>6. a.position # None => new.position = a.position
  BY <1>2, <1>3 DEF Appends, Coalesce
<1>7. ASSUME a.status = None, a.completed = None
      PROVE  /\ new.status = old.status /\ new.completed = old.completed
             /\ a.position = None => new.position = old.position
  BY <1>2, <1>3, <1>7 DEF AskedStatus, AskedCompleted, Appends, Coalesce
<1>8. ASSUME a.status # None, a.completed = None
      PROVE  new.completed = (new.status \in Closed("rust"))
  <2>1. Completes(r, a.status) = (a.status \in Closed("rust"))
    BY <1>2, <1>8, CompletesAgrees
  <2>2. Completes(r, a.status) \in BOOLEAN
    BY DEF Completes
  <2>3. new.completed = Completes(r, a.status)
    BY <1>3, <1>8, <2>2, BoardAssumption DEF AskedCompleted, Coalesce
  <2> QED
    BY <1>4, <1>8, <2>1, <2>3
<1>9. ASSUME a.status = None, a.completed # None
      PROVE  new.completed = (new.status \in Closed("rust"))
  <2>1. a.completed \in BOOLEAN
    BY <1>1, <1>9 DEF UpdatePayload
  <2>2. /\ new.status \in {"done", "todo", "in_progress"}
        /\ new.status = "done" <=> a.completed
    BY <1>3, <1>9, <2>1, BoardAssumption DEF AskedStatus, Coalesce
  <2>3. new.completed = a.completed
    BY <1>5, <1>9
  <2> QED
    BY <2>1, <2>2, <2>3 DEF Closed
<1> HIDE DEF a, new
<1>10. Ledger!Meets(a, old, new)
  BY <1>3, <1>4, <1>5, <1>6, <1>7, <1>8, <1>9 DEF Ledger!Meets, Ledger!Keep, Coalesce
<1> QED
  BY <1>10 DEF a, new

\* An update that finds its row changes it as it asks.
LEMMA WriteChanges ==
  ASSUME TypeOK, Shape, NEW r \in Req, WriteTodo(r), Allowed(user[r], todos[todo[r]])
  PROVE  Ledger!Change(r)
<1>1. op[r] = "update" /\ todo[r] \in Id /\ pc[r] = "write"
  BY OwnerIsUser DEF WriteTodo, Shape, Known, KnownBy
<1>2. todos[todo[r]] \in Row
  BY <1>1 DEF Allowed, TypeOK
<1>3. Ledger!Meets(ask[r], todos[todo[r]], Updated(r, todos[todo[r]]))
  BY <1>1, <1>2, UpdateMeets
<1>4. Updated(r, todos[todo[r]]) \in Row
  BY <1>1, <1>2, UpdatedIsRow
<1>5. todos' = [todos EXCEPT ![todo[r]] = Updated(r, todos[todo[r]])]
  BY DEF WriteTodo
<1>6. Ledger!Related(user[r], todo[r])
  BY DEF Allowed, Ledger!Related
<1> QED
  BY <1>1, <1>3, <1>4, <1>5, <1>6 DEF Ledger!Change

\* A delete that finds its row removes it.
LEMMA EraseRemoves ==
  ASSUME TypeOK, Shape, NEW r \in Req, EraseTodo(r), Allowed(user[r], todos[todo[r]])
  PROVE  Ledger!Remove(r)
<1>1. op[r] = "delete"
  BY DEF EraseTodo, Shape, OwnSteps, OwnStep, StepsOf, TypeOK, RequestsTyped, Op, Answer
<1>2. Ledger!Related(user[r], todo[r])
  BY DEF Allowed, Ledger!Related
<1> QED
  BY <1>1, <1>2 DEF EraseTodo, Ledger!Remove

\* Of the items for a todo one is the last.
LEMMA LastItem ==
  ASSUME NEW n \in Nat, NEW S \in SUBSET (1..n), S # {}
  PROVE  \E i \in S : \A j \in S : j <= i
<1> DEFINE Left == {n - i : i \in S}
           Less == {p \in Nat \X Nat : p[1] < p[2]}
<1>1. \A i \in S : i \in Nat /\ n - i \in Nat
  OBVIOUS
<1>2. Left \subseteq Nat /\ Left # {}
  BY <1>1
<1>3. IsWellFoundedOn(Less, Nat)
  BY NatLessThanWellFounded DEF OpToRel
<1>4. PICK least \in Left : \A d \in Left : <<d, least>> \notin Less
  <2> HIDE DEF Left, Less
  <2> QED
    BY <1>2, <1>3, WFMin
<1>5. PICK i \in S : least = n - i
  OBVIOUS
<1>6. ASSUME NEW j \in S PROVE j <= i
  <2>1. n - j \in Left /\ n - j \in Nat /\ least \in Nat
    BY <1>1, <1>2
  <2>2. ~(n - j < least)
    BY <1>4, <2>1
  <2> QED
    BY <1>1, <1>5, <2>2
<1> QED
  BY <1>6

\* What reorder_todos commits for a todo is what its last item for it asks of the
\* row as it is then; a todo that no item names stays as it is.
LEMMA CommitsItem ==
  ASSUME IndInv, NEW r \in Req, pc[r] = "commit", NEW t \in Id
  PROVE  /\ Ledger!ItemsFor(r, t) = {} => draft[r][t] = None
         /\ Ledger!ItemsFor(r, t) # {} =>
              /\ draft[r][t] # None /\ todos[t] # None
              /\ user[r] \in {todos[t].reporter, todos[t].assignee}
              /\ draft[r][t] = Ledger!Rearranged(r, t)
<1> DEFINE S == Ledger!ItemsFor(r, t)
           last == Ledger!LastFor(r, t)
<1>1. /\ TypeOK /\ Shape /\ DraftIsCurrent /\ AppliedBy(r)
      /\ op[r] = "reorder"
  BY DEF IndInv, DraftIsApplied, Shape, OwnSteps, OwnStep, StepsOf, TypeOK, RequestsTyped,
         Op, Answer
<1>2. ask[r] \in Seq(Item) /\ at[r] = Len(ask[r]) + 1
  BY <1>1, BoardAssumption DEF TypeOK, RequestsTyped, Payloads, Shape, Known, KnownBy
<1>3. S = {} => draft[r][t] = None
  BY <1>1 DEF AppliedBy, Ledger!ItemsFor
<1>4. ASSUME S # {}
      PROVE  /\ draft[r][t] # None /\ todos[t] # None
             /\ user[r] \in {todos[t].reporter, todos[t].assignee}
             /\ draft[r][t] = Ledger!Rearranged(r, t)
  <2>1. last \in S /\ \A j \in S : j <= last
    <3>1. S \in SUBSET (1..Len(ask[r])) /\ Len(ask[r]) \in Nat
      BY <1>2 DEF Ledger!ItemsFor
    <3>2. \E i \in S : \A j \in S : j <= i
      <4> HIDE DEF S
      <4> QED
        BY <1>4, <3>1, LastItem
    <3> QED
      BY <3>2 DEF Ledger!LastFor
  <2>2. /\ last \in DOMAIN ask[r] /\ ask[r][last].id = t /\ last < at[r]
        /\ \A j \in DOMAIN ask[r] : ask[r][j].id = t => ~(j > last)
    <3>1. last \in DOMAIN ask[r] /\ ask[r][last].id = t
      BY <2>1 DEF Ledger!ItemsFor
    <3>2. \A j \in DOMAIN ask[r] : ask[r][j].id = t => j <= last
      BY <2>1 DEF Ledger!ItemsFor
    <3> HIDE DEF last
    <3> QED
      BY <1>2, <3>1, <3>2
  <2>3. /\ draft[r][t] # None
        /\ draft[r][t] = Reordered(r, draft[r][t], ask[r][last])
    <3> HIDE DEF last
    <3> QED
      BY <1>1, <2>2 DEF AppliedBy, HasApplied
  <2> HIDE DEF last
  <2>4. /\ todos[t] # None /\ Allowed(user[r], draft[r][t])
        /\ todos[t].reporter = draft[r][t].reporter
        /\ todos[t].assignee = draft[r][t].assignee
        /\ draft[r][t].completed = (draft[r][t].status \in Closed("rust"))
    BY <1>1, <2>3 DEF DraftIsCurrent, AppliedBy
  <2>5. draft[r][t] \in Row /\ todos[t] \in Row
    BY <1>1, <2>3, <2>4 DEF TypeOK
  <2>6. /\ draft[r][t].status = ask[r][last].status
        /\ draft[r][t].position = ask[r][last].position
    BY <2>3, <2>5 DEF Reordered, Row
  <2>7. draft[r][t] = [todos[t] EXCEPT !.status = ask[r][last].status,
                                       !.position = ask[r][last].position,
                                       !.completed = ask[r][last].status \in Closed("rust")]
    BY <2>4, <2>5, <2>6 DEF Row
  <2> QED
    BY <2>3, <2>4, <2>7 DEF Allowed, last, Ledger!Rearranged
<1> QED
  BY <1>3, <1>4

\* A reorder that commits rearranges all the todos it names.
LEMMA CommitRearranges ==
  ASSUME IndInv, NEW r \in Req, Commit(r)
  PROVE  Ledger!Rearrange(r)
<1>1. pc[r] = "commit" /\ todos' = [t \in Id |-> Visible(r, t)]
  BY DEF Commit
<1>2. op[r] = "reorder" /\ ask[r] \in Seq(Item)
  <2>1. op[r] = "reorder"
    BY <1>1 DEF IndInv, Shape, OwnSteps, OwnStep, StepsOf, TypeOK, RequestsTyped, Op, Answer
  <2> QED
    BY <2>1, BoardAssumption DEF IndInv, TypeOK, RequestsTyped, Payloads
<1>3. ASSUME NEW i \in DOMAIN ask[r] PROVE Ledger!Related(user[r], ask[r][i].id)
  <2>1. ask[r][i] \in Item
    BY <1>2
  <2>2. ask[r][i].id \in Id
    BY <2>1 DEF Item
  <2>3. i \in Ledger!ItemsFor(r, ask[r][i].id)
    BY DEF Ledger!ItemsFor
  <2> QED
    BY <1>1, <2>2, <2>3, CommitsItem DEF Ledger!Related
<1>4. ASSUME NEW t \in Id
      PROVE  Visible(r, t) = IF Ledger!ItemsFor(r, t) = {} THEN todos[t]
                             ELSE Ledger!Rearranged(r, t)
  BY <1>1, CommitsItem DEF Visible
<1> QED
  BY <1>1, <1>2, <1>3, <1>4 DEF Ledger!Rearrange

-----------------------------------------------------------------------------
(* The refinement *)

\* Every step of the board is a step of the ledger or none.
LEMMA LedgerStep ==
  ASSUME IndInv, [Next]_vars
  PROVE  [Ledger!Next]_(Ledger!ledger)
<1>1. TypeOK /\ Shape
  BY DEF IndInv
<1>2. ASSUME NEW r \in Req, Request(r) PROVE Ledger!Next
  BY <1>1, <1>2, LedgerRequest DEF Ledger!Next
<1>3. ASSUME NEW r \in Req, Step(r) \/ Abort(r)
      PROVE  Ledger!Next \/ UNCHANGED Ledger!ledger
  <2> USE <1>1
  <2>1. /\ {"append", "insert", "find", "write", "find_row", "erase", "apply", "commit"}
             = Early
        /\ Running = Early \cup {"notify"} /\ Done(r) \in {"notify", "ok"}
    BY DEF Early, Running, Done
  <2>2. pc \in [Req -> {"idle"} \cup Running \cup Answer]
    BY DEF TypeOK
  <2>3. CASE Ledger!Effect(r) /\ pc[r] \in Early /\ pc'[r] \in {"notify", "ok", "failed"}
    BY <1>3, <2>3, LedgerTake DEF Ledger!Next
  <2>4. CASE UNCHANGED todos /\ pc[r] \in Early /\ pc'[r] \in {"denied", "failed"}
    BY <1>3, <2>4, LedgerRefuse DEF Ledger!Next
  <2>5. CASE UNCHANGED todos /\ pc[r] \in Early /\ pc'[r] \in Early
    BY <1>3, <2>5, LedgerQuiet
  <2>6. CASE UNCHANGED todos /\ pc[r] = "notify" /\ pc'[r] \in {"ok", "failed"}
    BY <1>3, <2>6, LedgerAnswer DEF Ledger!Next
  <2>7. CASE InsertTodo(r)
    BY <2>1, <2>2, <2>3, <2>7, InsertAdds DEF InsertTodo, Go, Ledger!Effect
  <2>8. CASE WriteTodo(r)
    <3>1. CASE Allowed(user[r], todos[todo[r]])
      <4>1. Ledger!Change(r)
        BY <2>8, <3>1, WriteChanges
      <4> QED
        BY <2>1, <2>2, <2>3, <2>8, <3>1, <4>1 DEF WriteTodo, Go, Ledger!Effect
    <3>2. CASE ~Allowed(user[r], todos[todo[r]])
      BY <2>1, <2>2, <2>4, <2>8, <3>2 DEF WriteTodo, Deny, Go
    <3> QED
      BY <3>1, <3>2
  <2>9. CASE EraseTodo(r)
    <3>1. CASE Allowed(user[r], todos[todo[r]])
      <4>1. Ledger!Remove(r)
        BY <2>9, <3>1, EraseRemoves
      <4> QED
        BY <2>1, <2>2, <2>3, <2>9, <3>1, <4>1 DEF EraseTodo, Go, Ledger!Effect
    <3>2. CASE ~Allowed(user[r], todos[todo[r]])
      BY <2>1, <2>2, <2>4, <2>9, <3>2 DEF EraseTodo, Deny, Go
    <3> QED
      BY <3>1, <3>2
  <2>10. CASE Commit(r)
    <3>1. Ledger!Rearrange(r)
      BY <2>10, CommitRearranges
    <3> QED
      BY <2>1, <2>2, <2>3, <2>10, <3>1 DEF Commit, Go, Ledger!Effect
  <2>11. CASE ReadEnd(r)
    BY <2>1, <2>2, <2>4, <2>5, <2>11 DEF ReadEnd, Go
  <2>12. CASE FindAssignee(r) \/ FindTodo(r) \/ ApplyItem(r)
    BY <2>1, <2>2, <2>4, <2>5, <2>12 DEF FindAssignee, FindTodo, ApplyItem, Deny, Go
  <2>13. CASE Notify(r)
    BY <2>2, <2>6, <2>13 DEF Notify, Go
  <2>14. CASE BreakDeadlock(r) \/ Abort(r)
    <3>1. pc[r] \in Running
      BY <2>14 DEF BreakDeadlock, WaitsFor, Abort, Running
    <3> QED
      BY <2>1, <2>2, <2>4, <2>6, <2>14, <3>1 DEF BreakDeadlock, Abort, Go
  <2> QED
    BY <1>3, <2>7, <2>8, <2>9, <2>10, <2>11, <2>12, <2>13, <2>14 DEF Step
<1>4. CASE UNCHANGED vars
  BY <1>4 DEF vars, request, Progress, Ledger!ledger, Ledger!asked
<1> QED
  BY <1>2, <1>3, <1>4 DEF Next, Finished

\* The todo services implement the ledger: whichever back ends serve them and
\* however their statements interleave, wait, fail or are dropped, every request
\* takes effect at most once, in one step between its arrival and its answer, with
\* the rights of that moment, and as it asks.
THEOREM ImplementsLedger == Spec => LedgerSpec
<1>1. IndInv /\ [Next]_vars => [Ledger!Next]_(Ledger!ledger)
  BY LedgerStep
<1> QED
  BY <1>1, LedgerInit, Inductive, PTL DEF Spec, LedgerSpec, Ledger!Spec
=============================================================================
