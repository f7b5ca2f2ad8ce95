----------------------------- MODULE TodoBoardInv -----------------------------
(***************************************************************************)
(* The inductive invariant of TodoBoard: what a request on its way knows   *)
(* of the rows it is about to write.                                       *)
(***************************************************************************)
EXTENDS TodoBoard

\* The statements that belong to an endpoint.
StepsOf(o) == CASE o = "create" -> {"append", "insert", "notify"}
                [] o = "update" -> {"find", "append", "write", "notify"}
                [] o = "delete" -> {"find_row", "erase", "notify"}
                [] o = "reorder" -> {"apply", "commit", "notify"}
                [] OTHER -> {"idle"}

OwnStep(r) ==
  /\ pc[r] \in StepsOf(op[r]) \cup Answer
  /\ op[r] # None => via[r] \in Backend /\ user[r] \in User
  /\ pc[r] \in Answer => op[r] # None
  /\ pc[r] = "notify" => via[r] # "bun"
OwnSteps == \A r \in Req : OwnStep(r)

\* What the endpoints have looked up or checked before their next statement.
KnownBy(r) ==
  /\ op[r] = "create" => todo[r] = r /\ ask[r].status \in TODO_STATUSES(via[r])
  /\ op[r] \in {"update", "delete"} => todo[r] \in Id
  /\ op[r] = "update" /\ pc[r] \in {"append", "write"} =>
        /\ seen[r] # None
        /\ ask[r].status # None => Accepts(r, ask[r].status)
        /\ pc[r] = "append" => Appends(r)
        /\ pc[r] = "write" /\ Appends(r) => place[r] # None
        /\ pc[r] = "write" /\ ~Appends(r) => place[r] = ask[r].position
  /\ pc[r] = "insert" => place[r] # None
  /\ op[r] = "delete" /\ pc[r] = "erase" /\ via[r] # "bun" => seen[r] # None
  /\ op[r] # "reorder" /\ pc[r] = "notify" => seen[r] # None
  /\ pc[r] = "idle" => at[r] = 1
  /\ pc[r] = "apply" => at[r] \in DOMAIN ask[r]
  /\ pc[r] = "commit" => at[r] = Len(ask[r]) + 1
Known == \A r \in Req : KnownBy(r)

\* A todo is not in the table before its own request has inserted it.
FreshIsAbsent == \A r \in Req :
  pc[r] \in {"idle", "append", "insert"} /\ op[r] \in {"create", None} =>
    todos[r] = None

\* The row that r has updated for its item i is what the item makes of it, unless
\* a later item was for the same todo.
HasApplied(r, i) ==
  \/ \E j \in DOMAIN ask[r] : j > i /\ j < at[r] /\ ask[r][j].id = ask[r][i].id
  \/ /\ draft[r][ask[r][i].id] # None
     /\ draft[r][ask[r][i].id] = Reordered(r, draft[r][ask[r][i].id], ask[r][i])

\* The rows of an open reorder were its user's to write, have a status and a flag
\* that agree, are those its items so far name, and are what these have made of
\* them.
AppliedBy(r) ==
  /\ pc[r] = "idle" => \A t \in Id : draft[r][t] = None
  /\ \A t \in Id : pc[r] \in {"apply", "commit"} /\ draft[r][t] # None =>
        /\ Allowed(user[r], draft[r][t])
        /\ draft[r][t].completed = (draft[r][t].status \in Closed("rust"))
        /\ \E i \in DOMAIN ask[r] : i < at[r] /\ ask[r][i].id = t
  /\ pc[r] \in {"apply", "commit"} =>
        \A i \in DOMAIN ask[r] : i < at[r] => HasApplied(r, i)
DraftIsApplied == \A r \in Req : AppliedBy(r)

BeforeIsAnswered == \A r \in Req : /\ before[r] \cap Req \subseteq Answered
                                   /\ r \notin before[r]

\* r is about to put a row at the end of a column.
Placing(r) == \/ op[r] = "create" /\ pc[r] = "insert"
              \/ op[r] = "update" /\ pc[r] = "write" /\ Appends(r)

\* The place a request computed lies after what was appended to the column by
\* requests that were over when it arrived.
PlaceIsAfter == \A r \in Req : Placing(r) =>
  \A t \in Column(Owner(r), Target(r)) :
    placedBy[t] \in before[r] => todos[t].position < place[r]

PlacedHasRun == \A t \in Id : placedBy[t] # None => pc[placedBy[t]] # "idle"

Shape == OwnSteps /\ Known /\ FreshIsAbsent /\ BeforeIsAnswered /\ PlacedHasRun
IndInv == /\ TypeOK /\ Shape /\ DraftIsCurrent /\ DraftIsApplied
          /\ CompletedFollowsStatus /\ PlaceIsAfter /\ SharedPositionNeedsOverlap
=============================================================================
