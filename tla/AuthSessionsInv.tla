-------------------------- MODULE AuthSessionsInv ---------------------------
(***************************************************************************)
(* The inductive invariant of AuthSessions.  The promises to the clients   *)
(* speak of answered requests and of the tables; what makes them inductive *)
(* is what a request still on its way has read, deleted or locked.         *)
(***************************************************************************)
EXTENDS AuthSessions

Minting == {"register", "login", "refresh"}
Redeeming == {"set_password", "mark_used", "evict", "commit"}

\* The statements a handler can await belong to its endpoint.
StepsOf(o) ==
  CASE o = "register" -> {"insert_user", "mint"}
    [] o = "login" -> {"find_user", "mint"}
    [] o = "refresh" -> {"find_session", "rotate", "mint"}
    [] o = "logout" -> {"drop"}
    [] o = "forgot" -> {"find_email", "clear_links", "clear_wait", "add_link", "mail"}
    [] o = "reset" -> {"find_link"} \cup Redeeming
    [] OTHER -> {"idle"}

OwnSteps == \A r \in Req :
  /\ pc[r] \in StepsOf(op[r]) \cup Answer
  /\ op[r] = "none" => pc[r] = "idle"

\* Every row belongs to an account; a UUID names a row only once the request
\* that generated it has inserted it, and only rows that were there are presented.
RowsHaveAccounts ==
  /\ \A i \in Id : /\ owner[i] # NoUser => account[owner[i]] # NoPassword
                   /\ linkOwner[i] # NoUser => account[linkOwner[i]] # NoPassword
  /\ \A t \in live : owner[t] # NoUser
  /\ \A k \in links \cup used : linkOwner[k] # NoUser

FreshIds == \A r \in Req :
  /\ owner[r] # NoUser => op[r] \in Minting /\ pc[r] \in {"ok", "failed"}
  /\ linkOwner[r] # NoUser => op[r] = "forgot" /\ pc[r] \in {"mail", "ok", "failed"}
  /\ op[r] \in {"refresh", "logout"} => cred[r] \in Id /\ owner[cred[r]] # NoUser
  /\ op[r] = "reset" => cred[r] \in Id /\ linkOwner[cred[r]] # NoUser

\* The account a request acts for exists, and is that of its credential.
ActsForAccount == \A r \in Req :
  /\ pc[r] \in {"insert_user", "find_user", "find_email"} => user[r] \in User
  /\ pc[r] \in {"insert_user", "find_user"} => pass[r] # NoPassword
  /\ pc[r] \in {"mint", "clear_links", "clear_wait", "add_link"} =>
        user[r] \in User /\ account[user[r]] # NoPassword
  /\ pc[r] = "rotate" => user[r] = owner[cred[r]]
  /\ op[r] = "reset" => pass[r] # NoPassword
  /\ op[r] = "reset" /\ pc[r] \in Redeeming \cup {"ok"} =>
        user[r] = linkOwner[cred[r]]

DoomedIsOwn == \A r \in Req :
  /\ pc[r] \notin {"commit", "clear_wait"} => doomed[r] = {}
  /\ pc[r] = "commit" => \A t \in doomed[r] : owner[t] = user[r]
  /\ pc[r] = "clear_wait" => \A k \in doomed[r] : linkOwner[k] = user[r]

BeforeIsAnswered == \A r \in Req :
  /\ before[r] \subseteq Past \cup Answered
  /\ r \notin before[r]

Shape == /\ OwnSteps /\ RowsHaveAccounts /\ FreshIds /\ ActsForAccount
         /\ DoomedIsOwn /\ BeforeIsAnswered

\* A credential is spent when its request succeeds, and a request that arrived
\* later has not got past reading it.
Spent ==
  /\ \A r \in Req : op[r] = "refresh" /\ pc[r] \in {"mint", "ok"} => cred[r] \notin live
  /\ \A r \in Req : op[r] = "logout" /\ pc[r] = "ok" => cred[r] \notin live
  /\ \A r \in Req : op[r] = "reset" /\ pc[r] = "ok" => ~Redeemable(cred[r])
  /\ \A r, q \in Req :
       r \in before[q] /\ pc[r] = "ok" /\ cred[r] = cred[q] =>
         /\ op[r] \in {"refresh", "logout"} /\ op[q] \in {"refresh", "logout"} =>
              pc[q] \in {"find_session", "drop", "denied", "failed"}
         /\ op[r] = "reset" /\ op[q] = "reset" =>
              pc[q] \in {"find_link", "denied", "failed"}

\* The transaction about to commit has seen every session older than itself.
Evicted ==
  /\ \A r \in Req : pc[r] = "commit" =>
       SessionsOf(user[r]) \cap before[r] \subseteq doomed[r]
  /\ ResetEvicts

\* s is a reset of the account of r, not answered before r arrived.
NotOlder(s, r) == /\ op[s] = "reset" /\ pc[s] \in {"ok", "failed"}
                  /\ user[s] = user[r] /\ s \notin before[r]

PasswordIsCurrent == \A r \in Req : op[r] = "reset" /\ pc[r] = "ok" =>
  /\ \E s \in Req : NotOlder(s, r) /\ pass[s] = account[user[r]]
  /\ \A q \in Req :
       /\ r \in before[q] /\ op[q] = "login" /\ pc[q] \in {"mint", "ok"}
       /\ user[q] = user[r]
       => \E s \in Req : NotOlder(s, r) /\ pass[s] = pass[q]

\* What a forgot_password has cleared, or waits to clear.
LinksSuperseded ==
  /\ \A r \in Req : pc[r] = "clear_wait" =>
       LinksOf(user[r]) \cap before[r] \subseteq doomed[r]
  /\ \A r \in Req : pc[r] = "add_link" => LinksOf(user[r]) \cap before[r] = {}
  /\ ForgotSupersedes

IndInv == /\ TypeOK /\ Shape /\ Spent /\ Evicted /\ PasswordIsCurrent
          /\ LinksSuperseded /\ EvictionHasCause
=============================================================================
