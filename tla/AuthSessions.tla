---------------------------- MODULE AuthSessions ----------------------------
(***************************************************************************)
(* The accounts, refresh tokens and reset links under concurrent requests  *)
(* to bun_hono/src/services/authService.ts and to                          *)
(* back-end/src/services/auth_service.rs, which run the same statements in *)
(* the same order and may run on one database.  A request may be to either. *)
(*                                                                         *)
(* Every HTTP request is a process.  Its handler is an async function that *)
(* awaits the database between two statements, so one SQL statement is one *)
(* action, and what a request read stays in its local state (`user') while *)
(* other requests change the tables.  Every statement commits by itself,   *)
(* at READ COMMITTED, but for those of reset_password, which share one     *)
(* transaction: its writes are invisible until `commit', and the rows they *)
(* touch are locked from the statement on (the *Locked predicates).        *)
(*                                                                         *)
(* A refresh token or reset link is a random UUID.  It is named here after *)
(* the request that generated it, which says that no two are equal; the    *)
(* rows that were in the database before the requests of Req are named     *)
(* after requests of Past.                                                 *)
(***************************************************************************)
EXTENDS FiniteSets

CONSTANTS User,        \* e-mail addresses, which identify accounts
          Password,    \* the passwords that pass validate_password_basic
          Req,         \* the requests the clients send
          Past,        \* requests served before the first of Req
          NoUser, NoPassword, NoCred

ASSUME DistinctValues == /\ NoUser \notin User
                         /\ NoPassword \notin Password
                         /\ NoCred \notin Req \cup Past
                         /\ Req \cap Past = {}

VARIABLES
  account,   \* users: the password an account's hash was made from
  owner,     \* refresh_tokens.user_id, kept after the row is deleted
  live,      \* the refresh tokens that have a row
  linkOwner, \* password_resets.user_id, kept after the row is deleted
  links,     \* the reset links that have a row
  used,      \* the reset links whose used_at is set
  pc,        \* the statement a request awaits next, or how it was answered
  op, pass, cred, \* its endpoint and payload
  user,      \* the account it works on: from the payload, or read from a row
  doomed,    \* rows a multi-row DELETE has locked but not yet removed
  before     \* history: the requests answered before this one arrived

tables == <<account, owner, live, linkOwner, links, used>>
payload == <<op, pass, cred>>
vars == <<tables, pc, payload, user, doomed, before>>

Id == Req \cup Past
Op == {"register", "login", "refresh", "logout", "forgot", "reset"}
Answer == {"ok", "denied", "failed"}   \* 2xx, 400 or 401, 500 or cancelled
InTransaction == {"mark_used", "evict", "commit"}
Running == {"insert_user", "find_user", "find_session", "rotate", "mint",
            "drop", "find_email", "clear_links", "clear_wait", "add_link",
            "mail", "find_link", "set_password"} \cup InTransaction

TypeOK ==
  /\ account \in [User -> Password \cup {NoPassword}]
  /\ owner \in [Id -> User \cup {NoUser}] /\ live \subseteq Id
  /\ linkOwner \in [Id -> User \cup {NoUser}]
  /\ links \subseteq Id /\ used \subseteq Id
  /\ pc \in [Req -> {"idle"} \cup Running \cup Answer]
  /\ op \in [Req -> Op \cup {"none"}]
  /\ pass \in [Req -> Password \cup {NoPassword}]
  /\ cred \in [Req -> Id \cup {NoCred}]
  /\ user \in [Req -> User \cup {NoUser}]
  /\ doomed \in [Req -> SUBSET Id]
  /\ before \in [Req -> SUBSET Id]

Answered == {r \in Req : pc[r] \in Answer}
SessionsOf(u) == {t \in live : owner[t] = u}
LinksOf(u) == {k \in links : linkOwner[k] = u}
Redeemable(k) == k \in links /\ k \notin used

-----------------------------------------------------------------------------
(* The row locks of the open reset transactions. *)

AccountLocked(u) == \E q \in Req : user[q] = u /\ pc[q] \in InTransaction
LinkLocked(k) == \E q \in Req : cred[q] = k /\ pc[q] \in {"evict", "commit"}
SessionLocked(t) == \E q \in Req : pc[q] = "commit" /\ t \in doomed[q]

-----------------------------------------------------------------------------
(* The database already holds rows of Past requests when the server starts. *)

Init ==
  /\ account \in [User -> Password \cup {NoPassword}]
  /\ owner \in [Id -> User \cup {NoUser}]
  /\ linkOwner \in [Id -> User \cup {NoUser}]
  /\ \A i \in Id : \A u \in {owner[i], linkOwner[i]} \ {NoUser} :
        i \in Past /\ account[u] # NoPassword
  /\ live \in SUBSET {t \in Past : owner[t] # NoUser}
  /\ links \in SUBSET {k \in Past : linkOwner[k] # NoUser}
  /\ used \in SUBSET links
  /\ pc = [r \in Req |-> "idle"]
  /\ op = [r \in Req |-> "none"]
  /\ pass = [r \in Req |-> NoPassword]
  /\ cred = [r \in Req |-> NoCred]
  /\ user = [r \in Req |-> NoUser]
  /\ doomed = [r \in Req |-> {}]
  /\ before = [r \in Req |-> {}]

Arrive(r, o, u, p, c, first) ==
  /\ pc[r] = "idle"
  /\ pc' = [pc EXCEPT ![r] = first]
  /\ op' = [op EXCEPT ![r] = o]
  /\ user' = [user EXCEPT ![r] = u]
  /\ pass' = [pass EXCEPT ![r] = p]
  /\ cred' = [cred EXCEPT ![r] = c]
  /\ before' = [before EXCEPT ![r] = Past \cup Answered]
  /\ UNCHANGED <<tables, doomed>>

Go(r, next) == /\ pc' = [pc EXCEPT ![r] = next]
               /\ UNCHANGED <<payload, before>>

Deny(r) == Go(r, "denied") /\ UNCHANGED <<tables, user, doomed>>

-----------------------------------------------------------------------------
(* Requests.  A payload that fails validation is answered before the first *)
(* statement and is left out.  A client presents a credential it was given *)
(* at some time, spent or not.                                             *)

Register(r) == \E u \in User, p \in Password :
                  Arrive(r, "register", u, p, NoCred, "insert_user")
Login(r) == \E u \in User, p \in Password :
               Arrive(r, "login", u, p, NoCred, "find_user")
Refresh(r) == \E t \in Id :
                 /\ owner[t] # NoUser
                 /\ Arrive(r, "refresh", NoUser, NoPassword, t, "find_session")
Logout(r) == \E t \in Id :
                /\ owner[t] # NoUser
                /\ Arrive(r, "logout", NoUser, NoPassword, t, "drop")
ForgotPassword(r) == \E u \in User :
                        Arrive(r, "forgot", u, NoPassword, NoCred, "find_email")
ResetPassword(r) == \E k \in Id, p \in Password :
                       /\ linkOwner[k] # NoUser
                       /\ Arrive(r, "reset", NoUser, p, k, "find_link")

-----------------------------------------------------------------------------
(* register, login, refresh and logout *)

\* Mutant: ON CONFLICT (email) DO UPDATE.
InsertUserUpsert(r) ==
  /\ pc[r] = "insert_user"
  /\ account' = [account EXCEPT ![user[r]] = pass[r]]
  /\ Go(r, "mint")
  /\ UNCHANGED <<owner, live, linkOwner, links, used, user, doomed>>

InsertUser(r) ==
  /\ pc[r] = "insert_user"
  /\ \/ /\ account[user[r]] = NoPassword
        /\ account' = [account EXCEPT ![user[r]] = pass[r]]
        /\ Go(r, "mint")
        /\ UNCHANGED <<owner, live, linkOwner, links, used, user, doomed>>
     \/ account[user[r]] # NoPassword /\ Deny(r)  \* users_email_key

\* Mutant: the outcome of verify_password is not looked at.
FindUserUnchecked(r) ==
  /\ pc[r] = "find_user"
  /\ \/ /\ account[user[r]] # NoPassword
        /\ Go(r, "mint") /\ UNCHANGED <<tables, user, doomed>>
     \/ account[user[r]] = NoPassword /\ Deny(r)

FindUser(r) ==
  /\ pc[r] = "find_user"
  /\ \/ /\ account[user[r]] = pass[r]
        /\ Go(r, "mint") /\ UNCHANGED <<tables, user, doomed>>
     \/ account[user[r]] # pass[r] /\ Deny(r)

\* The clock is not modelled: a row that is found may have expired or not.
FindSession(r) ==
  /\ pc[r] = "find_session"
  /\ \/ /\ cred[r] \in live
        /\ user' = [user EXCEPT ![r] = owner[cred[r]]]
        /\ Go(r, "rotate") /\ UNCHANGED <<tables, doomed>>
     \/ Deny(r)

\* Mutant: the token that was presented keeps its row.
RotateKeeps(r) == /\ pc[r] = "rotate"
                  /\ Go(r, "mint") /\ UNCHANGED <<tables, user, doomed>>

\* The number of rows deleted is not looked at.
Rotate(r) ==
  /\ pc[r] = "rotate"
  /\ ~SessionLocked(cred[r])
  /\ live' = live \ {cred[r]}
  /\ Go(r, "mint")
  /\ UNCHANGED <<account, owner, linkOwner, links, used, user, doomed>>

\* Mutant: the row is stored under the token of the payload.
MintPresented(r) ==
  /\ pc[r] = "mint"
  /\ owner' = [owner EXCEPT ![r] = user[r]]
  /\ live' = live \cup {cred[r]}
  /\ Go(r, "ok")
  /\ UNCHANGED <<account, linkOwner, links, used, user, doomed>>

\* createTokens.  As with every statement that is a handler's last, the server
\* may have committed it although the handler sees an error or is cancelled.
\* (Rust selects the user's role first.  No endpoint deletes a user, so it is
\* found: the select is no step of its own.)
Mint(r) ==
  /\ pc[r] = "mint"
  /\ owner' = [owner EXCEPT ![r] = user[r]]
  /\ live' = live \cup {r}
  /\ \E answer \in {"ok", "failed"} : Go(r, answer)
  /\ UNCHANGED <<account, linkOwner, links, used, user, doomed>>

\* Mutant: DELETE ... WHERE user_id instead of WHERE token.
DropAll(r) ==
  /\ pc[r] = "drop"
  /\ live' = live \ SessionsOf(owner[cred[r]])
  /\ Go(r, "ok")
  /\ UNCHANGED <<account, owner, linkOwner, links, used, user, doomed>>

Drop(r) ==
  /\ pc[r] = "drop"
  /\ ~SessionLocked(cred[r])
  /\ \/ /\ cred[r] \in live
        /\ live' = live \ {cred[r]}
        /\ \E answer \in {"ok", "failed"} : Go(r, answer)
        /\ UNCHANGED <<account, owner, linkOwner, links, used, user, doomed>>
     \/ cred[r] \notin live /\ Deny(r)

-----------------------------------------------------------------------------
(* forgot_password *)

FindEmail(r) ==
  /\ pc[r] = "find_email"
  /\ Go(r, IF account[user[r]] = NoPassword THEN "ok" ELSE "clear_links")
  /\ UNCHANGED <<tables, user, doomed>>

\* Mutant: the older links are not deleted.
KeepLinks(r) == /\ pc[r] = "clear_links"
                /\ Go(r, "add_link") /\ UNCHANGED <<tables, user, doomed>>

\* The DELETE sees the rows that are there when it starts.  If one of them is
\* locked it waits, and does not see the rows added meanwhile.
ClearLinks(r) ==
  /\ pc[r] = "clear_links"
  /\ \/ /\ \A k \in LinksOf(user[r]) : ~LinkLocked(k)
        /\ links' = links \ LinksOf(user[r])
        /\ Go(r, "add_link")
        /\ UNCHANGED <<account, owner, live, linkOwner, used, user, doomed>>
     \/ /\ \E k \in LinksOf(user[r]) : LinkLocked(k)
        /\ doomed' = [doomed EXCEPT ![r] = LinksOf(user[r])]
        /\ Go(r, "clear_wait") /\ UNCHANGED <<tables, user>>

ClearWait(r) ==
  /\ pc[r] = "clear_wait"
  /\ \A k \in doomed[r] \cap links : ~LinkLocked(k)
  /\ links' = links \ doomed[r]
  /\ doomed' = [doomed EXCEPT ![r] = {}]
  /\ Go(r, "add_link")
  /\ UNCHANGED <<account, owner, live, linkOwner, used, user>>

AddLink(r) ==
  /\ pc[r] = "add_link"
  /\ linkOwner' = [linkOwner EXCEPT ![r] = user[r]]
  /\ links' = links \cup {r}
  /\ Go(r, "mail")
  /\ UNCHANGED <<account, owner, live, used, user, doomed>>

SendMail(r) == /\ pc[r] = "mail"
               /\ Go(r, "ok") /\ UNCHANGED <<tables, user, doomed>>

-----------------------------------------------------------------------------
(* reset_password: one transaction *)

FindLink(r) ==
  /\ pc[r] = "find_link"
  /\ \/ /\ Redeemable(cred[r])
        /\ user' = [user EXCEPT ![r] = linkOwner[cred[r]]]
        /\ Go(r, "set_password") /\ UNCHANGED <<tables, doomed>>
     \/ Deny(r)

\* Mutant: the UPDATE goes to the pool and not to the transaction.
SetPasswordAtOnce(r) ==
  /\ pc[r] = "set_password"
  /\ account' = [account EXCEPT ![user[r]] = pass[r]]
  /\ Go(r, "mark_used")
  /\ UNCHANGED <<owner, live, linkOwner, links, used, user, doomed>>

\* Mutant: the row of the account was selected FOR SHARE before.
SetPasswordShared(r) ==
  /\ pc[r] = "set_password"
  /\ \A q \in Req \ {r} : user[q] = user[r] =>
        pc[q] \notin InTransaction \cup {"set_password"}
  /\ Go(r, "mark_used") /\ UNCHANGED <<tables, user, doomed>>

SetPassword(r) ==
  /\ pc[r] = "set_password"
  /\ ~AccountLocked(user[r])
  /\ Go(r, "mark_used") /\ UNCHANGED <<tables, user, doomed>>

MarkUsed(r) == /\ pc[r] = "mark_used"
               /\ Go(r, "evict") /\ UNCHANGED <<tables, user, doomed>>

\* Mutant: DELETE FROM refresh_tokens by the id of the link instead of user_id.
EvictPresented(r) ==
  /\ pc[r] = "evict"
  /\ doomed' = [doomed EXCEPT ![r] = SessionsOf(user[r]) \cap {cred[r]}]
  /\ Go(r, "commit") /\ UNCHANGED <<tables, user>>

Evict(r) ==
  /\ pc[r] = "evict"
  /\ doomed' = [doomed EXCEPT ![r] = SessionsOf(user[r])]
  /\ Go(r, "commit") /\ UNCHANGED <<tables, user>>

\* The buffered writes take effect.
Commit(r) ==
  /\ pc[r] = "commit"
  /\ account' = [account EXCEPT ![user[r]] = pass[r]]
  /\ used' = used \cup ({cred[r]} \cap links)
  /\ live' = live \ doomed[r]
  /\ doomed' = [doomed EXCEPT ![r] = {}]
  /\ \E answer \in {"ok", "failed"} : Go(r, answer)
  /\ UNCHANGED <<owner, linkOwner, links, user>>

-----------------------------------------------------------------------------
\* A statement or the mail fails, the process ends, or, in Rust, the client
\* disconnects and the handler is dropped at its await: what has committed stays,
\* an open transaction is rolled back.
Abort(r) ==
  /\ pc[r] \in Running
  /\ doomed' = [doomed EXCEPT ![r] = {}]
  /\ Go(r, "failed") /\ UNCHANGED <<tables, user>>

Request(r) == \/ Register(r) \/ Login(r) \/ Refresh(r) \/ Logout(r)
              \/ ForgotPassword(r) \/ ResetPassword(r)

Step(r) ==
  \/ InsertUser(r) \/ FindUser(r) \/ FindSession(r) \/ Rotate(r) \/ Mint(r)
  \/ Drop(r) \/ FindEmail(r) \/ ClearLinks(r) \/ ClearWait(r) \/ AddLink(r)
  \/ SendMail(r) \/ FindLink(r) \/ SetPassword(r) \/ MarkUsed(r) \/ Evict(r)
  \/ Commit(r)

\* Every request has been answered and no client sends another.
Finished == Answered = Req /\ UNCHANGED vars

Next == \/ \E r \in Req : Request(r) \/ Step(r) \/ Abort(r)
        \/ Finished

Spec == Init /\ [][Next]_vars

\* The runtime polls a ready handler and the database grants a free lock.
Fairness == \A r \in Req : WF_vars(Step(r))

FairSpec == Spec /\ Fairness
-----------------------------------------------------------------------------
(* What clients may rely on.  r \in before[q] says that r had been answered *)
(* when q arrived; two requests neither of which is before the other        *)
(* overlap.                                                                 *)

\* A refresh token or a reset link works once: of two successful requests that
\* present it, neither was answered before the other arrived.  (Refreshes that
\* overlap can both succeed: the row is read before it is deleted.)
SingleUse ==
  \A r, q \in Req :
    /\ pc[r] = "ok" /\ pc[q] = "ok"
    /\ {op[r], op[q]} \subseteq {"refresh", "logout"} \/ {op[r], op[q]} = {"reset"}
    /\ cred[r] = cred[q]
    => r \notin before[q]

\* A reset ends the sessions of its account: once it has succeeded, no session
\* whose login, registration or refresh was answered before it arrived is left.
ResetEvicts ==
  \A r \in Req : op[r] = "reset" /\ pc[r] = "ok" =>
    SessionsOf(user[r]) \cap before[r] = {}

\* A reset replaces the password: a login that arrives after the reset r was
\* answered succeeds with the password of r, or of a reset that was not
\* answered before r arrived.
OldPasswordRefused ==
  \A r, q \in Req :
    /\ op[r] = "reset" /\ pc[r] = "ok"
    /\ op[q] = "login" /\ pc[q] = "ok" /\ user[q] = user[r]
    /\ r \in before[q]
    => \E s \in Req : /\ op[s] = "reset" /\ pc[s] \in {"ok", "failed"}
                     /\ user[s] = user[q] /\ pass[s] = pass[q]
                     /\ s \notin before[r]

\* A new reset link replaces the old ones: of two links of an account that
\* still have a row, neither request was answered before the other arrived.
ForgotSupersedes ==
  \A k \in links, l \in links \cap Req :
    linkOwner[k] = linkOwner[l] => k \notin before[l]

\* Nobody else ends a session: a token that was issued and is gone was itself
\* presented to a refresh or a logout that went as far as its DELETE, or a
\* reset of its account committed.
EvictionHasCause ==
  \A t \in Req \ live : owner[t] # NoUser =>
    \E q \in Req :
      \/ /\ op[q] \in {"refresh", "logout"} /\ cred[q] = t
         /\ pc[q] \in {"mint", "ok", "failed"}
      \/ /\ op[q] = "reset" /\ user[q] = owner[t]
         /\ pc[q] \in {"ok", "failed"}

\* A stored password changes only together with the rest of its reset: in the
\* step that replaces it the link that was presented stops working and every
\* session that was there when the transaction evicted them is gone.
ResetAllOrNothing ==
  [][\A u \in User : account[u] \notin {NoPassword, account'[u]} =>
       \E r \in Req : /\ op[r] = "reset" /\ user[r] = u
                      /\ ~Redeemable(cred[r])'
                      /\ live' \cap doomed[r] = {} /\ doomed'[r] = {}]_vars

\* No request waits for ever, whatever locks the open transactions hold.
EveryRequestAnswered ==
  \A r \in Req : pc[r] # "idle" ~> pc[r] \in Answer

\* The tables change only as CredentialLedger says, whatever the requests do.
Ledger == INSTANCE CredentialLedger
            WITH Id <- Id, account <- account, owner <- owner, live <- live,
                 linkOwner <- linkOwner, links <- links, used <- used
LedgerSpec == Ledger!Spec
=============================================================================
