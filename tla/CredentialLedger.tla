-------------------------- MODULE CredentialLedger --------------------------
(***************************************************************************)
(* What the authentication services promise about their tables, without    *)
(* their requests: accounts, refresh tokens and reset links change by six  *)
(* kinds of step, each of them atomic.                                     *)
(*                                                                         *)
(*   - a token or a link is issued once, to an account that exists;        *)
(*   - a token that was revoked, a link that was withdrawn or used, never  *)
(*     works again;                                                        *)
(*   - a password is replaced in the step that spends a link of the        *)
(*     account and revokes sessions of the account, and in no other.       *)
(***************************************************************************)
CONSTANTS User, Password, Id, NoUser, NoPassword

VARIABLES account, owner, live, linkOwner, links, used

ledger == <<account, owner, live, linkOwner, links, used>>

HasAccount(u) == account[u] # NoPassword

Init ==
  /\ account \in [User -> Password \cup {NoPassword}]
  /\ owner \in [Id -> User \cup {NoUser}]
  /\ linkOwner \in [Id -> User \cup {NoUser}]
  /\ \A i \in Id : /\ owner[i] # NoUser => HasAccount(owner[i])
                   /\ linkOwner[i] # NoUser => HasAccount(linkOwner[i])
  /\ live \subseteq {t \in Id : owner[t] # NoUser}
  /\ links \subseteq {k \in Id : linkOwner[k] # NoUser}
  /\ used \subseteq {k \in Id : linkOwner[k] # NoUser}

OpenAccount(u, p) ==
  /\ ~HasAccount(u)
  /\ account' = [account EXCEPT ![u] = p]
  /\ UNCHANGED <<owner, live, linkOwner, links, used>>

Grant(u, t) ==
  /\ HasAccount(u) /\ owner[t] = NoUser
  /\ owner' = [owner EXCEPT ![t] = u]
  /\ live' = live \cup {t}
  /\ UNCHANGED <<account, linkOwner, links, used>>

Revoke(t) ==
  /\ live' = live \ {t}
  /\ UNCHANGED <<account, owner, linkOwner, links, used>>

SendLink(u, k) ==
  /\ HasAccount(u) /\ linkOwner[k] = NoUser
  /\ linkOwner' = [linkOwner EXCEPT ![k] = u]
  /\ links' = links \cup {k}
  /\ UNCHANGED <<account, owner, live, used>>

Withdraw(u) ==
  /\ \E K \in SUBSET {k \in Id : linkOwner[k] = u} : links' = links \ K
  /\ UNCHANGED <<account, owner, live, linkOwner, used>>

Recover(u, p, k) ==
  /\ linkOwner[k] = u
  /\ account' = [account EXCEPT ![u] = p]
  /\ used' = used \cup ({k} \cap links)
  /\ \E S \in SUBSET {t \in Id : owner[t] = u} : live' = live \ S
  /\ UNCHANGED <<owner, linkOwner, links>>

Next ==
  \/ \E u \in User, p \in Password :
        OpenAccount(u, p) \/ \E k \in Id : Recover(u, p, k)
  \/ \E u \in User, i \in Id : Grant(u, i) \/ SendLink(u, i)
  \/ \E t \in Id : Revoke(t)
  \/ \E u \in User : Withdraw(u)

Spec == Init /\ [][Next]_ledger
=============================================================================
