-------------------------- MODULE ClientSessionProofs --------------------------
(* Theorems of ClientSession for any users, tabs, calls and bounds.  The        *)
(* invariant of ClientSessionInv is shown to be inductive, one lemma per        *)
(* action, and the properties follow from it.                                   *)
EXTENDS ClientSessionInv, FiniteSetTheorems, TLAPS

\* What the assumption says of None, and of the names of fetches.
LEMMA Names ==
  /\ None \notin Session /\ None \notin User /\ None \notin Call
  /\ Call \subseteq Fetch /\ 0 \in Own
  /\ \A t \in Tab, k \in Own : <<t, k>> \in Fetch \ Call
  /\ \A f \in Fetch : f \in Call \/ \E t \in Tab, k \in Own : f = <<t, k>>
<1>1. Session \subseteq Nat
  <2>1. Cardinality(Call) \in Nat
    BY ClientAssumption, FS_CardinalityType DEF ClientAssumption
  <2> QED BY <2>1, ClientAssumption DEF ClientAssumption, Session
<1>2. None \notin Session /\ None \notin User /\ None \notin Call
  BY <1>1, ClientAssumption DEF ClientAssumption
<1>3. \A t \in Tab, k \in Own : <<t, k>> \notin Call
  BY ClientAssumption DEF ClientAssumption
<1>4. 0 \in Own
  BY ClientAssumption DEF ClientAssumption, Own
<1> QED BY <1>2, <1>3, <1>4 DEF Fetch

-----------------------------------------------------------------------------
(* Types *)

\* An answer is an exchange.
LEMMA ReplyType ==
  ASSUME TypeOK, NEW f \in Fetch, NEW a \in {"ok", "denied", "failed"},
         NEW s \in Session \cup {None}, Reply(f, a, s)
  PROVE  /\ net' \in [Fetch -> Exchange]
         /\ UNCHANGED <<jar, page, call, pages, forms>>
<1>1. net[f] \in Exchange
  BY DEF TypeOK
<1>2. [net[f] EXCEPT !.at = "back", !.answer = a, !.got = s] \in Exchange
  BY <1>1 DEF Exchange
<1>3. net' = [net EXCEPT ![f] = [net[f] EXCEPT !.at = "back", !.answer = a, !.got = s]]
  BY DEF Reply
<1> QED BY <1>2, <1>3 DEF TypeOK, Reply

\* A fault is counted within its bound.
LEMMA FaultType ==
  ASSUME TypeOK, NEW b \in BOOLEAN, Fault(b)
  PROVE  faults' \in 0..MaxFaults
BY ClientAssumption DEF ClientAssumption, TypeOK, Fault

\* What is sent, and nothing, are exchanges.
LEMMA SentType ==
  ASSUME NEW p \in {"data", "refresh", "login", "logout"},
         NEW c \in Session \cup {None}, NEW u \in User \cup {None}
  PROVE  Sent(p, c, u) \in Exchange /\ Silent \in Exchange
BY DEF Sent, Silent, Exchange

\* The server keeps the types.
LEMMA ServeType ==
  ASSUME IndInv, NEW f \in Fetch, Serve(f)
  PROVE  TypeOK'
<1> USE Names
<1>0. TypeOK
  BY DEF IndInv
<1>1. CASE ServeData(f)
  <2>1. took' \in [Call -> Nat]
    <3>1. CASE UNCHANGED took
      BY <1>0, <3>1 DEF TypeOK
    <3>2. CASE took' = [took EXCEPT ![f] = @ + 1]
      <4>1. CASE f \in Call
        BY <1>0, <3>2, <4>1 DEF TypeOK
      <4>2. CASE f \notin Call
        BY <1>0, <3>2, <4>2 DEF TypeOK
      <4> QED BY <4>1, <4>2
    <3> QED BY <1>1, <3>1, <3>2 DEF ServeData
  <2>2. net' \in [Fetch -> Exchange] /\ faults' \in 0..MaxFaults
        /\ UNCHANGED <<jar, page, call, pages, forms>>
    BY <1>0, <1>1, ReplyType, FaultType DEF ServeData
  <2> QED BY <1>0, <1>1, <2>1, <2>2 DEF ServeData, TypeOK, page, call
<1>2. CASE ServeLogin(f)
  <2>1. net' \in [Fetch -> Exchange] /\ faults' \in 0..MaxFaults
        /\ UNCHANGED <<jar, page, call, pages, forms, took, ended>>
    BY <1>0, <1>2, ReplyType, FaultType DEF ServeLogin, Unissued, server
  <2>2. /\ owner' \in [Session -> User \cup {None}]
        /\ live' \subseteq {s \in Session : owner'[s] # None}
    <3>1. net[f].user \in User \cup {None}
      BY <1>0 DEF TypeOK, Exchange
    <3>2. net[f].user # None
      BY <1>2 DEF ServeLogin, IndInv, FetchFits
    <3>3. CASE UNCHANGED <<owner, live>>
      BY <1>0, <3>3 DEF TypeOK
    <3>4. ASSUME NEW s \in Unissued, Issue(s, net[f].user), live' = live \cup {s}
          PROVE  /\ owner' \in [Session -> User \cup {None}]
                 /\ live' \subseteq {r \in Session : owner'[r] # None}
      BY <1>0, <3>1, <3>2, <3>4 DEF Unissued, Issue, TypeOK
    <3> QED BY <1>2, <3>3, <3>4 DEF ServeLogin, server
  <2> QED BY <1>0, <2>1, <2>2 DEF TypeOK, page, call
<1>3. CASE FindSession(f)
  <2>1. net' \in [Fetch -> Exchange] /\ faults' \in 0..MaxFaults
        /\ UNCHANGED <<jar, page, call, pages, forms>>
    <3>1. CASE net' = [net EXCEPT ![f].at = "found"] /\ UNCHANGED <<jar, page, call, count>>
      <4>1. [net[f] EXCEPT !.at = "found"] \in Exchange
        <5>1. net[f] \in Exchange
          BY <1>0 DEF TypeOK
        <5> QED BY <5>1 DEF Exchange
      <4>2. net' = [net EXCEPT ![f] = [net[f] EXCEPT !.at = "found"]]
        BY <3>1
      <4> QED BY <1>0, <3>1, <4>1, <4>2 DEF TypeOK, count
    <3> QED BY <1>0, <1>3, <3>1, ReplyType, FaultType DEF FindSession
  <2> QED BY <1>0, <1>3, <2>1 DEF FindSession, TypeOK, page, call, server
<1>4. CASE Rotate(f)
  <2>1. net' \in [Fetch -> Exchange] /\ faults' \in 0..MaxFaults
        /\ UNCHANGED <<jar, page, call, pages, forms, took, ended>>
    BY <1>0, <1>4, ReplyType, FaultType DEF Rotate, Unissued
  <2>2. /\ owner' \in [Session -> User \cup {None}]
        /\ live' \subseteq {s \in Session : owner'[s] # None}
    <3> DEFINE c == net[f].cred
    <3>1. owner[c] \in User /\ owner[c] # None
      BY <1>4 DEF Rotate, IndInv, FetchFits, Issued, TypeOK
    <3>2. ASSUME live' \subseteq live, UNCHANGED owner
          PROVE  /\ owner' \in [Session -> User \cup {None}]
                 /\ live' \subseteq {r \in Session : owner'[r] # None}
      BY <1>0, <3>2 DEF TypeOK
    <3>3. ASSUME NEW s \in Unissued, Issue(s, owner[c]), live' = (live \ {c}) \cup {s}
          PROVE  /\ owner' \in [Session -> User \cup {None}]
                 /\ live' \subseteq {r \in Session : owner'[r] # None}
      BY <1>0, <3>1, <3>3 DEF Unissued, Issue, TypeOK
    <3> QED BY <1>4, <3>2, <3>3 DEF Rotate
  <2> QED BY <1>0, <2>1, <2>2 DEF TypeOK, page, call
<1>5. CASE ServeLogout(f)
  <2>1. net' \in [Fetch -> Exchange] /\ faults' \in 0..MaxFaults
        /\ UNCHANGED <<jar, page, call, pages, forms, owner, took, ended>>
    BY <1>0, <1>5, ReplyType, FaultType DEF ServeLogout
  <2>2. live' \subseteq live
    BY <1>5 DEF ServeLogout
  <2> QED BY <1>0, <2>1, <2>2 DEF TypeOK, page, call
<1> QED BY <1>1, <1>2, <1>3, <1>4, <1>5 DEF Serve

\* The tabs keep the types when they load a page and submit a form or a call.
LEMMA SubmitType ==
  ASSUME TypeOK, NEW t \in Tab
  PROVE  /\ LoadPage(t) \/ SubmitLogin(t) \/ SubmitLogout(t) => TypeOK'
         /\ \A c \in Call : StartCall(c, t) => TypeOK'
<1> USE Names
<1>1. ASSUME LoadPage(t) PROVE TypeOK'
  <2>1. net' \in [Fetch -> Exchange]
    BY <1>1, SentType DEF LoadPage, TypeOK
  <2>2. pages' \in 0..MaxPages
    BY <1>1, ClientAssumption DEF ClientAssumption, LoadPage, TypeOK
  <2>3. pc' \in [Call -> {"idle", "first", "leads", "follows", "again"} \cup Settled]
    BY <1>1 DEF LoadPage, TypeOK, Settled
  <2> QED BY <1>1, <2>1, <2>2, <2>3 DEF LoadPage, ClearAuth, TypeOK, server
<1>2. ASSUME NEW e \in Exchange, Submit(t, e) PROVE TypeOK'
  <2>1. net' \in [Fetch -> Exchange]
    BY <1>2 DEF Submit, TypeOK
  <2>2. forms' \in 0..MaxForms
    BY <1>2, ClientAssumption DEF ClientAssumption, Submit, TypeOK
  <2> QED BY <1>2, <2>1, <2>2 DEF Submit, TypeOK, server, page, call
<1>3. ASSUME NEW c \in Call, StartCall(c, t) PROVE TypeOK'
  <2>1. net' \in [Fetch -> Exchange]
    BY <1>3, SentType DEF StartCall, TypeOK
  <2> QED BY <1>3, <2>1 DEF StartCall, TypeOK, server, page, count
<1>4. SubmitLogin(t) \/ SubmitLogout(t) => TypeOK'
  BY <1>2, SentType DEF SubmitLogin, SubmitLogout, TypeOK
<1> QED BY <1>1, <1>3, <1>4

\* The tabs keep the types when they are told of a fetch.
LEMMA ResumeType ==
  ASSUME IndInv, NEW f \in Fetch, Resume(f)
  PROVE  TypeOK'
<1> USE Names
<1>0. TypeOK
  BY DEF IndInv
<1>1. ASSUME NEW o, Close(f, o)
      PROVE  faults' \in 0..MaxFaults /\ UNCHANGED <<owner, live, took, ended, pages, forms>>
  BY <1>0, <1>1, FaultType DEF Close, server
<1>2. /\ [net EXCEPT ![f] = Silent] \in [Fetch -> Exchange]
      /\ net[f].got \in Session \cup {None} /\ net[f].cred \in Session \cup {None}
  BY <1>0, SentType DEF TypeOK, Exchange
<1>3. ASSUME NEW t \in Tab, f = <<t, 0>>, LoadAnswered(t) PROVE TypeOK'
  BY <1>0, <1>1, <1>2, <1>3 DEF LoadAnswered, Receive, SetAuth, ClearAuth, TypeOK, call
<1>4. ASSUME NEW t \in Tab, NEW n \in Own, f = <<t, n>>, LoginAnswered(t, n) PROVE TypeOK'
  BY <1>0, <1>1, <1>2, <1>4 DEF LoginAnswered, Receive, SetAuth, TypeOK, call
<1>5. ASSUME NEW t \in Tab, NEW n \in Own, f = <<t, n>>, LogoutAnswered(t, n) PROVE TypeOK'
  BY <1>0, <1>1, <1>2, <1>5 DEF LogoutAnswered, ClearAuth, TypeOK, call
<1>6. ASSUME f \in Call, FirstAnswered(f) PROVE TypeOK'
  <2>1. [net EXCEPT ![f] = Sent("refresh", jar, None)] \in [Fetch -> Exchange]
    BY <1>0, SentType DEF TypeOK
  <2>2. pc[f] = "first" /\ by[f] \in Tab
    BY <1>0, <1>6 DEF FirstAnswered, IndInv, CallFits, TypeOK
  <2>3. net' \in [Fetch -> Exchange]
    BY <1>2, <1>6, <2>1 DEF FirstAnswered
  <2>4. pc' \in [Call -> {"idle", "first", "leads", "follows", "again"} \cup Settled]
    BY <1>0, <1>6 DEF FirstAnswered, TypeOK, Settled
  <2>5. cached' \in [Tab -> BOOLEAN] /\ refreshPromise' \in [Tab -> Call \cup {None}]
    <3>1. PICK b \in BOOLEAN : cached' \in {cached, [cached EXCEPT ![by[f]] = b]}
      BY <1>0, <1>6, <2>2 DEF FirstAnswered, TypeOK
    <3>2. cached' \in [Tab -> BOOLEAN]
      BY <1>0, <2>2, <3>1 DEF TypeOK
    <3>3. refreshPromise' \in {refreshPromise, [refreshPromise EXCEPT ![by[f]] = f]}
      BY <1>6 DEF FirstAnswered
    <3> QED BY <1>0, <1>6, <2>2, <3>2, <3>3 DEF TypeOK
  <2> QED BY <1>0, <1>1, <1>6, <2>3, <2>4, <2>5 DEF FirstAnswered, TypeOK
<1>7. ASSUME f \in Call, RefreshAnswered(f) PROVE TypeOK'
  <2> DEFINE sent == Sent("data", net[f].got, None)
  <2>1. sent \in Exchange
    BY <1>2, SentType
  <2>2. [g \in Fetch |-> IF g \in Awaiting(f) THEN sent ELSE net[g]] \in [Fetch -> Exchange]
    BY <1>0, <2>1 DEF TypeOK
  <2> HIDE DEF sent
  <2>3. pc[f] = "leads" /\ by[f] \in Tab
    BY <1>0, <1>7 DEF RefreshAnswered, IndInv, CallFits, TypeOK
  <2>4. net' \in [Fetch -> Exchange]
    BY <1>2, <1>7, <2>2 DEF RefreshAnswered, sent
  <2>5. pc' \in [Call -> {"idle", "first", "leads", "follows", "again"} \cup Settled]
    BY <1>0, <1>7 DEF RefreshAnswered, TypeOK, Settled
  <2>6. jar' \in Session \cup {None} /\ token' \in [Tab -> Session \cup {None}]
    BY <1>0, <1>2, <1>7, <2>3 DEF RefreshAnswered, TypeOK, Receive, SetAuth, ClearAuth
  <2>7. renewed' \subseteq Tab \X Session
    <3>1. net[f].cred \in Session \/ UNCHANGED renewed
      BY <1>2, <1>7, <2>3 DEF RefreshAnswered, Told, IndInv, FetchFits, CallFits
    <3> QED BY <1>0, <1>7, <2>3, <3>1 DEF RefreshAnswered, TypeOK
  <2>8. refreshPromise' \in [Tab -> Call \cup {None}]
    BY <1>0, <1>7 DEF RefreshAnswered, TypeOK
  <2> QED BY <1>0, <1>1, <1>7, <2>4, <2>5, <2>6, <2>7, <2>8 DEF RefreshAnswered, TypeOK
<1>8. ASSUME f \in Call, AgainAnswered(f) PROVE TypeOK'
  BY <1>0, <1>1, <1>2, <1>8 DEF AgainAnswered, ClearAuth, TypeOK, Settled
<1> QED BY <1>3, <1>4, <1>5, <1>6, <1>7, <1>8 DEF Resume

\* So does every step.
LEMMA TypeStep ==
  ASSUME IndInv, [Next]_vars
  PROVE  TypeOK'
<1>0. TypeOK
  BY DEF IndInv
<1>1. ASSUME NEW s \in Session, Evict(s) PROVE TypeOK'
  BY <1>0, <1>1, FaultType DEF Evict, TypeOK, page, call
<1>2. CASE UNCHANGED vars
  BY <1>0, <1>2 DEF TypeOK, vars, server, page, call, count
<1> QED BY <1>0, <1>1, <1>2, ServeType, SubmitType, ResumeType DEF Next, Quiet

-----------------------------------------------------------------------------
(* The server *)

\* What a step of the server does to the fetch f, which becomes e, and to the
\* sessions.
Served(f, e) ==
  /\ net' = [net EXCEPT ![f] = e]
  /\ net[f].at \in {"sent", "found"} /\ e.at \in {"found", "back"}
  /\ e.cred = net[f].cred /\ e.path = net[f].path /\ e.user = net[f].user
  /\ UNCHANGED <<jar, page, call, forms>>
  /\ \A s \in Session : owner[s] # None => owner'[s] # None
  /\ \A s \in live \cup ended :
       s \in live' \cup ended' \/ (s = e.cred /\ e.path \in {"refresh", "logout"})
  /\ e.got # None => /\ e.at = "back" /\ e.got \in Session \cap live'
                     /\ owner[e.got] = None /\ owner'[e.got] # None
  /\ \/ UNCHANGED took
     \/ /\ net[f].at = "sent" /\ e.path = "data" /\ e.answer # "denied"
        /\ took' = [took EXCEPT ![f] = @ + 1]
  /\ e.at = "found" => e.path = "refresh" /\ e.cred # None
  /\ e.at = "back" /\ e.path = "refresh" /\ e.answer = "ok" => e.cred # None

\* The fetch as an answer leaves it.
Replied(f, a, s) == [net[f] EXCEPT !.at = "back", !.answer = a, !.got = s]

LEMMA ReplyIs ==
  ASSUME TypeOK, NEW f \in Fetch, NEW a \in {"ok", "denied", "failed"},
         NEW s \in Session \cup {None}, Reply(f, a, s)
  PROVE  /\ net' = [net EXCEPT ![f] = Replied(f, a, s)]
         /\ Replied(f, a, s) \in Exchange
         /\ Replied(f, a, s).at = "back" /\ Replied(f, a, s).answer = a
         /\ Replied(f, a, s).got = s /\ Replied(f, a, s).cred = net[f].cred
         /\ Replied(f, a, s).path = net[f].path /\ Replied(f, a, s).user = net[f].user
         /\ UNCHANGED <<jar, page, call, forms>>
<1>1. net[f] \in Exchange
  BY DEF TypeOK
<1>2. [net[f] EXCEPT !.at = "back", !.answer = a, !.got = s] \in Exchange
  BY <1>1 DEF Exchange
<1>3. net' = [net EXCEPT ![f] = [net[f] EXCEPT !.at = "back", !.answer = a, !.got = s]]
  BY DEF Reply
<1> QED BY <1>1, <1>2, <1>3 DEF Reply, Replied, Exchange

\* Every step of the server is one of those.
LEMMA ServeEffect ==
  ASSUME IndInv, NEW f \in Fetch, Serve(f)
  PROVE  \E e \in Exchange : Served(f, e)
<1> USE Names
<1>0. TypeOK /\ FetchFits(f) /\ live \subseteq Session
  BY DEF IndInv, TypeOK
<1>1. CASE ServeData(f)
  <2>1. PICK a \in {"ok", "denied", "failed"} :
          /\ Reply(f, a, None)
          /\ \/ UNCHANGED took
             \/ a # "denied" /\ took' = [took EXCEPT ![f] = @ + 1]
    BY <1>1 DEF ServeData
  <2>2. Served(f, Replied(f, a, None))
    BY <1>0, <1>1, <2>1, ReplyIs DEF ServeData, Served
  <2> QED BY <1>0, <2>1, <2>2, ReplyIs
<1>2. CASE ServeLogin(f)
  <2>1. ASSUME NEW s \in Unissued, Issue(s, net[f].user), live' = live \cup {s},
               Reply(f, "ok", s), UNCHANGED <<took, ended>>
        PROVE  \E e \in Exchange : Served(f, e)
    <3>1. net[f].user # None /\ s \in Session /\ owner[s] = None
      BY <1>0, <1>2 DEF ServeLogin, FetchFits, Unissued
    <3>2. owner'[s] # None /\ \A r \in Session : owner[r] # None => owner'[r] # None
      BY <1>0, <2>1, <3>1 DEF Issue, TypeOK
    <3>3. Served(f, Replied(f, "ok", s))
      BY <1>0, <1>2, <2>1, <3>1, <3>2, ReplyIs DEF ServeLogin, Served
    <3> QED BY <1>0, <2>1, <3>1, <3>3, ReplyIs
  <2>2. ASSUME Reply(f, "denied", None), UNCHANGED server
        PROVE  \E e \in Exchange : Served(f, e)
    <3>1. Served(f, Replied(f, "denied", None))
      BY <1>0, <1>2, <2>2, ReplyIs DEF ServeLogin, Served, server
    <3> QED BY <1>0, <2>2, <3>1, ReplyIs
  <2> QED BY <1>2, <2>1, <2>2 DEF ServeLogin
<1>3. CASE FindSession(f)
  <2>1. ASSUME net[f].cred \in live, net' = [net EXCEPT ![f].at = "found"],
               UNCHANGED <<jar, page, call, count>>
        PROVE  \E e \in Exchange : Served(f, e)
    <3> DEFINE e == [net[f] EXCEPT !.at = "found"]
    <3>1. net[f] \in Exchange
      BY <1>0 DEF TypeOK
    <3>2. net[f].got = None
      BY <1>3 DEF FindSession, IndInv, NewSession
    <3>3. /\ e \in Exchange /\ e.at = "found" /\ e.got = None
          /\ e.cred = net[f].cred /\ e.path = net[f].path /\ e.user = net[f].user
      BY <3>1, <3>2 DEF Exchange
    <3>4. net' = [net EXCEPT ![f] = e]
      BY <2>1
    <3> HIDE DEF e
    <3>5. Served(f, e)
      BY <1>0, <1>3, <2>1, <3>3, <3>4 DEF FindSession, Served, server, count
    <3> QED BY <3>3, <3>5
  <2>2. ASSUME Reply(f, "denied", None)
        PROVE  \E e \in Exchange : Served(f, e)
    <3>1. Served(f, Replied(f, "denied", None))
      BY <1>0, <1>3, <2>2, ReplyIs DEF FindSession, Served, server
    <3> QED BY <1>0, <2>2, <3>1, ReplyIs
  <2> QED BY <1>3, <2>1, <2>2 DEF FindSession
<1>4. CASE Rotate(f)
  <2>0. net[f].path = "refresh" /\ net[f].cred # None
        /\ net[f].cred \in Session /\ owner[net[f].cred] # None
    BY <1>0, <1>4 DEF Rotate, FetchFits, Issued
  <2>1. ASSUME NEW s \in Unissued, Issue(s, owner[net[f].cred]),
               live' = (live \ {net[f].cred}) \cup {s}, Reply(f, "ok", s)
        PROVE  \E e \in Exchange : Served(f, e)
    <3>1. s \in Session /\ owner[s] = None
      BY DEF Unissued
    <3>2. owner'[s] # None /\ \A r \in Session : owner[r] # None => owner'[r] # None
      BY <1>0, <2>0, <2>1, <3>1 DEF Issue, TypeOK
    <3>3. Served(f, Replied(f, "ok", s))
      BY <1>0, <1>4, <2>0, <2>1, <3>1, <3>2, ReplyIs DEF Rotate, Served
    <3> QED BY <1>0, <2>1, <3>1, <3>3, ReplyIs
  <2>2. ASSUME live' \in {live, live \ {net[f].cred}}, Reply(f, "failed", None), UNCHANGED owner
        PROVE  \E e \in Exchange : Served(f, e)
    <3>1. Served(f, Replied(f, "failed", None))
      BY <1>0, <1>4, <2>0, <2>2, ReplyIs DEF Rotate, Served
    <3> QED BY <1>0, <2>2, <3>1, ReplyIs
  <2> QED BY <1>4, <2>1, <2>2 DEF Rotate
<1>5. CASE ServeLogout(f)
  <2>1. PICK a \in {"ok", "denied", "failed"} : Reply(f, a, None)
    BY <1>5 DEF ServeLogout
  <2>2. live' \in {live, live \ {net[f].cred}}
    BY <1>5 DEF ServeLogout
  <2>3. Served(f, Replied(f, a, None))
    BY <1>0, <1>5, <2>1, <2>2, ReplyIs DEF ServeLogout, Served
  <2> QED BY <1>0, <2>1, <2>3, ReplyIs
<1> QED BY <1>1, <1>2, <1>3, <1>4, <1>5 DEF Serve

\* The server keeps the invariant.
LEMMA ServeKeeps ==
  ASSUME IndInv, NEW f \in Fetch, Serve(f)
  PROVE  IndInv'
<1> USE Names
<1>0. TypeOK /\ TypeOK'
  BY ServeType DEF IndInv
<1>1. PICK e \in Exchange : Served(f, e)
  BY ServeEffect
<1>2. /\ net'[f] = e
      /\ \A g \in Fetch : g # f => net'[g] = net[g]
      /\ \A g \in Fetch : /\ net'[g].cred = net[g].cred
                          /\ net'[g].path = net[g].path /\ net'[g].user = net[g].user
                          /\ net'[g].at # "none" <=> net[g].at # "none"
      /\ UNCHANGED <<jar, open, token, refreshPromise, renewed, pc, by, forms>>
  BY <1>0, <1>1 DEF Served, TypeOK, page, call
<1>3. \A s : Issued(s) => Issued(s)'
  BY <1>1 DEF Served, Issued
<1>4. \A c \in Call : CallFits(c)'
  <2> SUFFICES ASSUME NEW c \in Call PROVE CallFits(c)'
    OBVIOUS
  <2>0. CallFits(c)
    BY DEF IndInv
  <2>1. CASE c # f
    <3>1. net'[c] = net[c] /\ took'[c] = took[c]
      BY <1>0, <1>1, <1>2, <2>1 DEF Served, TypeOK
    <3> QED BY <1>2, <2>0, <3>1 DEF CallFits
  <2>2. CASE c = f
    <3>1. pc[c] \in {"first", "leads", "again"}
      BY <1>0, <1>1, <2>0, <2>2 DEF CallFits, Served, TypeOK
    <3>2. took'[c] = took[c] \/ (took'[c] = took[c] + 1 /\ net[c].at = "sent"
                                  /\ e.path = "data" /\ e.answer # "denied")
      BY <1>0, <1>1, <2>2 DEF Served, TypeOK
    <3>3. took[c] \in Nat
      BY <1>0 DEF TypeOK
    <3>4. CASE pc[c] = "leads"
      <4>1. took'[c] = 0
        BY <1>1, <2>0, <2>2, <3>2, <3>4 DEF CallFits, Served
      <4> QED BY <1>2, <2>0, <3>4, <4>1 DEF CallFits, Settled
    <3>5. CASE pc[c] \in {"first", "again"}
      <4>1. net[c].at = "sent" /\ took[c] = 0 /\ e.at = "back" /\ e.path = "data"
        BY <1>1, <2>0, <2>2, <3>5 DEF CallFits, Served
      <4>2. took'[c] <= 1 /\ (e.answer = "denied" => took'[c] = 0)
        BY <3>2, <4>1
      <4> QED BY <1>2, <2>0, <2>2, <3>5, <4>1, <4>2 DEF CallFits, Settled
    <3> QED BY <3>1, <3>4, <3>5
  <2> QED BY <2>1, <2>2
<1>5. \A t \in Tab : TabFits(t)'
  BY <1>2, <1>3 DEF IndInv, TabFits, InFlight
<1>6. \A g \in Fetch : FetchFits(g)'
  BY <1>1, <1>2, <1>3 DEF IndInv, FetchFits, Served
<1>7. \A g \in Fetch : NewSession(g)'
  <2> SUFFICES ASSUME NEW g \in Fetch, net'[g].got # None PROVE NewSession(g)'
    BY DEF NewSession
  <2>1. CASE g = f
    <3> DEFINE s == e.got
    <3>1. /\ e.at = "back" /\ s \in Session /\ s \in live'
          /\ owner[s] = None /\ owner'[s] # None
      BY <1>1, <1>2, <2>1 DEF Served
    <3>2. /\ s # jar /\ \A p \in renewed : p[2] # s
          /\ \A t \in Tab : token[t] # s
          /\ \A h \in Fetch : net[h].cred # s /\ net[h].got # s
      BY <1>2, <2>1, <3>1 DEF IndInv, CookieFits, TabFits, FetchFits, NewSession, Issued
    <3> HIDE DEF s
    <3>3. net'[g].got = s
      BY <1>2, <2>1 DEF s
    <3> QED BY <1>2, <2>1, <3>1, <3>2, <3>3 DEF NewSession, Issued
  <2>2. CASE g # f
    <3>1. NewSession(g) /\ net'[g] = net[g]
      BY <1>2, <2>2 DEF IndInv
    <3>2. net[g].got \in live' \cup ended'
      BY <1>1, <1>2, <2>2, <3>1 DEF NewSession, Served
    <3>3. e.got # net[g].got
      BY <1>1, <1>2, <3>1 DEF NewSession, Served, Issued
    <3> QED BY <1>2, <1>3, <3>1, <3>2, <3>3 DEF NewSession
  <2> QED BY <2>1, <2>2
<1>8. CookieFits'
  BY <1>2, <1>3 DEF IndInv, CookieFits
<1>9. AloneFits'
  <2> SUFFICES ASSUME NEW t \in Tab, open = {t}, token[t] # None
               PROVE  jar = token[t] /\ (jar \in live' \cup ended' \/ \E g \in Fetch : Ending(g)')
    BY <1>2 DEF AloneFits
  <2>1. jar = token[t] /\ (jar \in live \cup ended \/ \E g \in Fetch : Ending(g))
    BY DEF IndInv, AloneFits
  <2>2. \A g \in Fetch : Ending(g) => Ending(g)'
    BY <1>2 DEF Ending, InFlight
  <2>3. jar \in live \cup ended => jar \in live' \cup ended' \/ Ending(f)'
    BY <1>1, <1>2 DEF Served, Ending, InFlight
  <2> QED BY <2>1, <2>2, <2>3
<1> QED BY <1>0, <1>4, <1>5, <1>6, <1>7, <1>8, <1>9 DEF IndInv

\* So do the end of a session, and a step that changes nothing.
LEMMA OtherKeeps ==
  ASSUME IndInv, (\E s \in Session : Evict(s)) \/ UNCHANGED vars
  PROVE  IndInv'
<1>0. TypeOK'
  BY TypeStep DEF Next
<1>1. /\ UNCHANGED <<owner, took, jar, open, token, refreshPromise, renewed, pc, by, net, forms>>
      /\ live' \cup ended' = live \cup ended
  BY DEF Evict, vars, server, page, call, count
<1>2. \A c \in Call : CallFits(c)'
  BY <1>1 DEF IndInv, CallFits
<1>3. \A t \in Tab : TabFits(t)'
  BY <1>1 DEF IndInv, TabFits, InFlight, Issued
<1>4. \A f \in Fetch : FetchFits(f)'
  BY <1>1 DEF IndInv, FetchFits, Issued
<1>5. \A f \in Fetch : NewSession(f)'
  BY <1>1 DEF IndInv, NewSession, Issued
<1>6. CookieFits'
  BY <1>1 DEF IndInv, CookieFits, Issued
<1>7. AloneFits'
  BY <1>1 DEF IndInv, AloneFits, Ending, InFlight
<1> QED BY <1>0, <1>2, <1>3, <1>4, <1>5, <1>6, <1>7 DEF IndInv

-----------------------------------------------------------------------------
(* The tabs *)

\* A fetch that is over is as one that was never sent.
LEMMA Closed ==
  ASSUME TypeOK, NEW f \in Fetch, net' = [net EXCEPT ![f] = Silent]
  PROVE  /\ net'[f].at = "none" /\ net'[f].got = None /\ net'[f].cred = None
         /\ net'[f].path = "data"
         /\ \A g \in Fetch \ {f} : net'[g] = net[g]
<1>1. net'[f] = Silent /\ \A g \in Fetch \ {f} : net'[g] = net[g]
  BY DEF TypeOK
<1>2. Silent.at = "none" /\ Silent.got = None /\ Silent.cred = None /\ Silent.path = "data"
  BY DEF Silent, Sent
<1> QED BY <1>1, <1>2

\* A tab with a fetch of its own has been loaded.
LEMMA Opened ==
  ASSUME IndInv, NEW t \in Tab, NEW k \in Own, net[<<t, k>>].at # "none"
  PROVE  t \in open
BY DEF IndInv, TabFits, InFlight

\* When no new session is handed out, an issued session is one that was issued.
LEMMA SameIssued ==
  ASSUME UNCHANGED owner
  PROVE  \A s : Issued(s)' <=> Issued(s)
BY DEF Issued

\* A page that is loaded keeps the invariant.
LEMMA Loads ==
  ASSUME IndInv, NEW t \in Tab, LoadPage(t)
  PROVE  IndInv'
<1> USE Names
<1>0. TypeOK /\ TypeOK'
  BY SubmitType DEF IndInv
<1> DEFINE f == <<t, 0>>
<1>1. /\ \A g \in Fetch : g \in FetchesOf(t) /\ g # f => net'[g] = Silent
      /\ \A g \in Fetch : g \notin FetchesOf(t) => net'[g] = net[g] /\ g # f
      /\ net'[f] = Sent("refresh", jar, None)
  <2>1. f \in FetchesOf(t) /\ f \in Fetch
    BY DEF FetchesOf
  <2>2. \A g \in Fetch : net'[g] = IF g = f THEN Sent("refresh", jar, None)
                                   ELSE IF g \in FetchesOf(t) THEN Silent ELSE net[g]
    BY DEF LoadPage
  <2> HIDE DEF f
  <2> QED BY <2>1, <2>2
<1>2. /\ Silent.at = "none" /\ Silent.path = "data" /\ Silent.cred = None /\ Silent.got = None
      /\ net'[f].at = "sent" /\ net'[f].path = "refresh" /\ net'[f].cred = jar
      /\ net'[f].got = None
  BY <1>1 DEF Silent, Sent
<1>3. /\ UNCHANGED <<owner, live, ended, took, jar, by, renewed, forms>>
      /\ open' = open \cup {t} /\ token'[t] = None
      /\ \A r \in Tab \ {t} : token'[r] = token[r] /\ refreshPromise'[r] = refreshPromise[r]
      /\ \A c \in Call : pc'[c] = IF c \in CallsOf(t) THEN "gone" ELSE pc[c]
  BY <1>0 DEF LoadPage, ClearAuth, TypeOK, server
<1>Same. \A s : Issued(s)' <=> Issued(s)
  BY <1>3, SameIssued
<1>4. \A c \in Call : CallFits(c)'
  <2> SUFFICES ASSUME NEW c \in Call PROVE CallFits(c)'
    OBVIOUS
  <2>0. CallFits(c) /\ c # f
    BY DEF IndInv
  <2>1. CASE by[c] = t
    <3>1. net'[c].at = "none" /\ pc'[c] \in Settled /\ took'[c] <= 1
      BY <1>1, <1>2, <1>3, <2>0, <2>1 DEF CallFits, CallsOf, FetchesOf, Settled
    <3> QED BY <1>3, <2>0, <2>1, <3>1 DEF CallFits, Settled
  <2>2. CASE by[c] # t
    <3>1. net'[c] = net[c] /\ pc'[c] = pc[c]
      BY <1>1, <1>3, <2>0, <2>2 DEF CallsOf, FetchesOf
    <3>2. by[c] # None => refreshPromise'[by[c]] = refreshPromise[by[c]]
      BY <1>0, <1>3, <2>2 DEF TypeOK
    <3> QED BY <1>3, <2>0, <3>1, <3>2 DEF CallFits, Settled
  <2> QED BY <2>1, <2>2
<1>5. \A r \in Tab : TabFits(r)'
  <2> SUFFICES ASSUME NEW r \in Tab, NEW k \in Own, net'[<<r, k>>].at # "none"
               PROVE  r \in open' /\ k <= forms
    BY <1>3, <1>Same DEF IndInv, TabFits, InFlight
  <2>1. CASE r = t
    <3>1. <<r, k>> = f
      BY <1>1, <1>2, <2>1 DEF FetchesOf
    <3>2. k = 0 /\ forms \in Nat
      BY <1>0, <3>1, ClientAssumption DEF ClientAssumption, TypeOK
    <3> QED BY <1>3, <2>1, <3>2
  <2>2. CASE r # t
    <3>1. <<r, k>> \notin FetchesOf(t)
      BY <2>2 DEF FetchesOf
    <3> QED BY <1>1, <1>3, <3>1 DEF IndInv, TabFits, InFlight
  <2> QED BY <2>1, <2>2
<1>6. \A g \in Fetch : FetchFits(g)'
  BY <1>1, <1>2, <1>3, <1>Same DEF IndInv, FetchFits, CookieFits
<1>7. \A g \in Fetch : NewSession(g)'
  BY <1>1, <1>2, <1>3, <1>Same DEF IndInv, NewSession
<1>8. CookieFits'
  <2>1. \A c \in Call : pc'[c] = "leads" => pc[c] = "leads" /\ net'[c] = net[c]
    <3> SUFFICES ASSUME NEW c \in Call, pc'[c] = "leads"
                 PROVE  pc[c] = "leads" /\ net'[c] = net[c]
      OBVIOUS
    <3>1. pc[c] = "leads" /\ c \notin CallsOf(t)
      BY <1>3
    <3>2. by[c] # t
      BY <3>1 DEF CallsOf, Settled
    <3>3. ASSUME c \in {t} \X Own PROVE FALSE
      <4>1. PICK k \in Own : c = <<t, k>>
        BY <3>3
      <4> QED BY <4>1, Names
    <3> QED BY <1>1, <3>1, <3>2, <3>3 DEF FetchesOf
  <2> QED BY <1>3, <2>1, <1>Same DEF IndInv, CookieFits
<1>9. AloneFits'
  BY <1>3 DEF AloneFits
<1> QED BY <1>0, <1>4, <1>5, <1>6, <1>7, <1>8, <1>9 DEF IndInv

\* A form that is submitted keeps the invariant.
LEMMA Submits ==
  ASSUME IndInv, NEW t \in Tab, SubmitLogin(t) \/ SubmitLogout(t)
  PROVE  IndInv'
<1> USE Names
<1>0. TypeOK /\ TypeOK'
  BY SubmitType DEF IndInv
<1> DEFINE f == <<t, forms + 1>>
<1>1. /\ net'[f].at = "sent" /\ net'[f].got = None /\ net'[f].path \in {"login", "logout"}
      /\ net'[f].cred \in {None, jar} /\ (net'[f].path = "login" => net'[f].user # None)
      /\ \A g \in Fetch \ {f} : net'[g] = net[g]
      /\ ~InFlight(f) /\ t \in open /\ f \in Fetch \ Call /\ forms' = forms + 1
      /\ UNCHANGED <<server, jar, page, call>>
  <2>1. PICK e \in {Sent("logout", jar, None)} \cup {Sent("login", None, u) : u \in User} :
          Submit(t, e)
    BY DEF SubmitLogin, SubmitLogout
  <2>2. /\ e.at = "sent" /\ e.got = None /\ e.path \in {"login", "logout"}
        /\ e.cred \in {None, jar} /\ (e.path = "login" => e.user # None)
    BY <2>1 DEF Sent
  <2>3. forms \in Nat /\ forms + 1 \in Own
    BY <1>0, <2>1, ClientAssumption DEF ClientAssumption, Submit, TypeOK, Own
  <2>4. f \in Fetch \ Call /\ ~InFlight(f)
    BY <2>3 DEF IndInv, TabFits
  <2> QED BY <1>0, <2>1, <2>2, <2>4 DEF Submit, TypeOK
<1>2. UNCHANGED <<owner, live, ended, took, open, token, refreshPromise, renewed, pc, by>>
  BY <1>1 DEF server, page, call
<1>Same. \A s : Issued(s)' <=> Issued(s)
  BY <1>2, SameIssued
<1>3. \A c \in Call : CallFits(c)'
  BY <1>1, <1>2 DEF IndInv, CallFits
<1>4. \A r \in Tab : TabFits(r)'
  <2> SUFFICES ASSUME NEW r \in Tab, NEW k \in Own, net'[<<r, k>>].at # "none"
               PROVE  r \in open /\ k <= forms'
    BY <1>2, <1>Same DEF IndInv, TabFits, InFlight
  <2>1. forms \in Nat /\ k \in Nat
    BY <1>0, ClientAssumption DEF ClientAssumption, TypeOK, Own
  <2>2. CASE <<r, k>> = f
    BY <1>1, <2>1, <2>2
  <2>3. CASE <<r, k>> # f
    <3>1. InFlight(<<r, k>>)
      BY <1>1, <2>3 DEF InFlight
    <3> QED BY <1>1, <2>1, <3>1 DEF IndInv, TabFits
  <2> QED BY <2>2, <2>3
<1>5. \A g \in Fetch : FetchFits(g)'
  BY <1>1, <1>2, <1>Same DEF IndInv, FetchFits, CookieFits
<1>6. \A g \in Fetch : NewSession(g)'
  BY <1>1, <1>2, <1>Same DEF IndInv, NewSession
<1>7. CookieFits'
  BY <1>1, <1>2, <1>Same DEF IndInv, CookieFits
<1>8. AloneFits'
  <2>1. \A g \in Fetch : Ending(g) => Ending(g)'
    BY <1>1 DEF Ending, InFlight
  <2> QED BY <1>1, <1>2, <2>1 DEF IndInv, AloneFits
<1> QED BY <1>0, <1>3, <1>4, <1>5, <1>6, <1>7, <1>8 DEF IndInv

\* So does a call that starts.
LEMMA Starts ==
  ASSUME IndInv, NEW c \in Call, NEW t \in Tab, StartCall(c, t)
  PROVE  IndInv'
<1> USE Names
<1>0. TypeOK /\ TypeOK' /\ None \notin Tab
  BY SubmitType, ClientAssumption DEF IndInv, ClientAssumption
<1>1. /\ net'[c].at = "sent" /\ net'[c].got = None /\ net'[c].path = "data"
      /\ net'[c].cred = token[t] /\ net'[c].answer = None
      /\ \A g \in Fetch \ {c} : net'[g] = net[g]
      /\ pc[c] = "idle" /\ pc'[c] = "first" /\ by'[c] = t /\ t \in open
      /\ \A d \in Call \ {c} : pc'[d] = pc[d] /\ by'[d] = by[d]
      /\ net[c].at = "none" /\ took[c] = 0
  BY <1>0 DEF StartCall, Sent, TypeOK, IndInv, CallFits
<1>2. UNCHANGED <<owner, live, ended, took, jar, open, token, refreshPromise, renewed, forms>>
  BY DEF StartCall, server, page, count
<1>Same. \A s : Issued(s)' <=> Issued(s)
  BY <1>2, SameIssued
<1>3. \A d \in Call : CallFits(d)'
  BY <1>0, <1>1, <1>2 DEF IndInv, CallFits, Settled
<1>4. \A r \in Tab : TabFits(r)'
  <2>1. \A r \in Tab, k \in Own : net'[<<r, k>>] = net[<<r, k>>]
    BY <1>1
  <2> QED BY <1>2, <1>Same, <2>1 DEF IndInv, TabFits, InFlight
<1>5. \A g \in Fetch : FetchFits(g)'
  BY <1>1, <1>2, <1>Same DEF IndInv, FetchFits, TabFits
<1>6. \A g \in Fetch : NewSession(g)'
  <2> SUFFICES ASSUME NEW g \in Fetch, net'[g].got # None PROVE NewSession(g)'
    BY DEF NewSession
  <2>1. g # c /\ net'[g] = net[g] /\ NewSession(g)
    BY <1>1 DEF IndInv
  <2>2. \A h \in Fetch : net'[h].cred # net[g].got /\ (h # g => net'[h].got # net[g].got)
    BY <1>1, <2>1 DEF NewSession
  <2> QED BY <1>2, <1>Same, <2>1, <2>2 DEF NewSession
<1>7. CookieFits'
  BY <1>1, <1>2, <1>Same DEF IndInv, CookieFits
<1>8. AloneFits'
  <2>1. \A g \in Fetch : Ending(g) => Ending(g)'
    BY <1>1, <1>2 DEF Ending, InFlight
  <2> QED BY <1>1, <1>2, <2>1 DEF IndInv, AloneFits
<1> QED BY <1>0, <1>3, <1>4, <1>5, <1>6, <1>7, <1>8 DEF IndInv

\* A session on its way to a tab is none that a call has had renewed.
LEMMA NewNotRenewed ==
  ASSUME IndInv, NEW f \in Fetch, net[f].got # None
  PROVE  \A p \in renewed : p[2] # net[f].got
<1> SUFFICES ASSUME NEW p \in renewed, p[2] = net[f].got PROVE FALSE
  OBVIOUS
<1>1. p[1] \in Tab /\ p = <<p[1], p[2]>>
  BY DEF IndInv, TypeOK
<1> QED BY <1>1 DEF IndInv, NewSession

\* So does the answer to a refresh on load.
LEMMA LoadIsAnswered ==
  ASSUME IndInv, NEW t \in Tab, LoadAnswered(t)
  PROVE  IndInv'
<1> USE Names
<1> DEFINE f == <<t, 0>>
<1>0. TypeOK /\ TypeOK' /\ f \in Fetch
  BY ResumeType DEF IndInv, Resume
<1>1. /\ net'[f].at = "none" /\ net'[f].got = None /\ net'[f].cred = None
      /\ net'[f].path = "data"
      /\ \A g \in Fetch \ {f} : net'[g] = net[g]
      /\ net[f].at # "none" /\ t \in open
  <2>1. net[f].at # "none" /\ net' = [net EXCEPT ![f] = Silent]
    BY DEF LoadAnswered, Told
  <2> QED BY <1>0, <2>1, Closed, Opened
<1>2. UNCHANGED <<owner, live, ended, took, open, refreshPromise, renewed, pc, by, forms>>
  BY DEF LoadAnswered, Close, server, call
<1>Same. \A s : Issued(s)' <=> Issued(s)
  BY <1>2, SameIssued
<1>3. \A r \in Tab \ {t} : token'[r] = token[r]
  BY <1>0 DEF LoadAnswered, Receive, SetAuth, ClearAuth, TypeOK
<1>4. \/ jar' = net[f].got /\ token'[t] = net[f].got
      \/ jar' = jar /\ token'[t] = None
  BY <1>0 DEF LoadAnswered, Receive, SetAuth, ClearAuth, TypeOK
<1>5. NewSession(f)
  BY <1>0 DEF IndInv
<1>6. \A c \in Call : CallFits(c)'
  BY <1>1, <1>2 DEF IndInv, CallFits
<1>7. \A r \in Tab : TabFits(r)'
  <2> SUFFICES ASSUME NEW r \in Tab PROVE TabFits(r)'
    OBVIOUS
  <2>1. TabFits(r)
    BY DEF IndInv
  <2>2. \A k \in Own :
          InFlight(<<r, k>>)' => InFlight(<<r, k>>)
    BY <1>1 DEF InFlight
  <2>3. token'[r] # None => r \in open /\ Issued(token'[r])
    BY <1>1, <1>3, <1>4, <1>5, <2>1 DEF TabFits, NewSession
  <2> QED BY <1>2, <1>Same, <2>1, <2>2, <2>3 DEF TabFits
<1>8. \A g \in Fetch : FetchFits(g)'
  BY <1>1, <1>2, <1>Same DEF IndInv, FetchFits
<1>9. \A g \in Fetch : NewSession(g)'
  <2> SUFFICES ASSUME NEW g \in Fetch, net'[g].got # None PROVE NewSession(g)'
    BY DEF NewSession
  <2>1. g # f /\ NewSession(g) /\ net'[g] = net[g]
    BY <1>1 DEF IndInv
  <2>2. net[f].got # net[g].got
    BY <1>0, <2>1 DEF NewSession
  <2>3. jar' # net[g].got /\ \A r \in Tab : token'[r] # net[g].got
    BY <1>3, <1>4, <2>1, <2>2 DEF NewSession
  <2> QED BY <1>1, <1>2, <2>1, <2>3, <1>Same DEF NewSession
<1>10. CookieFits'
  <2>1. \A c \in Call : net'[c] = net[c]
    BY <1>1
  <2>2. CookieFits
    BY DEF IndInv
  <2>3. \A p \in renewed : Issued(p[2]) /\ p[2] # jar'
    BY <1>0, <1>4, <2>2, NewNotRenewed DEF CookieFits, TypeOK, Issued
  <2>4. jar' # None => Issued(jar')
    BY <1>4, <1>5, <2>2 DEF CookieFits, NewSession
  <2> QED BY <1>2, <1>Same, <2>1, <2>2, <2>3, <2>4 DEF CookieFits
<1>11. AloneFits'
  BY <1>1, <1>2, <1>4, <1>5 DEF AloneFits, NewSession
<1> QED BY <1>0, <1>6, <1>7, <1>8, <1>9, <1>10, <1>11 DEF IndInv

\* So does the answer to a login.
LEMMA LoginIsAnswered ==
  ASSUME IndInv, NEW t \in Tab, NEW n \in Own \ {0}, LoginAnswered(t, n)
  PROVE  IndInv'
<1> USE Names
<1> DEFINE f == <<t, n>>
<1>0. TypeOK /\ TypeOK' /\ f \in Fetch
  BY ResumeType DEF IndInv, Resume
<1>1. /\ net'[f].at = "none" /\ net'[f].got = None /\ net'[f].cred = None
      /\ net'[f].path = "data"
      /\ \A g \in Fetch \ {f} : net'[g] = net[g]
      /\ net[f].at # "none" /\ net[f].path = "login" /\ t \in open
  <2>1. net[f].at # "none" /\ net[f].path = "login" /\ net' = [net EXCEPT ![f] = Silent]
    BY DEF LoginAnswered, Told
  <2> QED BY <1>0, <2>1, Closed, Opened
<1>2. UNCHANGED <<owner, live, ended, took, open, refreshPromise, renewed, pc, by, forms>>
  BY DEF LoginAnswered, Close, server, call
<1>Same. \A s : Issued(s)' <=> Issued(s)
  BY <1>2, SameIssued
<1>3. \A r \in Tab \ {t} : token'[r] = token[r]
  BY <1>0 DEF LoginAnswered, Receive, SetAuth, TypeOK
<1>4. \/ jar' = net[f].got /\ token'[t] = net[f].got
      \/ jar' = jar /\ token'[t] = token[t]
  BY <1>0 DEF LoginAnswered, Receive, SetAuth, TypeOK
<1>5. NewSession(f)
  BY <1>0 DEF IndInv
<1>6. \A c \in Call : CallFits(c)'
  BY <1>1, <1>2 DEF IndInv, CallFits
<1>7. \A r \in Tab : TabFits(r)'
  <2> SUFFICES ASSUME NEW r \in Tab PROVE TabFits(r)'
    OBVIOUS
  <2>1. TabFits(r)
    BY DEF IndInv
  <2>2. \A k \in Own :
          InFlight(<<r, k>>)' => InFlight(<<r, k>>)
    BY <1>1 DEF InFlight
  <2>3. token'[r] # None => r \in open /\ Issued(token'[r])
    BY <1>1, <1>3, <1>4, <1>5, <2>1 DEF TabFits, NewSession
  <2> QED BY <1>2, <1>Same, <2>1, <2>2, <2>3 DEF TabFits
<1>8. \A g \in Fetch : FetchFits(g)'
  BY <1>1, <1>2, <1>Same DEF IndInv, FetchFits
<1>9. \A g \in Fetch : NewSession(g)'
  <2> SUFFICES ASSUME NEW g \in Fetch, net'[g].got # None PROVE NewSession(g)'
    BY DEF NewSession
  <2>1. g # f /\ NewSession(g) /\ net'[g] = net[g]
    BY <1>1 DEF IndInv
  <2>2. net[f].got # net[g].got
    BY <1>0, <2>1 DEF NewSession
  <2>3. jar' # net[g].got /\ \A r \in Tab : token'[r] # net[g].got
    BY <1>3, <1>4, <2>1, <2>2 DEF NewSession
  <2> QED BY <1>1, <1>2, <2>1, <2>3, <1>Same DEF NewSession
<1>10. CookieFits'
  <2>1. \A c \in Call : net'[c] = net[c]
    BY <1>1
  <2>2. CookieFits
    BY DEF IndInv
  <2>3. \A p \in renewed : Issued(p[2]) /\ p[2] # jar'
    BY <1>0, <1>4, <2>2, NewNotRenewed DEF CookieFits, TypeOK, Issued
  <2>4. jar' # None => Issued(jar')
    BY <1>4, <1>5, <2>2 DEF CookieFits, NewSession
  <2> QED BY <1>2, <1>Same, <2>1, <2>2, <2>3, <2>4 DEF CookieFits
<1>11. AloneFits'
  <2>1. CASE jar' = net[f].got /\ token'[t] = net[f].got
    BY <1>1, <1>2, <1>5, <2>1 DEF AloneFits, NewSession
  <2>2. CASE jar' = jar /\ token'[t] = token[t]
    <3>1. \A g \in Fetch : Ending(g) => Ending(g)'
      BY <1>1, <2>2 DEF Ending, InFlight
    <3> QED BY <1>1, <1>2, <2>2, <3>1 DEF IndInv, AloneFits
  <2> QED BY <1>4, <2>1, <2>2
<1> QED BY <1>0, <1>6, <1>7, <1>8, <1>9, <1>10, <1>11 DEF IndInv

\* So does the answer to a logout.
LEMMA LogoutIsAnswered ==
  ASSUME IndInv, NEW t \in Tab, NEW n \in Own \ {0}, LogoutAnswered(t, n)
  PROVE  IndInv'
<1> USE Names
<1> DEFINE f == <<t, n>>
<1>0. TypeOK /\ TypeOK' /\ f \in Fetch
  BY ResumeType DEF IndInv, Resume
<1>1. /\ net'[f].at = "none" /\ net'[f].got = None /\ net'[f].cred = None
      /\ net'[f].path = "data"
      /\ \A g \in Fetch \ {f} : net'[g] = net[g]
      /\ net[f].at # "none" /\ t \in open
  <2>1. net[f].at # "none" /\ net' = [net EXCEPT ![f] = Silent]
    BY DEF LogoutAnswered, Told
  <2> QED BY <1>0, <2>1, Closed, Opened
<1>2. /\ UNCHANGED <<owner, live, ended, took, open, refreshPromise, renewed, pc, by, forms>>
      /\ jar' \in {jar, None} /\ token'[t] = None
      /\ \A r \in Tab \ {t} : token'[r] = token[r]
  BY <1>0 DEF LogoutAnswered, ClearAuth, Close, server, call, TypeOK
<1>Same. \A s : Issued(s)' <=> Issued(s)
  BY <1>2, SameIssued
<1>3. \A c \in Call : CallFits(c)'
  BY <1>1, <1>2 DEF IndInv, CallFits
<1>4. \A r \in Tab : TabFits(r)'
  BY <1>1, <1>2, <1>Same DEF IndInv, TabFits, InFlight
<1>5. \A g \in Fetch : FetchFits(g)'
  BY <1>1, <1>2, <1>Same DEF IndInv, FetchFits
<1>6. \A g \in Fetch : NewSession(g)'
  BY <1>1, <1>2, <1>Same DEF IndInv, NewSession
<1>7. CookieFits'
  <2>1. \A c \in Call : net'[c] = net[c]
    BY <1>1
  <2>2. CookieFits
    BY DEF IndInv
  <2>3. \A p \in renewed : Issued(p[2]) /\ p[2] # jar'
    BY <1>0, <1>2, <2>2 DEF CookieFits, TypeOK, Issued
  <2>4. jar' # None => Issued(jar')
    BY <1>2, <2>2 DEF CookieFits
  <2> QED BY <1>2, <1>Same, <2>1, <2>2, <2>3, <2>4 DEF CookieFits
<1>8. AloneFits'
  BY <1>1, <1>2 DEF AloneFits
<1> QED BY <1>0, <1>3, <1>4, <1>5, <1>6, <1>7, <1>8 DEF IndInv

-----------------------------------------------------------------------------
(* The calls *)

\* The answer to a call that is not a 401 keeps the invariant.
LEMMA FirstSettles ==
  ASSUME IndInv, NEW c \in Call, FirstAnswered(c), net' = [net EXCEPT ![c] = Silent],
         pc' \in {[pc EXCEPT ![c] = p] : p \in {"ok", "failed"}}
                 \cup (IF took[c] = 0 THEN {[pc EXCEPT ![c] = "follows"]} ELSE {}),
         UNCHANGED refreshPromise
  PROVE  IndInv'
<1> USE Names
<1>0. TypeOK /\ TypeOK' /\ c \in Fetch
  BY ResumeType DEF IndInv, Resume
<1>1. /\ net'[c].at = "none" /\ net'[c].got = None /\ net'[c].cred = None
      /\ net'[c].path = "data"
      /\ \A g \in Fetch \ {c} : net'[g] = net[g]
  BY <1>0, Closed
<1>2. UNCHANGED <<owner, live, ended, took, jar, open, token, refreshPromise, renewed, by, forms>>
  BY DEF FirstAnswered, Close, server
<1>3. /\ CallFits(c) /\ pc[c] = "first"
      /\ pc'[c] \in {"ok", "failed", "follows"} /\ (pc'[c] = "follows" => took[c] = 0)
      /\ \A d \in Call \ {c} : pc'[d] = pc[d]
  BY <1>0 DEF FirstAnswered, IndInv, TypeOK
<1>Same. \A s : Issued(s)' <=> Issued(s)
  BY <1>2, SameIssued
<1>4. \A d \in Call : CallFits(d)'
  <2>1. CallFits(c)'
    BY <1>1, <1>2, <1>3 DEF CallFits, Settled
  <2>2. ASSUME NEW d \in Call \ {c} PROVE CallFits(d)'
    <3>1. CallFits(d) /\ net'[d] = net[d] /\ pc'[d] = pc[d]
      BY <1>1, <1>3 DEF IndInv
    <3> QED BY <1>2, <3>1 DEF CallFits
  <2> QED BY <2>1, <2>2
<1>5. \A r \in Tab : TabFits(r)'
  <2>1. \A r \in Tab, k \in Own : net'[<<r, k>>] = net[<<r, k>>]
    BY <1>1
  <2> QED BY <1>2, <1>Same, <2>1 DEF IndInv, TabFits, InFlight
<1>6. \A g \in Fetch : FetchFits(g)'
  BY <1>1, <1>2, <1>Same DEF IndInv, FetchFits
<1>7. \A g \in Fetch : NewSession(g)'
  BY <1>1, <1>2, <1>Same DEF IndInv, NewSession
<1>8. CookieFits'
  BY <1>1, <1>2, <1>3, <1>Same DEF IndInv, CookieFits
<1>9. AloneFits'
  <2>1. net[c].path = "data"
    BY <1>3 DEF CallFits
  <2>2. \A g \in Fetch : Ending(g) => Ending(g)'
    BY <1>1, <1>2, <2>1 DEF Ending, InFlight
  <2> QED BY <1>2, <2>2 DEF IndInv, AloneFits
<1> QED BY <1>0, <1>4, <1>5, <1>6, <1>7, <1>8, <1>9 DEF IndInv

\* So does a 401 that makes the call refresh.
LEMMA FirstLeads ==
  ASSUME IndInv, NEW c \in Call, FirstAnswered(c),
         Told(c, "denied"), Leads(by[c]), pc' = [pc EXCEPT ![c] = "leads"],
         refreshPromise' = [refreshPromise EXCEPT ![by[c]] = c],
         net' = [net EXCEPT ![c] = Sent("refresh", jar, None)]
  PROVE  IndInv'
<1> USE Names
<1> DEFINE t == by[c]
<1>0. TypeOK /\ TypeOK' /\ c \in Fetch
  BY ResumeType DEF IndInv, Resume
<1>1. /\ net'[c].at = "sent" /\ net'[c].got = None /\ net'[c].cred = jar
      /\ net'[c].path = "refresh"
      /\ \A g \in Fetch \ {c} : net'[g] = net[g]
  <2>1. net'[c] = Sent("refresh", jar, None) /\ \A g \in Fetch \ {c} : net'[g] = net[g]
    BY <1>0 DEF TypeOK
  <2> QED BY <2>1 DEF Sent
<1>2. UNCHANGED <<owner, live, ended, took, jar, open, token, renewed, by, forms>>
  BY DEF FirstAnswered, Close, server
<1>3. /\ CallFits(c) /\ pc[c] = "first" /\ pc'[c] = "leads" /\ took[c] = 0
      /\ \A d \in Call \ {c} : pc'[d] = pc[d]
      /\ t \in Tab /\ t # None /\ refreshPromise[t] = None
  BY <1>0 DEF FirstAnswered, IndInv, CallFits, TypeOK, Told, Leads
<1>4. refreshPromise'[t] = c /\ \A r \in Tab \ {t} : refreshPromise'[r] = refreshPromise[r]
  BY <1>0, <1>3 DEF TypeOK
<1>Same. \A s : Issued(s)' <=> Issued(s)
  BY <1>2, SameIssued
<1>5. \A d \in Call : CallFits(d)'
  <2>1. CallFits(c)'
    BY <1>1, <1>2, <1>3, <1>4 DEF CallFits, Settled
  <2>2. ASSUME NEW d \in Call \ {c} PROVE CallFits(d)'
    <3>1. CallFits(d) /\ net'[d] = net[d] /\ pc'[d] = pc[d]
      BY <1>1, <1>3 DEF IndInv
    <3>2. pc[d] = "leads" => refreshPromise'[by[d]] = refreshPromise[by[d]]
      BY <1>0, <1>3, <1>4, <3>1 DEF CallFits, TypeOK
    <3> QED BY <1>2, <3>1, <3>2 DEF CallFits
  <2> QED BY <2>1, <2>2
<1>6. \A r \in Tab : TabFits(r)'
  <2>1. \A r \in Tab, k \in Own : net'[<<r, k>>] = net[<<r, k>>]
    BY <1>1
  <2> QED BY <1>2, <1>Same, <2>1 DEF IndInv, TabFits, InFlight
<1>7. \A g \in Fetch : FetchFits(g)'
  BY <1>1, <1>2, <1>Same DEF IndInv, FetchFits, CookieFits
<1>8. \A g \in Fetch : NewSession(g)'
  BY <1>1, <1>2, <1>Same DEF IndInv, NewSession
<1>9. CookieFits'
  <2>1. CookieFits
    BY DEF IndInv
  <2>2. \A d \in Call : pc'[d] = "leads" => <<by'[d], net'[d].cred>> \notin renewed'
    BY <1>1, <1>2, <1>3, <2>1 DEF CookieFits
  <2> QED BY <1>2, <1>Same, <2>1, <2>2 DEF CookieFits
<1>10. AloneFits'
  <2>1. net[c].path = "data"
    BY <1>3 DEF CallFits
  <2>2. \A g \in Fetch : Ending(g) => Ending(g)'
    BY <1>1, <1>2, <2>1 DEF Ending, InFlight
  <2> QED BY <1>2, <2>2 DEF IndInv, AloneFits
<1> QED BY <1>0, <1>5, <1>6, <1>7, <1>8, <1>9, <1>10 DEF IndInv

\* So does every answer to a call that was sent first.
LEMMA FirstIsAnswered ==
  ASSUME IndInv, NEW c \in Call, FirstAnswered(c)
  PROVE  IndInv'
<1>1. PICK o \in {"ok", "denied", "failed", "lost"} :
        /\ pc[c] = "first" /\ Told(c, o)
        /\ \/ /\ ~Unauthorized(o)
              /\ pc' = [pc EXCEPT ![c] = IF o = "ok" THEN "ok" ELSE "failed"]
              /\ net' = [net EXCEPT ![c] = Silent] /\ UNCHANGED refreshPromise
           \/ /\ Unauthorized(o) /\ Leads(by[c]) /\ pc' = [pc EXCEPT ![c] = "leads"]
              /\ refreshPromise' = [refreshPromise EXCEPT ![by[c]] = c]
              /\ net' = [net EXCEPT ![c] = Sent("refresh", jar, None)]
           \/ /\ Unauthorized(o) /\ pc' = [pc EXCEPT ![c] = "follows"]
              /\ net' = [net EXCEPT ![c] = Silent] /\ UNCHANGED refreshPromise
  BY DEF FirstAnswered
<1>2. Unauthorized(o) => Told(c, "denied") /\ took[c] = 0
  BY <1>1 DEF Unauthorized, Told, IndInv, CallFits
<1>3. CASE ~Unauthorized(o)
  BY <1>1, <1>3, FirstSettles
<1>4. CASE Unauthorized(o)
  BY <1>1, <1>2, <1>4, FirstSettles, FirstLeads
<1> QED BY <1>3, <1>4

\* So does the answer to a refresh, for the call and for those that await it.
LEMMA RefreshSucceeds ==
  ASSUME IndInv, NEW c \in Call, RefreshAnswered(c), Told(c, "ok"),
         Receive(by[c], net[c].got),
         renewed' = renewed \cup {<<by[c], net[c].cred>>},
         pc' = [d \in Call |-> IF d \in Awaiting(c) THEN "again" ELSE pc[d]],
         net' = [f \in Fetch |-> IF f \in Awaiting(c) THEN Sent("data", net[c].got, None)
                                 ELSE net[f]]
  PROVE  IndInv'
<1> USE Names
<1> DEFINE t == by[c]
           s == net[c].got
           new == Sent("data", s, None)
<1>0. TypeOK /\ TypeOK' /\ c \in Fetch /\ CallFits(c) /\ NewSession(c) /\ FetchFits(c)
  BY ResumeType DEF IndInv, Resume
<1>1. /\ new.at = "sent" /\ new.got = None /\ new.cred = s
      /\ new.path = "data" /\ new.answer = None /\ s \in Session \cup {None}
      /\ new.user = None
  BY <1>0 DEF Sent, TypeOK, Exchange
<1>2. /\ pc[c] = "leads" /\ net[c].at = "back" /\ net[c].answer = "ok" /\ net[c].path = "refresh"
      /\ t \in Tab /\ t # None /\ t \in open /\ refreshPromise[t] = c
      /\ net[c].cred # None /\ Issued(net[c].cred)
  BY <1>0 DEF RefreshAnswered, Told, CallFits, FetchFits, TypeOK
<1>3. /\ \A d \in Awaiting(c) : /\ d \in Call /\ by[d] = t /\ took[d] = 0
                                /\ net'[d] = new /\ pc'[d] = "again"
      /\ \A d \in Call \ Awaiting(c) : pc'[d] = pc[d]
      /\ \A f \in Fetch \ Awaiting(c) : net'[f] = net[f]
      /\ c \in Awaiting(c) /\ \A f \in Awaiting(c) : f \in Call
  BY <1>2 DEF Awaiting, IndInv, CallFits
<1> HIDE DEF new
<1>4. /\ UNCHANGED <<owner, live, ended, took, open, by, forms>>
      /\ jar' = s /\ token'[t] = s /\ \A r \in Tab \ {t} : token'[r] = token[r]
      /\ refreshPromise' = [refreshPromise EXCEPT ![t] = None]
      /\ \A r \in Tab \ {t} : refreshPromise'[r] = refreshPromise[r]
  BY <1>0, <1>2 DEF RefreshAnswered, Close, server, Receive, SetAuth, TypeOK
<1>Same. \A r : Issued(r)' <=> Issued(r)
  BY <1>4, SameIssued
<1>5. s # None => /\ Issued(s) /\ s \in live \cup ended /\ s # jar
                  /\ \A g \in Fetch : net[g].cred # s /\ (g # c => net[g].got # s)
                  /\ \A r \in Tab : token[r] # s /\ <<r, s>> \notin renewed
  BY <1>0 DEF NewSession
<1>6. \A d \in Call : CallFits(d)'
  <2>1. ASSUME NEW d \in Awaiting(c) PROVE CallFits(d)'
    <3>1. /\ net'[d] = new /\ pc'[d] = "again" /\ by'[d] = t /\ took'[d] = 0 /\ t \in open'
      BY <1>2, <1>3, <1>4
    <3> QED BY <1>1, <1>2, <3>1 DEF CallFits, Settled
  <2>2. ASSUME NEW d \in Call \ Awaiting(c) PROVE CallFits(d)'
    <3>1. CallFits(d) /\ net'[d] = net[d] /\ pc'[d] = pc[d]
      BY <1>3 DEF IndInv
    <3>2. pc[d] = "leads" => refreshPromise'[by[d]] = refreshPromise[by[d]]
      BY <1>0, <1>2, <1>3, <1>4, <3>1 DEF CallFits, TypeOK
    <3> QED BY <1>4, <3>1, <3>2 DEF CallFits
  <2> QED BY <2>1, <2>2
<1>7. \A r \in Tab : TabFits(r)'
  <2> SUFFICES ASSUME NEW r \in Tab PROVE TabFits(r)'
    OBVIOUS
  <2>1. TabFits(r) /\ \A k \in Own : net'[<<r, k>>] = net[<<r, k>>]
    BY <1>3 DEF IndInv
  <2>2. token'[r] # None => r \in open /\ Issued(token'[r])
    BY <1>2, <1>4, <1>5, <2>1 DEF TabFits
  <2> QED BY <1>4, <1>Same, <2>1, <2>2 DEF TabFits, InFlight
<1>8. \A g \in Fetch : FetchFits(g)'
  <2> SUFFICES ASSUME NEW g \in Fetch PROVE FetchFits(g)'
    OBVIOUS
  <2>1. CASE g \in Awaiting(c)
    BY <1>1, <1>3, <1>5, <1>Same, <2>1 DEF FetchFits
  <2>2. CASE g \notin Awaiting(c)
    BY <1>3, <1>Same, <2>2 DEF IndInv, FetchFits
  <2> QED BY <2>1, <2>2
<1>9. \A g \in Fetch : NewSession(g)'
  <2> SUFFICES ASSUME NEW g \in Fetch, net'[g].got # None PROVE NewSession(g)'
    BY DEF NewSession
  <2> DEFINE x == net[g].got
  <2>1. g \notin Awaiting(c) /\ g # c /\ net'[g] = net[g] /\ NewSession(g)
    BY <1>1, <1>3 DEF IndInv
  <2>2. x # None /\ x # s /\ x # net[c].cred
    BY <1>0, <2>1 DEF NewSession
  <2>3. \A h \in Fetch : net'[h].cred # x /\ (h # g => net'[h].got # x)
    <3> SUFFICES ASSUME NEW h \in Fetch PROVE net'[h].cred # x /\ (h # g => net'[h].got # x)
      OBVIOUS
    <3>1. CASE h \in Awaiting(c)
      BY <1>1, <1>3, <2>2, <3>1
    <3>2. CASE h \notin Awaiting(c)
      BY <1>3, <2>1, <2>2, <3>2 DEF NewSession
    <3> QED BY <3>1, <3>2
  <2>4. \A r \in Tab : token'[r] # x /\ <<r, x>> \notin renewed'
    BY <1>4, <2>1, <2>2 DEF NewSession
  <2> QED BY <1>4, <1>Same, <2>1, <2>2, <2>3, <2>4 DEF NewSession
<1>10. CookieFits'
  <2>1. CookieFits
    BY DEF IndInv
  <2>2. \A p \in renewed' : Issued(p[2]) /\ p[2] # s
    <3>1. net[c].cred # s
      BY <1>2, <1>5
    <3>2. ASSUME NEW p \in renewed PROVE Issued(p[2]) /\ p[2] # s
      <4>1. Issued(p[2]) /\ p \in Tab \X Session
        BY <1>0, <2>1 DEF CookieFits, TypeOK
      <4>2. CASE s = None
        BY <4>1, <4>2 DEF Issued
      <4>3. CASE s # None
        <5>1. p = <<p[1], p[2]>> /\ p[1] \in Tab
          BY <4>1
        <5> QED BY <1>5, <4>1, <4>3, <5>1
      <4> QED BY <4>2, <4>3
    <3> QED BY <1>2, <3>1, <3>2
  <2>3. ASSUME NEW d \in Call, pc'[d] = "leads"
        PROVE  <<by[d], net'[d].cred>> \notin renewed'
    <3>1. d \notin Awaiting(c) /\ pc[d] = "leads" /\ net'[d] = net[d] /\ CallFits(d) /\ d # c
      BY <1>3, <2>3 DEF IndInv
    <3>2. by[d] # t
      BY <1>2, <3>1 DEF CallFits
    <3>3. <<by[d], net[d].cred>> \notin renewed
      BY <2>1, <3>1 DEF CookieFits
    <3> QED BY <3>1, <3>2, <3>3
  <2> QED BY <1>4, <1>5, <1>Same, <2>2, <2>3 DEF CookieFits
<1>11. AloneFits'
  BY <1>2, <1>4, <1>5 DEF AloneFits
<1> QED BY <1>0, <1>6, <1>7, <1>8, <1>9, <1>10, <1>11 DEF IndInv

\* So does a refresh that fails: the calls that await it fail with it.
LEMMA RefreshFails ==
  ASSUME IndInv, NEW c \in Call, RefreshAnswered(c),
         ClearAuth(by[c]), UNCHANGED <<jar, renewed>>,
         pc' = [d \in Call |-> IF d \in Awaiting(c) THEN "failed" ELSE pc[d]],
         net' = [net EXCEPT ![c] = Silent]
  PROVE  IndInv'
<1> USE Names
<1> DEFINE t == by[c]
<1>0. TypeOK /\ TypeOK' /\ c \in Fetch /\ CallFits(c)
  BY ResumeType DEF IndInv, Resume
<1>1. /\ net'[c].at = "none" /\ net'[c].got = None /\ net'[c].cred = None
      /\ net'[c].path = "data"
      /\ \A g \in Fetch \ {c} : net'[g] = net[g]
  BY <1>0, Closed
<1>2. /\ pc[c] = "leads" /\ t \in Tab /\ t # None /\ t \in open /\ refreshPromise[t] = c
  BY <1>0 DEF RefreshAnswered, CallFits, TypeOK
<1>3. /\ \A d \in Awaiting(c) : /\ d \in Call /\ by[d] = t /\ took[d] = 0
                                /\ net'[d].at = "none" /\ pc'[d] = "failed"
      /\ \A d \in Call \ Awaiting(c) : pc'[d] = pc[d]
      /\ c \in Awaiting(c)
  BY <1>1, <1>2 DEF Awaiting, IndInv, CallFits
<1>4. /\ UNCHANGED <<owner, live, ended, took, jar, renewed, open, by, forms>>
      /\ token'[t] = None /\ \A r \in Tab \ {t} : token'[r] = token[r]
      /\ refreshPromise' = [refreshPromise EXCEPT ![t] = None]
      /\ \A r \in Tab \ {t} : refreshPromise'[r] = refreshPromise[r]
  BY <1>0, <1>2 DEF RefreshAnswered, Close, server, ClearAuth, TypeOK
<1>Same. \A r : Issued(r)' <=> Issued(r)
  BY <1>4, SameIssued
<1>5. \A d \in Call : CallFits(d)'
  <2>1. ASSUME NEW d \in Awaiting(c) PROVE CallFits(d)'
    BY <1>2, <1>3, <1>4 DEF CallFits, Settled
  <2>2. ASSUME NEW d \in Call \ Awaiting(c) PROVE CallFits(d)'
    <3>1. CallFits(d) /\ net'[d] = net[d] /\ pc'[d] = pc[d]
      BY <1>1, <1>3 DEF IndInv
    <3>2. pc[d] = "leads" => refreshPromise'[by[d]] = refreshPromise[by[d]]
      BY <1>0, <1>2, <1>3, <1>4, <3>1 DEF CallFits, TypeOK
    <3> QED BY <1>4, <3>1, <3>2 DEF CallFits
  <2> QED BY <2>1, <2>2
<1>6. \A r \in Tab : TabFits(r)'
  <2> SUFFICES ASSUME NEW r \in Tab PROVE TabFits(r)'
    OBVIOUS
  <2>1. TabFits(r) /\ \A k \in Own : net'[<<r, k>>] = net[<<r, k>>]
    BY <1>1 DEF IndInv
  <2>2. token'[r] # None => r \in open /\ Issued(token'[r])
    BY <1>4, <2>1 DEF TabFits
  <2> QED BY <1>4, <1>Same, <2>1, <2>2 DEF TabFits, InFlight
<1>7. \A g \in Fetch : FetchFits(g)'
  BY <1>1, <1>Same DEF IndInv, FetchFits
<1>8. \A g \in Fetch : NewSession(g)'
  <2> SUFFICES ASSUME NEW g \in Fetch, net'[g].got # None PROVE NewSession(g)'
    BY DEF NewSession
  <2>1. g # c /\ net'[g] = net[g] /\ NewSession(g)
    BY <1>1 DEF IndInv
  <2>2. \A h \in Fetch : net'[h].cred # net[g].got /\ (h # g => net'[h].got # net[g].got)
    BY <1>1, <2>1 DEF NewSession
  <2>3. \A r \in Tab : token'[r] # net[g].got
    BY <1>4, <2>1 DEF NewSession
  <2> QED BY <1>4, <1>Same, <2>1, <2>2, <2>3 DEF NewSession
<1>9. CookieFits'
  <2>1. \A d \in Call : pc'[d] = "leads" => pc[d] = "leads" /\ net'[d] = net[d]
    BY <1>1, <1>3
  <2> QED BY <1>4, <1>Same, <2>1 DEF IndInv, CookieFits
<1>10. AloneFits'
  BY <1>2, <1>4 DEF AloneFits
<1> QED BY <1>0, <1>5, <1>6, <1>7, <1>8, <1>9, <1>10 DEF IndInv

\* So does the answer to a call that was sent again.
LEMMA AgainIsAnswered ==
  ASSUME IndInv, NEW c \in Call, AgainAnswered(c)
  PROVE  IndInv'
<1> USE Names
<1> DEFINE t == by[c]
<1>0. TypeOK /\ TypeOK' /\ c \in Fetch /\ CallFits(c)
  BY ResumeType DEF IndInv, Resume
<1>1. /\ net'[c].at = "none" /\ net'[c].got = None /\ net'[c].cred = None
      /\ net'[c].path = "data"
      /\ \A g \in Fetch \ {c} : net'[g] = net[g]
  <2>1. net' = [net EXCEPT ![c] = Silent]
    BY DEF AgainAnswered
  <2> QED BY <1>0, <2>1, Closed
<1>2. /\ UNCHANGED <<owner, live, ended, took, jar, open, refreshPromise, renewed, by, forms>>
      /\ token' \in {token, [token EXCEPT ![t] = None]}
  BY DEF AgainAnswered, Close, server, ClearAuth
<1>3. /\ pc[c] = "again" /\ pc'[c] \in {"ok", "failed"} /\ t \in Tab
      /\ \A d \in Call \ {c} : pc'[d] = pc[d]
  BY <1>0 DEF AgainAnswered, CallFits, TypeOK
<1>4. \A r \in Tab : token'[r] \in {token[r], None}
  BY <1>0, <1>2, <1>3 DEF TypeOK
<1>Same. \A r : Issued(r)' <=> Issued(r)
  BY <1>2, SameIssued
<1>5. \A d \in Call : CallFits(d)'
  <2>1. CallFits(c)'
    BY <1>0, <1>1, <1>2, <1>3 DEF CallFits, Settled
  <2>2. ASSUME NEW d \in Call \ {c} PROVE CallFits(d)'
    <3>1. CallFits(d) /\ net'[d] = net[d] /\ pc'[d] = pc[d]
      BY <1>1, <1>3 DEF IndInv
    <3> QED BY <1>2, <3>1 DEF CallFits
  <2> QED BY <2>1, <2>2
<1>6. \A r \in Tab : TabFits(r)'
  <2>1. \A r \in Tab, k \in Own : net'[<<r, k>>] = net[<<r, k>>]
    BY <1>1
  <2> QED BY <1>2, <1>4, <1>Same, <2>1 DEF IndInv, TabFits, InFlight
<1>7. \A g \in Fetch : FetchFits(g)'
  BY <1>1, <1>Same DEF IndInv, FetchFits
<1>8. \A g \in Fetch : NewSession(g)'
  <2> SUFFICES ASSUME NEW g \in Fetch, net'[g].got # None PROVE NewSession(g)'
    BY DEF NewSession
  <2>1. g # c /\ net'[g] = net[g] /\ NewSession(g)
    BY <1>1 DEF IndInv
  <2>2. \A h \in Fetch : net'[h].cred # net[g].got /\ (h # g => net'[h].got # net[g].got)
    BY <1>1, <2>1 DEF NewSession
  <2>3. \A r \in Tab : token'[r] # net[g].got
    BY <1>4, <2>1 DEF NewSession
  <2> QED BY <1>2, <1>Same, <2>1, <2>2, <2>3 DEF NewSession
<1>9. CookieFits'
  <2>1. \A d \in Call : pc'[d] = "leads" => pc[d] = "leads" /\ net'[d] = net[d]
    BY <1>1, <1>3
  <2> QED BY <1>2, <1>Same, <2>1 DEF IndInv, CookieFits
<1>10. AloneFits'
  <2>1. net[c].path = "data"
    BY <1>0, <1>3 DEF CallFits
  <2>2. \A g \in Fetch : Ending(g) => Ending(g)'
    BY <1>1, <1>2, <2>1 DEF Ending, InFlight
  <2> QED BY <1>2, <1>4, <2>2 DEF IndInv, AloneFits
<1> QED BY <1>0, <1>5, <1>6, <1>7, <1>8, <1>9, <1>10 DEF IndInv

-----------------------------------------------------------------------------
(* The specification *)

\* A session that is there from an earlier visit fits the first state.
LEMMA Start == Init => IndInv
<1> SUFFICES ASSUME Init PROVE IndInv
  OBVIOUS
<1> USE Names
<1>1. Silent.at = "none" /\ Silent.path = "data" /\ Silent.cred = None /\ Silent.got = None
      /\ Silent \in Exchange
  BY SentType DEF Silent, Sent
<1>2. TypeOK
  BY <1>1, ClientAssumption DEF ClientAssumption, Init, TypeOK
<1>3. \A c \in Call : CallFits(c)
  BY <1>1 DEF Init, CallFits, Settled
<1>4. \A t \in Tab : TabFits(t)
  BY <1>1 DEF Init, TabFits, InFlight
<1>5. \A f \in Fetch : FetchFits(f) /\ NewSession(f)
  BY <1>1 DEF Init, FetchFits, NewSession
<1>6. CookieFits /\ AloneFits
  BY DEF Init, CookieFits, AloneFits, Issued
<1> QED BY <1>2, <1>3, <1>4, <1>5, <1>6 DEF IndInv

\* Every step keeps the invariant.
LEMMA Step == IndInv /\ [Next]_vars => IndInv'
<1> SUFFICES ASSUME IndInv, [Next]_vars PROVE IndInv'
  OBVIOUS
<1>1. ASSUME NEW c \in Call, RefreshAnswered(c) PROVE IndInv'
  BY <1>1, RefreshSucceeds, RefreshFails DEF RefreshAnswered
<1>2. ASSUME NEW f \in Fetch, Resume(f) PROVE IndInv'
  BY <1>1, <1>2, LoadIsAnswered, LoginIsAnswered, LogoutIsAnswered, FirstIsAnswered,
     AgainIsAnswered DEF Resume
<1>3. CASE UNCHANGED vars \/ \E s \in Session : Evict(s)
  BY <1>3, OtherKeeps
<1> QED BY <1>2, <1>3, Loads, Submits, Starts, ServeKeeps DEF Next, Quiet

\* The invariant holds of every state (the protocol of api.ts, main.tsx,
\* App.tsx and AuthPage.tsx with the back end).
THEOREM Inductive == Spec => []IndInv
<1> QED BY Start, Step, PTL DEF Spec

\* Every state is well typed: no fetch, call or session leaves its range.
THEOREM TypeCorrect == Spec => []TypeOK
<1>1. IndInv => TypeOK
  BY DEF IndInv
<1> QED BY <1>1, Inductive, PTL

\* The calls of a tab do not use up each other's session (api.ts: the shared
\* refresh promise).
THEOREM OwnRefreshes == Spec => []OwnRefreshNotRefused
<1>1. IndInv => OwnRefreshNotRefused
  BY DEF IndInv, CookieFits, OwnRefreshNotRefused
<1> QED BY <1>1, Inductive, PTL

\* A call takes effect once at most, though request sends it twice.
THEOREM EffectOnce == Spec => []EffectAtMostOnce
<1>1. IndInv => EffectAtMostOnce
  BY DEF IndInv, CallFits, EffectAtMostOnce
<1> QED BY <1>1, Inductive, PTL

\* A tab that is alone, shows a user and waits for nothing can renew the session
\* it shows.
THEOREM SignedInRenews == Spec => []SignedInCanRefresh
<1>1. ASSUME IndInv PROVE SignedInCanRefresh
  <2> SUFFICES ASSUME NEW t \in Tab, open = {t}, token[t] # None,
                      \A f \in FetchesOf(t) : ~InFlight(f)
               PROVE  jar = token[t] /\ jar \in live \cup ended
    BY DEF SignedInCanRefresh
  <2>1. jar = token[t] /\ (jar \in live \cup ended \/ \E f \in Fetch : Ending(f))
    BY <1>1 DEF IndInv, AloneFits
  <2>2. ASSUME NEW f \in Fetch, InFlight(f) PROVE FALSE
    <3>1. CASE f \in Call
      <4>1. by[f] = t
        BY <1>1, <2>2, <3>1 DEF IndInv, CallFits, TypeOK, InFlight
      <4> QED BY <2>2, <3>1, <4>1 DEF FetchesOf
    <3>2. ASSUME NEW r \in Tab, NEW k \in Own, f = <<r, k>> PROVE FALSE
      <4>1. r = t
        BY <1>1, <2>2, <3>2, Opened DEF InFlight
      <4> QED BY <2>2, <3>2, <4>1 DEF FetchesOf
    <3> QED BY <3>1, <3>2, Names
  <2> QED BY <2>1, <2>2 DEF Ending
<1> QED BY <1>1, Inductive, PTL
=============================================================================
