---------------------------- MODULE ClientSession ----------------------------
(***************************************************************************)
(* The session of the front end: the access token every browser tab keeps  *)
(* in memory, the refresh cookie the tabs share, and the requests between  *)
(* a tab and the back end (front-end/src/services/api.ts, main.tsx,        *)
(* App.tsx, pages/AuthPage.tsx).                                           *)
(*                                                                         *)
(* A tab runs one callback at a time; what it does between two awaits of a *)
(* fetch is one action.  A fetch is sent, served and answered, or it is    *)
(* rejected on the way.  An answer that sets the cookie sets it in the     *)
(* same step.  The server is the Rust back end; its refresh reads the row  *)
(* in one step and replaces it in another, as in AuthSessions, and its     *)
(* other handlers are one step each.                                       *)
(*                                                                         *)
(* One response carries an access token and a refresh token; a Session     *)
(* names both.  Registration answers as a login does and is not told apart.*)
(***************************************************************************)
EXTENDS Naturals, FiniteSets

CONSTANTS User, Tab,
          Call,      \* the calls of the pages to endpoints that need a token
          MaxPages,  \* how often a page is loaded
          MaxForms,  \* how often a login or logout is submitted
          MaxFaults, \* how often something fails: a fetch is rejected, a
                     \* handler fails or refuses, a refresh token ends early
          None

\* The fetches of a tab that no call makes: 0 is the refresh of its load, the
\* others are the forms, in the order they are submitted.
Own == 0 .. MaxForms

ASSUME ClientAssumption ==
  /\ {MaxPages, MaxForms, MaxFaults} \subseteq Nat
  /\ IsFiniteSet(Call)
  /\ Call \cap (Tab \X Own) = {}
  /\ None \notin User \cup Call \cup Tab /\ None \notin Nat

\* Session 1 may be there from an earlier visit; every other one is made by a
\* login or a refresh, of which a call, a page and a form send one at most.
Session == 1 .. 1 + MaxPages + MaxForms + Cardinality(Call)
Fetch == Call \cup (Tab \X Own)

VARIABLES
  owner,    \* the account of a session, None if it was never issued
  live,     \* the refresh tokens the server accepts
  took,     \* how often a call has taken effect
  jar,      \* the refresh cookie of the browser
  open,     \* the tabs that have loaded the page
  token,    \* appState.auth of a tab (its user is the owner of the token)
  cached,   \* whether the query cache of a tab holds a list
  refreshPromise, \* the call whose refresh the other calls of a tab await
  pc, by,   \* where a call is, and in which tab
  net,      \* the fetch that a call, a load or a form of a tab has open
  pages, forms, faults, \* how many there have been
  ended,    \* history: the sessions that expired or that a reset deleted
  renewed,  \* history: the tabs whose calls have had a session renewed
  loggedOut \* history: the tabs whose last form was a logout

server == <<owner, live, took, ended>>
page == <<open, token, cached, refreshPromise, renewed, loggedOut>>
call == <<pc, by>>
count == <<pages, forms, faults>>
vars == <<server, jar, page, call, net, count>>

Settled == {"ok", "failed", "gone"}
Exchange == [at : {"none", "sent", "found", "back"},
             path : {"data", "refresh", "login", "logout"},
             cred : Session \cup {None},   \* access token, or else cookie
             user : User \cup {None},
             answer : {"ok", "denied", "failed", None},  \* 2xx, 401, other
             got : Session \cup {None}]

Sent(p, c, u) == [at |-> "sent", path |-> p, cred |-> c, user |-> u,
                  answer |-> None, got |-> None]
Silent == [Sent("data", None, None) EXCEPT !.at = "none"]

TypeOK ==
  /\ owner \in [Session -> User \cup {None}]
  /\ live \subseteq {s \in Session : owner[s] # None}
  /\ took \in [Call -> Nat]
  /\ jar \in Session \cup {None}
  /\ open \subseteq Tab /\ loggedOut \subseteq Tab
  /\ token \in [Tab -> Session \cup {None}]
  /\ cached \in [Tab -> BOOLEAN]
  /\ refreshPromise \in [Tab -> Call \cup {None}]
  /\ pc \in [Call -> {"idle", "first", "leads", "follows", "again"} \cup Settled]
  /\ by \in [Call -> Tab \cup {None}]
  /\ net \in [Fetch -> Exchange]
  /\ pages \in 0..MaxPages /\ forms \in 0..MaxForms /\ faults \in 0..MaxFaults
  /\ ended \subseteq Session
  /\ renewed \subseteq Tab \X Session

CallsOf(t) == {c \in Call : by[c] = t /\ pc[c] \notin Settled}
FetchesOf(t) == {c \in Call : by[c] = t} \cup ({t} \X Own)
InFlight(f) == net[f].at # "none"

Init ==
  /\ owner \in {o \in [Session -> User \cup {None}] :
                  \A s \in Session \ {1} : o[s] = None}
  /\ live \in SUBSET {s \in Session : owner[s] # None}
  /\ jar \in {s \in Session : owner[s] # None} \cup {None}
  /\ took = [c \in Call |-> 0]
  /\ open = {} /\ loggedOut = {}
  /\ token = [t \in Tab |-> None]
  /\ cached = [t \in Tab |-> FALSE]
  /\ refreshPromise = [t \in Tab |-> None]
  /\ pc = [c \in Call |-> "idle"]
  /\ by = [c \in Call |-> None]
  /\ net = [f \in Fetch |-> Silent]
  /\ pages = 0 /\ forms = 0 /\ faults = 0
  /\ ended = {} /\ renewed = {}

-----------------------------------------------------------------------------
(* The server *)

\* The first session that was not issued; there is one whenever a request is served.
Unissued == {s \in Session : /\ owner[s] = None
                             /\ \A r \in Session : owner[r] = None => s <= r}

Fault(b) == /\ b => faults < MaxFaults
            /\ faults' = faults + (IF b THEN 1 ELSE 0)

Reply(f, a, s) ==
  /\ net' = [net EXCEPT ![f].at = "back", ![f].answer = a, ![f].got = s]
  /\ UNCHANGED <<jar, page, call, pages, forms>>

\* Mutant: the row is stored without its user.
IssueUnowned(s, u) == UNCHANGED owner

Issue(s, u) == owner' = [owner EXCEPT ![s] = u]

\* An access token may have expired when it arrives.  A handler may fail before
\* it has an effect, or afterwards.
ServeData(f) ==
  /\ net[f].at = "sent" /\ net[f].path = "data"
  /\ \/ /\ net[f].cred # None
        /\ took' = [took EXCEPT ![f] = @ + 1]
        /\ \E a \in {"ok", "failed"} : Reply(f, a, None) /\ Fault(a = "failed")
     \/ /\ net[f].cred # None
        /\ Reply(f, "failed", None) /\ Fault(TRUE) /\ UNCHANGED took
     \/ Reply(f, "denied", None) /\ Fault(FALSE) /\ UNCHANGED took
  /\ UNCHANGED <<owner, live, ended>>

ServeLogin(f) ==
  /\ net[f].at = "sent" /\ net[f].path = "login"
  /\ \/ /\ \E s \in Unissued : /\ Issue(s, net[f].user)
                                /\ live' = live \cup {s}
                                /\ Reply(f, "ok", s)
        /\ Fault(FALSE) /\ UNCHANGED <<took, ended>>
     \/ Reply(f, "denied", None) /\ Fault(TRUE) /\ UNCHANGED server

FindSession(f) ==
  /\ net[f].at = "sent" /\ net[f].path = "refresh"
  /\ UNCHANGED server
  /\ \/ /\ net[f].cred \in live
        /\ net' = [net EXCEPT ![f].at = "found"]
        /\ UNCHANGED <<jar, page, call, count>>
     \/ net[f].cred \notin live /\ Reply(f, "denied", None) /\ Fault(FALSE)

\* Two refreshes that both found the row both succeed.  A statement that fails
\* leaves the old row, or no row.
Rotate(f) ==
  LET c == net[f].cred IN
  /\ net[f].at = "found"
  /\ UNCHANGED <<took, ended>>
  /\ \/ /\ \E s \in Unissued : /\ Issue(s, owner[c])
                                /\ live' = (live \ {c}) \cup {s}
                                /\ Reply(f, "ok", s)
        /\ Fault(FALSE)
     \/ /\ live' \in {live, live \ {c}}
        /\ Reply(f, "failed", None) /\ Fault(TRUE)
        /\ UNCHANGED owner

ServeLogout(f) ==
  LET c == net[f].cred IN
  /\ net[f].at = "sent" /\ net[f].path = "logout"
  /\ UNCHANGED <<owner, took, ended>>
  /\ \/ /\ c \in live /\ live' = live \ {c}
        /\ Reply(f, "ok", None) /\ Fault(FALSE)
     \/ /\ c \in live /\ live' \in {live, live \ {c}}
        /\ Reply(f, "failed", None) /\ Fault(TRUE)
     \/ c \notin live /\ Reply(f, "denied", None) /\ Fault(FALSE) /\ UNCHANGED live

\* A refresh token expires, or a reset deletes it.  (One that is not in use
\* makes no difference to anybody.)
Evict(s) ==
  /\ s \in live
  /\ s = jar \/ \E f \in Fetch : s \in {net[f].cred, net[f].got}
  /\ live' = live \ {s} /\ ended' = ended \cup {s}
  /\ Fault(TRUE)
  /\ UNCHANGED <<owner, took, jar, page, call, net, pages, forms>>

Serve(f) == \/ ServeData(f) \/ ServeLogin(f) \/ FindSession(f) \/ Rotate(f)
            \/ ServeLogout(f)

-----------------------------------------------------------------------------
(* The tabs *)

\* What a tab is told of a fetch: the answer, or that it was rejected, in which
\* case the request or its answer was lost.
Told(f, o) == \/ net[f].at = "back" /\ o = net[f].answer
              \/ net[f].at \in {"sent", "back"} /\ o = "lost"

Close(f, o) == Fault(o = "lost") /\ UNCHANGED <<server, pages, forms>>

SetAuth(t, s) == token' = [token EXCEPT ![t] = s]

\* Mutant: authActions.logout empties the user but not the token.
KeepToken(t) == UNCHANGED token

ClearAuth(t) == token' = [token EXCEPT ![t] = None]

Receive(t, s) == jar' = s /\ SetAuth(t, s)

\* The page is loaded, or loaded again: what the tab had open is cut off.
LoadPage(t) ==
  /\ pages < MaxPages
  /\ pages' = pages + 1
  /\ open' = open \cup {t}
  /\ ClearAuth(t)
  /\ cached' = [cached EXCEPT ![t] = FALSE]
  /\ refreshPromise' = [refreshPromise EXCEPT ![t] = None]
  /\ loggedOut' = loggedOut \ {t}
  /\ pc' = [c \in Call |-> IF c \in CallsOf(t) THEN "gone" ELSE pc[c]]
  /\ net' = [f \in Fetch |-> IF f = <<t, 0>> THEN Sent("refresh", jar, None)
                             ELSE IF f \in FetchesOf(t) THEN Silent ELSE net[f]]
  /\ UNCHANGED <<server, jar, by, forms, faults, renewed>>

\* refreshOnLoad
LoadAnswered(t) ==
  LET f == <<t, 0>> IN
  \E o \in {"ok", "denied", "failed", "lost"} :
    /\ Told(f, o)
    /\ Close(f, o)
    /\ net' = [net EXCEPT ![f] = Silent]
    /\ \/ o = "ok" /\ Receive(t, net[f].got)
       \/ o # "ok" /\ ClearAuth(t) /\ UNCHANGED jar
    /\ UNCHANGED <<open, cached, refreshPromise, renewed, loggedOut, call>>

Submit(t, e) == /\ t \in open /\ forms < MaxForms
                /\ forms' = forms + 1
                /\ net' = [net EXCEPT ![<<t, forms + 1>>] = e]
                /\ UNCHANGED <<server, jar, page, call, pages, faults>>

\* logoutPending
LogoutPending(t) ==
  \E n \in Own : InFlight(<<t, n>>) /\ net[<<t, n>>].path = "logout"

\* The forms are shown to a tab that is signed out, the button to one that is
\* signed in.  A form does not wait for an earlier one: the page of the forms is
\* left and opened again, or a refresh signs the tab in, while a login is on its
\* way.
SubmitLogin(t) == token[t] = None /\ \E u \in User : Submit(t, Sent("login", None, u))
SubmitLogout(t) ==
  token[t] # None /\ ~LogoutPending(t) /\ Submit(t, Sent("logout", jar, None))

LoginAnswered(t, n) ==
  LET f == <<t, n>> IN
  \E o \in {"ok", "denied", "failed", "lost"} :
    /\ net[f].path = "login"
    /\ Told(f, o)
    /\ Close(f, o)
    /\ net' = [net EXCEPT ![f] = Silent]
    /\ \/ /\ o = "ok"
          /\ Receive(t, net[f].got)
          /\ loggedOut' = loggedOut \ {t}
       \/ o # "ok" /\ UNCHANGED <<jar, token, loggedOut>>
    /\ UNCHANGED <<open, cached, refreshPromise, renewed, call>>

\* handleLogout
LogoutAnswered(t, n) ==
  LET f == <<t, n>> IN
  \E o \in {"ok", "denied", "failed", "lost"} :
    /\ net[f].path = "logout"
    /\ Told(f, o)
    /\ Close(f, o)
    /\ net' = [net EXCEPT ![f] = Silent]
    /\ jar' = IF o = "ok" THEN None ELSE jar
    /\ ClearAuth(t)
    /\ cached' = [cached EXCEPT ![t] = FALSE]
    /\ loggedOut' = loggedOut \cup {t}
    /\ UNCHANGED <<open, refreshPromise, renewed, call>>

-----------------------------------------------------------------------------
(* A call of the page: request in api.ts *)

\* A list that is still cached is shown, with its buttons, to a tab that lost
\* its session.
StartCall(c, t) ==
  /\ pc[c] = "idle" /\ t \in open
  /\ token[t] # None \/ cached[t]
  /\ pc' = [pc EXCEPT ![c] = "first"]
  /\ by' = [by EXCEPT ![c] = t]
  /\ net' = [net EXCEPT ![c] = Sent("data", token[t], None)]
  /\ UNCHANGED <<server, jar, page, count>>

\* Mutant: no shared promise, every call refreshes for itself.
AlwaysLeads(t) == TRUE

Leads(t) == refreshPromise[t] = None

\* Mutant: any request that did not succeed is sent again.
AnyFailure(o) == o # "ok"

\* response.status === 401
Unauthorized(o) == o = "denied"

\* The answer to the request as it was sent first.  After a 401 the call starts
\* a refresh, or awaits the one another call of the tab has started.
FirstAnswered(c) ==
  LET t == by[c] IN
  \E o \in {"ok", "denied", "failed", "lost"} :
    /\ pc[c] = "first"
    /\ Told(c, o)
    /\ Close(c, o)
    /\ \/ /\ ~Unauthorized(o)
          /\ pc' = [pc EXCEPT ![c] = IF o = "ok" THEN "ok" ELSE "failed"]
          /\ cached' = [cached EXCEPT ![t] = @ \/ (o = "ok" /\ token[t] # None)]
          /\ net' = [net EXCEPT ![c] = Silent]
          /\ UNCHANGED refreshPromise
       \/ /\ Unauthorized(o) /\ Leads(t)
          /\ pc' = [pc EXCEPT ![c] = "leads"]
          /\ refreshPromise' = [refreshPromise EXCEPT ![t] = c]
          /\ net' = [net EXCEPT ![c] = Sent("refresh", jar, None)]
          /\ UNCHANGED cached
       \/ /\ Unauthorized(o) /\ ~Leads(t)
          /\ pc' = [pc EXCEPT ![c] = "follows"]
          /\ net' = [net EXCEPT ![c] = Silent]
          /\ UNCHANGED <<cached, refreshPromise>>
    /\ UNCHANGED <<jar, open, token, renewed, loggedOut, by>>

\* Mutant: a refresh is awaited, but only who started it goes on.
AwaitingAlone(c) == {c}

\* The calls that go on when the refresh of c is over.
Awaiting(c) ==
  {c} \cup {d \in Call : by[d] = by[c] /\ pc[d] = "follows"}

RefreshAnswered(c) ==
  LET t == by[c] IN
  \E o \in {"ok", "denied", "failed", "lost"} :
    /\ pc[c] = "leads"
    /\ Told(c, o)
    /\ Close(c, o)
    /\ refreshPromise' = [refreshPromise EXCEPT ![t] = None]
    /\ \/ /\ o = "ok"
          /\ Receive(t, net[c].got)
          /\ renewed' = renewed \cup {<<t, net[c].cred>>}
          /\ pc' = [d \in Call |-> IF d \in Awaiting(c) THEN "again" ELSE pc[d]]
          /\ net' = [f \in Fetch |-> IF f \in Awaiting(c)
                                     THEN Sent("data", net[c].got, None)
                                     ELSE net[f]]
       \/ /\ o # "ok"
          /\ ClearAuth(t) /\ UNCHANGED <<jar, renewed>>
          /\ pc' = [d \in Call |-> IF d \in Awaiting(c) THEN "failed" ELSE pc[d]]
          /\ net' = [net EXCEPT ![c] = Silent]
    /\ UNCHANGED <<open, cached, loggedOut, by>>

\* The catch around the retry ends the session also when the retry is lost.
AgainAnswered(c) ==
  LET t == by[c] IN
  \E o \in {"ok", "denied", "failed", "lost"} :
    /\ pc[c] = "again"
    /\ Told(c, o)
    /\ Close(c, o)
    /\ pc' = [pc EXCEPT ![c] = IF o = "ok" THEN "ok" ELSE "failed"]
    /\ net' = [net EXCEPT ![c] = Silent]
    /\ \/ o = "lost" /\ ClearAuth(t) /\ UNCHANGED cached
       \/ /\ o # "lost" /\ UNCHANGED token
          /\ cached' = [cached EXCEPT ![t] = @ \/ (o = "ok" /\ token[t] # None)]
    /\ UNCHANGED <<jar, open, refreshPromise, renewed, loggedOut, by>>

-----------------------------------------------------------------------------
\* The answer arrives, whatever it is.
Resume(f) ==
  \/ \E t \in Tab : f = <<t, 0>> /\ LoadAnswered(t)
  \/ \E t \in Tab, n \in Own \ {0} :
       f = <<t, n>> /\ (LoginAnswered(t, n) \/ LogoutAnswered(t, n))
  \/ f \in Call /\ (FirstAnswered(f) \/ RefreshAnswered(f) \/ AgainAnswered(f))

\* Nobody waits for anything.
Quiet == /\ \A f \in Fetch : ~InFlight(f)
         /\ \A c \in Call : pc[c] \in {"idle"} \cup Settled
         /\ UNCHANGED vars

Next ==
  \/ \E t \in Tab : LoadPage(t) \/ SubmitLogin(t) \/ SubmitLogout(t)
  \/ \E c \in Call, t \in Tab : StartCall(c, t)
  \/ \E f \in Fetch : Serve(f) \/ Resume(f)
  \/ \E s \in Session : Evict(s)
  \/ Quiet

Spec == Init /\ [][Next]_vars

\* The server answers what it receives and the browser settles every fetch of a
\* call; no call waits for a load or a form.
Fairness == \A c \in Call : WF_vars(Serve(c)) /\ WF_vars(Resume(c))

FairSpec == Spec /\ Fairness

-----------------------------------------------------------------------------
\* The calls of a tab do not use up each other's session: once one of them has
\* had the session renewed, no other is refused for presenting the old cookie.
OwnRefreshNotRefused ==
  \A c \in Call : pc[c] = "leads" /\ net[c].answer = "denied"
                  => <<by[c], net[c].cred>> \notin renewed

\* However often a call is sent, it takes effect once.
EffectAtMostOnce == \A c \in Call : took[c] <= 1

\* While one tab is all there is, a tab that shows a user and waits for nothing
\* holds the session of the cookie, and the server will renew it unless it
\* expired or was reset: sign-ins, refreshes and lost answers leave no tab that
\* shows a user whose session it has itself used up.
SignedInCanRefresh ==
  \A t \in Tab :
    /\ open = {t} /\ token[t] # None
    /\ \A f \in FetchesOf(t) : ~InFlight(f)
    => /\ jar = token[t]
       /\ jar \in live \cup ended

\* No call waits for ever, nor for a refresh that is over.
EveryCallSettles == \A c \in Call : pc[c] # "idle" ~> pc[c] \in Settled

\* App.tsx:191 says of a logout that fails: local state will be cleared.  Once
\* a tab has handled a logout it is signed out until a login or a reload.
LogoutClears == \A t \in loggedOut : token[t] = None
=============================================================================
