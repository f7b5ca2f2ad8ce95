--------------------------- MODULE ClientSessionInv ---------------------------
(* The inductive invariant of ClientSession. *)
EXTENDS ClientSession

Issued(s) == s \in Session /\ owner[s] # None

\* A call has a tab, a fetch that fits where it is, and no effect before it is
\* answered; the refresh of a tab has one leader.
CallFits(c) ==
  /\ by[c] # None => by[c] \in open
  /\ took[c] <= 1
  /\ pc[c] = "idle" => by[c] = None /\ net[c].at = "none" /\ took[c] = 0
  /\ pc[c] \in {"first", "again"} =>
       /\ by[c] # None /\ net[c].path = "data" /\ net[c].at \in {"sent", "back"}
       /\ net[c].at = "sent" \/ net[c].answer = "denied" => took[c] = 0
  /\ pc[c] = "leads" =>
       by[c] # None /\ net[c].path = "refresh" /\ took[c] = 0 /\ refreshPromise[by[c]] = c
  /\ pc[c] = "follows" => by[c] # None /\ net[c].at = "none" /\ took[c] = 0
  /\ pc[c] \in Settled => net[c].at = "none"

\* Only a tab that was loaded has a token or a fetch, and a form that was not
\* submitted has none.
TabFits(t) ==
  /\ token[t] # None => t \in open /\ Issued(token[t])
  /\ \A k \in Own : InFlight(<<t, k>>) => t \in open /\ k <= forms

\* What a tab sends it was given; what a fetch needs to be answered it has.
FetchFits(f) ==
  /\ net[f].cred # None => Issued(net[f].cred)
  /\ net[f].at = "found" => net[f].path = "refresh" /\ net[f].cred # None
  /\ net[f].at = "back" /\ net[f].path = "refresh" /\ net[f].answer = "ok"
       => net[f].cred # None
  /\ net[f].path = "login" => net[f].user # None

\* A session on its way to a tab has been nowhere else yet.
NewSession(f) ==
  net[f].got # None =>
    /\ net[f].at = "back" /\ Issued(net[f].got) /\ net[f].got \in live \cup ended
    /\ net[f].got # jar
    /\ \A g \in Fetch : net[g].cred # net[f].got /\ (g # f => net[g].got # net[f].got)
    /\ \A t \in Tab : token[t] # net[f].got /\ <<t, net[f].got>> \notin renewed

\* A session that a call has had renewed is not in the cookie any more, and no
\* call of the tab presents it.
CookieFits ==
  /\ jar # None => Issued(jar)
  /\ \A p \in renewed : Issued(p[2]) /\ p[2] # jar
  /\ \A c \in Call : pc[c] = "leads" => <<by[c], net[c].cred>> \notin renewed

\* The fetches that end the session in the cookie, or change it, when they end.
Ending(f) == InFlight(f) /\ net[f].path \in {"refresh", "logout"} /\ net[f].cred = jar

\* A tab alone that shows a user has the session of the cookie, which is good
\* unless a fetch of the tab is about to replace it.
AloneFits ==
  \A t \in Tab : open = {t} /\ token[t] # None =>
    /\ jar = token[t]
    /\ jar \in live \cup ended \/ \E f \in Fetch : Ending(f)

IndInv ==
  /\ TypeOK
  /\ \A c \in Call : CallFits(c)
  /\ \A t \in Tab : TabFits(t)
  /\ \A f \in Fetch : FetchFits(f) /\ NewSession(f)
  /\ CookieFits /\ AloneFits
=============================================================================
