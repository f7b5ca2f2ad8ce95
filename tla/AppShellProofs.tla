--------------------------- MODULE AppShellProofs ---------------------------
(***************************************************************************)
(* Proofs about AppShell, for any accounts, commands and bounds.  The state *)
(* falls into four parts that each have an invariant of their own: the      *)
(* preferences, the types of the page, the session the page belongs to, and *)
(* the assistant's replies.                                                 *)
(***************************************************************************)
EXTENDS AppShell, TLAPS

\* localStorage holds the last choices, and that the tour was closed if it was.
ChoicesAreStored ==
  /\ DOMAIN storage = Preference \cup {"tour"}
  /\ DOMAIN prefs = Preference /\ DOMAIN chosen = Preference
  /\ \A p \in Preference : chosen[p] # None => storage[p] = chosen[p]
  /\ storage.tour = seen
ChoicesTyped ==
  /\ \A p \in Preference : /\ storage[p] \in Allowed(p) \cup Garbled \cup {None}
                           /\ prefs[p] \in Allowed(p)
                           /\ chosen[p] \in Allowed(p) \cup {None}
  /\ storage.tour \in BOOLEAN /\ seen \in BOOLEAN

PageTyped ==
  /\ tourStep \in 0..tourSteps
  /\ {drawerOpen, headerHidden, menuOpen, loading, logoutPending, strayed} \subseteq BOOLEAN
  /\ route \in Route /\ account \in User \cup {None}
  /\ mode \in {"login", "register", "forgot", "reset"}
  /\ phase \in [Form -> {"idle", "pending", "error", "success"}]
  /\ logins \subseteq User /\ own \in logins \cup {None}
  /\ {listed, listing} \subseteq User \cup {None}

\* What is cached or fetched is the account's own unless an account was lost with
\* it; while nobody is signed in nothing else is there.
SessionKept ==
  /\ FormFitsSession
  /\ ~strayed => {listed, listing} \subseteq {None, account}

\* One reply to each message, the last one may be due.
RepliesDue ==
  /\ step \in {"idle", "create", "find", "update"}
  /\ acts \in 0..MaxActs /\ events \in 0..MaxEvents
  /\ asked \in 0..acts /\ replies = IF step = "idle" THEN asked ELSE asked - 1
  /\ replies \in Nat

ShellInv == ChoicesTyped /\ ChoicesAreStored /\ PageTyped /\ SessionKept /\ RepliesDue

-----------------------------------------------------------------------------
(* Preferences *)

\* A choice is shown and stored.
LEMMA ChooseKeeps ==
  ASSUME ChoicesAreStored, ChoicesTyped, NEW p \in Preference, NEW v \in Allowed(p),
         Choose(p, v)
  PROVE  ChoicesTyped' /\ ChoicesAreStored'
<1>1. \A q \in Preference : q # "tour" /\ None \notin Allowed(q)
  BY ShellAssumption DEF Preference, Allowed
<1> QED
  BY <1>1 DEF ChoicesAreStored, ChoicesTyped, Choose

\* A load finds what was chosen last.
LEMMA LoadChoices ==
  ASSUME ChoicesAreStored, ChoicesTyped, Load
  PROVE  /\ ChoicesTyped' /\ ChoicesAreStored'
         /\ \A p \in Preference :
              IF chosen[p] # None THEN prefs'[p] = chosen[p]
              ELSE storage'[p] = storage[p] \/ storage[p] = "unknown"
<1>1. PICK t \in Hydrated("theme"), l \in Hydrated("language") :
        /\ Hydrate("theme", t) /\ Hydrate("language", l)
        /\ prefs' = [theme |-> t.shown, language |-> l.shown]
        /\ storage' = [storage EXCEPT !.theme = t.kept, !.language = l.kept]
  BY DEF Load
<1>2. /\ prefs'["theme"] = t.shown /\ prefs'["language"] = l.shown
      /\ DOMAIN prefs' = Preference /\ DOMAIN storage' = DOMAIN storage
      /\ storage'["theme"] = t.kept /\ storage'["language"] = l.kept
      /\ storage'["tour"] = storage["tour"]
  BY <1>1 DEF ChoicesAreStored, Preference
<1> QED
  BY <1>1, <1>2 DEF Hydrate, ChoicesAreStored, ChoicesTyped, Load, Preference

\* Every step keeps what was chosen in localStorage.
LEMMA ChoicesStep ==
  ASSUME ChoicesTyped, ChoicesAreStored, Message \subseteq MessageType, [Next]_vars
  PROVE  ChoicesTyped' /\ ChoicesAreStored'
<1>1. ASSUME UNCHANGED <<stored, prefs>> PROVE ChoicesTyped' /\ ChoicesAreStored'
  BY <1>1 DEF stored, ChoicesTyped, ChoicesAreStored
<1>2. CASE setTheme \/ setLanguage
  BY <1>2, ChooseKeeps DEF setTheme, setLanguage, Preference
<1>3. CASE TourClose
  <2>1. /\ storage' = [storage EXCEPT !.tour = TRUE] /\ seen' = TRUE
        /\ UNCHANGED <<chosen, prefs>>
    BY <1>3 DEF TourClose, Chrome
  <2> QED
    BY <2>1 DEF ChoicesTyped, ChoicesAreStored, Preference
<1>4. CASE handleSubmit
  <2>1. PICK m \in Message :
          IF Intent(m) = "theme" THEN Choose("theme", m.theme)
          ELSE IF Intent(m) = "language" THEN Choose("language", m.language)
          ELSE UNCHANGED <<stored, prefs>>
    BY <1>4 DEF handleSubmit
  <2>2. /\ Intent(m) = "theme" => m.theme \in Allowed("theme")
        /\ Intent(m) = "language" => m.language \in Allowed("language")
    <3>1. /\ m.theme \in Allowed("theme") \cup {None}
          /\ m.language \in Allowed("language") \cup {None}
          /\ m.intent \in {"create", "status", None} /\ m.help \in BOOLEAN
      BY DEF MessageType
    <3>2. None \notin {"theme", "language"}
      BY ShellAssumption DEF Preference
    <3> QED
      BY <3>1, <3>2 DEF Intent
  <2> QED
    BY <1>1, <2>1, <2>2, ChooseKeeps DEF Preference
<1>5. CASE OtherTab
  <2>1. CASE \E p \in Preference : \E v \in Allowed(p) :
               /\ storage' = [storage EXCEPT ![p] = v]
               /\ chosen' = [chosen EXCEPT ![p] = v] /\ UNCHANGED seen
    <3>1. UNCHANGED prefs
      BY <1>5 DEF OtherTab
    <3>2. \A q \in Preference : q # "tour" /\ None \notin Allowed(q)
      BY ShellAssumption DEF Preference, Allowed
    <3> QED
      BY <2>1, <3>1, <3>2 DEF ChoicesTyped, ChoicesAreStored
  <2>2. CASE storage' = [storage EXCEPT !.tour = TRUE] /\ seen' = TRUE /\ UNCHANGED chosen
    <3>1. UNCHANGED prefs
      BY <1>5 DEF OtherTab
    <3> QED
      BY <2>2, <3>1 DEF ChoicesTyped, ChoicesAreStored, Preference
  <2>3. CASE \E p \in Preference :
               /\ storage' = [storage EXCEPT ![p] = "unknown"]
               /\ chosen' = [chosen EXCEPT ![p] = None] /\ UNCHANGED seen
    <3>1. UNCHANGED prefs
      BY <1>5 DEF OtherTab
    <3>2. \A q \in Preference : q # "tour"
      BY DEF Preference
    <3> QED
      BY <2>3, <3>1, <3>2 DEF ChoicesTyped, ChoicesAreStored, Garbled
  <2> QED
    BY <1>5, <2>1, <2>2, <2>3 DEF OtherTab
<1>6. CASE Load
  BY <1>6, LoadChoices
<1>7. CASE \/ TourNext \/ TourBack \/ Scroll \/ OpenDrawer
           \/ CloseDrawer \/ ToggleMenu \/ SubmitLogout \/ Navigate
           \/ ChooseTab \/ SubmitAuth \/ SubmitForm
  BY <1>1, <1>7 DEF TourNext, TourBack, Scroll, OpenDrawer, CloseDrawer, ToggleMenu,
     SubmitLogout, Navigate, ChooseTab, SubmitAuth, SubmitForm, Chrome
<1>8. CASE \/ LoadAnswered \/ ListAnswered \/ LogoutAnswered \/ AuthAnswered
           \/ FormAnswered \/ ActionAnswered
  BY <1>1, <1>8 DEF LoadAnswered, ListAnswered, LogoutAnswered, AuthAnswered, FormAnswered,
     ActionAnswered
<1>9. CASE \/ SessionLost \/ SessionSwitched \/ Refetch
  BY <1>1, <1>9 DEF SessionLost, SessionSwitched, Refetch
<1>10. CASE UNCHANGED vars
  BY <1>1, <1>10 DEF vars
<1> QED
  BY <1>2, <1>3, <1>4, <1>5, <1>6, <1>7, <1>8, <1>9, <1>10 DEF Next, UserStep, Answer, Befalls

-----------------------------------------------------------------------------
(* The page, the session and the assistant: one case per action *)

\* A step of the user keeps the types of the page.
LEMMA UserStepPage ==
  ASSUME PageTyped, UserStep
  PROVE  PageTyped'
<1> USE ShellAssumption
    DEF PageTyped, Offered, Route, Form, tourSteps, chrome, forms, lists, stored, assistant,
     bounds
<1>1. CASE setTheme
  BY <1>1 DEF setTheme, Act
<1>2. CASE setLanguage
  BY <1>2 DEF setLanguage, Act
<1>3. CASE TourClose
  BY <1>3 DEF TourClose, Act, Chrome
<1>4. CASE TourNext
  BY <1>4 DEF TourNext, Act, Chrome
<1>5. CASE TourBack
  BY <1>5 DEF TourBack, Act, Chrome
<1>6. CASE Scroll
  BY <1>6 DEF Scroll, Act, Chrome
<1>7. CASE OpenDrawer
  BY <1>7 DEF OpenDrawer, Act, Chrome
<1>8. CASE CloseDrawer
  BY <1>8 DEF CloseDrawer, Act, Chrome
<1>9. CASE ToggleMenu
  BY <1>9 DEF ToggleMenu, Act, Chrome
<1>10. CASE SubmitLogout
  BY <1>10 DEF SubmitLogout, Leaves, Act
<1>11. CASE Navigate
  BY <1>11 DEF Navigate, Leaves, Act, Goto, Listing
<1>12. CASE ChooseTab
  BY <1>12 DEF ChooseTab, Act, Offered
<1>13. CASE SubmitAuth
  BY <1>13 DEF SubmitAuth, Act
<1>14. CASE SubmitForm
  BY <1>14 DEF SubmitForm, Act
<1>15. CASE handleSubmit
  BY <1>15 DEF handleSubmit, Act, Choose, FirstStep
<1> QED
  BY <1>1, <1>2, <1>3, <1>4, <1>5, <1>6, <1>7, <1>8, <1>9, <1>10, <1>11, <1>12, <1>13, <1>14,
     <1>15 DEF UserStep

\* A step of an answer keeps the types of the page.
LEMMA AnswerPage ==
  ASSUME PageTyped, Answer
  PROVE  PageTyped'
<1> USE ShellAssumption
    DEF PageTyped, Offered, Route, Form, tourSteps, chrome, forms, lists, stored, assistant,
     bounds
<1>1. CASE LoadAnswered
  <2>1. PICK a \in User \cup {None} : SignedInAs(a) /\ listing' = Listing(a, route)
    BY <1>1 DEF LoadAnswered
  <2>2. Strays(a) \in BOOLEAN /\ Listing(a, route) \in User \cup {None}
    BY DEF Strays, Listing
  <2> QED
    BY <1>1, <2>1, <2>2 DEF LoadAnswered, SignedInAs, ModeFor
<1>2. CASE ListAnswered
  BY <1>2 DEF ListAnswered
<1>3. CASE LogoutAnswered
  BY <1>3 DEF LogoutAnswered, ModeFor
<1>4. CASE AuthAnswered
  BY <1>4 DEF AuthAnswered, Goto, Listing, Strays
<1>5. CASE FormAnswered
  BY <1>5 DEF FormAnswered
<1>6. CASE ActionAnswered
  BY <1>6 DEF ActionAnswered
<1> QED
  BY <1>1, <1>2, <1>3, <1>4, <1>5, <1>6 DEF Answer

\* A step of the browser or another tab keeps the types of the page.
LEMMA BefallsPage ==
  ASSUME PageTyped, Befalls
  PROVE  PageTyped'
<1> USE ShellAssumption
    DEF PageTyped, Offered, Route, Form, tourSteps, chrome, forms, lists, stored, assistant,
     bounds
<1>1. CASE OtherTab
  BY <1>1 DEF OtherTab, Event
<1>2. CASE SessionLost
  BY <1>2 DEF SessionLost, Event, SignedInAs, ModeFor, Strays
<1>3. CASE SessionSwitched
  BY <1>3 DEF SessionSwitched, Event, SignedInAs, ModeFor, Strays, Listing
<1>4. CASE Refetch
  BY <1>4 DEF Refetch, Event
<1>5. CASE Load
  <2>1. Fresh(route) /\ tourStep' \in 0..tourSteps
    BY <1>5 DEF Load
  <2>2. /\ phase' \in [Form -> {"idle", "pending", "error", "success"}]
        /\ {listed', listing'} \subseteq User \cup {None}
    BY <2>1 DEF Fresh
  <2>3. {drawerOpen', headerHidden', menuOpen', loading', logoutPending', strayed'}
          \subseteq BOOLEAN
    BY <2>1 DEF Fresh
  <2> QED
    BY <2>1, <2>2, <2>3 DEF Fresh
<1> QED
  BY <1>1, <1>2, <1>3, <1>4, <1>5 DEF Befalls

\* After a step of the user form and list still fit the session.
LEMMA UserStepSession ==
  ASSUME PageTyped, SessionKept, UserStep
  PROVE  SessionKept'
<1> USE ShellAssumption
    DEF PageTyped, SessionKept, FormFitsSession, Offered, chrome, forms, lists, stored,
     assistant, bounds
<1>1. CASE setTheme
  BY <1>1 DEF setTheme, Act
<1>2. CASE setLanguage
  BY <1>2 DEF setLanguage, Act
<1>3. CASE TourClose
  BY <1>3 DEF TourClose, Act, Chrome
<1>4. CASE TourNext
  BY <1>4 DEF TourNext, Act, Chrome
<1>5. CASE TourBack
  BY <1>5 DEF TourBack, Act, Chrome
<1>6. CASE Scroll
  BY <1>6 DEF Scroll, Act, Chrome
<1>7. CASE OpenDrawer
  BY <1>7 DEF OpenDrawer, Act, Chrome
<1>8. CASE CloseDrawer
  BY <1>8 DEF CloseDrawer, Act, Chrome
<1>9. CASE ToggleMenu
  BY <1>9 DEF ToggleMenu, Act, Chrome
<1>10. CASE SubmitLogout
  BY <1>10 DEF SubmitLogout, Leaves, Act
<1>11. CASE Navigate
  BY <1>11 DEF Navigate, Leaves, Act, Goto, Listing
<1>12. CASE ChooseTab
  BY <1>12 DEF ChooseTab, Act, Offered
<1>13. CASE SubmitAuth
  BY <1>13 DEF SubmitAuth, Act
<1>14. CASE SubmitForm
  BY <1>14 DEF SubmitForm, Act
<1>15. CASE handleSubmit
  BY <1>15 DEF handleSubmit, Act, Choose, FirstStep
<1> QED
  BY <1>1, <1>2, <1>3, <1>4, <1>5, <1>6, <1>7, <1>8, <1>9, <1>10, <1>11, <1>12, <1>13, <1>14,
     <1>15 DEF UserStep

\* After a step of an answer form and list still fit the session.
LEMMA AnswerSession ==
  ASSUME PageTyped, SessionKept, Answer
  PROVE  SessionKept'
<1> USE ShellAssumption
    DEF PageTyped, SessionKept, FormFitsSession, Offered, chrome, forms, lists, stored,
     assistant, bounds
<1>1. CASE LoadAnswered
  BY <1>1 DEF LoadAnswered, SignedInAs, ModeFor, Listing, Strays
<1>2. CASE ListAnswered
  BY <1>2 DEF ListAnswered
<1>3. CASE LogoutAnswered
  BY <1>3 DEF LogoutAnswered, ModeFor
<1>4. CASE AuthAnswered
  <2>1. PICK a \in logins :
          \/ /\ account' = a /\ Goto("app", a) /\ listing' = Listing(a, "app")
             /\ strayed' = Strays(a) /\ UNCHANGED listed
          \/ UNCHANGED <<account, route, mode, lists>>
    BY <1>4 DEF AuthAnswered
  <2>2. CASE UNCHANGED <<account, route, mode, lists>>
    BY <2>2
  <2>3. CASE /\ account' = a /\ Goto("app", a) /\ listing' = Listing(a, "app")
             /\ strayed' = Strays(a) /\ UNCHANGED listed
    <3>1. FormFitsSession'
      BY <2>3 DEF Goto
    <3>2. ~strayed' => {listed, listing} \subseteq {None, a}
      BY <2>3 DEF Strays
    <3>3. ~strayed' => {listed', listing'} \subseteq {None, account'}
      BY <2>3, <3>2 DEF Listing
    <3> QED
      BY <3>1, <3>3
  <2> QED
    BY <2>1, <2>2, <2>3
<1>5. CASE FormAnswered
  BY <1>5 DEF FormAnswered
<1>6. CASE ActionAnswered
  BY <1>6 DEF ActionAnswered
<1> QED
  BY <1>1, <1>2, <1>3, <1>4, <1>5, <1>6 DEF Answer

\* After a step of the browser or another tab form and list still fit the session.
LEMMA BefallsSession ==
  ASSUME PageTyped, SessionKept, Befalls
  PROVE  SessionKept'
<1> USE ShellAssumption
    DEF PageTyped, SessionKept, FormFitsSession, Offered, chrome, forms, lists, stored,
     assistant, bounds
<1>1. CASE OtherTab
  BY <1>1 DEF OtherTab, Event
<1>2. CASE SessionLost
  BY <1>2 DEF SessionLost, Event, SignedInAs, ModeFor, Strays
<1>3. CASE SessionSwitched
  BY <1>3 DEF SessionSwitched, Event, SignedInAs, ModeFor, Strays, Listing
<1>4. CASE Refetch
  BY <1>4 DEF Refetch, Event
<1>5. CASE Load
  BY <1>5 DEF Load, Event, Fresh
<1> QED
  BY <1>1, <1>2, <1>3, <1>4, <1>5 DEF Befalls

\* A step of the user answers each message once.
LEMMA UserStepReplies ==
  ASSUME RepliesDue, UserStep
  PROVE  RepliesDue'
<1> USE ShellAssumption
    DEF RepliesDue, chrome, forms, lists, stored, assistant, bounds
<1>1. CASE setTheme
  BY <1>1 DEF setTheme, Act
<1>2. CASE setLanguage
  BY <1>2 DEF setLanguage, Act
<1>3. CASE TourClose
  BY <1>3 DEF TourClose, Act, Chrome
<1>4. CASE TourNext
  BY <1>4 DEF TourNext, Act, Chrome
<1>5. CASE TourBack
  BY <1>5 DEF TourBack, Act, Chrome
<1>6. CASE Scroll
  BY <1>6 DEF Scroll, Act, Chrome
<1>7. CASE OpenDrawer
  BY <1>7 DEF OpenDrawer, Act, Chrome
<1>8. CASE CloseDrawer
  BY <1>8 DEF CloseDrawer, Act, Chrome
<1>9. CASE ToggleMenu
  BY <1>9 DEF ToggleMenu, Act, Chrome
<1>10. CASE SubmitLogout
  BY <1>10 DEF SubmitLogout, Leaves, Act
<1>11. CASE Navigate
  BY <1>11 DEF Navigate, Leaves, Act, Goto, Listing
<1>12. CASE ChooseTab
  BY <1>12 DEF ChooseTab, Act, Offered
<1>13. CASE SubmitAuth
  BY <1>13 DEF SubmitAuth, Act
<1>14. CASE SubmitForm
  BY <1>14 DEF SubmitForm, Act
<1>15. CASE handleSubmit
  BY <1>15 DEF handleSubmit, Act, Choose, FirstStep
<1> QED
  BY <1>1, <1>2, <1>3, <1>4, <1>5, <1>6, <1>7, <1>8, <1>9, <1>10, <1>11, <1>12, <1>13, <1>14,
     <1>15 DEF UserStep

\* A step of an answer answers each message once.
LEMMA AnswerReplies ==
  ASSUME RepliesDue, Answer
  PROVE  RepliesDue'
<1> USE ShellAssumption
    DEF RepliesDue, chrome, forms, lists, stored, assistant, bounds
<1>1. CASE LoadAnswered
  BY <1>1 DEF LoadAnswered, SignedInAs, ModeFor, Listing, Strays
<1>2. CASE ListAnswered
  BY <1>2 DEF ListAnswered
<1>3. CASE LogoutAnswered
  BY <1>3 DEF LogoutAnswered, ModeFor
<1>4. CASE AuthAnswered
  BY <1>4 DEF AuthAnswered, Goto, Listing, Strays
<1>5. CASE FormAnswered
  BY <1>5 DEF FormAnswered
<1>6. CASE ActionAnswered
  BY <1>6 DEF ActionAnswered
<1> QED
  BY <1>1, <1>2, <1>3, <1>4, <1>5, <1>6 DEF Answer

\* A step of the browser or another tab answers each message once.
LEMMA BefallsReplies ==
  ASSUME RepliesDue, Befalls
  PROVE  RepliesDue'
<1> USE ShellAssumption
    DEF RepliesDue, chrome, forms, lists, stored, assistant, bounds
<1>1. CASE OtherTab
  BY <1>1 DEF OtherTab, Event
<1>2. CASE SessionLost
  BY <1>2 DEF SessionLost, Event, SignedInAs, ModeFor, Strays
<1>3. CASE SessionSwitched
  BY <1>3 DEF SessionSwitched, Event, SignedInAs, ModeFor, Strays, Listing
<1>4. CASE Refetch
  BY <1>4 DEF Refetch, Event
<1>5. CASE Load
  BY <1>5 DEF Load, Event, Fresh
<1> QED
  BY <1>1, <1>2, <1>3, <1>4, <1>5 DEF Befalls

-----------------------------------------------------------------------------
(* The invariant *)

\* A page that has just been loaded.
LEMMA InitShell == Init => ShellInv
<1> SUFFICES ASSUME Init PROVE ShellInv
  OBVIOUS
<1>1. ChoicesTyped /\ ChoicesAreStored
  BY DEF Init, ChoicesAreStored, ChoicesTyped, Preference, Garbled, Allowed
<1>2. PageTyped
  <2>1. tourStep \in 0..tourSteps
    BY DEF Init, tourSteps
  <2>2. {drawerOpen, headerHidden, menuOpen, loading, logoutPending, strayed} \subseteq BOOLEAN
    BY DEF Init
  <2>3. phase \in [Form -> {"idle", "pending", "error", "success"}]
    BY DEF Init
  <2> QED
    BY <2>1, <2>2, <2>3 DEF Init, PageTyped
<1>3. SessionKept
  BY DEF Init, SessionKept, FormFitsSession, Offered
<1>4. RepliesDue
  BY ShellAssumption DEF Init, RepliesDue
<1> QED
  BY <1>1, <1>2, <1>3, <1>4 DEF ShellInv

\* ShellInv is an invariant.
THEOREM Inductive == Spec => []ShellInv
<1>1. Init => ShellInv
  BY InitShell
<1>2. ShellInv /\ [Next]_vars => ShellInv'
  <2> SUFFICES ASSUME ShellInv, [Next]_vars PROVE ShellInv'
    OBVIOUS
  <2>1. ChoicesTyped /\ ChoicesAreStored /\ PageTyped /\ SessionKept /\ RepliesDue
    BY DEF ShellInv
  <2>2. ChoicesTyped' /\ ChoicesAreStored'
    BY <2>1, ChoicesStep, ShellAssumption
  <2>3. CASE UserStep
    BY <2>1, <2>2, <2>3, UserStepPage, UserStepSession, UserStepReplies DEF ShellInv
  <2>4. CASE Answer
    BY <2>1, <2>2, <2>4, AnswerPage, AnswerSession, AnswerReplies DEF ShellInv
  <2>5. CASE Befalls
    BY <2>1, <2>2, <2>5, BefallsPage, BefallsSession, BefallsReplies DEF ShellInv
  <2>6. CASE UNCHANGED vars
    <3>1. PageTyped' /\ SessionKept'
      BY <2>1, <2>6
         DEF vars, chrome, forms, lists, PageTyped, SessionKept, FormFitsSession, Offered
    <3>2. RepliesDue'
      BY <2>1, <2>6 DEF vars, assistant, bounds, RepliesDue
    <3> QED
      BY <2>2, <3>1, <3>2 DEF ShellInv
  <2> QED
    BY <2>3, <2>4, <2>5, <2>6 DEF Next
<1> QED
  BY <1>1, <1>2, PTL DEF Spec

\* Every variable of the page is of its type.
THEOREM TypeCorrect == Spec => []TypeOK
<1>1. ShellInv => TypeOK
  <2> SUFFICES ASSUME ShellInv PROVE TypeOK
    OBVIOUS
  <2>1. ChoicesTyped /\ PageTyped /\ RepliesDue
    BY DEF ShellInv
  <2>2. replies \in 0..asked /\ asked <= MaxActs
    BY <2>1, ShellAssumption DEF RepliesDue
  <2> QED
    BY <2>1, <2>2 DEF TypeOK, ChoicesTyped, PageTyped, RepliesDue
<1> QED
  BY <1>1, Inductive, PTL

\* The form on the page is one that is offered to who is signed in.
THEOREM FormFits == Spec => []FormFitsSession
<1>1. ShellInv => FormFitsSession
  BY DEF ShellInv, SessionKept
<1> QED
  BY <1>1, Inductive, PTL

\* A logout leaves no list behind for the next account.
THEOREM ListsAreOwn == Spec => []ListIsOwn
<1>1. ShellInv => ListIsOwn
  BY DEF ShellInv, SessionKept, PageTyped, ListIsOwn
<1> QED
  BY <1>1, Inductive, PTL

\* A load shows what was chosen last, and stores no guess for a choice.
THEOREM LoadsKeepChoices == Spec => LoadKeepsChoices
<1> DEFINE Kept == Load => /\ \A p \in Preference :
                                IF chosen[p] # None THEN prefs'[p] = chosen[p]
                                ELSE storage'[p] = storage[p] \/ storage[p] = "unknown"
                           /\ (tourStep' > 0) = ~seen
<1>1. ShellInv /\ [Next]_vars => [Kept]_vars
  <2> SUFFICES ASSUME ShellInv, Load PROVE Kept
    OBVIOUS
  <2>1. ChoicesTyped /\ ChoicesAreStored
    BY DEF ShellInv
  <2>2. \A p \in Preference : IF chosen[p] # None THEN prefs'[p] = chosen[p]
                               ELSE storage'[p] = storage[p] \/ storage[p] = "unknown"
    BY <2>1, LoadChoices
  <2>3. (tourStep' > 0) = ~seen
    BY <2>1 DEF Load, ChoicesTyped, ChoicesAreStored
  <2> QED
    BY <2>2, <2>3
<1> QED
  BY <1>1, Inductive, PTL DEF Spec, LoadKeepsChoices
=============================================================================
