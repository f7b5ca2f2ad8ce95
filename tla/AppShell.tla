------------------------------ MODULE AppShell ------------------------------
(***************************************************************************)
(* The front end around the board, in one tab: App.tsx with its tour, menus *)
(* and logout, appState.ts with the theme and the language kept in          *)
(* localStorage, the forms of AuthPage.tsx and ResetPage.tsx, and the AI    *)
(* assistant, which acts on all of them.                                    *)
(*                                                                          *)
(* The signed-in account changes under these parts: by the refresh on load, *)
(* a login whose page may have been left, the logout button, and the answer *)
(* to a call whose access token has expired (api.ts).  Other tabs share     *)
(* localStorage.  How tokens are renewed is ClientSession's, how the list   *)
(* is kept current BoardPage's.                                             *)
(***************************************************************************)
EXTENDS Integers, FiniteSets

CONSTANTS User,
          Message,    \* what the assistant is told, as its detectors see it
          MaxActs,    \* bounds the steps of the user
          MaxEvents,  \* bounds what befalls the tab
          None

Preference == {"theme", "language"}
Allowed(p) == IF p = "theme" THEN {"light", "dark"} ELSE {"en", "vi"}
\* Not JSON, or JSON that is no allowed value.
Garbled == {"garbled", "unknown"}
Route == {"app", "about", "auth", "reset"}
Form == {"auth", "forgot", "reset", "resetPage"}
tourSteps == 3

MessageType ==
  [help : BOOLEAN, theme : Allowed("theme") \cup {None},
   language : Allowed("language") \cup {None}, intent : {"create", "status", None},
   title : BOOLEAN, status : BOOLEAN]

ASSUME ShellAssumption ==
  /\ None \notin User \cup Garbled \cup Allowed("theme") \cup Allowed("language")
  /\ None \notin Preference
  /\ {MaxActs, MaxEvents} \subseteq Nat
  /\ Message \subseteq MessageType

VARIABLES
  storage,        \* localStorage: the preferences, and whether the tour was seen
  prefs,          \* appState.theme and appState.language
  tourStep,       \* 0 if the tour is closed
  drawerOpen, headerHidden, menuOpen,
  route,
  account,        \* the user of the access token
  loading,        \* refreshOnLoad is under way
  logoutPending,
  mode, phase,    \* the tab of AuthPage, and the mutation of each form
  logins,         \* the accounts of logins under way
  own,            \* the one that the form on the page waits for
  listed, listing,\* the accounts of the cached list, and of its fetch
  step,           \* what the assistant waits for
  asked, replies, \* the messages of the user and of the assistant
  acts, events,   \* bounds
  chosen, seen,   \* history: the last choices, and whether the tour was closed
  strayed         \* history: an account was lost with its list cached

chrome == <<tourStep, drawerOpen, headerHidden, menuOpen>>
forms == <<mode, phase, logins, own>>
lists == <<listed, listing, strayed>>
assistant == <<step, asked, replies>>
bounds == <<acts, events>>
stored == <<storage, chosen, seen>>
vars == <<stored, prefs, chrome, route, account, loading, logoutPending, forms, lists,
          assistant, bounds>>

TypeOK ==
  /\ \A p \in Preference : /\ storage[p] \in Allowed(p) \cup Garbled \cup {None}
                           /\ prefs[p] \in Allowed(p)
                           /\ chosen[p] \in Allowed(p) \cup {None}
  /\ storage.tour \in BOOLEAN /\ seen \in BOOLEAN
  /\ tourStep \in 0..tourSteps
  /\ {drawerOpen, headerHidden, menuOpen, loading, logoutPending, strayed} \subseteq BOOLEAN
  /\ route \in Route /\ account \in User \cup {None}
  /\ mode \in {"login", "register", "forgot", "reset"}
  /\ phase \in [Form -> {"idle", "pending", "error", "success"}]
  /\ logins \subseteq User /\ own \in logins \cup {None}
  /\ {listed, listing} \subseteq User \cup {None}
  /\ step \in {"idle", "create", "find", "update"}
  /\ acts \in 0..MaxActs /\ events \in 0..MaxEvents
  /\ replies \in 0..asked /\ asked <= MaxActs

Act == acts < MaxActs /\ acts' = acts + 1 /\ UNCHANGED events
Event == events < MaxEvents /\ events' = events + 1 /\ UNCHANGED acts

-----------------------------------------------------------------------------
(* Preferences *)

\* What is shown after a load, and what is stored.
Hydrated(p) == [shown : Allowed(p), kept : Allowed(p) \cup Garbled \cup {None}]

\* Mutant: the system's setting wins over the stored one.
HydrateSystem(p, value) ==
  \E detected \in Allowed(p) : value = [shown |-> detected, kept |-> storage[p]]

\* Mutant: what the system prefers is stored whatever was found.
HydrateStores(p, value) ==
  IF storage[p] \in Allowed(p) THEN value = [shown |-> storage[p], kept |-> storage[p]]
  ELSE \E detected \in Allowed(p) : value = [shown |-> detected, kept |-> detected]

\* hydrate: an allowed stored value, or else what the system prefers, which is
\* stored only in the place of a value that could be read.
Hydrate(p, value) ==
  IF storage[p] \in Allowed(p) THEN value = [shown |-> storage[p], kept |-> storage[p]]
  ELSE \E detected \in Allowed(p) :
         value = [shown |-> detected,
                  kept |-> IF storage[p] = "unknown" THEN detected ELSE storage[p]]

Choose(p, v) ==
  /\ prefs' = [prefs EXCEPT ![p] = v]
  /\ storage' = [storage EXCEPT ![p] = v]
  /\ chosen' = [chosen EXCEPT ![p] = v] /\ UNCHANGED seen

\* The menu closes with the choice; the menu of the language is opened first.  What
\* is shown already can be chosen too.
setTheme == \E v \in Allowed("theme") :
  /\ Act /\ Choose("theme", v)
  /\ UNCHANGED <<chrome, route, account, loading, logoutPending, forms, lists, assistant>>
setLanguage == \E v \in Allowed("language") :
  /\ menuOpen /\ menuOpen' = FALSE /\ Act /\ Choose("language", v)
  /\ UNCHANGED <<tourStep, drawerOpen, headerHidden, route, account, loading,
                 logoutPending, forms, lists, assistant>>

\* Another tab stores its choice, or that the tour was seen, or runs another version
\* of the page (main.tsx registers a service worker) and stores what this one does
\* not know.  Nobody listens for it.
OtherTab ==
  /\ Event
  /\ \/ \E p \in Preference : \E v \in Allowed(p) :
          /\ storage' = [storage EXCEPT ![p] = v]
          /\ chosen' = [chosen EXCEPT ![p] = v] /\ UNCHANGED seen
     \/ \E p \in Preference :
          /\ storage' = [storage EXCEPT ![p] = "unknown"]
          /\ chosen' = [chosen EXCEPT ![p] = None] /\ UNCHANGED seen
     \/ storage' = [storage EXCEPT !.tour = TRUE] /\ seen' = TRUE /\ UNCHANGED chosen
  /\ UNCHANGED <<prefs, chrome, route, account, loading, logoutPending, forms, lists,
                 assistant>>

-----------------------------------------------------------------------------
(* Tour, header and menus *)

Chrome == UNCHANGED <<prefs, route, account, loading, logoutPending, forms, lists,
                      assistant>>

TourClose == /\ tourStep > 0 /\ tourStep' = 0 /\ Act
             /\ storage' = [storage EXCEPT !.tour = TRUE] /\ seen' = TRUE
             /\ Chrome /\ UNCHANGED <<chosen, drawerOpen, headerHidden, menuOpen>>
\* Mutant: the last step is not taken for the end.
TourNextPast == /\ tourStep \in 1..tourSteps /\ tourStep' = tourStep + 1 /\ Act
                /\ Chrome /\ UNCHANGED <<stored, drawerOpen, headerHidden, menuOpen>>
TourNext == /\ tourStep \in 1..(tourSteps - 1) /\ tourStep' = tourStep + 1 /\ Act
            /\ Chrome /\ UNCHANGED <<stored, drawerOpen, headerHidden, menuOpen>>
TourBack == /\ tourStep > 1 /\ tourStep' = tourStep - 1 /\ Act
            /\ Chrome /\ UNCHANGED <<stored, drawerOpen, headerHidden, menuOpen>>

\* The header hides while a narrow page scrolls down.
Scroll == /\ Act /\ headerHidden' = ~headerHidden
          /\ Chrome /\ UNCHANGED <<stored, tourStep, drawerOpen, menuOpen>>
OpenDrawer == /\ Act /\ drawerOpen' = TRUE /\ headerHidden' = FALSE
              /\ Chrome /\ UNCHANGED <<stored, tourStep, menuOpen>>
CloseDrawer == /\ drawerOpen /\ Act /\ drawerOpen' = FALSE
               /\ Chrome /\ UNCHANGED <<stored, tourStep, headerHidden, menuOpen>>
\* Its button, or a click beside the open menu.
ToggleMenu == /\ Act /\ menuOpen' = ~menuOpen
              /\ Chrome /\ UNCHANGED <<stored, tourStep, drawerOpen, headerHidden>>

-----------------------------------------------------------------------------
(* The account, and what follows its changes *)

\* Mutant: the effect runs only when the page is opened.
ModeAtMount(a) == mode

\* The effect of AuthPage: the tab follows a sign-in and a sign-out.
ModeFor(a) == IF (a = None) = (account = None) THEN mode
              ELSE IF a = None THEN "login" ELSE "reset"

\* The query of the board is enabled, or its page opened: it fetches unless a
\* fetch is under way.
Listing(a, r) == IF a # None /\ r = "app" /\ listing = None
                    /\ (account = None \/ route # "app") THEN a ELSE listing

\* Without the button: the list of who was signed in stays cached or on its way.
Strays(a) == strayed \/ (account \notin {None, a} /\ {listed, listing} # {None})

\* The cached list stays, and so does a fetch of it.
SignedInAs(a) ==
  /\ account' = a /\ mode' = ModeFor(a)
  /\ strayed' = Strays(a)

LoadAnswered ==
  /\ loading /\ loading' = FALSE
  /\ \E a \in User \cup {None} : SignedInAs(a) /\ listing' = Listing(a, route)
  /\ UNCHANGED <<stored, prefs, chrome, route, logoutPending, phase, logins, own, listed,
                 assistant, bounds>>

\* A call gets a 401 and the refresh is refused ...
SessionLost ==
  /\ account # None /\ Event /\ SignedInAs(None)
  /\ listing' \in {listing, None}
  /\ UNCHANGED <<stored, prefs, chrome, route, loading, logoutPending, phase, logins, own,
                 listed, assistant>>

\* ... or answers with the account that another tab has signed in to since, or when
\* the tab has been signed out meanwhile.  The fetch of the list may be that call.
SessionSwitched ==
  /\ Event
  /\ \E a \in User \ {account} :
       /\ SignedInAs(a)
       /\ listing' \in {Listing(a, route), IF listing = None THEN Listing(a, route) ELSE a}
  /\ UNCHANGED <<stored, prefs, chrome, route, loading, logoutPending, phase, logins, own,
                 listed, assistant>>

ListAnswered ==
  /\ listing # None /\ listing' = None
  /\ \/ listed' = listing /\ strayed' = (strayed /\ listing # account)
     \/ UNCHANGED <<listed, strayed>>
  /\ UNCHANGED <<stored, prefs, chrome, route, account, loading, logoutPending, forms,
                 assistant, bounds>>

\* A mutation of the board invalidates the list.
Refetch ==
  /\ route = "app" /\ account # None /\ Event /\ listing' = account
  /\ UNCHANGED <<stored, prefs, chrome, route, account, loading, logoutPending, forms,
                 listed, strayed, assistant>>

\* The buttons and links of the drawer close it, those of the header leave it.
Leaves(open) == open \in {drawerOpen, FALSE}

SubmitLogout ==
  /\ account # None /\ ~logoutPending /\ Act
  /\ logoutPending' = TRUE /\ Leaves(drawerOpen')
  /\ UNCHANGED <<stored, prefs, tourStep, headerHidden, menuOpen, route, account, loading,
                 forms, lists, assistant>>

\* Mutant: the cached queries are kept.
LogoutKeepsList ==
  /\ logoutPending /\ logoutPending' = FALSE
  /\ account' = None /\ mode' = ModeFor(None) /\ strayed' = FALSE
  /\ UNCHANGED <<stored, prefs, chrome, route, loading, phase, logins, own, listed,
                 listing, assistant, bounds>>

\* Whatever the answer: the account is cleared and the list removed from the
\* cache, with the fetch of it.
LogoutAnswered ==
  /\ logoutPending /\ logoutPending' = FALSE
  /\ account' = None /\ mode' = ModeFor(None)
  /\ listed' = None /\ listing' = None /\ strayed' = FALSE
  /\ UNCHANGED <<stored, prefs, chrome, route, loading, phase, logins, own, assistant,
                 bounds>>

-----------------------------------------------------------------------------
(* Pages and forms *)

\* The forms of a page that is left are gone; their requests go on.
Goto(r, a) ==
  /\ route' = r
  /\ mode' = IF r # "auth" THEN "login" ELSE IF a = None THEN "login" ELSE "reset"
  /\ phase' = [f \in Form |-> "idle"]
  /\ own' = None

Navigate ==
  /\ Act /\ \E r \in Route \ {route} : Goto(r, account) /\ listing' = Listing(account, r)
  /\ Leaves(drawerOpen')
  /\ UNCHANGED <<stored, prefs, tourStep, headerHidden, menuOpen, account, loading,
                 logoutPending, logins, listed, strayed, assistant>>

Offered == IF account # None THEN {"reset"} ELSE {"login", "register", "forgot"}

ChooseTab ==
  /\ route = "auth" /\ Act /\ mode' \in Offered \ {mode}
  /\ UNCHANGED <<stored, prefs, chrome, route, account, loading, logoutPending, phase,
                 logins, own, lists, assistant>>

SubmitAuth ==
  /\ route = "auth" /\ mode \in {"login", "register"} /\ phase["auth"] # "pending" /\ Act
  /\ phase' = [phase EXCEPT !["auth"] = "pending"]
  /\ \E a \in User \ logins : logins' = logins \cup {a} /\ own' = a
  /\ UNCHANGED <<stored, prefs, chrome, route, account, loading, logoutPending, mode,
                 lists, assistant>>

\* The answer signs in and opens the board, also if its form was left.
AuthAnswered == \E a \in logins :
  /\ logins' = logins \ {a}
  /\ \/ /\ account' = a /\ Goto("app", a) /\ listing' = Listing(a, "app")
        /\ strayed' = Strays(a)
        /\ UNCHANGED <<listed>>
     \/ /\ IF a = own THEN phase' = [phase EXCEPT !["auth"] = "error"] /\ own' = None
                      ELSE UNCHANGED <<phase, own>>
        /\ UNCHANGED <<account, route, mode, lists>>
  /\ UNCHANGED <<stored, prefs, chrome, loading, logoutPending, assistant, bounds>>

\* The forms for a forgotten password and for a new one, here and on ResetPage.
SubmitForm ==
  /\ Act
  /\ \E f \in Form \ {"auth"} :
       /\ IF f = "resetPage" THEN route = "reset" ELSE route = "auth" /\ mode = f
       /\ phase[f] # "pending" /\ phase' = [phase EXCEPT ![f] = "pending"]
  /\ UNCHANGED <<stored, prefs, chrome, route, account, loading, logoutPending, mode,
                 logins, own, lists, assistant>>

FormAnswered ==
  /\ \E f \in Form \ {"auth"} : \E p \in {"success", "error"} :
       phase[f] = "pending" /\ phase' = [phase EXCEPT ![f] = p]
  /\ UNCHANGED <<stored, prefs, chrome, route, account, loading, logoutPending, mode,
                 logins, own, lists, assistant, bounds>>

-----------------------------------------------------------------------------
(* The assistant *)

\* buildActionResult: the first detector that fires.
Intent(m) == CASE m.help -> "help"
               [] ~m.help /\ m.theme # None -> "theme"
               [] ~m.help /\ m.theme = None /\ m.language # None -> "language"
               [] OTHER -> m.intent

\* What handleAction waits for, or "idle" when it answers at once.
FirstStep(m) ==
  IF account = None \/ ~m.title THEN "idle"
  ELSE IF Intent(m) = "create" THEN "create"
  ELSE IF Intent(m) = "status" /\ m.status THEN "find" ELSE "idle"

handleSubmit == \E m \in Message :
  /\ step = "idle" /\ Act
  /\ step' = FirstStep(m)
  /\ asked' = asked + 1
  /\ replies' = IF FirstStep(m) = "idle" THEN replies + 1 ELSE replies
  /\ IF Intent(m) = "theme" THEN Choose("theme", m.theme)
     ELSE IF Intent(m) = "language" THEN Choose("language", m.language)
     ELSE UNCHANGED <<stored, prefs>>
  /\ UNCHANGED <<chrome, route, account, loading, logoutPending, forms, lists>>

\* Mutant: handleSubmit does not catch what a call throws.
ActionRejects ==
  /\ step # "idle"
  /\ \/ step = "find" /\ step' = "update" /\ UNCHANGED replies
     \/ step' = "idle" /\ replies' \in {replies, replies + 1}
  /\ UNCHANGED <<stored, prefs, chrome, route, account, loading, logoutPending, forms,
                 lists, asked, bounds>>

\* A call of the command is answered or fails; the one todo that was found is
\* updated by another call.
ActionAnswered ==
  /\ step # "idle"
  /\ \/ step = "find" /\ step' = "update" /\ UNCHANGED replies
     \/ step' = "idle" /\ replies' = replies + 1
  /\ UNCHANGED <<stored, prefs, chrome, route, account, loading, logoutPending, forms,
                 lists, asked, bounds>>

-----------------------------------------------------------------------------
\* A page load: hydrate, the tour, refreshOnLoad.  Nothing else survives.
Fresh(r) ==
  /\ drawerOpen' = FALSE /\ headerHidden' = FALSE /\ menuOpen' = FALSE
  /\ route' = r /\ account' = None /\ loading' = TRUE /\ logoutPending' = FALSE
  /\ mode' = "login" /\ phase' = [f \in Form |-> "idle"] /\ logins' = {} /\ own' = None
  /\ listed' = None /\ listing' = None /\ strayed' = FALSE
  /\ step' = "idle" /\ asked' = 0 /\ replies' = 0

Load ==
  /\ Event /\ Fresh(route)
  /\ \E t \in Hydrated("theme"), l \in Hydrated("language") :
       /\ Hydrate("theme", t) /\ Hydrate("language", l)
       /\ prefs' = [theme |-> t.shown, language |-> l.shown]
       /\ storage' = [storage EXCEPT !.theme = t.kept, !.language = l.kept]
  /\ tourStep' = IF storage.tour THEN 0 ELSE 1
  /\ UNCHANGED <<chosen, seen>>

\* Just loaded, with a storage that hydrate has read: an allowed value is what was
\* chosen, or what hydrate put in the place of an unknown one.
Init ==
  /\ prefs \in [theme : Allowed("theme"), language : Allowed("language")]
  /\ storage \in [theme : Allowed("theme") \cup Garbled \cup {None},
                  language : Allowed("language") \cup Garbled \cup {None},
                  tour : BOOLEAN]
  /\ \A p \in Preference : storage[p] \in {None, "garbled", prefs[p]}
  /\ chosen \in [Preference -> Allowed("theme") \cup Allowed("language") \cup {None}]
  /\ \A p \in Preference : chosen[p] # None => chosen[p] = storage[p]
  /\ seen = storage.tour
  /\ tourStep = IF storage.tour THEN 0 ELSE 1
  /\ drawerOpen = FALSE /\ headerHidden = FALSE /\ menuOpen = FALSE
  /\ route \in Route /\ account = None /\ loading = TRUE /\ logoutPending = FALSE
  /\ mode = "login" /\ phase = [f \in Form |-> "idle"] /\ logins = {} /\ own = None
  /\ listed = None /\ listing = None /\ strayed = FALSE
  /\ step = "idle" /\ asked = 0 /\ replies = 0
  /\ acts = 0 /\ events = 0

UserStep == \/ setTheme \/ setLanguage \/ TourClose \/ TourNext \/ TourBack \/ Scroll
            \/ OpenDrawer \/ CloseDrawer \/ ToggleMenu \/ SubmitLogout \/ Navigate
            \/ ChooseTab \/ SubmitAuth \/ SubmitForm \/ handleSubmit
Answer == \/ LoadAnswered \/ ListAnswered \/ LogoutAnswered \/ AuthAnswered \/ FormAnswered
          \/ ActionAnswered
Befalls == OtherTab \/ SessionLost \/ SessionSwitched \/ Refetch \/ Load

Next == UserStep \/ Answer \/ Befalls

Spec == Init /\ [][Next]_vars

\* Every request is answered or fails.
Fairness == WF_vars(ActionAnswered) /\ WF_vars(LogoutAnswered)

FairSpec == Spec /\ Fairness

-----------------------------------------------------------------------------
(* Properties *)

\* A loaded page shows the theme and the language that were last chosen, in this
\* tab, in another one or through the assistant, and opens the tour only if it was
\* never closed, whatever else was found in localStorage.  Where nothing was chosen
\* it stores nothing, so that its guess is not found as a choice later, except in the
\* place of another version's value.
LoadKeepsChoices ==
  [][Load => /\ \A p \in Preference : IF chosen[p] # None THEN prefs'[p] = chosen[p]
                                       ELSE storage'[p] = storage[p] \/ storage[p] = "unknown"
             /\ (tourStep' > 0) = ~seen]_vars

\* The form of AuthPage is one that is offered to who is signed in, also when the
\* account changed while it was filled in or its request was under way.
FormFitsSession == route = "auth" => mode \in Offered

\* After a logout with the button no list of an earlier account is shown to the
\* next one, even if a fetch of it was under way.  (If the account changes in
\* another way the cached list stays until it is fetched again.)
ListIsOwn == account # None /\ listed # None => listed = account \/ strayed

\* Every command is answered, once, in whatever way its calls end.
EveryCommandAnswered == asked > replies ~> asked = replies /\ step = "idle"
=============================================================================
