# TLA+ models of the todo application

These modules model the parts of the repository in which requests, connections
and clocks interleave, and state what has to hold whatever the order is. TLC
checks the statements on small instances; TLAPS proves some of them for every
size. The code is the reference: every definition that stands for code is listed
under `map` in `PROJECT.json` with the lines it was translated from.

## 1. The system

The repository holds one product several times over: a todo board with accounts,
a browser front end and three back ends.

| Part | State it keeps | Operations | Interacts with |
|---|---|---|---|
| Rust back end, authentication (`back-end/src/services/auth_service.rs`) | tables `users`, `refresh_tokens`, `password_resets` | register, login, refresh, logout, forgot, reset | PostgreSQL statement by statement; SMTP |
| Rust back end, todos (`services/todo_service.rs`) | table `todos` | list, create, get, update, delete, reorder | PostgreSQL; calls the hub after every write |
| Rust back end, realtime (`services/todo_realtime_service.rs`, `controllers/todo_realtime_controller.rs`) | the hub's map of users to channel senders; per connection a channel, a send task and a receive loop | subscribe, broadcast, remove | called by the todo service; WebSockets |
| Rust back end, access tokens (`controllers/extractors/auth.rs`) | none | check a JWT | every protected route |
| Rust back end, AI proxy, e-mail, users, system | none | one call or query each | Ollama, SMTP, PostgreSQL |
| Bun back end (`bun_hono/src`) | the same tables, by the same statements but with fewer statuses; buckets of the rate limiter in memory | as the Rust back end, without a stream | PostgreSQL, where both may run on one database |
| Front end, session (`front-end/src/services/api.ts`, `main.tsx`) | access token and user in memory, a refresh cookie shared by the tabs | login, refresh on load and on 401, retry, logout | a back end over HTTP |
| Front end, board (`pages/TodoPage.tsx`, `hooks/useTodos.ts`) | the cached list of todos, pending mutations, a dragged card, a modal | create, assign, delete, drag and drop; refetch after each | the query cache; a back end that others write to |
| Front end, shell (`App.tsx`, `state/appState.ts`, `pages/AuthPage.tsx`, `pages/ResetPage.tsx`) | theme and language, kept in localStorage; tour, header, menus; route, forms; the account | choices, navigation, forms, logout | other tabs through localStorage; the query cache, the session |
| Front end, assistant (`components/AiAssistant.tsx`) | its messages and whether it is busy | commands that set preferences or call the back end | the shell and the back end |
| ASP.NET back end (`asp_net`) | lists and a token dictionary in memory | the same endpoints | - |
| `dotnet`, `deploy`, CI | - | an empty scaffold, scripts | - |

### What is hard in it

* **Handlers interleave at every await.** In the Rust back end a request is an
  async function that awaits the database once per statement. Only
  `reset_password` and `reorder_todos` use a transaction; elsewhere a row that
  was read may have changed when the next statement runs.
* **Transactions at READ COMMITTED** hide their writes, lock rows, and make
  others wait, so requests can block one another.
* **Requests stop half way.** A statement fails, or the client disconnects and
  the server drops the handler at its await.
* **Connections come and go** while events are broadcast; what one connection
  leaves in the shared hub concerns the user's others.
* **Pages work on copies.** A drop computes the positions of the whole board from
  a cached list; refetches are cancelled and joined; the account changes while a
  form, a list or a command of the previous one is under way.
* **Boundaries.** MAX + 1 in a 32 bit column, fractions of a token that the rate
  limiter adds up in a float, a wall clock that is set back.

`PROJECT.json` lists every such hazard at its line, with the properties that
would catch it going wrong or the reason why there is none.

### What makes the parts correct

* Authentication: a credential works once; a reset replaces the password, spends
  its link and ends the older sessions, all or nothing; a new link withdraws the
  old ones; sessions end for a cause only; every request is answered.
* Todos: only the people of a todo write it, at the time of the write; a reorder
  is atomic and rests on current rows; completed and status agree, whichever back
  ends serve the requests; appended todos get places of their own unless their
  requests overlap.
* Realtime: every connection of a user gets the events of that user, in order and
  completely; connections that ended leave nothing behind.
* Board: a drop moves one card of the board the user saw and keeps the order of
  the others; it undoes no move of the same user; what settled is shown; no
  mutation stays pending.
* Shell: a load keeps what was chosen last; the form fits the account; the cached
  list of one account is not shown to the next; every command is answered once.
* Session: the calls of a tab do not use up each other's session; a call that
  is repeated takes effect once; a tab that shows a user can renew its session;
  every call settles.
* Rate limiter: never more than the limit in any interval; a request that is due
  may be refused because fractions were rounded off, but not a tick later.

## 2. Modules

| Module | What it is |
|---|---|
| `CredentialLedger` | abstract specification: what the authentication tables may do, in six atomic steps |
| `AuthSessions` | the authentication service of both back ends, one action per SQL statement |
| `AuthSessionsInv`, `AuthSessionsProofs` | its inductive invariant; its theorems and their proofs |
| `TodoBoard` | the todo service of both back ends, one action per SQL statement |
| `TodoBoardInv`, `TodoBoardProofs` | its inductive invariant; its theorems and their proofs |
| `TodoLedger` | abstract specification: a todo request takes effect at most once, in one step |
| `TodoLedgerProofs` | `TodoBoard` implements `TodoLedger` |
| `RealtimeHub` | the hub and the two tasks of every connection |
| `RealtimeHubProofs` | its inductive invariant, its theorems and their proofs |
| `ClientSession` | the tabs of a browser, their cookie, and the server as they see it |
| `ClientSessionInv`, `ClientSessionProofs` | its inductive invariant; its theorems and their proofs |
| `BoardPage` | the board in one tab, on a cached list of a board that others change |
| `BoardPageInv`, `BoardPageProofs` | its inductive invariant; its theorems and their proofs |
| `AppShell`, `AppShellProofs` | what surrounds the board in a tab; its invariant, theorems and proofs |
| `RateLimit`, `RateLimitInv`, `RateLimitProofs` | the Bun rate limiter, its invariant, its theorems |
| `MC...` | instances for TLC: payloads, initial states, symmetry |

The modules share no variables; each treats the others as its environment.
`AuthSessions` lets a client present any credential at any time, which covers what
`ClientSession` does; the server of `ClientSession` rotates sessions as
`AuthSessions` shows it does; the server of `BoardPage` executes each request of
`TodoBoard` in one step, as `TodoLedger` permits;
the account of `AppShell` changes in the ways in which that of a tab of
`ClientSession` does, without the requests behind them: by a load, a form, a logout,
and at any time by a refresh, which may also be answered after a logout and sign the
tab in again.

Operators whose comment starts with "Mutant" stand before some actions. They are
the action with a plausible mistake in it and are used by no specification:
`PROJECT.json` pairs each with a property, which TLC finds violated when the
mistake takes the action's place.

### AuthSessions

The Rust service and the Bun service (`authService.ts`) execute the same statements
in the same order on the same tables, so one module describes both; the table
below names the Rust functions, `map` the Bun lines. Variables are the tables and, per request, where it is. `account` is
`users.password_hash` (as the password it was made from), `owner` and `live` are
`refresh_tokens`, `linkOwner`, `links` and `used` are `password_resets`. Tokens
and links are random UUIDs; a row is named after the request that generated it,
which makes them distinct and never reused. `pc[r]` is the statement request `r`
awaits next, or its answer; `user[r]` is what it read.

| Code | Actions |
|---|---|
| register | `Register`, `InsertUser`, `Mint` |
| login | `Login`, `FindUser`, `Mint` |
| refresh | `Refresh`, `FindSession`, `Rotate`, `Mint` |
| logout | `Logout`, `Drop` |
| forgot_password | `ForgotPassword`, `FindEmail`, `ClearLinks` (`ClearWait` when it meets a lock), `AddLink`, `SendMail` |
| reset_password | `ResetPassword`, `FindLink`, `SetPassword`, `MarkUsed`, `Evict`, `Commit` |
| a failure, a client that goes away | `Abort`; a statement that is a handler's last may also commit and be answered with an error |

A reset's writes take effect in `Commit`; from the statement that makes them
until then the rows are locked (`AccountLocked`, `LinkLocked`, `SessionLocked`).
The rows its DELETE found are kept in `doomed`, because sessions inserted after
it survive. Expiry is nondeterministic: a row that is found may be refused. A
client presents any credential that was ever issued. `before[r]`, a history
variable, is the set of requests that had been answered when `r` arrived; the
properties speak of the order of requests through it.

`AuthSessions` implements `CredentialLedger`: `Ledger` is an INSTANCE of it WITH
the six table variables, `LedgerSpec` the property.

### TodoBoard

`todos` holds the committed rows. A todo is named after the request that creates
it. `via[r]` is the back end that serves request `r`: the Bun service accepts three
of the seven statuses (`Accepts`), completes a todo only at `done` (`Completes`),
reads no row before it deletes one, and tells nobody. Both connect to
one database by default (`config/db.ts`, `main.rs`), whose tables only the Rust
migrations create. `ReadEnd` is the SELECT of MAX + 1 that create and update share, `InsertTodo`
and `WriteTodo` write what it found, `FindTodo` and `EraseTodo` are delete,
`ApplyItem` and `Commit` are reorder: an item updates the transaction's `draft`,
which others do not see but whose rows they cannot write (`MustWait`).
`BreakDeadlock` is PostgreSQL's deadlock detector. `Notify` computes whom the
handler tells. `placedBy`, a history variable, names the request that appended a
row to its column. The statuses `planned`, `fixing` and `waiting_test` behave as
`in_progress` does and are left out of the instance. `MaxPosition` stands for
2^31 - 1.

`TodoBoard` implements `TodoLedger`, in which a request is `idle`, `pending`,
`applied` or answered, and `Take` is its whole effect in one step: `Add`, `Change`,
`Remove` or `Rearrange`. The mapping keeps the table and the requests and forgets
statements, locks, drafts and the back end: `Progress(r)` is `applied` from the
statement that changes the table until the broadcast is over. The ledger says of
every request what its payload asks of the row as it is at that step, not as it was
read: an update that wrote back what it had looked up (`UpdatedFromRead`) would lose
the change of another request in between. `denied` is answered only by requests that
changed nothing, `ok` only after the effect; `failed` may be either, which is why a
client cannot know. The position of a request that names none is left open there;
`SharedPositionNeedsOverlap` is about it.

### RealtimeHub

`clients` is the hub's map, with a connection for its sender. `Broadcast` is one
critical section of the hub's lock; `Copies` counts how often a user is among the
recipients, which is twice for a todo whose reporter is its assignee. The send
task is `Forward` and `ChannelCloses`, the receive loop `PeerCloses`,
`StopSending` and `RemoveAll`; between the last two it waits for the lock, and
others may subscribe.

### ClientSession

A browser has one cookie (`jar`), and per tab an access token (`token`), the
refresh that calls await (`refreshPromise`, named after the call that started it)
and whether the query cache holds a list (`cached`). `net` has the open fetch of
every call, of the load and of the forms of every tab (`Own`): it is `sent`, for a refresh
`found` (the row was read), and `back`. A `Session` is an access token and a
refresh token of one response; its user is `owner`.

| Code | Actions |
|---|---|
| `main.tsx` refreshOnLoad | `LoadPage` (also a reload), `LoadAnswered` |
| `AuthPage` login and register | `SubmitLogin`, `LoginAnswered` |
| `App.tsx` handleLogout | `SubmitLogout`, `LogoutAnswered` |
| `api.ts` request, refreshSession | `StartCall`, `FirstAnswered`, `RefreshAnswered`, `AgainAnswered` |
| the back end | `ServeData`, `ServeLogin`, `FindSession`, `Rotate`, `ServeLogout`, `Evict` |

The forms of a tab are requests of their own: a login may still be under way when
refreshOnLoad has signed the tab in and its user logs out, or when the page of the
forms was left and opened again and another login is sent. Only a logout waits for
the one before it (`logoutPending`).

JavaScript runs a callback to its next await, and all calls that await one
refresh go on before any other event, so `RefreshAnswered` is one action for all
of them. An answer sets the cookie and reaches its callback in one step: what
happens between the head and the body of a response is not told apart, and a
request that was rejected or cut off by a reload is not served afterwards. An
access token may be refused as expired at any time. `faults` counts and bounds
what goes wrong: rejected fetches, failing handlers, wrong passwords, refresh
tokens that expire or are reset. `ended`, `renewed` and `loggedOut` are history.

### BoardPage

`list` is the data of the query `['todos']`, `fetch` the request for it, and
`mutation[k]` the mutation of each kind with its phase: `sent` to the server, `done`
or `refused` there, and `settling` while it awaits the refetch its success has
started. `board` is the server's table as far as the user may see it.

| Code | Actions |
|---|---|
| `todosByStatus`, `handleDrop` | operators `todosByStatus`, `Place`, `Others`, `clampedIndex`, `DropItems`; `DropOnColumn`, `DropOnCard` |
| drag and modal of `TodoPage` | `DragStart`, `DragEnd`, `OpenCreate`, `CloseCreate` |
| create, select of an assignee, delete | `handleCreate`, `AssignTodo`, `DeleteTodo` |
| `useTodos.ts` onSuccess | `MutationAnswered` with `Invalidate` and `Await` |
| the query client | `FetchAnswered`, `FetchFails`, `Reconnect`, `MutationLost` |
| the back end | `ServeList`, `ServeCreate`, `ServeUpdate`, `ServeDelete`, `ServeReorder` |
| other tabs and users, the assistant | `OtherAdds`, `OtherMoves`, `OtherRemoves` |

`invalidateQueries` cancels a refetch for a new one but joins the first fetch of
an empty cache, which is why the list may lack a mutation that settled in that one
case (`excuse`). A column is the set of the indexes its cards have in the list, and
a card's place the number of cards `Before` it: this is what a stable sort by
position gives, without a definition by recursion that no prover could use. A drop
is the set of the items it sends: their order makes no difference to a request that
takes effect in one step.
`news` and `behind` are history: what others, and the user, wrote
since a copy of the board was read.

### AppShell

| Code | Actions |
|---|---|
| `appState.ts` hydrate, `setTheme`, `setLanguage` | `Load` with `Hydrate`, `setTheme`, `setLanguage`, `OtherTab` |
| `App.tsx` tour, header, menus, logout | `TourNext`, `TourBack`, `TourClose`, `Scroll`, `OpenDrawer`, `CloseDrawer`, `ToggleMenu`, `SubmitLogout`, `LogoutAnswered` |
| `routes.tsx`, links | `Navigate` |
| `AuthPage.tsx`, `ResetPage.tsx` | `ChooseTab`, `SubmitAuth`, `AuthAnswered`, `SubmitForm`, `FormAnswered`; its effect is `ModeFor` in every action that changes the account |
| `AiAssistant.tsx` | `handleSubmit` with `Intent` and `FirstStep`, `ActionAnswered` |
| the session and the list under it | `LoadAnswered`, `SessionLost`, `SessionSwitched`, `ListAnswered`, `Refetch` |

`listed` and `listing` are the accounts whose todos are cached and being fetched.
A command to the assistant is a record of what its detectors recognise in a text:
the order in which they are asked is the code's, the regular expressions are not
modelled. `chosen`, `seen` and `strayed` are history. Another tab may run another
version of the page, which a service worker keeps, and store a value this one does
not know; `Hydrate` replaces it by a guess, which is stored, and where it finds
nothing it guesses without storing. The tour's steps, the header, the drawer and the
menus are there because the code's handlers change them together with the rest; of
them, beyond their types, only that a load opens the tour for those who have not
closed it is stated.

### RateLimit

A request is one action, because the middleware does not await between reading
and updating the bucket. A token is `Token` = `Second * Grain` units, of which a tick
of the clock (a millisecond in the code) adds `PerTick` = `PerSecond * Grain`. The
code keeps tokens in a float and adds `elapsed * (perSecond / 1000)`, so a refill may
come out a little off: `Sums` is every value within `Rounding` units of the exact
one, `Refilled` the set of buckets this can give, and a request may find any of them.
A sum is not less than what was added to, and taking a token is exact, as it is for
doubles (below 2^53 tokens, one is subtracted from a value of at least one
whose fraction has room in the result). At the defaults, 20 requests a second in
bursts of 40, the roundings of a refill (of the rate, the product and the sum) come to
less than 40 * 2^-51 tokens, where a tick brings 1/50. `Grain` is a parameter and can be
a power of two of which every double is a whole number of units.

It matters. After 40 requests in one millisecond and one every 5 ms from then on, ten
refills of 0.1 give 0.9999999999999999, and the code refuses the request at 50 ms,
whose token has come; one at 51 ms passes. So `RefusalHasCause` grants the rounding:
it takes the limit for a rate that is lower by `Rounding` per tick; `WithinLimit` for
one that is higher by it. What this means in whole tokens is said by two more
definitions, which are proved from these: `LimitInTokens` (the limit is exact, as long
as the rounding of an interval stays below one `Grain`; by the numbers above, for
intervals of more than a year) and `RefusedATickLate` (a refused request would have
exceeded the exact limit one tick earlier, as long as the rounding since the requests
that passed stays below what a tick brings).

`SetBack` is a clock that is set back: `Date.now()` is not monotonic. `admitted`, a
history variable, has for every request that passed the latest clock reading its
client had caused.

## 3. Runs

| Run | Instance | Question |
|---|---|---|
| `auth_sessions` | 2 users, 2 passwords, 3 requests, 2 earlier rows | safety of authentication, refinement of `CredentialLedger` |
| `auth_live` | 1 user, 1 password, 3 requests | is every request answered |
| `todo_board` | 2 users, 2 todos, 2 requests, each to either back end, `MaxPosition` 2 | atomicity, current drafts, completed and status, positions, access at the time of the write, overflow, refinement of `TodoLedger`; is every request answered |
| `todo_stream` | as `todo_board`, Rust only | finding: a reorder is not streamed |
| `realtime_hub` | 2 connections of one user, events for 2 users, 2 broadcasts | order, completeness, separation of users; delivery, no leak |
| `realtime_tabs` | 3 connections of 2 users | finding: one connection ends another's stream |
| `client_session` | 2 tabs, 1 user, 2 calls, 2 loads, 1 form, 1 fault | shared refresh, single effect, tab and cookie; reloads |
| `client_tab` | 1 tab, 1 user, 2 calls, 1 load, 2 forms, 1 fault | does every call settle, over logout and login, one after the other or at once |
| `client_logout` | 1 tab, 1 load, 1 form | finding: a logout is undone |
| `board_page` | 2 todos, 2 columns, 2 mutations, 1 event | what a drop sends, what is shown, whether mutations settle |
| `app_shell` | 2 users, 5 commands, 3 steps of the user, 2 events | preferences, forms, the list of another account, the assistant |
| `rate_limit` | 2 clients, 2 ticks to a second, 3 tokens a second, burst 2, 3 ticks; a token is 8 units, a refill off by up to 1 | the limit and the refusals |

**Bounds.** `Req` bounds the requests of a behaviour, and a request is sent at
any time, so that requests may overlap in any way or follow one another. Three
authentication requests are needed for the properties about order: a credential is
issued, spent and presented again; a reset, a login under way and a login after
it. Two rows from before (`Past`) let a reset find an older session and two links.
Two todo requests are enough for a reorder and what disturbs it, for two appends,
and for an update under way while another takes the todo from its user; the
proofs carry the same properties to any number. Two broadcasts make an order; two
connections make one that outlives the other. In `rate_limit` 3/2 tokens arrive
per tick, 12 units of which a refill loses or gains at most one, so a bucket holds
fractions, falls short of a token that is due, and overflows, and admissions need no
bound of their own: the limit bounds them. Two calls make a refresh that is shared; two
loads open a second tab or reload the first; one fault loses any one answer. On
the board two mutations make one that cancels the refetch of the other, and a drop
after a drop; one event is a write of somebody else or a failure; an ASSUME of
`MCBoardPage` checks what a drop sends for every list of three cards as well. In
the shell two events and three steps let an account be lost and another sign in
while a form or a list of the first is under way. `MaxEvents`, `MaxActs`,
`MaxTime`, `MaxPages`, `MaxForms` and `MaxFaults` are the only other bounds, and
all of them are guards of the actions they limit.
Symmetry is used for requests, clients, tabs and calls, in runs without liveness.
`CHECK_DEADLOCK FALSE` is given for RealtimeHub, where all sockets may be closed
and all broadcasts sent, and for AppShell, where the steps of the user and the
events may be used up; the request models end in `Finished`, ClientSession in
`Quiet`, and BoardPage can always open its modal or close it.

**Fairness.** `Fairness` is weak fairness of the steps of every request
(`Step(r)`) or connection (`Serve(c)`): the runtime polls a task that is ready,
PostgreSQL grants a lock that is free and, in TodoBoard, resolves deadlocks. In
ClientSession the server answers what the calls send and the browser settles every
fetch of theirs with a response or a rejection (nothing is assumed of loads and
forms, for which no call waits); in BoardPage the same for the fetch of the
list and for every mutation, and in AppShell for the calls of the assistant and of
logout.
Arrivals, failures, closing peers, broadcasts and whatever a user does are not
fair: nothing promises them. For authentication no deadlock detector is assumed;
the statements of resets take their locks in one order (account, link, tokens),
and the run shows that nobody waits for ever.

### Findings

* `todo_stream`: `reorder_todos` tells only the user who reordered
  (`todo_service.rs:296`), where `README.md:67` promises changes "for
  reporter/assignee related users".
* `realtime_tabs`: when a connection ends, `remove_all_for_user` drops all
  connections of the user (`todo_realtime_controller.rs:34`). Others stay open
  and silent. In the shortest trace a client reconnects and the end of its old
  connection silences the new one.

* `client_logout`: `request` calls `setAuth` with the answer of a refresh also when
  the user has logged out meanwhile (`api.ts:130`); `App.tsx:191` says of a logout
  that "local state will be cleared".

ClientSession also has behaviour that no text of the repository speaks of, listed
under `hazards`: of two tabs that refresh at once the slower one is signed out;
the answer to refreshOnLoad may overrule a login made while it was under way; a
call that is repeated after another account signed in acts for that account.

## 4. Proofs

`AuthSessionsProofs` proves, for any sets of users, passwords and requests, and
from the assumption `DistinctValues` alone (the absent values are not values, and
old rows are not named after new requests):

* `TypeCorrect`, `CredentialsAreSingleUse`, `ResetEndsSessions`,
  `ResetReplacesPassword`, `NewLinkSupersedes`, `SessionsEndForCause`: each of
  the safety invariants of `auth_sessions`;
* `ResetIsAtomic`: the action property;
* `ImplementsLedger`: the refinement.

The invariants are about answered requests and are not inductive by themselves.
`IndInv` adds what a request on its way carries: which statements its endpoint
may await (`OwnSteps`), that rows belong to accounts and UUIDs are fresh
(`RowsHaveAccounts`, `FreshIds`), that it acts for the account of its credential
(`ActsForAccount`), that what a DELETE has locked is its own (`DoomedIsOwn`), and
for each promise the state in between: a spent credential has no row once the
request got past its DELETE (`Spent`), a transaction about to commit has locked
every older session (`Evicted`), the stored password is that of a reset that is
not older than any answered one (`PasswordIsCurrent`), and an INSERT of a link
comes after a DELETE that saw the older ones (`LinksSuperseded`). One lemma per
conjunct has one step per action. The refinement needs the invariant for the
guards of the abstract steps: a commit recovers the account its link was issued
for, a mint grants a fresh token to an account that exists.

`TodoBoardProofs` proves, for any users, requests, back ends, payloads and initial
rows that satisfy `BoardAssumption`, all safety properties of `todo_board`:
`TypeCorrect`, `CompletedIsStatus`, `DraftsAreCurrent`, `PositionsDiffer` and the
action properties `OnlyRelatedWrites` and `ReordersAreAtomic`. `IndInv` adds which
statements an endpoint may await (`OwnSteps`), what a request must have read by
then (`Known`), that a todo to be created has no row (`FreshIsAbsent`), and the two
arguments the properties rest on. A draft is what applying the transaction's items
up to now to the committed rows gives, and has a row for no todo that they do not
name (`DraftIsApplied`), which holds on because
the rows it has changed are locked. A position that was read and not yet written
(`Placing`) lies after every row that a request answered before has appended to the
same column (`PlaceIsAfter`), which holds on because such a row was there when the
end of the column was read.

`TodoLedgerProofs` proves `ImplementsLedger`, the refinement, from that invariant and
no other assumption. Every step is shown to be a request, a refusal, an answer, a
stuttering step or an effect (`LedgerQuiet`, `LedgerRefuse`, `LedgerAnswer`,
`LedgerTake`), and one lemma per endpoint shows that its last statement writes what
the ledger asks (`InsertAdds`, `UpdateMeets` with `WriteChanges`, `EraseRemoves`,
`CommitRearranges`). For a reorder this needs all that `IndInv` says of drafts: of
the items for a todo there is a last one (`LastItem`), the draft is what that item
makes of its own row (`DraftIsApplied`), and its people are those of the committed
row (`DraftIsCurrent`), so that the transaction commits what a single step would
have made of the table as it is then (`CommitsItem`), with rights the user still has.

`ClientSessionProofs` proves `TypeCorrect`, `OwnRefreshes`, `EffectOnce` and
`SignedInRenews` for any users, tabs, calls and bounds, from `ClientAssumption`
(None is no user, tab, call or number; the calls are finitely many and are not named
like the fetches of a tab's own). `IndInv` adds that a fetch fits where its call is and
has no effect before it is answered, and that the refresh of a tab has one leader
(`CallFits`); that only a loaded page has a token or a fetch, and a form that was not submitted
none (`TabFits`); that what
is presented was issued (`FetchFits`); that a session on its way to a tab has been
nowhere else (`NewSession`), which is why handing it out overtakes nothing; that what
a call has had renewed is no longer in the cookie (`CookieFits`); and that the session
of a tab alone is that of the cookie, good unless a fetch in flight is about to
replace it (`AloneFits`). One lemma says what any step of the server does (`Served`),
the tabs have one per action.

`AppShellProofs` proves `TypeCorrect`, `FormFits`, `ListsAreOwn` and
`LoadsKeepChoices` for any users, commands and bounds that satisfy
`ShellAssumption`, from `ShellInv`: what was chosen is what is stored
(`ChoicesAreStored`), and a cached list or a fetch of another account than the one
signed in is one that was left without the logout button (`SessionKept`).

`RateLimitProofs` proves the limiter for every rate, burst, number of clients, bound
of the rounding and behaviour of the clock, from `LimitAssumption` (the parameters are
positive, as `parsePositiveInt` demands; the rounding is a natural number). The
invariant says that the tokens of a bucket are what the limit leaves (`Left`): at most
what every earlier request leaves if each refill was rounded up (`Affordable`), and,
unless the bucket is full, at least what one of them leaves if each was rounded down
(`NoneWithheld`). The first half gives `LimitHolds`, the second `NoFalseRefusal`.
`LimitIsExact` follows from the first because tokens and ticks are multiples of
`Grain`, so that less than a `Grain` of rounding admits nobody; `RefusalsEnd` follows
from the second, because less than a tick's tokens of rounding is made up for by a
tick.

`BoardPageProofs` proves `TypeCorrect`, `SettledLists`, `DropsMoveOneCard` and
`RevertsHaveCause` for any todos, positions and bounds, from `PageAssumption` (users
drop on columns the page shows; the todos are finitely many; an absent value is
none of the data). `DropMovesOneCard` rests on counting: in a column of n cards
`Place` is one to one and onto 0 to n - 1 and follows `Before` (`PlacesCount`), so
the shifted places leave the index of the moved card, and no other, free
(`SentPlaces`). The clamp never changes an index a card can be dropped on
(`MovedPlace`), although the dragged card may be one of the column. The other
properties are about copies. `IndInv` says that a list and an answer name created
todos, each once (`CopiesFit`), and a drop too (`ReorderFits`); that a list lacks an
own write only while its mutation has not settled (`ListIsBehind`), and an answer
under way only while that mutation's own answer has not arrived
(`FetchIsBehind`), for its arrival starts another fetch; and for every card that is in
another column than its todo, in the list, in an answer and in a drop, by whose
write (`ListStrays`, `FetchStrays`, `DropStrays`). A drop is accepted only when the
earlier one has settled, so the user's own last drop is not among the reasons it
copies from the list.

`RealtimeHubProofs` proves `TypeCorrect`, `StreamsAreOwnInOrder` and
`SubscribersMissNothing` for any users, connections and broadcasts, from
`HubAssumption`. `HubInv` adds that an open connection whose sender the hub holds
has its send task, and that a connection that was not opened has nothing
(`TasksFit`). What the send task forwards leaves the concatenation of what the peer
has and what is in the channel as it was (`ForwardKeeps`); a broadcast appends to it
as many copies as it sends (`CopiesAdded`); when the peer is gone it can only lose
(`LessInChannel`).

Every inductive invariant also holds on the instances of section 3 when a cfg names it
(the MC module then extends the module that defines it): TLC found what was missing
in it before the prover was asked.

**Not proved.** Liveness and fairness are outside what the prover handles here;
so are ENABLED, what a recursive definition computes for every input, and modules
with RECURSIVE operators (there are none). `EveryRequestAnswered`,
`EveryCallSettles`, `EveryMutationSettles`, `EveryCommandAnswered`,
`GoneIsForgotten` and `EventsArrive` remain model checked. Every safety property of
a passing run is a theorem. Of what the findings are about nothing is proved: the
code does not keep `LogoutClears` and the two properties of the streams.

## 5. Not modelled

* Cryptography (hashing, JWT signatures, cookies), texts, validation of payloads
  that are refused before any statement, e-mail delivery.
* Expiry as a clock: it only refuses, so it is a choice.
* Reads that change nothing (list, users, health, metrics, documentation).
* Deletion of accounts: no endpoint deletes one.
* A restart of the database. A restart of a server is an `Abort` of every request;
  the hub's state dies with its connections.
* The AI proxies: one stateless call each. That their timeout does not cover the
  body of the response is a matter of real time.
* On the board the view mode, the selection and who an assignee is; in the shell
  the contents of fields, toasts, animation and translations; in the assistant the
  regular expressions of its detectors and its texts.
* The ASP.NET prototype: what its unsynchronised `List<T>`s hold after concurrent
  writes is undefined, so every outcome would have to be allowed and no property
  would hold or fail by the code. `dotnet` is empty; `deploy` and CI are scripts.

## 6. What could follow

* TodoBoard composed with RealtimeHub and with the view a client keeps of the
  stream, once a client of the repository listens to it.
* BoardPage with TodoLedger for its server, in place of one of its own that takes
  one step per request.
