# Verification of the chat application

TLA+ modules of the Go API (`src/api`) and of the web client (`src/web/src/lib`),
the TLC configurations that check them on small instances, and theorems about
them that TLAPS proves for every value of the constants. Line numbers are those
of the source files; each definition's lines are in `PROJECT.json` under `map`.

## The system

A Next.js client talks JSON and server-sent events to a Go API, which keeps its
state in PostgreSQL and streams model calls from OpenRouter. Cloud Run runs up to
two instances of the API, and cuts a request after an hour.

| Component | State | Operations | Modelled in |
|---|---|---|---|
| Conversation handlers, `chat.go`, `usage.go` | tables `conversations`, `messages`, `token_usage` | Create, Rename, Delete, Messages, Send (List, which only reads, is in `Sidebar`; Usage only reads) | `Chat`, `Transcript` |
| Sessions, `auth_handlers.go`, end of `google_auth.go` | table `refresh_tokens` | login, Refresh (claim, purge, issue; or lookup, revoke), Logout | `Sessions`, `SessionChain` |
| Rate limiter, `ratelimit.go` | a bucket per user, in memory | allow, sweep/evict, Retry-After | `RateLimiter`, `TokenBucket` |
| Message store, `messages-context.tsx`, with `sendMessage` of `api.ts` | `byId`, `loadedRef`, `controllersRef` | load, send, sendNew, stop, and the handlers of a stream | `MessagesStore` |
| API client, `api.ts`; auth context, `auth-context.tsx`; their page and layout | `accessToken`, `refreshing`; user and status | boot, request with one retry, refreshAccess, login, logout | `Tab` over `SessionChain` |
| Sidebar, `conversations-context.tsx`, with its rows and the Home page | the list of conversations, `loading`, `error` | load, create, rename, remove, patch | `Sidebar`; whose list it is: `Tab` |
| Google sign-in, `google_auth.go` | table `users` | exchange, verify, find or insert the user | `Accounts`, `Directory`; the session it begins: `Sessions` |
| Upstream client, `openrouter.go`; `parseSSE` | none | a body's lines to texts and usage, chunks to events | `ReplyStream`; what other requests and other calls make of the outcomes: `Chat`, `MessagesStore` |
| Database pool, `db.go` | five connections | acquire and release per statement | not modelled |
| Access tokens, configuration, CORS, origin check, logging, migrations; UI components; Terraform, CI | none between two requests | | not modelled |

How they interact: a browser tab calls the API; every call but those under
`/api/google`, `/api/refresh` and `/api/logout` carries an access token, and Send
also passes the limiter. Handlers share nothing but the database, and hold no
transaction over two statements: any two requests interleave between statements.
In the browser one callback runs at a time; answers and stream events arrive in
any order, and patch shared state by id.

What is hard: the interleaving of handlers between statements; a stream of
seconds or minutes between a check and the writes that rely on it; a client that
leaves, which cancels the context of every later statement; single statements
that fail, some of them on purpose ignored; a token that is presented twice, by
tabs, retries or a thief; lazily refilled and forgotten buckets; and, in the
browser, loads and streams of the same conversation that overlap.

## The modules

### Chat (api/chat.go, api/usage.go)

One step is one SQL statement. A request is a record in `req` with the pc of its
next statement and the locals it carries over: the user, the conversation, the id
of its question, whether it found itself first, and what its model call cost.
Create, Rename and Delete are one statement each and hence one action. Send is:

| Action | Lines of chat.go | |
|---|---|---|
| `SendCheck` | 183-202 | ownership check; a 404 changes nothing and is no step |
| `SendAdmit`, `SendRefuse` | 204-236 | owner lookup, budget; 400, 429 |
| `SendDrawId`, `SendSave` | 238-244 | the question |
| `SendHistory` | 246-276 | reads the rows, decides `firstMessage` |
| `SendStream`, `SendStreamFails` | 278-289 | the model call |
| `SendDrawReplyId`, `SendReply` | 291-300 | the reply |
| `SendBump`, `SendRecord`, `SendFinish` | 301-318 | updated_at, usage, title |

An INSERT into `messages` is two steps, because its id comes from a sequence that
no snapshot protects: rows may become visible out of the order of their ids.
`StatementFails` is an error of any statement, with the handler's own reaction to
it; `Abandon` is a client that leaves, or a process that dies, after any of them.
A statement that took effect while its answer was lost is an `Abandon` after it.
`Age` lets usage rows leave the 24-hour window, any number of tokens at a time.
`rows.Err` is never asked after the loop at line 254, so with the fault `"read"`
any beginning of a history passes for the whole (`CutShort`).

Data: a message's text is its id; a title is nobody's, the user's, or made from a
question; `updated_at` is `bumped`, whether it was set since the creation; a
usage is a number of tokens.

`Transcript` is the abstract specification: conversations that are opened once,
grow by questions and single answers to them, and are closed for good. `Chat`
implements it (`ImplementsTranscript`) with the tables as the refinement mapping.

### Sessions (api/auth_handlers.go)

One step is one statement again: claim, purge and insert of a rotation
(`RefreshClaim`, `Purge`, `Issue`), and failed claim, lookup and revocation of a
replay (`RefreshMiss`, `RefreshLookup`, `RevokeFamily`). A login is `Login`
followed by `Issue`. Tokens are numbered in the order of issue; all live equally
long, so they expire in that order, and `horizon` is how far expiry has come.
Anybody may present any issued token at any time.

`SessionChain` is the abstract specification: a session is unborn, live,
rotating or ended, and an ended one stays so. `Sessions` implements it.

### RateLimiter (api/ratelimit.go)

Every operation holds the mutex throughout and is one step. Time is discrete, and
tokens are counted in units so that a tick refills a whole number of them. The
limiter's float64 arithmetic is taken to be exact. `passed` and `told` are
history: what a key got through since each moment, and when a refused key may
count on its retry. The middleware rounds Retry-After down to seconds, so a
client that waits for exactly that long may be refused again; the promise that
the model checks is a second more. `TokenBucket` is the abstract specification,
a bucket per key that is never forgotten. The limiter lives in one process: with
two instances a user has two.

### MessagesStore (web/src/lib/messages-context.tsx)

One step is one callback. `view`, `loaded` and `controllers` are the provider's
state and refs; `fetch` and `call` are what is in flight. The server is external:
when it stores a question and a reply (`Accept`, `Reply`, `StoresLate`), and what a
load reads. `sendNew` is two steps, with its await between them: `Create` is the
server's, from which on the conversation is there for the list, for loads and for
sends, and `creating` holds it until the answer arrives; `SendNew` is what follows
the answer: the mark, the emptied page and the send. An answer that never arrives is
a `SendNew` that is never taken. A page may be opened for any id at any time, of
nothing included (`Visit`). The guard of `Send` comes from the page and the
composer, which take text whenever no send is shown, loading and failed
conversations included (`Hasty`). A message is the send it belongs to, its role, the
number of deltas in its text and whether its id is still the client's own. Left out:
the title event and the refresh of the usage meter, which touch other stores; the
refresh of an access token during a send is part of "posted"; the unmounting of the
providers when a session ends. `upset` is history: the conversations in which a send
was made before its messages were there, those that were loading or written to when
the create's answer reached `sendNew` (`Crossed`), and those in which a call was
lost. `OneStream` and `ReplyShown` are of the other conversations; `EveryReplyShown`
is of all, and the run `messages_hasty` shows what happens in the first two kinds.
All other properties of the module hold in every conversation.

### Tab (web/src/lib/api.ts, auth-context.tsx)

One tab, one step per callback. `refresh` is the call of `doRefresh`; there are
two places for one so that a second, if the code made one, would show. `work` is
every other call: the boot's, the login's and the list's, and one more that
stands for all that the pages make. A call is known by the user whose access
token it carries and by where it is: sent, waiting for a refresh, sent again. A
401 may come for any call, since access tokens expire; a call without a token
always gets one. A login is the popup, the call with Google's code, and `me`.

The server is `SessionChain`, with what the tab needs of it besides: which token
of a family is the current one (`claimed`), which were deleted by a logout, and
which families were revoked for a replay (`burnt`). `ServerIsSessionChain` checks
that the tab's server is one that `Sessions` implements, so what is proved of
sessions holds under the tab. A refresh is taken and answered in two steps, and
the cookie changes when the answer arrives.

Left out: the verification of an access token; a second tab, which shares the
cookie and not the single flight (see below); React's double mount in
development; the usage meter. A request that reaches the server after its caller
has given up counts as one that reached it before.

`crossed` and `excused` are history. `crossed` is set when a login or a logout goes
on beside a boot or a refresh, `excused` when the successor of a token does not
arrive: an answer lost, a rotation that fails, a reload during a refresh. The
properties that mention them do not hold without them, and this is how the code
behaves then (`TLC` shows each when the condition is taken out):

* a login that overtakes a slow boot or refresh is undone by its end: refused, it
  drops the fresh session from the screen; granted, it puts the old user's
  access token and cookie in the place of the new one's;
* a refresh that is granted after a logout brings token and cookie back, the
  screen notwithstanding;
* a token whose successor never arrived is presented again, and so is one that two
  tabs present at the same time: the server takes either for theft, and ends
  the session.

### ReplyStream (api/openrouter.go, the end of Send, sendMessage and parseSSE)

One reply from the model's body to the browser's handlers. `ReadLine` is a turn of
the scanner's loop, `StreamFails` to `Title` are the steps of Send after it, with
the events that they write, and `Receive(n)` is a turn of the browser's loop with
a chunk of any size. A frame on the wire is its two lines, each in two halves,
and the ends of line, so a chunk may end inside a line, between two lines,
between the two newlines, or anywhere between frames. `ParseSSE` is what the loop of
`parseSSE` makes of a buffer, without the loop: the ends that it finds, two newlines
at a time (`FrameEnds`), the frames between them, the events of those that have a
name, and the rest. A line of the body has a text, a usage, both, neither, or the marker.
A body may end without a marker, and the code takes it for whole; it may end in
an error after any line, which is also what a cancelled request looks like.

### Sidebar (web/src/lib/conversations-context.tsx, its rows, the Home page)

One mounted sidebar of one tab, a copy of the server's list that is asked for once
and then only patched. One step is one callback, or one statement of the server:
`LoadServed` is List, `CreateServed` Create, `CallServed` Rename and Delete, and
`TitleSent` the last statement of Send with its event. The titles that the server
has stored for a conversation are kept as a history, so that it can be said which
of two is the older one: `titles`, `gone` are the server's and `rows` the
sidebar's. `page` is the route; a delete that was asked on the open row leaves it
(`isOpen` is the one of the click), and the answer of a create leads to the new
page wherever the user has gone.

`upset` is history: the conversations of which an answer was lost or came after a
later one. What puts a conversation there, and what the sidebar then shows until
it is mounted again, is how the code behaves:

* a list that was read before a create, and arrives after the create's answer,
  drops the new row; one that was read after it, and arrives before the create's
  answer, shows it twice;
* two renames whose answers cross, or a rename and a title event that cross, leave
  the older title on the row;
* an answer that is lost after the server has acted: a conversation without a row,
  a row without a conversation, or an old title;
* a title event whose update failed shows a title that is not stored.

`moved` is history too: a page entered during its own delete, which nothing
leaves again. After a failed load the error stays, and no row is shown, though
creates go on adding to the list behind it.

Left out: the edit box and the question of a row, which only decide when a call
can be made (here: at any time, several at once); toasts; the order of the list,
which the server has by last activity and the tab by creation; conversations of
other tabs; the double mount of React's development mode.

### Accounts (api/google_auth.go)

One step is one statement of Auth.Google: `Verify` is everything before the first,
with Google's answer, `Lookup`, then `UpdateEmail` or `Insert`, then `Issue`,
whose own statements are in `Sessions`. An account's address is the number of its
changes, so that older and newer can be told apart. The table starts with users
for the accounts in `Known` and any ids. `Insert` draws its id from a sequence, and
draws it too when the unique key refuses the row. `overlapped` is history: the
accounts of which two sign-ins were in progress at the same time; for these, the
update by account alone may put an older address over a newer, and the one of the
two that loses the insert is told 500 although a second attempt would succeed.

`Directory` is the abstract specification: an account becomes a user once, is that
user for good, shares it with nobody, and begins sessions of that user only.
`Accounts` implements it, the rows being the refinement mapping.

### Slip operators

Next to some definitions stands a `Slip` form of it, the same operator with a
plausible mistake. No specification uses them: put in place of the original, each
makes TLC find one of the properties violated, so no property is one that the
code could not break. `PROJECT.json` lists the pairs under `mutants`.

## The runs

| Run | Instance | Properties | Result |
|---|---|---|---|
| `chat_tables` | 2 users, 2 conversations, 2 requests, 6 message ids; no cost; all faults | `TypeOK`, `OwnershipHolds`, `MarksOfAnAnswer`, `ImplementsTranscript` | hold |
| `chat_liveness` | a user and the owner, 1 conversation, 2 requests, calls of 0 to 2 tokens over a budget of 2; model calls may fail | `BudgetOvershootBounded`, `OneNamer`, `SendEnds`, `ReplyIsCharged` | hold |
| `chat_uncharged` | 1 user, 1 conversation, 2 requests, no fault | `CompletedCallsCharged` | violated |
| `sessions_rotation` | 2 users, 2 families, 3 requests, 3 tokens; all faults | `TypeOK`, `OneHeirPerFamily`, `FamilyKeepsItsUser`, `ImplementsSessionChain` | hold |
| `sessions_replay` | 1 family, 2 requests, no fault | `ReplayEndsFamily` | violated |
| `limiter` | 1 key, a bucket of 2 tokens, 20 ticks | `TypeOK`, `RateBounded`, `RetrySucceeds`, `ImplementsTokenBucket` | hold |
| `messages` | an old and a new conversation, 2 sends, 2 deltas; all faults | `TypeOK`, `OneStream`, `ReplyShown`, `TextIsWhole`, `NoRowTwice`, `WaitsAreServed` | hold |
| `messages_hasty` | an old and a new conversation, 1 send, a good network, a hasty user | `EveryReplyShown` | violated |
| `tab` | 2 users, 2 families, one exchange of each, 1 reload; all faults | `TypeOK`, `NoReplay`, `OneAccount`, `NobodyWaitsInVain`, `ServerIsSessionChain` | hold |
| `reply_stream` | every body of up to 3 lines, every way of cutting it; all faults | `TypeOK`, `HandledAsWritten`, `StoredAsSaid`, `OneVerdict` | hold |
| `sidebar` | 1 old and 1 new conversation, a title, 2 renames or deletes; all faults | `TypeOK`, `InStep`, `TitlesAreStored`, `NotStranded`, `NothingHangs` | hold |
| `accounts` | 2 accounts, 1 of them known, 2 sign-ins at a time, 3 ids, 2 changes of address each; all faults | `TypeOK`, `OneUserPerAccount`, `AddressNeverOlder`, `ImplementsDirectory` | hold |

What the runs that hold show, in a sentence each: `chat_tables`, that however two
requests interleave and fail, a conversation is a list of questions and single
answers, written by its owner, whose automatic title is a question that was
answered; `chat_liveness`, how far concurrent requests overshoot the budget, that
one message at most names a conversation, that a request ends and its reply is charged; `sessions_rotation`, that a session never forks,
changes hands or revives; `limiter`, that forgetting idle buckets lets nothing more
through; `messages`, that what a page shows is what was sent and stored, once;
`tab`, that an honest tab is not taken for a thief and shows the account that it
calls for; `reply_stream`, that the browser is told exactly what was said and
stored, wherever the wire cuts; `sidebar`, that a list which is never asked for again
stays that of the server, but for the conversations named above; `accounts`, that
an account is one user, through races and failures.

What the violations show:

* `chat_uncharged`: a conversation deleted during its stream makes the reply's
  insert fail, and the handler returns before it records the tokens that the
  completed call has used.
* `sessions_replay`: the revocation of a family updates the rows that exist. The
  rotation in flight inserts its successor afterwards, live.
* `messages_hasty`: a load asked before a send is answered during it; its answer
  replaces the messages, bubbles included, and resets `sending`. The reply is
  stored and announced, and not shown.
  With `Faults = {}` in the same configuration TLC finds it violated by a patient user:
  he opens a new conversation, from a list that was read after its create, before the
  create is answered. The page asks for the messages; `sendNew`, when it has the
  answer, empties the page and sends; the load's answer wipes the bubbles and
  `sending` as before.

Bounds, and why they are enough. Two requests are what every race of `Chat` takes;
a third adds nothing but a second bystander, and six message ids are three sends,
two of them concurrent and one before or after. Three requests over two families
let a rotation, a replay and another session's purge meet. The limiter's bucket
of two tokens, with a token every four ticks, fills, empties, tops up and is
forgotten several times within twenty ticks; its idle time is the least that the
assumption allows. Two sends in an old and a new conversation let a stopped, failed or
finished call meet its successor. Two users and two families in
`tab` are an old session and a new one; an exchange of each is what a second refresh
needs to be a replay, and a reload is what brings a boot with a cookie. Three lines
are two texts and a marker or a usage, five frames with the last events: enough for
a chunk to hold whole frames and parts of two. In `sidebar` one conversation from before and one created meet every order of
load, create, title event and two calls; a second of either shares nothing with
it but the load, and two calls are what it takes to cross. In `accounts` two sign-ins
are a race, and three ids are the known user, the winner and the loser of one.
Symmetry is used in safety runs only; where it
goes with a refinement property, that property treats the permuted values alike.
`CHECK_DEADLOCK FALSE`: bounded instances stop when ids, tokens or ticks are used
up, and a server may be idle for ever.

Fairness: the runs of `Chat` with `FairSpec` assume weak fairness of each request's
own steps. The Go scheduler runs every goroutine, statements return or fail, and
Cloud Run ends a request that waits on a silent upstream. Nothing is assumed of
clients, of other requests or of faults. `sidebar` assumes weak fairness of the
first load and of each create: a browser settles every fetch, with an answer or an
error. Nothing is assumed of the user, or of renames and deletes.

## The proofs

Every module of the system has one of proofs: `ChatProofs`, `SessionsProofs`,
`RateLimiterProofs`, `AccountsProofs`, `TabProofs`, `MessagesProofs`, `SidebarProofs`,
`ReplyStreamProofs`. What they state holds for any constants that satisfy the module's
named assumption (`ChatAssumption`, `SessionsAssumption`, `LimiterAssumption`,
`AccountsAssumption`, `TabAssumption`, `StoreAssumption`, `SidebarAssumption`,
`StreamAssumption`). These ask for disjoint kinds, for bounds that are numbers, in
`Chat` for finitely many requests in progress and a budget above zero, as the
configuration does, and of the limiter what is said below: any number of users,
conversations, calls and lines, and any faults.
Every invariant and every refinement that a run checks is a theorem; so is, below it,
the inductive invariant that it needs.

* Chat: `TypeCorrect`, `Ownership`, `BudgetBound`, `MarksAreAnswers`, `OneTitle`,
  `RefinesTranscript`. Ownership is not inductive by itself; the invariant adds types
  and that an id, once born, keeps its user. The budget's bound needs a debt: a user's
  usage plus what the requests that were let in may still add never exceeds the bound,
  because a request adds to the debt only when it finds the usage below the budget.
  The argument is about the cardinality of the set of requests beyond the check.
  The other three rest on the log (`LogInv`): an id that a request has drawn is in no
  message but its own, no two requests hold the same one, and a question that is saved
  is in the log until its conversation goes, without an answer until its own request
  has stored one and with an answer from then on. So the statement that marks a
  conversation finds the answer it is about; the abstract append of an answer finds
  its question, unanswered; and every other statement shows nothing of a transcript,
  or ends one. `OneTitle` assumes that no read of a history is cut short, as the run
  does: a request that takes itself for the first has read a history of one row, its
  own question, and a second such request, or a title that one has made, would have
  left a row in that history (`NamerInv`).
* Sessions: `TypeCorrect`, `NoFork`, `OneUser`, `RefinesSessionChain`. The
  invariant says of each family that its live tokens and its rotations in flight
  are together one at most; the claim moves that one from the first to the
  second, the insert moves it back, and all else only takes away. Tokens not yet
  issued have no row, and rows and requests carry the user of their family. The
  refinement follows: a step of the handlers changes the state of each family
  by one of the abstract moves, or not at all.
* RateLimiter: `TypeCorrect`, `RateHolds`, `RetryHolds`, `RefinesTokenBucket`.
  For each key and each moment, what has passed since then plus what the bucket
  holds now is at most the burst plus the refill since. Eviction keeps that
  because an idle bucket is full: `IdleTTL * Rate >= Full` is the one assumption
  on the constants, and the code's ten minutes at twenty tokens a minute satisfy
  it ten times over. A promised retry stays good because a bucket that is
  refused, or forgotten, is never left with less.
* Accounts: `TypeCorrect`, `OneUser`, `AddressMonotone`, `Implements`. One invariant
  serves all four. Beside types and `OneUserPerAccount` it says that no row has an
  id that the sequence has still to give (`Drawn`), so an insert shares its id with
  nobody; that a request beyond the lookup or the insert has the user of its
  account's row (`Requests`), so a session begins as its account's; and that an
  account whose sign-ins have not overlapped has one request at most, whose
  address is no older than the row's and no newer than Google's (`Orderly`), so its
  update never goes back. Each action has a lemma; the refinement uses that rows
  keep their account and id (`Kept`), and that the CHOOSE in the refinement
  mapping picks the only row there is.
* Tab: `TypeCorrect`, `NobodyForgotten`, `TabServerIsSessionChain`,
  `NeverTakenForAThief`, `OneAccountAtATime`. `NobodyWaitsInVain` is inductive once the
  types are known. The server's part (`ServerInv`) adds that there is one flight at a
  time, that what it exchanges is rotating, and that a family which no login has
  answered for yet is in no cookie; every step then moves each session as the abstract
  one may. For the cookies (`CookieInv`): one that can still be presented is the newest of
  its family, or unknown to the server; the jar's is older only while its successor is on
  the way, and then the single flight presents it to nobody. For the account
  (`AccountInv`): the token, the jar's cookie and the one in flight are all of the user
  who is shown or about to be, a boot runs alone, and a login runs on a page that is
  signed out; `crossed` names the ways out of that.
* MessagesStore: `TypeCorrect`, `BubblesAreWhole`, `OnceOnAPage`, `NobodyForgotten`,
  `StopButtonAborts`, `RepliesStay`. The first three share an invariant (`TextInv`)
  of what the server has stored of each send, once and as sent, and what a page has:
  rows that are stored, or the optimistic messages of a send to this conversation.
  Waits need (`WaitInv`) that the spinner is left for good: what shows it, and is
  not fetched, is a conversation that nothing was ever done with; and that what a
  failed load leaves is not marked as loaded, or is fetched again (`Refused`). For
  the streams of a conversation that no hasty send and no crossed create has upset
  (`Sound`), the sending flag, the controller, the bubble and the running call are
  all of one send, or of none, and no load is under way beside it; a load that has
  read the rows has read every reply that is done, and so takes none off the page.
* Sidebar: `TypeCorrect`, `ListIsTheServers`, `NoTitleBeforeTheServer`,
  `DeletedPageIsLeft`. `ServerInv` ties the answers and events that are under way to
  what the server has: each carries a title that is stored under its number, or reports a
  delete that is done. For a conversation that is not `upset`, the row shows a title of
  which every later one is still to come (`Follows`), and a row of a dead conversation
  waits for the answer of its delete; when nothing is to come any more, the row is the server's.
  A delete that was begun away from the page leaves the page only to a user who
  goes there, and once its answer is in there is no row to go by (`PageOK`).
* ReplyStream: `Parsed`, `TypeCorrect`, `NothingLostOrTwice`, `StoredIsSaid`, `OneEnd`.
  `Parsed` is about the parser alone: a buffer that holds, from anywhere in a stream, any
  number of whole frames and a part of one, gives their events and keeps the part.
  The invariant of the wire (`WireInv`) says that buffer and wire are the pieces of
  the stream that follow each other, the buffer being less than a frame; a chunk of any
  size keeps it, by `Parsed`. Of Send, `SaidInv` says that the reply is the texts of the
  lines so far, in order, and the usage the last count, and `WrittenInv` that what is written is
  the reply's texts and then one of the three endings.

Only model-checked: liveness (`SendEnds`, `ReplyIsCharged`, `NothingHangs`), because
the prover does not reason about fairness; and that the closed form of `ParseSSE` is the
loop, which takes an induction over the turns of the loop: TLC has compared the two on
every buffer of up to seven pieces. The invariants above were given to TLC as invariants
of the runs' instances before they were proved.

## What is not modelled, and why

* JWT signing and verification, Google's endpoints, hashing: cryptography and
  other people's services. A handler is modelled from the user id they yield.
* The database pool: every handler holds one connection at a time, and Send gives
  its own back before the stream. The start-up loop of pings runs alone.
* Configuration, CORS, the origin check, logging, migrations: functions of a
  single request or of the environment.
* Rendering, layout, toasts, the mobile drawer, the usage meter: no other state
  depends on them.
* Terraform and CI: two facts are used, the hour's timeout and the two instances.
* A connection that cannot be made or breaks makes `sendMessage` throw (`api.ts:277`),
  and a stream without a last event makes it return (`api.ts:253`): no handler is
  called, and the bubble streams until the user presses stop. `MessagesStore` has it
  (`Lost`), and `WaitsAreServed` says what holds of all other calls.
* Two sends into a new conversation that both insert before either reads count two
  questions each, and neither is the first (`chat.go:265`); a first send whose stream
  fails stores its question and names nothing. The conversation then keeps no
  title. `Chat` has both; `OneNamer` excludes the opposite, that two messages name it.
* The usage meter's answers are applied in the order in which they arrive
  (`usage-context.tsx:25`), and an older number may stand until the next reply.
* Each instance of the API has a limiter of its own: `RateLimiter` is one process.
* The automatic title replaces a title that the user gave during the stream
  (`chat.go:314`). The model has it; neither code nor tests say which should win.
* A history cut short (`CutShort`) that leaves one row makes a later message
  take itself for the first and rename the conversation; `OneNamer` is therefore
  checked where histories are read whole.

## Plan

Done: `Chat` with `Transcript`, `Sessions` with `SessionChain`, `RateLimiter` with
`TokenBucket`, `MessagesStore`, `Tab` over `SessionChain`, `ReplyStream`, `Sidebar`,
`Accounts` with `Directory`; proofs for all eight.

1. Compositions: `Accounts` with `Sessions` in the place of its `Login`; `ReplyStream`
   with `MessagesStore`, the store's `Delta`, `Done` and `Fail` being the handlers of a
   stream, and the abstract call "texts, then one verdict"; a second tab beside
   `Tab`, which shares the cookie and not the single flight.
2. An abstract list for `Sidebar` and an abstract page for `MessagesStore`, with the
   refinements that their invariants nearly are.
3. The usage meter's store, should anything come to depend on it.
