# future_was: TLA+ models and proofs

future_was is the web application server of a baseball game: an Echo server in Go, MySQL
(one game database, several shards), Redis (user cache, sessions, locks, Pub/Sub) and a CDN
with design data, beside which stands a React client for operators. This directory holds
models of the server's request path, its logins, what its servers reload, its schema migrator
and the pages of the admin client, the TLC configurations that check them, and TLAPS proofs.
Paths below are relative to the repository (`src/`).

Run `tlc -config X.cfg MCname.tla` for a run of the table below and `tlapm Name_proofs.tla`
for a proof module.

## 1. Inventory

| component | source | state | operations |
|---|---|---|---|
| per-user lock | `internal/cache/user_lock.go` | Redis key `lock:user:{id}` with a TTL of 10s | `Acquire` (SET NX, 60 polls of 50ms), `Release` (compare-and-delete script) |
| dispatch | `internal/handler/dispatch.go`, `uow_helper.go` | none; one goroutine per request | checks, lock, unit of work, handler, `CommitOrRollback`, answer |
| unit of work | `internal/uow/*.go` | `store`, `dbOps`, `dirty`, per request | `LoadOne`, `LoadList`, `Create`, `CreateNow`, `Update`, `Commit`, `Dirty` |
| user cache | `internal/cache/user_cache.go` | Redis hash `user:{id}`, one field per entity, 30min | `Get`, `Set`, `SetMulti`, `DeleteAll` |
| services and handlers | `internal/service`, `internal/handler/*` | none | items, assets, cards, account |
| login and session | `handler/account/login.go`, `service/account_service.go`, `cache/user_session.go` | `TB_ACCOUNT`, first grants, Redis session token per user (8h, sliding) | lookup by channel_uid, `CreateNow`, grants, `Set`, `VerifyAndRefresh` |
| design catalogs | `internal/design/*.go`, `repository/version_repository.go` | `Store.catalogs` per server, `TB_VERSION`, files on the CDN | `LoadActive`, `Trigger`, `subscribe` |
| resources, maintenance, clock | `internal/resource`, `internal/middleware/maintenance.go`, `internal/clock` | snapshot per server, clock offset per server, `TB_ADD_SERVER_TIME` | `LoadAll`, `Trigger`, `subscribe`, `ActiveMaintenance`, jump and its log, first loads in `main` |
| migrator | `sql/migrations/*.go`, `cmd/migrator/main.go` | migration files; schema and `goose_db_version` of every database | up, up-by-one, down, baseline, create |
| shard registry | `internal/database/database.go` | registered shards and weights | `PickShard`, `GetShard`, `Transaction` |
| admin requests | `web/admin/src/api/client.ts`, `router/admin.go` | requests in flight, which browser and server see differently | `request`, `adminApi`, `clockApi`, `migrationsApi`, `versionApi` |
| version page | `web/admin/src/pages/VersionPage.tsx`, `components/DataTable.tsx` | list (or "loading"), selection, busy, the last result; `TB_VERSION` on the server | refresh, create, delete of a selection after a dialog, reload of designs |
| clock page | `web/admin/src/pages/ClockPage.tsx` | last reading of the clock, picked target, busy; offset and rows of `TB_ADD_SERVER_TIME` | read, presets, typed offset, jump to a target, reset |
| migrations page | `web/admin/src/pages/MigrationsPage.tsx` | status, tab, file viewer, form for a new file, toast | read status, open and close a file, write a file |
| admin routes | `web/admin/src/App.tsx`, `main.tsx` | the page that is mounted | navigate, load again |
| club scope | `cache/club_*.go`, `uow/owner.go`, `uow/helper.go` | as for users | no handler uses it yet |

How they interact: `dispatch` takes the catalog of the client's version from the design
store, checks the session, takes the user lock, builds a unit of work, calls the handler,
which calls services, which call the unit of work; the unit of work reads through store,
user cache and database, queues writes, and on `Commit` runs one transaction per database
and then writes its whole store into the user cache. `CommitOrRollback` deletes the hash
when that fails. The answer carries a `sync` field with the changed registered models; the
lock is released by a `defer`. Reloads go from an admin handler through Redis Pub/Sub to the
subscriber goroutine of each server.

An admin page keeps everything in React state. An event handler calls `fetch`, sets `busy` and
goes on when the answer comes, after which it reads again; the page may be left in between,
which throws its state away and recalls nothing from the server. Several operators, each with a
browser of his own, work on the same tables.

What is hard in it:

- requests of one user run concurrently on any number of servers; only the lock orders them,
  it can expire under its holder, and a login (user id 0) takes none;
- the database and the cache are written one after the other, either may fail or report a
  failure although it took effect, and a server may die in between;
- a row read from the database is put into the cache a step later;
- queued operations run late, on models that have been changed since;
- Pub/Sub is at most once, and a reload consists of a query, several downloads and a swap;
- a first login makes its account in one transaction and its grants in another, with the
  session token in between, and a login that got no answer is tried again;
- DDL cannot be rolled back: the SQL of a migration file and its row in the journal are two
  steps, over a list of databases any of which may be down, with files whose timestamps
  arrive out of order;
- an admin page has reads of its own in flight beside those of its buttons, answers come in any
  order, a request may fail for the browser and be carried out all the same, and what is on
  the page is old as soon as another operator acts.

The properties that make each component correct are stated in section 3; `hazards` in
`PROJECT.json` lists what they are for, line by line.

## 2. Modules

    UserLease  <---implements---  UserLock  <-- UserLock_proofs
        |
     EXTENDS
        v
    Dispatch   ---implements-->   UserRecords
        ^-- Dispatch_proofs
    UnitOfWork      Login      DesignSync      ResourceSync      Migrator
    ^-- UnitOfWork_proofs, Login_proofs, DesignSync_proofs, ResourceSync_proofs,
        Migrator_proofs

    AdminApi  <--EXTENDS--  VersionPage (with DataTable), ClockPage, MigrationsPage
                                  <--EXTENDS--  AdminApp  <-- AdminApp_proofs
    (MC... : model values, instances and symmetry for TLC)

`UserLease` is the abstract lock: at most one request has a *running* lease, and a request
that outstays its lease is `lapsed`. `UserLock` shows that the Redis lock implements it, so
`Dispatch` is built on the lease and not on Redis keys, ticks and retries. The modules of the
last row meet the others at a single action: a unit of work is a request of `Dispatch`
between `Acquire` and `Release`; `Login` is what a `LOGIN` request does where `Dispatch` has
it change the account's device only; the two kinds of reload and the migrator share no state
with requests but the maps they swap.

**UserLock**. `key`/`ttl` are the Redis key; `pc`, `tries`, `age` are the local state of
`Acquire` and of the critical section. `SetNX` and `ReplyArrives`/`ReplyLost` are two steps:
Redis executes the SET before the caller knows, the go-redis client may send it again
(and then meets its own token), or `Acquire` returns an error and leaves the token behind.
`Refused` is `redis.Nil` and the sleep; `UseAttempt` is the loop counter. `Release` is the
Lua script; `ReleaseFails` is the ignored error of a `Release` whose request context has
been cancelled. `Tick` is time: Redis deletes the key at the end of its TTL, and no holder
gets older than `HoldBound`. `HoldBound < TTL` says that requests are faster than the lock;
the code does not enforce it, so the runs let requests be slower. `club_lock.go` is the
same code.

**Dispatch**. One action per call to Redis or MySQL, so every interleaving of two requests
is between those calls. `stage[r]` is the place of request r in `dispatch`; `focus[r]` the
entity that is loaded; `store[r]` its `UnitOfWork.store`; `db` and `cache` are shared.
Loads follow the code: cards first, and when they miss the cache the account, which knows
the shard; for an `Update` of cards that came from the cache the account after them
(`Onward`). The contents of a row is the set of requests whose change it contains: a lost
update is a missing member. Requests are upgrades (read and write cards), reads, logins
without lock and logins with the user's id in the envelope (`Relogins`). `CommitFails` covers
both a rollback and a commit whose confirmation is lost; `PublishFails` both a SetMulti
that did nothing and one whose reply is lost; `Invalidate` is `CommitOrRollback`, whose
`DeleteAll` may be lost when `MayLoseDelete`; `ReplyFails` is the answer that cannot be marshalled
after the commit. `UserRecords` is what a client may rely on: a
single copy of the cards.

**UnitOfWork**. The other half of `internal/uow`: the queue. One unit after the other (the
lock sees to that), each with any sequence of service calls in both databases. A row is an
amount; a model also knows whether its primary key is set. `groups` are the databases whose
transaction is still to come, `Turn` the one whose operation was queued first. `Run` goes
through the queue and executes the operations of that database (`Perform`) on the models *as
they are at commit time*, which is what the closures of `Create` and `Update` do: an INSERT
queued before later changes writes the final amount, and the UPDATEs after it write it again.
`CommitGroup` is the transaction of one database; the first of two may commit and the second
fail. `mirror` is a client that fetches a list once and then applies `sync` fields.
`uow_helper.go:13` drops the error of `DeleteAll`, so `Invalidate` may leave old rows in the cache,
as a server does that dies after the transaction. From then on units work on what was left: lists
that are cached are loaded as they are (`LoadCached`, which asks for no account), an INSERT may meet
its row and its transaction then fails on the UNIQUE key (`Collides`). `stale` remembers that such a
loss has happened and what it left may not have expired, `misled` which copies of the client were
answered or added to meanwhile; both are history. Where `ShardDB` is nil
(`KnowsShard` is false: the account could not be loaded) a load fails at once, and a queued operation
at commit, where `Transaction` panics before it has touched a row; the model ends such a unit by
`Abandon`, which is as much.

**Login**. Logins of one channel_uid that has no account yet or has one. Their envelope has
no user id, so `dispatch` takes no lock and nothing orders them. `Find` is the lookup,
`Insert` the `CreateNow` that commits the account at once on the shard `PickShard` drew,
`Grant` the queueing of the initial asset and item, `SetSession` the token, `Commit` the
transaction that holds the grants, in that order, which is the code's: the token is in
Redis before the commit. A failure of `Insert`, `SetSession` or `Commit` may hide that it
took effect, and the server may die between any two steps (`Crash`). `Verify` and
`VerifyRefused` are later requests of the same client under its token, `Tick` the end of
tokens. `raced`, `overtaken` and `idle` are history. `PickShard` is the draw of a database for a
random number below the sum of the weights: `CumWeight` are the sums up to each shard of the
list, in the order of the code's loop.

**DesignSync**. `LoadActive` as a task of a server, by the admin handler or by the
subscriber: `QueryRows`, one `Download` per kept version, the newest first, `Replace`; `todo` is
the set of versions still to be downloaded. `DownloadFails` is fatal for the newest version and
skips another. `Publish` appends the sender's selfID to the
inbox of every subscribed server; `Receive` skips the server's own. `Restart` goes through
the first load and `Subscribe`, in that order, with the gap between them. Edits of
`TB_VERSION` and re-uploads of files are the operator's actions (external, as the admin
handlers and the README describe them). `disturbed` remembers whether anything has failed.

**ResourceSync**. `internal/resource` has the same shape without downloads, but what it loads
is asked for at every request. `tables` is every state that the active rows of
`TB_SERVER_MAINTENANCE` have had, so a snapshot is the number of the state it was read
from; `Admits` is the middleware. The reload on `Caller` is `ReloadQuery`, `ReloadReplace`,
`Publish`; a subscriber's is `Receive`, `SubscriberReplaces`; edits, restarts and other
reloads fall in between. `answered` is the state behind the last reload answered OK, and
`deaf` the servers that missed its message or failed to load for it. The clock has no
Pub/Sub: `Insert` and `SetOffset` are the two steps of a jump, and a server takes the last
row of `log` over when it starts, after the first load and before the subscription, as in
`main`.

**AdminApi**. A slot of `calls` is one request in flight: operation, argument, whether a mounted
page waits for it (`live`), and its reply. The server handles requests in any order
(`...Serves`) and the page handles answers in any order (`...Returns`), which gives every
interleaving of two awaits. `Lose` fails a request that had not reached the server or whose
answer was on its way back; `LoseContact` fails it while the server goes on with it. `Foreign`
requests are those of other operators, which no page of this browser waits for, and so are
those of a page that was left (`Abandoned`), as far as they write. `arg.alone`, in a read, says
whether another read of the kind has been in flight beside it.

**VersionPage** with **DataTable**. A React event handler runs to its next await in one step;
setting state and rendering are not separate. `ClickCreate`, `ClickReload`, `ClickDelete` and
`ClickRefresh` are the buttons, which `disabled={busy}` guards; a refresh does not make the page
busy itself, so that lists can overlap. `ClickDelete` is the dialog with its confirmation: the
targets are the selected rows of the list at that time, and one DELETE for each goes out at
once (`Promise.all`), so that the first that fails ends the job while the others go on. Fields
of the form are chosen when it is submitted. On the server, `ServeCreate`, `ServeDelete` and
`ServeList` are the handlers of `router/admin.go`; `FindAll` of no rows is a nil slice, which
is `null` in JSON. `DataTable` is the selection, of a row or of all rows.

**ClockPage**. `now` is the server's time in milliseconds; a reading carries whole seconds (RFC3339).
`PickTarget` computes the jump's offset from the last reading (`Reference`) and rounds as
`Math.round` does (`Rounded`); without a reading the browser's clock stands in, in milliseconds and
`BrowserAhead` of the server's. The handler of a
jump inserts a row and then sets the offset in two steps without a lock (`InsertRow`,
`SetOffset`), so that the jumps of two operators overlap; `ResourceSync` has one jump at a
time and adds the restarts.

**MigrationsPage**. The status with its toast, the tabs, the viewer of a file and the form. The
file that is open and the content that arrives are two pieces of state, as in the source; the
form that is open when an answer comes may be another than the one that was submitted
(`arg.own`). `MigUp` is a change of the databases by the migrator (external here; see
`Migrator`).

**AdminApp**. `Navigate` mounts a page, which sends its first reads, and forgets the last one;
loading a page again goes by way of "not found". Left out of the four modules: layout, texts and
the lines that show an error, the author remembered in the browser's storage, and the double
mount of React's StrictMode, which production builds do not have.

**Migrator**. A file is its category, directory and version id; directories are numbered in the
order of `sort.Strings`. `schema[db]` is the set of files whose SQL is in effect,
`journal[db]` the rows of goose's table. `run` is the one invocation of the tool: command,
flag, and the sets of databases, directories and files still to do, of which it takes the next
one in the code's order: the game database before the shards (`FirstTarget`), the first
directory, the file with the lowest id. `Execute`
and `Record` are the two statements behind a file, and `CutOff` ends the tool between them;
`Fails` is every other error. `AddFile` lets files come into the tree at any time and in any
order of timestamps. What goose does is external, as the code's comments and calls take it
to work: with `WithAllowMissing` it applies what is not in its table in ascending order of
id, within the one directory it is given; `Down` takes back the *last row* of its table,
while the code chooses the directory by the *highest id* (`currentVersion`). `excused` marks
the files that were in the schema before, that `baseline` marked or that were cut off: the journal
is not expected to tell the truth of those. The SQL of different files is independent here, so that
a file applied before an older one does no harm by itself.

## 3. Runs

| run | question | result |
|---|---|---|
| `lock_lease` | what does the lock give to requests that may outlast it? | requests inside their TTL exclude each other (`SerialisesWithinTTL`), a late `Release` never frees another's lock (`OnlyOwnerReleases`), an orphaned token always has a fault behind it, `UserLease` is implemented, every `Acquire` returns; under lost replies, failed releases and crashes |
| `dispatch_serial` | two upgrades, a read and a login under the lock; progress | cache follows rows, no lost update in cards or account, cards are a single copy (`SingleCopy`), every request is answered |
| `dispatch_faults` | lapses, crashes at every step, lost deletes, failing answers, a login without lock | uncommitted data is never seen; answers tell the outcome |
| `unit_of_work` | mixtures of calls and failures in both databases | cache equals rows between units, transactions do what the calls said, inserts are new, sync keeps a client current; all of it but where a lost `DeleteAll` is still felt |
| `login` | three logins of one channel_uid, at once or in turn, with failures | one account unless two logins were in progress at once; grants at most once, on the account's shard, never missing behind an answered first login; a token is refused for a reason only; `PickShard` is proportional |
| `design_reload` | two servers, edits, failures, restarts, one caller of reloads | a server serves the map of one query and never goes back; a reload answered OK reaches all while nothing fails |
| `resource` | maintenance and clock on two servers, with lost messages, failures, restarts | a reload has arrived wherever its message was handled, full channels or not; no request starts inside a window known since the reload; clock jumps survive restarts; snapshots never go back |
| `migrator` | every sequence of commands on a game database and a shard, with failures | the journal is true of the schema, files run in order, no shard before the game database is done, `up` leaves nothing behind, `down` takes back the last file or none |
| `migrator_same_id` | two files with one timestamp, for two versions | **violated** (`SameSecondIsNoticed`): README.md:901 says goose fails for them; the second is taken for applied and its SQL never runs |
| `admin_pages` | every page with clicks, other operators, answers in any order, lost answers, pages that are left | a result that is reported is so on the server, a page shows the effect of its own job, a deleted row is one that was confirmed, a picked target is not undershot by more than rounding and the browser's clock explain, busy is exactly one job and ends, the file viewer shows the file that was opened, the status does not go back, the running clock is that of the last row of its log |
| `admin_viewer` | and when a second file is opened before the first has come? | **violated** (`ViewerShowsItsFile`): the first file's content is shown under the second's name |
| `admin_empty` | does the list of versions end "loading"? | **violated** (`ListEndsLoading`): an empty table is `null` for the client, which takes it for "not yet"; the text for an empty list (VersionPage.tsx:316) is never shown |

Bounds.
Lock: three requests (an owner, an orphan, a contender), TTL two ticks and `HoldBound` three
put every order of expiry, release and SET in reach; two attempts give a first and a last one.
Dispatch: every request runs once; two writers lose updates, a read brings old rows back
into the cache, a login changes the account; four requests together hold all pairs. The
crash run drops the read, which writes nothing. UnitOfWork: two queued operations (an insert and
an update of it, two keys, or one in each database; the proofs are for queues of every length), two
keys, amounts up to two, any number of units, lost deletes and expiries. Login: two logins race or follow each other and a third repeats either's
work; a TTL of two ticks has a token refreshed in its middle; of three databases one has no
weight, and the other weights differ. DesignSync: two kept versions of three, two clients,
three tables to begin with (one row, one row per client, two rows of one client), one edit
in the middle of whatever is loading; a channel of one message shows a full one.
ResourceSync: two overlapping windows (one may be removed while the other lasts), three states
of the table, so that a load can be two behind, two jumps, a channel of two messages,
three instants. Migrator: root files, one database per category (the order of the categories
is what `withDBs` is about), two version directories with inverted timestamps for the game
database and one for the shard, any number of commands. Admin pages: two requests in flight, so
that any two overlap, those of another operator among them; one page at a time and loading it
again (`Tours`), as pages share no state; a table with one row and one more to come
(`MaxIdx`), under a limit of the list that both fit in; two jumps, one preset, one typed offset,
one target and one tick of time (1600ms, so that a reading loses a fraction and the seconds without
one are rounded down), a browser whose clock is 300ms ahead; two files of one database and one of the other, one run of
mig-up. Symmetry is used in safety runs
only, on requests of the same kind, logins and keys.

Deadlock checking is off only in the lock, dispatch and login runs, where every request is
made once and the system stops when all are over.

Fairness. Weak fairness of each request's own steps: they run on a goroutine, and every call to
Redis and MySQL returns or fails. In `UserLock`, `Tick` is weakly fair because Redis expires
keys. Nothing forces a request to be made, a server to crash, an operator to act or a cache
to expire. In `DesignSync` a reload or subscriber that has begun goes on. In `AdminApp`, for each
request in flight, the server answers or the connection breaks (`Proceeds`), and the browser's
event loop comes to every answer (`Handled`); nobody has to click. `UnitOfWork`,
`Login`, `ResourceSync` and `Migrator` have safety properties only and no fairness.

Assumptions to know when reading a result:

- `NeverOlder` and `ReloadReaches` of `DesignSync`, and `NeverOlder` and `ReloadArrives` of
  `ResourceSync`, are for the use README.md:438 prescribes, reload on one server, one call after
  the other. Overlapping reloads can store the older query last.
- `CacheCoherent`, `NoLostUpdate` and `SingleCopy` need requests shorter than the lock's TTL,
  no crash between transaction and cache write, and no lost `DeleteAll` (`uow_helper.go:13` drops
  its error). Without any one of them the cache may hold old rows until its 30 minutes are
  over, which every request that writes the hash begins anew; what is left then is what
  `dispatch_faults` checks.
- The four properties of `UnitOfWork` say the same of such old rows, step by step: they hold up to
  the lost `DeleteAll` and again from the first unit that begins with an expired cache on (`stale`), a
  client's copy from its next fetch after that on (`misled`). What does hold on old rows is stated
  without the condition: the other database is left alone by a transaction, and no two queued
  INSERTs are for one row.
- `NeverShortOfTarget` is exact for a page that has a reading, whose `real_time` is in whole seconds.
  Without one, `Date.now()` of the browser takes its place, in milliseconds: the jump may then fall
  short by the half second that `Math.round` takes off (ClockPage.tsx:33) and by what the browser's
  clock is ahead (`Leeway`).
- With unlocked logins the account row is outside `Guarded`: a login may be overwritten in the
  cache by any request that loaded the account before. Only device and time are written there.
- `OneAccountUnlessRaced` says what the code gives: there is no lock and no UNIQUE key on
  channel_uid, and two first logins at once do make two accounts.
- `ResourceSync` has one clock jump at a time (`ClockPage` has several at once, on one server), and
  `Migrator` one invocation at a time.
- `OffsetIsLastRow` is for a server whose jumps did not overlap and were all carried through
  (`raced`): two that do insert their rows in one order and may set the offset in the other
  (admin.go:348), after which the next start takes another offset than the one that is running.
- `PagesShowOwnWork` excuses a list or a reading that overlapped with another or failed, and
  `ViewerShowsFile` a viewer that was opened while another file was on its way; the latter is what
  `admin_viewer` shows.
- Where documents say more than the code gives, the properties are those of the code: user_lock.go:14
  promises that requests are serialised, which a 10s key that nobody renews gives only to requests
  inside it; README.md:440 says that all servers are updated automatically, which a message lost
  by Pub/Sub is not; README.md:492 says that loaded catalogs are reused, and every kept version is
  downloaded again.

## 4. Proofs

`UserLock_proofs` (every set of requests, TTL, number of retries and hold bound).
`IInv == TypeOK /\ LockInv` is inductive: the clause that does the work is
`LeaseTracksHolder`, for a request inside either the key is its token and
`ttl + age = TTL`, or at least a TTL has passed. Two requests inside cannot both own the key,
hence `ExclusionWithinTTL`; `HoldBound < TTL` rules the second case out altogether, hence
`Exclusion`. `TokenSafety` is unconditional. `Orphans` needs an invariant of its own,
`Owned`: the stored token is that of a request in progress or of a disturbed one.
`Refinement` maps each action to `Enter`, `EnterLate`, `GiveUp`, `Lapse`, `Leave` or a stutter;
a `Tick` is a `Lapse` of the one holder that has used up its TTL.

`Dispatch_proofs` (every set of requests of the four kinds).
Unconditionally: `TypeOK`; `FaultInv` (what a stage says about load, commit and answer, and that
rows and stores hold committed changes only), from it `OnlyCommittedIsSeen` and
`HonestAnswers`. Under `NoFaults` (no lapse, crash or lost delete): `SerialInv` is inductive
together with `TypeOK`. `Alone` makes the request under the lock the only one; so `StoreFresh`
(what it loaded is what the database holds, but for its own change) is disturbed by nobody, so
its `WriteRow` overwrites nothing (`Accounted`), so the cache it fills is the row
(`CacheCoherent`). `Refinement` then maps `CommitTx` to `Write`, `Reply` to `AnswerOk`, and so on, to
`UserRecords`.

`Login_proofs` (every set of logins, lifetime of tokens and list of shards).
`IInv == Shapes /\ OneAccount /\ Tokens`. There are never more accounts than logins that are past
their INSERT (`Counts`, `PastGrows`), so an id is always found for the next. Without a race, whoever
is about to insert has found no account and is alone (`OneAccount`), also when a login that failed
left its row behind. For tokens: as long as nobody else has logged in and a lifetime has not
passed without a request, the token in Redis is that of the login and `ttl + idle >= SessionTTL`.
`InitialGrants` has `GInv`, which adds `Placed` and `Given`: ids are given one after the other, so
that at most one login has made an account, and until that login's own transaction nobody has given
to it. The account's shard is what `PickShard` drew, and it draws a shard because the sums of the
weights (`CumWeight`) grow from zero to the total, past every random number: that is proved about
the recursive function from the least index at which it could fail. The same sums give
`DrawsAreFair`: the random numbers for one shard are an interval as long as its weight. It has as
its hypothesis that no two shards have one id, which `database.go` takes from a map keyed by it.

`UnitOfWork_proofs` (every set of lists, keys, shards, amounts and length of the queue). `IInv` has,
while no lost `DeleteAll` is felt (`~stale`): for every entity whose transaction is still to come
(`PendingFits`), that each model is the row and
the net change of the calls, or new with its INSERT in the queue, or nowhere; for one whose
transaction is over (`SettledFits`), that the models are the rows; that the cache holds the rows but
where the unit has written and not yet published (`CacheFits`). While one is felt, that the copies
answered meanwhile are known (`StaleFits`); and of every copy that was not misled, that it lacks at
most what was touched (`MirrorFits`). The step that matters is the transaction: after the first i
operations of the queue every row is as before, or is the model if one of the i was about it,
and a model has its key once its INSERT is among them. That is shown for the recursive function `Run`
from the least i at which it could fail; at the end of the queue every touched row is the model,
hence `TransactionsAddUp`, and `SettledFits` for what is published.

`Migrator_proofs` (any databases and files, any order of timestamps, any sequence of commands and
failures). `OrderInv == TypeOK /\ Cursor /\ Order /\ GameSettled` says where a run may be: what is
not recorded is in its plan or in a directory that comes later, a plan is of one directory, and an
`up` of the whole fleet that is past the game database has left nothing pending there. Hence
`OrderOfFiles`, `GameBeforeShards` and `NothingLeftPending`, without hypotheses.
`JournalInv == Unshared(tree) /\ Known /\ Halves /\ JournalMatchesSchema` needs two hypotheses that
say the same of the files there are and of those that come: no two of a category have one timestamp.
`migrator_same_id` shows what happens otherwise. `Halves` is the gap between a file's SQL and its
row. Hence `JournalIsTrue` and `LastOneDown`.

`DesignSync_proofs` (every set of servers, versions and clients, every bound). `ServesOneQuery` has
`ServesOne`, which says of a map that is being made and of one that is served that it `Fit`s its
query: it has kept versions only and, once the newest of them is no longer to be downloaded,
every client of that one, because a download that fails for it ends the load. It needs the order of
the downloads, and nothing about who calls the reload. `Ordered` has another invariant:
`IInv == Shapes /\ Turns /\ QueriesAreNewer`: a load between its query and its swap carries a
query no older than what its server has. That is inductive only because two loads of one server
do not overlap (`Turns`), and they do not because the one server that is asked to reload skips
its own messages and is not asked before it has loaded for the first time; so `Ordered` has the
condition of README.md:438, `OneReloader`, as its hypothesis, and each message in an inbox is
from that server. Failures, full channels and restarts are in it.

`ResourceSync_proofs` (every set of servers and windows, every bound).
`IInv == TypeOK /\ LogFits /\ LoadsAreNewer /\ Arrives`: `LoadsAreNewer` orders what a server has, what
it is loading and what its table holds by the numbers of the table's states; `Arrives`
says of every server that is up and has not missed a message that its rows are those of the last
answered reload or newer, unless a message is in its inbox or a load is under way that will make
them so. `Reloads` and, with what the middleware asks at a request, `Maintained` follow; `Ordered`
is the order of the loads. `JumpsSurvive` has `LogLeads`: a jump that is between its two steps
has its value as the last row.

`AdminApp_proofs` (every number of requests in flight, operators, rows, offsets, files). Slots
of calls are chosen, so the proofs never say which slot is used: they say that each call of the next
state *follows* from the one in its slot, is plain, or is right (`CallsGoOn`).
`IInv == TableOK /\ CallsOK /\ PagesOK` has, for a row that a page shows or a DELETE carries,
that it is `Known`: its idx has been given out, and if that idx is in the table it is this row, for
AUTO_INCREMENT takes no idx twice; hence `DeletesAreConfirmed`. For a jump with a target it has
that the jump still reaches the target (`Reached`), because a reading of the clock is of the past and
only gets older, and a reading in whole seconds leaves nothing to round; without one the rounding
and the browser's clock are in `Leeway`. Hence `TargetsAreReached`. `StatusMovesOn` has `StatusInv`: at most one reading of the
status is awaited, only while the page is busy, and it is not older than what is shown.

The other five have an inductive invariant each, over `SlotsOK` (the shape of a call, and of its
argument where a step changes a part of it: `Dressed`). They are short because each is about some
operations only: what a page does with others leaves their calls as they are (`Leaves`), and a
call that is lost can only fail (`Fade`).

- `OffsetInv`: unless jumps have raced, at most one is between its INSERT and its setting of the
  offset, and the last row is its own; with none between, offset and last row agree. Hence
  `OffsetFollowsTable`.
- `MigInv`: a busy page awaits one status, a form that is being submitted one write, and a viewer
  that was opened when no file was awaited waits for its own file only (`Viewer`). Hence
  `ViewerIsRight`.
- `ClockInv`, `VersionInv`: a page is busy exactly while its job has a call that is not over, and
  that is one call or the deletions of one batch; a read that has no other beside it carries what
  the last job made, or has no answer, and until that is shown the read that ends the job is on its
  way (`DueIn`). `Edition`, which numbers the states of the table, only grows. Hence `PagesShow` and,
  with `MigInv`, `OneJobIsBusy`.
- `ReportsInv`: a row of the awaited batch is gone for good, or its deletion has not been answered
  with success; a create that was answered carries a `Known` row. Hence `ReportsHold`.

| theorem | statement | module |
|---|---|---|
| `TypeCorrect` | `Spec => []TypeOK` | `UserLock_proofs`, `Dispatch_proofs`, `UnitOfWork_proofs`, `DesignSync_proofs`, `ResourceSync_proofs`, `Migrator_proofs` |
| `LeaseAccounting` | `Spec => []LockInv` | `UserLock_proofs` |
| `ExclusionWithinTTL` | `Spec => []SerialisesWithinTTL` | `UserLock_proofs` |
| `Exclusion` | `HoldBound < TTL => (Spec => []SerialisesRequests)` | `UserLock_proofs` |
| `TokenSafety` | `Spec => OnlyOwnerReleases` | `UserLock_proofs` |
| `Orphans` | `Spec => []OrphanOnlyAfterFault` | `UserLock_proofs` |
| `Refinement` | `Spec => LeaseSpec` | `UserLock_proofs` |
| `UnitOfWorkState` | `Spec => []FaultInv` | `Dispatch_proofs` |
| `OnlyCommittedIsSeen` | `Spec => []NothingUncommittedIsSeen` | `Dispatch_proofs` |
| `HonestAnswers` | `Spec => []AnswerTellsOutcome` | `Dispatch_proofs` |
| `Serialised`, `KeepsUpdates`, `Coherent` | `[]SerialInv`, `[]NoLostUpdate`, `[]CacheCoherent` under `NoFaults` | `Dispatch_proofs` |
| `Refinement` | `Spec => SingleCopy` under `NoFaults` | `Dispatch_proofs` |
| `CacheKeepsTable` | `Spec => []CacheIsTable` | `UnitOfWork_proofs` |
| `InsertsMeetNoRow` | `Spec => []InsertsAreNew` | `UnitOfWork_proofs` |
| `ClientKeepsTable` | `Spec => []SyncKeepsClientCurrent` | `UnitOfWork_proofs` |
| `TransactionsAddUp` | `Spec => TransactionAppliesCalls` | `UnitOfWork_proofs` |
| `OneChannelOneAccount` | `Spec => []OneAccountUnlessRaced` | `Login_proofs` |
| `LogoutsHaveReasons` | `Spec => []LoggedOutForAReason` | `Login_proofs` |
| `InitialGrants` | `Spec => []GrantsFollowAccount` | `Login_proofs` |
| `DrawsAreFair` | `Spec => []PickIsProportional` for distinct shard ids | `Login_proofs` |
| `ServesOneQuery` | `Spec => []OneQuery` | `DesignSync_proofs` |
| `Ordered` | `OneReloader => (Spec => NeverOlder)` | `DesignSync_proofs` |
| `Ordered` | `Spec => NeverOlder` | `ResourceSync_proofs` |
| `Reloads`, `Maintained`, `JumpsSurvive` | `Spec => []ReloadArrives`, `[]MaintenanceIsKept`, `[]JumpSurvivesRestart` | `ResourceSync_proofs` |
| `OrderOfFiles`, `GameBeforeShards`, `NothingLeftPending` | `Spec => RunsInOrder`, `Spec => GameFirst`, `Spec => UpSettles` | `Migrator_proofs` |
| `JournalIsTrue`, `LastOneDown` | `Spec => []JournalMatchesSchema`, `Spec => DownTakesLast` for files with distinct timestamps | `Migrator_proofs` |
| `TargetsAreReached` | `Spec => NeverShortOfTarget` | `AdminApp_proofs` |
| `DeletesAreConfirmed` | `Spec => DeletesWhatWasConfirmed` | `AdminApp_proofs` |
| `StatusMovesOn` | `Spec => StatusNeverOlder` | `AdminApp_proofs` |
| `OffsetFollowsTable` | `Spec => []OffsetIsLastRow` | `AdminApp_proofs` |
| `ViewerIsRight` | `Spec => []ViewerShowsFile` | `AdminApp_proofs` |
| `PagesShow` | `Spec => []PagesShowOwnWork` | `AdminApp_proofs` |
| `OneJobIsBusy` | `Spec => []BusyIsOneJob` | `AdminApp_proofs` |
| `ReportsHold` | `Spec => []ReportsAreTrue` | `AdminApp_proofs` |

The type invariants of six modules are proved, and so are `LockInv`, `FaultInv` and `SerialInv`, on
which the properties of the lock and of dispatch rest; none of them is run beside the properties
that follow from it. `TypeOK` of the other modules says what their variables hold and is neither
run nor proved.

Only model-checked: the liveness properties (`AcquireReturns`, `EveryRequestIsAnswered`,
`ReloadReaches`, `EveryJobEnds`), which are out of the prover's reach. Every other property of a
passing run is stated by a theorem. What a recursive function gives (`Run` of `UnitOfWork`,
`CumWeight` of `Login`) is proved without an induction theorem, which the provers cannot
instantiate: `Least` says that a set of naturals that is not empty has a least element, and at the
least index where a claim fails the one before it holds.

## 5. What is left out, and the plan

Not modelled, and why: routing, encoding, logging, error texts and configuration have no state
of their own; `pb` and the design schema are generated; the excel tools, the test client, and the
build of the admin client are not part of what runs; the club scope has no handler that sets a club.
Known hazards without a property carry a note in `PROJECT.json`: two rows of one client version
in different server versions, a session that ends while a request waits for the lock, amounts at
their widths.

Built so far, in the order planned: lock and lease, dispatch, unit of work, design reload,
login, migrator, resources, the pages of the admin client, and proofs of all of them. Next, most
important first:

1. `Inventory`: item and asset amounts at their widths (uint64 in Go, signed in SQL), card
   level as uint16; laws of Add and Consume against a bag of items.
2. `Dispatch` with the session: two sessions of one user, the token checked before the wait for
   the lock, first-login grants beside plays.
3. `Migrator` with migrations that depend on each other, and `down` over a history that was
   not applied in the order of its ids.
4. The club scope, when a handler uses it.
