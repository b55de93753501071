# Verification of beebase-apiary-service

TLA+ modules, TLC configurations and TLAPS proofs kept beside the Go service
in `src/`. They model the service's own logic - creating, editing, deleting,
reading and listing apiaries under concurrent requests, failures of the services
it calls, crashes and plan changes - the way a request is decoded, the life of
the server process and the commands run on its database, and say which of its
promises hold.

## 1. Inventory

The service is an HTTP server over one PostgreSQL table. A request runs in its
own goroutine; requests share nothing in memory but the connection pool, so
everything that can go wrong between two of them goes through the table, or
through the services each of them calls.

| Part | State | Operations | What makes it correct |
|---|---|---|---|
| Repository (`internal/repository/postgres`) | table `apiaries`, partial unique index on (user, name), advisory locks | one SQL statement per method, except `CreateWithLimit` (a transaction) and `ListByUser` (two queries) | quota, unique names, rows scoped by owner |
| Entity (`internal/domain/apiary`) | - | `New`: id and `created_at` fixed before the insert | fresh ids |
| Service (`internal/application/apiary`) | none | `Create`, `Update`, `Delete`, `DeleteAllByUser`, `DeleteLocalByUser`, `Get`, `WritableApiaryID`, `List` | what one request checked must still mean something when it writes |
| Handlers, routes (`internal/transport/http`) | none | one per route; `Delete` cleans reminders up a second time; `/internal/.../exists` | every request is answered, with what happened |
| Requests, responses | - | decoding, validation, formatting | bounds on fields |
| Clients of hive-, media-, subscription- and notification-service (`internal/platform/*client`) | none; the other services hold hives, files, plans and reminders | delete hives, verify or delete files, read the plan, clean reminders up; each with a timeout | a cascade leaves nothing orphaned |
| Start-up, shutdown, configuration, readiness (`cmd/server`, `internal/config`, `health.go`) | stage of `run`, pool, redis client, listener | load, connect, serve, shut down, close; `/ready` | a clean exit cuts no request; everything opened is closed; a signal ends the process |
| Migrations and `dbclear` (`migrations/`, `cmd/dbclear`, `platform/postgres/clear.go`) | schema, recorded version, rows | up, down, clear | the record matches the schema; no index over duplicates |

How the parts interact. A handler calls one service method; the service calls
the repository and the other services one after the other. The caller's token
is forwarded, so the other services check ownership themselves. hive-service
and notification-service ask this service whether an apiary exists before they
attach something to it. auth-service calls `DELETE /api/v1/apiaries` and
`DELETE /internal/api/v1/users/{id}` when an account is deleted.

What is hard here:

* reads, checks and writes of one request are separate round trips, and only
  the limited insert is a transaction: between any two of them another request,
  another service or a plan change can act;
* a call can fail before or after it took effect, the server can die between
  two calls, and nothing is rolled back across services;
* creates of one user wait for each other (advisory lock), for connections, and
  for names another transaction has inserted but not committed;
* `created_at`, which decides which apiary a Free user may edit, is taken before
  the row is inserted;
* nothing in the service compares names or owners: the index and the `WHERE`
  clauses do;
* a list is put together from up to five calls, its total and its page from two
  statements, and a client walks over pages while rows come and go;
* lengths are those of Go strings, conversions drop their errors, and the minimum
  length of a search term is a constant in two packages;
* the shutdown timeout (15 s) and the write timeout (10 s) are shorter than the
  request timeout (30 s), and the readiness probe shares the pool with the
  requests it reports on.

`PROJECT.json` lists these hazards one by one under `hazards`, each with its
line and the properties that would catch it going wrong.

## 2. Modules

| Module | Models | Source |
|---|---|---|
| `ApiaryTable` | the table and its statements, as operators on a table value | `apiary_repository.go`, migrations |
| `ApiaryApi` | the requests that concern the table, and what they can be answered | `dto.go`, `handler.go:338-355` |
| `ApiaryBase` | constants and their assumptions, variables, the labels a request goes through, failing and losing answers, photo checks, waiting for names | `ports.go`, clients |
| `CreateApiary` | `Create`, `CreateWithLimit` | `service.go:39-94`, `apiary_repository.go:56-149` |
| `UpdateApiary` | `Update` | `service.go:230-291` |
| `DeleteApiary` | `Delete`, `DeleteAllByUser`, `DeleteLocalByUser`, second cleanup | `service.go:310-373`, `handler.go:257-301` |
| `ReadApiary` | `Get`, `WritableApiaryID` | `service.go:96-175` |
| `Externals` | what the other services do of their own accord; the exists endpoint | `router.go:79-102`, else external |
| `ApiaryService` | receiving, failing, answering, crashing; `Next`, fairness; all properties | `router.go`, `handler.go` |
| `ApiaryMeanwhile` | the service with a history of what came in between the calls of each request, and properties about it | - |
| `ApiaryStore` | the abstract store the service implements: one step per effect, one per answer | - |
| `ListApiaries` | one page of `List` and a client's walk over all pages | `handler.go:106-129`, `service.go:177-228`, `apiary_repository.go:26-41, 173-247` |
| `ApiaryRequests` | what a handler checks and converts before it calls the service, the loop of `dedupeImages`, and the statuses | `requests.go`, `handler.go`, `service.go:293-308` |
| `ServerLifecycle` | `run` with its stack of deferred calls, `config.Load`, the pool, `/ready`, requests beside the shutdown | `cmd/server/main.go`, `config.go`, `health.go` |
| `DatabaseOps` | migrations up and down, `db-clear`, and the server's writes beside them | `migrations/`, `cmd/dbclear/main.go`, `clear.go` |
| `MC`, `MCMeanwhile`, `MCList`, `MCRequests`, `MCServer` | instances for TLC | - |
| `ApiaryService_proofs` | types and the quota | - |
| `ApiaryRows_proofs` | what a step does to the rows: names, owners, photos, deleted rows | - |
| `ApiaryStore_proofs` | the service implements the store; creates are answered truthfully | - |
| `ApiaryPromises_proofs` | what can break a promise, and that nothing else can | - |
| `ListApiaries_proofs` | what a client walking over the pages receives | - |
| `ApiaryRequests_proofs` | what is acted on fits and is what was sent, and searches are applied | - |
| `ServerLifecycle_proofs` | exit codes, and what is open and deferred when | - |
| `DatabaseOps_proofs` | the recorded version and the names | - |

`ApiaryBase` extends `ApiaryApi`, which extends `ApiaryTable`. The component
modules extend `ApiaryBase` and share its variables; `ApiaryService` extends them
all and composes their steps. `ApiaryStore` extends `ApiaryApi` alone, knows no
other service, lock or transaction, and `ApiaryService` instantiates it.
`ApiaryMeanwhile` extends `ApiaryService` by a variable that no step reads.
`ListApiaries` extends `ApiaryStore`: whoever writes the table while a list is
put together is the abstract store, which stands for the service because the
service implements it. `ApiaryRequests`, `ServerLifecycle` and `DatabaseOps` stand
alone; what they hand over is a decoded request, a running server and a table
with its index.

### The store and the refinement

`ApiaryStore` says what a client may rely on. A request is open, takes effect in
one step, and is answered; a definite answer was true at the step that decided it
(`Truthful`): 404 means that the row was absent then, 409 that the name was in
use, 204 to a delete that the row has been removed. An internal error says
nothing. The refinement mapping of `ApiaryService!Store` is plain:

| `ApiaryStore` | `ApiaryService` |
|---|---|
| `rows`, `limited`, `removed` | `apiaries`, `limited`, `removed` |
| `asked` | `req` |
| `answer` | `out` |
| `Initial`, `Stamp` | the tables of `Seed`, `0..MaxClock` |

So each committing statement is the step that takes effect (`CreateRow`,
`EditRow`, `RemoveRow`, `RemoveAll`), each refusal is an `Answer`, and everything
else - reads, locks, cascades, changes in other services - stutters. Two things the store allows
are there because the code does them: an account delete is not one effect but one
`RemoveRow` per row, and an update without images may write earlier images back
(`stale_images` below). And an edit is not promised to be of a writable
apiary, since the plan may end meanwhile (`edited_read_only`).

### State

| Variable | Stands for |
|---|---|
| `apiaries` | the committed rows: id, owner, name, images, created, deleted |
| `lock` | holder of each advisory-lock key; `hashtext` may map two users to one key |
| `clock` | `time.Now` in `apiary.New`; only the order of `created` matters |
| `limited`, `removed` | history, read by properties and by the choice of fresh ids only: ids inserted under the Free limit, ids whose row was deleted |
| `entitlement`, `media`, `hives`, `reminders` | the other services' data |
| `confirmed` | the 204s of the exists endpoint notification-service has not acted on yet |
| `pc`, `req`, `held`, `rest`, `ent`, `out` | of each request: its next call, what was asked, the `*Apiary` in hand, the rows `DeleteAllByUser` has left, the plan it read, its outcome |

A step of a request is one call out of the process (a SQL statement, an HTTP
call) with the local code up to the next one: goroutines share no memory, so
finer steps would show nothing more. One statement is atomic on the committed
rows. The insert of a limited create becomes visible at its commit; until then
(`pc` is `txCommit`) a statement of the same user writing the same name waits,
as PostgreSQL makes it wait. A transaction owns a connection from `Begin` to its
end; every other statement needs a free one (`ConnFree`).

`CallFails` lets any call fail without effect (an error, a timeout, a cancelled
context); the `ThenGoto`/`ThenFinish` alternatives let it take effect and lose
its answer. Inside a transaction a failure goes through `TxRollback`, the
deferred `Rollback`. `Crash` loses every request and frees the locks.

`ApiaryMeanwhile` adds `meanwhile[p]`, the set of what has come in between the
calls of request `p` so far, each with the apiary (or the user) it befell. A fact is
recorded by the step that makes it so, only while `p` is in the window named in
`Between`, and forgotten when `p` is answered. `MSpec` annotates the behaviours of
the service and excludes none.

### Abstractions

* `name` stands for every field an update replaces unconditionally (name,
  location, description, lat, lon). `updated_at` is left out: nothing reads it.
* A row's images are a set; their order only shows in responses. A request's
  are a sequence, so that duplicates are there for `dedupeImages` to remove, and
  `Nil` when the field is absent.
* Plans are `free` and `pro`; the code treats everything else like `pro`.
* media-service's delete is taken to accept ids that are already gone, as the
  code relies on when it retries a cascade.
* The wall clock does not run backwards.
* A call that timed out either took effect by then or never does.
* Authentication happened: a request carries the user its token names.
* In `ListApiaries` a search is the set of names it matches (ILIKE is
  PostgreSQL's), and the location is folded into the name as above.
* In `ApiaryRequests` a text is its number of characters, its number of bytes and
  whether it is blank; an id is a media id in one of two spellings, or garbage.
  Coordinates are whole numbers. A text that is null or absent is read as the empty
  one (as Go's decoder does); a list may be absent or null. Which
  errors the service answers with is left open, but not when: before or after it looks
  at the images (`BeforeImages`, `AfterImages`).
* In `ServerLifecycle` a variable is unset, good, malformed or (a duration) zero.
  redis is taken to connect or fail as it likes. Two things are assumed of
  libraries. `Run` of beebase-common's server returns nil only when the server has
  been shut down, so that `run` ends with code 0 and no signal (`main.go:112`) only in
  a case that does not arise: nothing shuts it down before the signal is seen. And
  the deferred calls run last first, each once, whichever return was taken. What is
  closed in the end is decided by `deferred` alone: `CloseRedis` and
  `CloseDatabase` are steps of the deferred calls, and `Exit` asks only that none is
  left, so a stage that forgot to defer would leave its resource open.
* In `DatabaseOps` rows are the active names of one account; a script needs the
  schema of the script before it. golang-migrate's record is as its postgres
  driver keeps it: marked dirty before a script, unmarked after it, and refused
  while dirty.

## 3. Properties and runs

Bounds are in the `.cfg` files. `FreshIdLeft` makes a create wait at the door
until an id is left for it, and `MaxClock` bounds the clock: two moments, the least
any run has, are enough for every order and tie between two rows.
`FreeMaxApiaries` and `MaxMediaAttachments` are 1 where the code has 1 and 5: the
model compares sizes with them and nothing else, and the theorems hold for all
values. `MaxMediaAttachments` is 3 in `requests`, where lists have up to 4 entries of 4
media ids, so that a list longer than the limit may or may not collapse to it; the
lengths there are at most 4.

Runs that pass:

| Run | Instance | Shows |
|---|---|---|
| `plans` | 1 user, 2 requests creating or updating, with or without a photo; 2 ids, 3 names; plan changes, failures, crashes | `FreeQuota`: never more apiaries created under Free than allowed. `QuotaInv`: its inductive invariant. `UniqueActiveNames`. `AnswersTrue`: 201 means stored, a refusal means not stored. `OnlyLateRows`: a Free user gets beyond the limit only by a create that read another plan, or that counted before such a create stored its row. `OnlyRacingPlans`: a read-only apiary is edited only if the plan changed after it was read, or the user was taken beyond the limit after the check. `OnlyRacingImages`: an update without images overwrites only what another update changed after its read |
| `create_live` | 3 requests creating or deleting the user's data, 2 connections, 2 ids, 2 names; exists probes; no plan change | `Responds`: every request is answered. `CreatedWritable`: a created apiary may be edited |
| `ownership` | 2 users, one with Pro, 2 requests getting, updating, creating or deleting; files disappear, hives come | `OwnRowsOnly`, `OwnWrites`: nobody has or changes another's row. `ImagesAdmissible`: nor names another's photo. `StaysRemoved`: no update brings a deleted row back |
| `cascade` | 2 deletes, of one apiary or of the account, the account delete repeated for ever; an active and a soft-deleted row; failures, lost answers, crashes, new reminders, plan changes | `HivesGoFirst`, `FilesGoFirst`: the row goes last. `RemindersSwept`: no reminder is left. `AccountSwept`: an account delete leaves no row. `AccountEmptied`: in the end, and for good, no row, hive or file is left. `TypeOK` |
| `deletes` | 2 requests deleting an apiary or the account, creating, or attaching a photo; 2 ids; new hives and reminders, stale exists answers, failures | `OnlyNewHives`, `OnlyNewReminders`: hives or reminders outlive a row only if they were added after their cleanup. `OnlyStaleReminders`: after the second cleanup only a stale answer brings one. `OnlyNewRows`: an account delete that succeeds leaves only rows created after it listed the account. `OnlyNewPhotos`: a file outlives its row only if an update attached it after the delete had read the row |
| `create_live`, `ownership`, `cascade` | as above | `Implements`: the service implements `ApiaryStore` |
| `list_pages` | one-row pages of two rows created together and a third created later: the newest first, or a search without hives, the oldest first; creates, renames, deletes, hives coming and going, plan changes, failures | `QuietWalk`: without interference the pages are exactly the matching rows, in order, each marked as the whole account decides. `NoneSkipped`: additions alone hide nothing. `HivesHidden`: an apiary that keeps its hives is never in the list without hives |
| `requests` | every route; bodies and queries around every limit | `AcceptedFits`: what the service acts on is within the published schema (`InSchema`; the differences in what is sent are listed below). `ImagesAsSent`: its images are the client's, each once, in order, and `Nil` only for an update that gave none. `SearchApplied`: an accepted search is applied |
| `lifecycle` | 2 requests, 1 connection, environments complete or with one flaw; any stage failing, a signal at any time | `CleanExit`: code 0 means asked to stop and nothing cut short. `NothingLeftOpen`: on every way out, what is open and nothing else is deferred to be closed, so that the process ends with nothing open. `SignalEnds`: a signal ends the process |
| `migrations` | 2 rows, 2 names, all six scripts up and down; every command stopped anywhere | `RecordTrue`: a version not marked dirty is the schema in place. `NamesUniqueAtLatest`: the server inserts between the check and the index of script 6, and no duplicate gets under the index |

Two requests are enough for every race of the list above, since each is between
one request and one other actor, and three for the waiting cycle of
`create_live`: one holds the lock, one waits for it with the last connection, one
waits for a connection. Requests are interchangeable, so the safety runs use
symmetry on them, except `cascade`, which has a liveness property. `create_live`
does not check deadlock: ids run out there, and the instance then stops.

In `plans` and `deletes`, which run `MSpec`, every exception that a property of
`ApiaryMeanwhile` makes does occur: without it TLC finds the property violated
(in `deletes` the unconditional `HivesGoFirst`, `FilesGoFirst`, `AccountSwept` and
`RemindersSwept` fail, in `plans` `EditsWritable`, `CreatedWritable` and
`NilImagesUntouched`).

TLC checks `Implements` for creates without failures (`create_live`, `ownership`) and
for deletes with them (`cascade`); creates and updates that fail, lose their
answer or die are covered by the theorem `ServiceImplements`.

Fairness (`FairSpec`, in `create_live`) is strong fairness of each request:
pgx's pool and PostgreSQL's lock queue serve waiters in order, so a request that
gets a chance to go on again and again does. Clients need not send anything, and
other services need not act.

`RetrySpec` (`cascade`) is about the environment as well, and says so: one
client repeats the account delete whatever it is answered, and a call tried again
and again succeeds again and again (strong fairness of `Succeeds`). It is not a
promise of this code that somebody retries; it is what a retrying auth-service
obtains. Failures, lost answers and crashes may go on for ever beside it. New
hives and files are left out there, since nothing can be final while others add.
New reminders are there for `RemindersSwept`; `AccountEmptied` does not speak of
them, because `DeleteAllMine` does not clean up a second time, and a repeated
delete finds no row to clean up for.

`FairServerSpec` (`lifecycle`): `run` goes on when it can (weak fairness of its
steps, each of which has a timeout in the code), except in the fetch of the JWKS
document, which has none, and which only a signal is sure to end; each request
ends by `middleware.Timeout` at the latest. Clients, the database and the
signal owe nothing. `lifecycle` and `requests` do not check deadlock: a process
that has exited and a request that has been answered stop.

Runs that end in a violation, each a disagreement between the code and what its
own comments or documents say (`findings` in `PROJECT.json` has the quotations):

| Run | What happens |
|---|---|
| `stale_images` | update A (no images) reads the row; update B changes its images; A writes the row back with the images it read |
| `leaked_hive` | a hive is added after the hives were deleted and before the row is |
| `edited_read_only` | an update sees Pro; the plan ends; the write goes to an apiary that is read-only by then |

Further differences of these kinds, each a consequence of the code read for the
model, are not runs of their own:

* the files of a photo attached between a delete's read and its row delete stay
  (`service.go:363`, `OnlyNewPhotos`; the same window as `leaked_hive`);
* an account delete leaves an apiary created after it listed the rows
  (`service.go:334`, `OnlyNewRows`), and a reminder attached after the cleanup
  (`handler.go:295`, `OnlyNewReminders`);
* a create that saw Pro before the plan ended answers `writable: true` for an
  apiary that is not (`service.go:93`, the same window as `edited_read_only`);
* a 204 of the exists endpoint acted on after the second cleanup leaves a reminder
  (`router.go:92`, `OnlyStaleReminders`); `ExistsAnswered` and `ReminderAdded` model it;
* a create between the count and the select gives a page with a row beyond the
  total it is sent with, and no next page (`apiary_repository.go:224`); this is
  why `NoneSkipped` excludes that window. Likewise a plan that changes, or a row that
  is created or deleted, after the page was read marks it by another moment
  (`service.go:206`); `QuietWalk` says the marks are right when nothing changes. No
  property covers these two windows: no document promises more;
* `/ready` answers 503 with the database reachable when the requests hold every
  connection of the pool (`health.go:32`);
* `Load` requires `NOTIFICATION_SERVICE_URL` (`config.go:113`), which the table in
  the repository's README does not list;
* lengths are counted in bytes where `openapi.yaml` and the comments count
  characters: names within 200 characters can be refused (`requests.go:123`), and a
  search for one three-byte character passes the minimum (`handler.go:144`);
* a body may be accepted that the schema of `openapi.yaml` does not allow:
  - a list of more than five images of which at most five are distinct, since
    the limit is for what `dedupeImages` keeps (`service.go:65, 264`; `maxItems: 5` in
    `openapi.yaml:364, 395`),
  - an id in another spelling that `uuid.Parse` takes, such as `urn:uuid:...`, braces,
    or no hyphens (`requests.go:110`; `format: uuid` in `openapi.yaml:365, 396`),
  - `null` for the images of a create, read as none (`handler.go:85`; not nullable in
    `openapi.yaml:362`; for an update the description of `images` allows null, its type
    does not), and `null` for a location or description, read as empty;
  `AcceptedFits` is therefore about what the service acts on, not about what was sent.

Every property of a passing run has a mutant in `PROJECT.json`: a definition of
the model changed the way a bug would change the code (the definitions marked
`Fault:` in the modules), under which TLC finds the property violated.

## 4. Proofs

The theorems hold for every value of the constants that satisfies the named
assumptions of the modules: any number of requests, users, names and rows (ids,
processes and the images of one row are finite sets), any limit of at least one,
users that share a lock key, any plausible table to start from, with failures,
lost answers and crashes. `ApiaryService_proofs`, `ApiaryRows_proofs`,
`ApiaryStore_proofs` and `ApiaryPromises_proofs` each extend the one before;
the other proof modules extend the component they are about.

### The service

* `TypeCorrect`: `Spec => []TypeOK`. One lemma per component; the conjunct that
  a request past its read holds a row is what makes the later steps well defined.
* `QuotaInductive`, `QuotaHolds`: `Spec => []FreeQuota`. `FreeQuota` is not
  inductive by itself. `QuotaInv` adds: between `TxLock` and the end of its
  transaction a create holds its user's lock (`LockDiscipline`); what it counted
  still leaves room (`RoomLeft`); the id it will insert is neither in the table nor
  counted, nor another request's (`FreshIds`). A commit adds one row to a count
  that had room, and no other request of that user can be in the same place,
  since both would hold the same lock; every other step (`Quiet`) only lets the
  counted set shrink.
* `RemovedForGood`, `NamesUnique`: `[]StaysRemoved` and `[]UniqueActiveNames`.
  The lemma `StepWrites` lists what one step of a request can do to the table:
  nothing, an insert, an update or a delete, each with the checks PostgreSQL made.
  An insert has an id of its own (`FreshIds`), an update needs its row to be
  there, so a deleted row stays away. `UniqueActiveNames` speaks of the rows
  waiting for their commit too: a create commits without another look at the
  index, so nobody may have taken its name since its insert, which is what the
  wait in `NamePending` is for.
* `OwnRowsHeld`, `RowsWrittenByOwner`, `ImagesStayAdmissible`: `[]OwnRowsOnly`,
  `OwnWrites` and `[]ImagesAdmissible`. The lemma `StepHands` says where the rows
  a request works on come from: its user's committed rows, what it had before, or
  a row whose files were just verified. A write puts what is in hand into the
  table, so both properties are stated of rows in hand as well. Files disappear but
  never change owner (`FilesOnlyGo`), so a check made early does not go stale; this
  rests on media-service not handing files over.

### The refinement

`ServiceImplements`: `Spec => Implements`, that is, `Spec => Store!StoreSpec`. A
step of the service can be matched with one of the store only when it is known
which request the calling process is in and that what it has in hand is what
that request asked for. The inductive invariant `Linked` (`LinkedHolds`) says so:

* `Routed`: the next call of a process is one of its request's own handler;
* `Told`: it has an outcome exactly from the point where it is decided;
* `AsAsked`: the row to be inserted has the name, the owner and the images asked
  for, the row to be edited or deleted is the one asked for;
* `Followed`: a row a delete works on belongs to its user, or has been removed;
  past the row's deletion it has been removed.

Then every step is matched:

| Step of the service | Step of the store |
|---|---|
| `Receive` | `Ask` |
| `CreateUnlimited`, `TxCommit` that take effect | `CreateRow`, with the answer or without (a lost answer) |
| `UpdateWrite` that takes effect | `EditRow` |
| `CascadeRow` of a delete, of an account delete | `RemoveRow` |
| `DeleteUserData` | `RemoveAll` |
| a refusal, a failed call, an end without effect | `Answer`, whose `Truthful` is shown from the statement that decided it |
| `Reply`, `Crash` | `Close`, `Abandon` |
| every other step, and those of other services | a stutter |

An account delete that comes to its last row answers in the same statement, which
is why `Followed` speaks of the rows left as well as of the one in hand.
`StoreAssumed` shows that the instance meets the assumptions of `ApiaryStore`, and
`StoreStarts` is the initial condition.

`CreatesAnswered`: `[]AnswersTrue`. Its invariant `AnswersInv` adds what keeps an
answer true until it is sent: the id of a refused row is not used by any other
create, a transaction that rolls back has failed, and before `NewApiary` there is no
row in hand.

### What comes in between

Nothing locks an apiary or an account while a request works on it, so some of
what the service promises can be broken by something that slips in between two
calls. Three of the findings are of this kind. `ApiaryPromises_proofs` shows what
that something is, and that there is nothing else, without any hypothesis on the
behaviour: if the promise is broken by a step of a request, then that request has
met one named thing in one named window (all of `MSpec`, the service annotated
by `ApiaryMeanwhile`).

| Theorem | Property | What broken promise it is about | What the request must have met | Invariant |
|---|---|---|---|---|
| `HivesLeftAreNew` | `OnlyNewHives` | `HivesGoFirst` | a hive added to this apiary after its hives were deleted | `HivesMet` |
| `RemindersLeftAreNew` | `OnlyNewReminders` | the reminders go before the row | a reminder added between the cleanup and the delete of the row | `RemindersMet` |
| `PhotosLeftAreNew` | `OnlyNewPhotos` | `FilesGoFirst` | an update that changed the photos of this row after the delete had read it | `PhotosMet`, `FilesGone` |
| `RowsLeftAreNew` | `OnlyNewRows` | `AccountSwept` | for each row left, its creation after the account was listed | `RowsMet` |
| `RemindersLeftAreStale` | `OnlyStaleReminders` | `RemindersSwept` | a reminder added after the second cleanup, on an answer given while the apiary existed | itself, `RowGone`, `AnswersInv` |
| `ImagesRaced` | `OnlyRacingImages` | `NilImagesUntouched` | an update that changed these photos after this one had read the row | `PhotosMet` |
| `OverrunsAreLate` | `OnlyLateRows` | a Free user has no more than the limit, and so `CreatedWritable` | a change of plan after the plan was read, or an uncounted create's row after the count | `EntKnown`, `PlansMet` |
| `EditsRaced` | `OnlyRacingPlans` | `EditsWritable` | a change of plan after the plan was read, or a create that took the user beyond the limit after the check | `EntKnown`, `PlansMet` |

The invariants have one shape: what a request, past the call that dealt with it,
has not dealt with, it has met since. `PhotosMet`, for one, says of each row that
a delete or an update has in hand that the table has the same photos for it, or
that the row is gone, or that `meanwhile` has the change. Each rests on a lemma
about the step before (`CascadeFrom`, `RowsFrom`, `MissedFrom`, `DeletedFrom`,
`EntFrom`, `RoomFrom`, `WritableFrom`: what holds of a request now it has just
established, or held before, or was undone by a step that is recorded) and on
`Remembered`: what is recorded stays until the request ends.

Two of them are less obvious than they look. That creates which were all counted
never take a user over the limit (`OnlyLateRows`) needs the advisory lock: past its
count a create holds its user's key, so a row that appears meanwhile can only
come from a create that was not counted (`UncountedInsert`). And that a counted
create beside an update cannot push its row out of the writable ones
(`OnlyRacingPlans`) is not clear at all, since `created_at` is taken before the
insert and a new row can sort before an old one; but such a create commits only
while the count is below the limit, and then all rows are writable
(`FewAreWritable`).

With the named thing excluded the promise itself is left, of the service without
the history:

| Theorem | Keeps | Provided that |
|---|---|---|
| `HivesRemovedFirst` | `HivesGoFirst` | hive-service adds no hives (`leaked_hive` otherwise) |
| `FilesRemovedFirst` | `FilesGoFirst` | no update names images |
| `AccountsSwept` | `AccountSwept` | nothing is created |
| `RemindersStaySwept` | `RemindersSwept` | no stale exists answer is acted on |
| `EditsAllowed` | `EditsWritable` | no plan changes (`edited_read_only` otherwise) |
| `CreatesAllowed` | `CreatedWritable` | no plan changes |

The hypotheses about other services are about the environment (`Events`); those
about requests (`NoPhotoEdits`, `NoCreates`) about what clients send. They speak of
the whole behaviour, which is why the theorems of the first table say more.

### Lists

The list is read in pages by offset, beside writers. The proofs follow a row by
its rank, the number of listed rows that come before it. Since the order is total
(`created_at`, then id), ranks are `0..n-1`, each once; `SortingRanks` says that
the index of a row in the sorted list is its rank and `PageRanks` that a page is a
stretch of ranks.

* `ListTypeCorrect`: `[]ListTypeOK`, whatever the abstract store does beside it.
* `HivesNeverListed`: `HivesHidden`. `HiddenInv`: the hives that were there all
  the time are among those hive-service answered with, and these are not listed.
* `PagesAddUp`: `[]QuietWalk`. `QuietInv`: while nothing changes, the client has
  the rows of rank below the offset of the page it asks for, in order, marked as
  the whole account decides, and the page is the stretch that follows.
* `NothingSkipped`: `[]NoneSkipped`. `SteadyInv`: a row that was due from the
  beginning and is not with the client yet has at least the rank at which the next
  page begins. Rows that are added can only push it further back
  (`RankNeverFalls`); a row deleted or renamed out of the list could pull it before
  the offset, which is the skip that `NoneSkipped` does not exclude.

### Requests, server, database

* `AcceptedAlwaysFits`, `ImagesKept`, `SearchesApplied`: `[]AcceptedFits`,
  `[]ImagesAsSent` and `[]SearchApplied`. `ReqInv` says that the checks of the handler
  still hold when the service acts, and, of the loop of `dedupeImages`, that what it has
  kept are the distinct ids among those it has visited, in the order of their
  first appearance (`DistinctOf`; `OneMoreVisited` is its step). So ids that passed
  validation parse, at most `MaxMediaAttachments` of them are left, and a text within
  the limit in bytes is within it in characters. The handler's minimum search
  length is not below the repository's.
* `ServerTypeCorrect`, `LifeInvHolds`, `ExitsTruthfully`, `EverythingClosed`:
  `[]ServerTypeOK`, `[]CleanExit` and `[]NothingLeftOpen`, for any number of
  requests. `LifeInv` says, of each stage of `run`, what is open and that nothing has
  gone wrong yet; once it unwinds, in which of four ways it came there: it never
  served, its listener failed, it drained, or it gave up draining (`Staged`); and that
  the stack of deferred calls is, at every moment, exactly the calls that close
  what is open, redis first (`Owes`). `Owes` cannot be shown alone: that a stage does not
  open what is open already is known from `Staged`. That the connections in use never
  exceed the pool needs no bound on the requests.
* `RecordStaysTrue`, `NamesStayUnique`: `[]RecordTrue` and
  `[]NamesUniqueAtLatest`. The inductive invariant `OpsInv` adds that a migrate
  command under way has left the dirty mark, that a finished script has the schema
  recorded, and that `db-clear` never lists `schema_migrations`.

### Assumptions and limits

Some assumptions only say what the data are in Go: in `ApiaryRequests` an absent
field is neither a text nor a list and garbage is not an id (`NilAssumption`), the
limits are numbers (`LengthAssumption`)
and a text without characters is blank (`Text`); a row has finitely many images
(`Admissible`), as an array has.

Each inductive invariant was checked by TLC on the instance of a run of section 3
before it was proved: `TypeOK`, `QuotaInv`, `UniqueActiveNames`, `StaysRemoved`,
`OwnRowsOnly`, `ImagesAdmissible`, `Linked`, `AnswersInv`, `PlanInv`, `HivesMet`,
`RemindersMet`, `PhotosMet`, `FilesGone`, `RowsMet`, `RowGone`, `EntKnown`,
`PlansMet`, `LifeInv`, `PoolInv`, `ReqInv`, `ListTypes`, `HiddenInv`, `QuietInv`, `SteadyInv`.

What stays with TLC:

* `Responds`, `AccountEmptied`, `SignalEnds`: liveness under fairness.
* The mutants, and the three findings: `HivesGoFirst`, `EditsWritable` and
  `NilImagesUntouched` are false of the service as it is; what is true of it are
  `OnlyNewHives`, `OnlyRacingPlans` and `OnlyRacingImages`.

## 5. Not modelled

* Responses (`responses.go`): formatting of a row the handlers already have.
* Authentication and the internal token: in beebase-common; `ApiaryRequests` only
  has what the handlers make of the result.
* The request log and `Recoverer`; `/health`, which has no state.
* Defaults of configuration values that cannot stop the start.
* The ILIKE match, JSON decoding, URL parsing: what they accept is an input.
* golang-migrate's `force` and a change of the migrations themselves.

## 6. Plan

1. `ApiaryTable`, `ApiaryBase`, the components and `ApiaryService`; the theorems
   about them. Done.
2. `ApiaryStore` and the refinement as a property; `ListApiaries`;
   `ApiaryRequests`; `ServerLifecycle`; `DatabaseOps` and its theorems; the
   retrying client; the stale exists answer. Done.
3. The refinement as a theorem; theorems about answers, cascades, plans, lists,
   requests and the server's life. Done.
4. `ApiaryMeanwhile`: what came in between the calls of a request, and theorems
   that nothing else breaks a promise. Done.
5. The second cleanup the account delete lacks (`handler.go:295`), if the code
   gets one.
