# Tender ACL service: TLA+ models and proofs

The Tender ACL service is the system of record for `tender_acl_entries`: who
may view, edit or approve a restricted tender. This directory models the parts
of it that are hard to test (concurrent requests, the cache, redelivered
events, crashes) and says what was checked and what was proved.

## The system and its parts

| part | code | state | operations |
|---|---|---|---|
| table and repository | `internal/adapter/outbound/postgres/repository.go`, migration `0001` | rows of `tender_acl_entries`, a partial unique index, a trigger that counts `record_version` | `List`, `Grant`, `Revoke`, `FindActive`, `CascadeDeleteForTenant`, `SoftDeleteForUser` |
| `ACLService` | `internal/core/service/acl_service.go` | none of its own: locals of requests in flight | TAC-1 `List`, TAC-2 `Grant`, TAC-3 `Revoke`, TAC-4 `CheckAccess` |
| cache | `internal/adapter/outbound/valkey/cache.go` | one Valkey key per (tenant, tender, user), TTL 30 s | `Get`, `Set`, `Delete` |
| consumers | `internal/adapter/inbound/consumer/` | messages in two SQS queues, deliveries in flight | `Handle` of `OffboardingConsumer` and `MemberRemovalConsumer` |
| ledger | `processed_events.go` | marks `(event_id, consumer, processed_at)` | `IsProcessed`, `MarkProcessed`, `CleanupExpired` |
| transactions and row-level security | `db.go`, migration `0001` | pooled connections with their `app.tenant_id`, the ambient transaction of a context | `RunInTx` with retry, `withPool`, `withTenant`, `withTenantGUC` |
| membership check | `membershipcheck/http_client.go` | none; Core (external) holds the memberships | `Exists` |
| HTTP layer | `internal/adapter/inbound/http/` | none | validation, role check, status codes, paging |
| composition root | `cmd/tender-acl/main.go` | goroutines, servers, the pool | start-up, shutdown, the cleanup loops |
| configuration | `cmd/tender-acl/config.go`, `db.go` | the environment, connection strings | `loadConfig`, `DSNFromEnv`, `MigrationDSNFromEnv`, `LedgerPoolConfig` |
| documentation | `asyncapi.go`, `router.go` | one parsed document, shared by all requests | `GET /swagger`, `/asyncapi`, `/asyncapi.yaml` |

They meet in four places. The table and the cache are written by requests of
all pods without a common lock. The consumers write the same table and never
touch the cache. A grant depends on a membership in another service's database,
checked by one call before the INSERT and cleaned up by events after it. And
requests and deliveries of all tenants take turns on the same connections, whose
`app.tenant_id` decides what their statements see.

The behaviours a test hardly reaches, with the lines where they bite, are the
`hazards` of `PROJECT.json`.

## Modules

`EntryTable` has no variables. It is the table as a set of rows and every SQL
statement of the repository as an operator, with the unique index (`Blocked`),
the column defaults (`Inserted`) and the trigger (`TouchRow`). A row keeps the
columns the properties tell apart.

`AccessTable` is what the table promises, without rows, versions, locks or
transactions: a key has at most one live grant, and a step makes one, takes one
back, takes back what a user had or forgets a tenant. A cascade may miss grants,
but only the newest ones (`OldestOf`), which is what a READ COMMITTED statement
that races INSERTs amounts to. `AclService`, `CascadeConsumers`,
`MembershipCascade` and `HttpApi` implement it under the mapping `LiveGrants`,
`PastGrants` of `EntryTable` (`ImplementsAccessTable`).

`AclService` is the service over the table and the cache. `req[c]` is the
request of client slot `c`, by the call it makes next; each call to Postgres,
Valkey or Core is one action, so anything may happen between two of them. Every
repository method is a transaction of one statement, hence one step. `Abort`
stands for every way a request ends early: a crash, a deadline, a refused
statement, a lost acknowledgement, Core unavailable, a failed cache call. `held`
is a history variable: for every key, each answer that has been right and when
it last was.

`CascadeConsumers` is the event side. A delivery goes through `Probe`, `Begin`,
`Cascade`, `Mark`, `Commit` and `Ack`, may `Fail` at every point, and its
transaction is visible only from `Commit` on. READ COMMITTED is modelled by
what it does here: a statement sees the rows committed before it started
(`SeenBy`), waits for rows others have locked (`Free`) and checks its WHERE
clause again (`Touched`); the mark's INSERT waits for an uncommitted one with
the same key. `Deadlock` is the abort that `RunInTxWithRetryOpts` retries,
without a new probe. `CleanupExpired` is the hourly sweep.

`MembershipCascade` extends it with Core's memberships and with TAC-2 requests
between `Exists` and the INSERT. Two history variables name the rows whose
member had been removed between the two (`overdue`) and those inserted when no
event about their member was under way (`quiet`).

`TenantTx` is about what carries all of this: connections, transactions and the
tenant bound to them. A call is a program of operations (`Program`): a grant is
one repository method, the offboarding cascade is the probe, then `RunInTx` with
the cascade and the mark inside, a stray event is a mark. A method joins the
transaction of its context or opens one, if a connection is free. An event that
is acknowledged without a mark, because its id is no UUID, uses no connection
(`AckUnmarked`). The policy
`tenant_isolation` is `Visible`; `Bound` says which operations have a tenant in
their context. `CanGoOn` is what a step of a call waits for. The module also
keeps the counters of the consumers.

`HttpApi` is the four handlers. A request is a record whose fields say whether
each part of it is well formed; the checks of a handler are a sequence in the
order of the code, and the first that fails is the answer. A database error may
come after the COMMIT took effect (`Ambiguous`). A handler is one step here,
because what happens inside it is `AclService`.

`ListPaging` is TAC-1 as a caller uses it, page after page: `ORDER BY
created_at`, where a row's `created_at` is the start of its transaction and so
may precede that of rows already visible, with the clamped limit and the limit
the answer echoes.

`Lifecycle` is `run()`: the start steps with their early returns, the goroutines
of the errgroup, the one that shuts down, and the deferred calls. Requests carry
the time they have left, and the waits of `shutdownCtx` and `drainCtx` share one
timer, since they never overlap. `holding` are the requests with a connection of
the pool: a request gets one in `OpenTx`, gives it back in `EndTx`, and has none
while it asks Core or Valkey. `DrainAndClose` waits for connections, not for
requests, so a request may find the pool closed when it opens its next
transaction, which `wrapConnErr` turns into 503, and `Exit` takes along whatever
is still unanswered.

`ServiceConfig` has no variables: `loadConfig` and the connection strings as
operators on an environment. A connection string is what the driver finds in it,
with the `statement_timeout` options that are options and those that ended up in
the name of the database.

`EventCatalog` has none either: what `GET /asyncapi` shows of a document, and in
which order. A document is a graph of schemas: an entry of `components.schemas`
and an inline part of an `allOf` are both schemas, and `names` are the former,
the ones a `$ref` can reach. `resolveSchema` is a recursive function on that
graph, as it is in the code. An order in which fields are met is a set of places
(`Listing`), `Lines` reads it line by line. `DocsSite` starts a process with `ServiceConfig` and serves the
documentation with `EventCatalog`: who may read it, the parse under `sync.Once`,
and the tables of a page one by one, because `renderPropsTable` sorts an array
of the shared document in place. Two requests that use one array while one of
them writes it are a data race; the tables they write may then hold the fields
in any order.

`MCAclService`, `MCCascadeConsumers`, `MCMembershipCascade`, `MCTenantTx`,
`MCHttpApi`, `MCListPaging`, `MCLifecycle` and `MCDocsSite` instantiate them for
TLC. `EntryTableProofs` holds the lemmas about the table that the others share;
`AclServiceProofs`, `CascadeProofs` (for `CascadeConsumers` and
`MembershipCascade`), `TenantTxProofs`, `HttpApiProofs`, `ListPagingProofs`,
`LifecycleProofs` and `DocsProofs` hold the theorems.

Operators named `X_Something` with a comment "Mutant" are not part of the
model. Each is a plausible bug in `X`, and `PROJECT.json` names the property
that breaks when it takes the place of `X`.

## What the runs show

| run | checks | result |
|---|---|---|
| `acl_race` | `TypeOK`, `OneLiveRow`, `VersionCountsDeletion`, `AnswersFresh`, `AuditTrailKept`, `OnlyChangesOutdate`, `ImplementsAccessTable` | hold |
| `cascade` | `TypeOK`, `DoneMeansGone`, `DeletedOnce`, `NoLateReplay`, `ImplementsAccessTable` | hold |
| `cascade_live` | `CarriedOut` | holds under fairness |
| `membership` | `MTypeOK`, `OnlyOverdueOrphans`, `QuietGrantsStay` | hold |
| `tenant_tx` | `TxTypeOK`, `SettingIsOwn`, `MarkedMeansPurged`, `EveryAckCounted`, `NobodyStuck` | hold |
| `http` | `HTypeOK`, `SettledAnswers`, `RefusedWroteNothing`, `OutsidersGetNothing` | hold |
| `paging` | `LTypeOK`, `QuietPagingComplete` | hold |
| `lifecycle` | `LcTypeOK`, `PoolOutlivesConnections`, `OnlySlowRequestsCutOff`, `NoWorkBehindGroup`, `NothingLeftOpen`, `CleanExitOnSignal`, `StopsAsAWhole` | hold, the last under fairness |
| `docs` | `DocsTypeOK`, `TidyPagesRight`, `PagesComplete`, `PagesGated`, `TimeoutOnce`, `EveryGetAnswered` | hold, the last under fairness |
| `acl_stale_true` | `StaleTrueWithinTTL` (TAC-FAIL-2) | violated: a late `cache.Set` overwrites the effect of the DEL |
| `acl_token` | `RevokesWhatWasRead` (comment on `Revoke`) | violated: every live row has version 1 |
| `cascade_replay` | `ReplayIsNoOp` (LLD section 10.1) | violated: two deliveries probe before either commits |

What holds in place of the violated statements: a cached answer is at most
TTL + request timeout old (`AnswersFresh`), an event that counts as processed
has left no older row (`DoneMeansGone`), a removal leaves no orphans other than
those caught between check and INSERT (`OnlyOverdueOrphans`), paging is complete
while nothing is revoked and no two rows share their `created_at`
(`QuietPagingComplete`), and at the end of the process no transaction is cut off
(`PoolOutlivesConnections`, the work of the drain), while a request that meets a
closed pool or client, or is not answered, had been running for as long as
`Shutdown` waits (`OnlySlowRequestsCutOff`).
`acl_stale_true` and `acl_token` run under `HealthySpec`, in which nothing
fails, so their counterexamples need no fault.

More statements do not describe the code. They have no run of their own; the
models above have behaviours that contradict each of them, and the first column
names the property that says what holds instead.

| holds | statement | code |
|---|---|---|
| `AnswersFresh` | comment in `ACLService.Revoke`: a crash mid-write "can never leave a stale has_access:true value being served" | the DEL comes after the COMMIT, and a crash between them leaves the entry to its TTL |
| `SettledAnswers` | LLD section 20: `duplicate_grant` means "an active grant" exists | the index looks at `deleted_at` only, so an expired row blocks its key |
| `OnlyOverdueOrphans` | ARCHITECTURE.md: "a grant must not be written for a non-member at all" | the membership may end between `Exists` and the INSERT |
| `QuietPagingComplete` | comment on `Handler.List`: "Every active-or-not entry" | a revoke between two pages moves later rows up, and one of them is on no page; rows with one `created_at` may also change places |
| `AnswersFresh` | LLD section 8: a "time-expired grant reads as `has_access:false` on the very next call" | a cache hit is returned without looking at its `expires_at` |
| `EveryAckCounted` | LLD section 14: the counter is "the tenant-offboarding cascade-delete's outcome per processed `TenantMembershipsPurged` event" | "success" is counted before the COMMIT and "error" once per attempt; a mark or a COMMIT that fails counts as neither |
| `TimeoutOnce` | comment on `ApplyStatementTimeout`: it "appends a server-side statement_timeout option to dsn" | `&options=` on a string without a query part becomes part of the database name, and a duration below 1 ms becomes 0, no timeout; the property is about durations of at least 1 ms |
| `PoolOutlivesConnections`, `OnlySlowRequestsCutOff` | LLD section 16.4: `Shutdown` waits for in-flight work, "so the drain itself completes immediately" | `Shutdown` has 10 s, a request 30 s: the drain may have a transaction to wait for, and it does not wait for a request that is between two of them |
| `NoWorkBehindGroup` | ARCHITECTURE.md: servers stop, then the errgroup context is cancelled, then the consumers return | the signal cancels the context of the consumers directly |

### Bounds

In `AclService`, `CascadeConsumers` and `MembershipCascade`, one tenant, tender
and user: every property speaks of one key, or of the rows of one user or
tenant, and steps on different keys touch different rows and
cache entries. A cascade over several keys of a user is thereby not exercised
by TLC; the theorems cover it. Two clients or two workers are
enough for every race between two actors; a third party enters through the
cascades and `Abort`. `MaxRows = 2` gives a key two generations, which the token
and replay runs need (`cascade_live` has one). `MaxSent` is how many of the
envelopes of a run Core may send: two, of any kinds, so that every pair of
events meets; `cascade_replay` needs one. In `AclService` the clock runs to
4 with `TTL = Timeout = 2`, so an answer can be stored at the end of a request,
live for its TTL and be one tick short of the bound. `MaxReceive = 2` and
`MaxAttempts = 2` allow one redelivery and one retry. `cascade_live` and
`membership` stop the clock, `cascade` runs it past `Lifetime` and `Retention`.
Deadlock checking is off because every model stops at its bounds, and
`Lifecycle` when the process has exited.
Symmetry is used on clients, workers, paged users and all of `TenantTx`, never
in a liveness run.

`tenant_tx` has three callers on two connections, so that one waits, two tenants
and four calls, which are enough for a connection to serve both tenants and a
stray event in between, and for two deliveries of one purge to overlap.
`docs` has two requests and 192 processes: every environment with a document
that does not parse, and five documents in one environment. The documents are
the embedded one, one with every form of composition, one with an `allOf` in an
`allOf`, one with an optional field before a required one and one that does not
parse.

`http` has one key, three generations of it, and 17 requests: one without a
fault and one for each fault or variation. `paging` has three rows, pages of one
and two, and four distinct times. In `lifecycle` a unit of time is 10 s, so the
timeouts are 3, 1 and 3, with one request. Its timers count down,
so time itself has no bound.

### Fairness

`FairSpec` assumes weak fairness of a delivery's own steps (a goroutine runs
on, statements have a timeout), of SQS delivering a queued message to some
worker and of the redrive policy. There is no fairness on `Fail`, on the
producers or on the requests, and a delivery may fail every time: that is why
`CarriedOut` allows the dead-letter queue.

In `Lifecycle` the goroutines and `run()` run on, a transaction and a request
end (they have a deadline), a delivery or sweep ends (its statements have a
timeout) and time passes. The return of a cleanup loop has strong fairness: when
its tick and its context are both ready, `select` picks at random, so it may
sweep once more but not for ever. No request, delivery, signal or failure has to
happen.

In `DocsSite` the process starts and a request that has been sent runs on; a
request waits for another only in `sync.Once`. `TenantTx` has no fairness:
`NobodyStuck` says what is possible in a state, with the guards of the steps
(`CanGoOn`) in place of ENABLED.

### Assumptions

- A call whose context is past its deadline is refused, and a call that is made
  takes effect within `Timeout` of the start of its request. For pgx and net/http
  that is the 30 s of the request, since they give up at the deadline. go-redis
  looks at the context before it sends, but the client of `valkey/cache.go` is
  built without `ContextTimeoutEnabled`, so a SET that is under way is bounded by
  the client's own read and write timeouts and retries, some seconds more.
  `Timeout` stands for the 30 s and those seconds; the theorems hold for every
  value of it. `AnswersFresh` rests on this; the mutant `CacheSet_Detached` shows
  it.
- The relay gives every event an id of its own (`UniqueIdAssumption`): the ledger
  knows an event by nothing else.
- A message lives no longer in its queue than its mark in the ledger
  (`Lifetime <= Retention`). The ledger's 8 days are in `processed_events.go`;
  the retention of the two queues is set outside the repository (the 8 days in
  `api/asyncapi.yaml` are those of the dead-letter queues). A unit of time in
  `CascadeConsumers` is longer than a delivery. The dead-letter queue is the
  end: a redrive by an operator, after the mark is pruned, is not modelled.
- Core sends an event for every membership it ends.
- `Start` of an SQS consumer returns nil after its context is cancelled, and
  neither it nor `Stop` returns before the delivery in flight has ended. This is
  how LLD section 16.4 describes the library; its code is not in the repository.
- `DrainAndClose` of the pool waits until no connection is acquired, or for its
  context, and then closes; a transaction ends within the time of its request.
- No schema of a document is made of itself, through `$ref` or `allOf`
  (`Document`): `resolveSchema` would not return on one that is. A schema lists
  each of its fields once, or has no declared order; both are what a YAML
  mapping gives.
- The platform middlewares before the handlers may let a request through with or
  without a `RequestContext`; both reach the handlers' own checks.

## What is proved

`AclServiceProofs` proves, for all values of the constants that satisfy
`SentinelAssumption`, `TimeAssumption` and `InputAssumption`:

- `TypeCorrect`: `TypeOK` is inductive.
- `OneLiveRowAlways` and `VersionAlways`: neither is inductive alone. An
  inserted row needs a fresh id, so `TableOK` adds that every id is below
  `nextId`; it holds the two together, because soft deletion touches live rows
  only.
- `AnswersFreshAlways`: the central one. `AnswersFresh` says nothing of checks
  in flight, so the inductive invariant `FreshInv` adds that the history holds
  the present and nothing later (`HistoryOK`), that an answer on its way to the
  cache was right at most `Timeout` before the deadline of its request
  (`FreshRequest`), and that an answer in the cache was right at most
  `TTL + Timeout` before it drops out (`FreshEntry`).
- `AuditTrailAlways` and `OnlyChangesOutdateAlways`: action properties, one case
  per action, from type correctness.

It also proves `AclImplementsAccessTable`: `AclService` implements `AccessTable`
under the mapping, for the same constants. An INSERT is `Grant`
because `TableOK` keeps ids below `nextId`, so the grant is new; a soft deletion
moves exactly the grants of its WHERE clause from live to past, because a row and
its soft-deleted form are the same grant (`GrantOfRow`) and no two rows share an
id; every other action leaves both sets as they are.

`CascadeProofs` proves `TypeOK`, `DoneMeansGone`, `DeletedOnce` and
`NoLateReplay` of `CascadeConsumers` from `EnvelopeAssumption`,
`UniqueIdAssumption` and `BoundsAssumption`. The inductive invariant `CInv` ties
the four places together that an event passes through. A delivery past its
snapshot has seen every row that is older than its event, and a late one is at
the probe, where a mark is waiting for it, or at the acknowledgement
(`DeliveryOK`). A mark or a deletion from the queue is there only for what was
carried out (`LedgerOK`, `MessageOK`). What was carried out has its rows gone,
and its mark is there for as long as its message can be delivered, because the
mark is no older than the message and the retention no shorter than the lifetime
(`CommittedOK`). `UniqueIdAssumption` is needed when a mark commits: it must
speak of one event only.

`CascadeImplementsAccessTable`, in the same module, follows from `CInv` and the
lemmas of `EntryTableProofs` that the refinement by `AclService` uses too: a
commit that changes rows is one `RemoveUser` or one `Purge` of the oldest grants.

The module goes on with `MTypeOK`, `OnlyOverdueOrphans` and `QuietGrantsStay` of
`MembershipCascade`.
For the second, `MInv` adds that every live grant of a former member is overdue or older
than an event that ended the membership (`DueOK`), which `CInv` says is gone once
that event is carried out; a request that was not caught by a removal is about a
member (`CheckedOK`). For the third, it adds that every row of `quiet` is live
and its membership `Undisturbed`: all events about it are marked, so a delivery
goes from the probe to the acknowledgement and reaches no cascade.
`MembershipImplementsAccessTable` carries the refinement over to the
composition: Core's own steps leave the table alone, an INSERT is a grant, and
the consumers' steps are those of `CascadeConsumers`. No run checks it there;
`cascade` checks the same property of the consumers alone.

`TenantTxProofs` proves `TxTypeOK`, `SettingIsOwn` and `MarkedMeansPurged` from
`TxAssumption`, for any pool, callers and number of attempts. None is inductive.
`TxInv` adds where in its program a call has a transaction (`CallOK`), that a
connection in use and the call that names it agree (`HoldOK`), that a connection
in the pool carries no tenant and one in use carries the tenant of its context
(`SettingOK`), and that a transaction past its cascade deletes every row there
was when the cascade ran (`WrittenOK`); the last is what makes a mark true when
it commits, since rows that commit in between have later ids (`IdsOK`).

It also proves `EveryAckCounted`, for finitely many callers. The property speaks
of acknowledgements, and a delivery is counted before it is acknowledged, so
`CountOK` adds the calls that have been counted and still owe their
acknowledgement (`Owing`): what was acknowledged with an outcome, and they, are
at most what was counted. A step moves one call at most, so the size of `Owing`
changes by one at most (`OneElement`).

`NobodyIsStuck` is the absence of a deadlock in the pool, for any number of
callers and connections, as long as there is one connection. If a connection is
free, a call that has to open a transaction can, and any other call has what it
needs (`GoesOn`). If none is free, each is held by a call, and a call that holds
one never asks for another (`HolderOpensNone`, from where `CallOK` says a call
has a transaction and where `HoldOK` says it holds one), so `GoesOn` applies to
it. That the guards say no more and no less than ENABLED of a step was checked
with TLC in every state of `tenant_tx`, as `CanGoOn(c) <=> ENABLED Step(c)`.

`LifecycleProofs` proves the six safety properties of `lifecycle` for any
requests and for all timeouts of `TimeoutAssumption`, which asks only that
`RequestTimeout < ShutdownTimeout + DrainTimeout` (30 s, 10 s and 30 s in the
code). `LcInv` adds where `run()` is and what it has left behind (`MainOK`),
that only a running worker is busy (`BusyOK`), that a request in flight has
waited along with `Shutdown`, so it has at most
`RequestTimeout - ShutdownTimeout` left when `Shutdown` gives up (`DownOK`), and
that while the pool drains, every request ends before `drainCtx` does
(`DrainOK`), and that a connection is held only by a request in flight
(`HoldOK`). `PoolIsLast` needs all of them; `ShortRequestsAreServed` is
`OnlySlowRequestsCutOff`, which is `DownOK` carried past `group.Wait`.

`HttpApiProofs` proves the four properties of `http` for any set of requests
whose fields are of their kinds (`CallAssumption`), any table and any Core.
`HInv` says that ids are the number of rows, which is sound because no row is
ever lost here, and that a version a caller has been shown is 1, the version of
every live row. An answer then settles what it says: an INSERT that the index
refused met a live row, and an UPDATE with a version the caller was shown that
matched nothing met no live row. The two properties about refusals need no
invariant; they follow from the order of the checks and the status codes.
`HttpImplementsAccessTable` says that no request over HTTP, whatever it is
answered, does more to the table than `AccessTable` allows: the INSERT is a
grant on a free key, also when its answer is lost after the COMMIT, and the
UPDATE of a revoke takes back the one live grant of the key. No run checks this
one.

`ListPagingProofs` proves `LTypeOK` and `QuietPagingComplete` for any number of
rows and any limits of at least 1 (`WindowAssumption`, which
`parseListPagination` enforces). `PagingOK` adds, while nothing is revoked, that
the rows of the start stay listed and that one not shown yet has at least
`offset` listed rows before it: a page takes away the rows before its end, and a
row that commits late with an early `created_at` only pushes it back.

`DocsProofs` proves `PagesGated` and `TimeoutOnce` of `docs`, for every set of
processes whose environments and documents are of their kinds
(`DocsAssumption`), and for any requests and tokens. `SiteInv` says that the
configuration is what `loadConfig` makes of the environment and that requests
reach a process with one. `PagesAreGated` follows the decision of
`registerDocsRoutes` through to the status: the steps behind the routes neither
refuse a request nor change its token (`ServedOn`). `TimeoutIsSetOnce` follows
`statement_timeout` through `loadConfig` and `LedgerPoolConfig`: a string that
has got the option is left alone the next time (`ApplyIs`).

What is left to TLC: `CarriedOut`, `StopsAsAWhole` and `EveryGetAnswered`, which
are liveness under fairness and beyond the prover; and `DocsTypeOK`,
`TidyPagesRight` and `PagesComplete`, which rest on what the recursive
`resolveSchema` returns for a document.

## Not modelled

The counters of requests, logs and traces, the HTML of the documentation, the
Swagger theme, generated code (`docs/swagger/docs.go`), the migration runner and
the operational scripts have no state of the service behind them. `/readyz`
makes two pings and changes nothing. The middlewares of the platform library are
known by what they let through. A YAML merge key inside `properties`, which the
viewer would list as a field, is left out of `EventCatalog`.
