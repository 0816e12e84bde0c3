# vertex-indexer in TLA+

A formal model of vertex-indexer: a NestJS service that lets its users index
Solana accounts. A user creates an *indexer* for a program on a cluster, adds
*tables* to it, and registers *triggers*: "when this account (PDA) changes, run
this script and write what it returns to that table". The service listens to the
accounts on websockets and carries every change through three Bull queues to the
tables.

Paths below are relative to the repository; its TypeScript is under `src/`.

## 1. Inventory

| Component | Code | State it keeps | Operations |
|---|---|---|---|
| Websocket listener | `src/websocket-listener/websocket-listenet.service.ts` | sockets per cluster, `programsClusterMap`, `programPdasMap`, `subscribeCounterPdaMap`, `subscribeIdPdaMap`, `subscribeCounter`; all in memory | `onModuleInit`, `onopen`, `onmessage`, `handleSubscribeProgramListener`, keep-alive ping |
| PDA sweep | `src/indexer/processor/pda.processor.ts` | the `pda-system` queue in Redis; page counter and batch in memory | the `PDA_CHANGE` handler |
| Indexer update | `src/indexer/processor/indexer.processor.ts` | the `indexer-system` queue | the `UPDATE_INDEXER` handler |
| Transformer | `src/indexer/processor/execute-transformer.processor.ts` | the `execute-transformer` queue, users' tables | the `EXECUTE_TRANSFORMER` handler, `saveDataToIndexerTable`, validation of a script's result |
| Queue configuration | `src/config/config.bull.ts`, `src/common/queue/` | - | attempts, backoff, `removeOnComplete`, `removeOnFail` |
| Catalog | `src/indexer/indexer.service.ts`, `indexer.controller.ts` | rows of `indexer`, `indexer_table_metadata`, `indexer_trigger`, `transformer_pda`, and the users' tables | create an indexer, create and delete a table, register, update a script, delete a trigger |
| Authentication by wallet, accounts | `src/auth/auth.service.ts`, `src/account/account.service.ts` | nonces in the cache, `account` rows | `getNonce`, `login`, `findOrCreateAccount`, `updateUserName` |
| IDL upload | `src/idl-dapp/`, `src/common/interceptors/upload-file.interceptor.ts` | `idl_dapp` rows, temporary files | upload, list |
| Solana transactions | `src/common/solana/transaction.ts`, `src/common/utils/retry.utils.ts` | the state of one send | send with resend, confirm, poll, time out, retry |
| RPC registry | `src/rpc/rpc.service.ts` | `rpc` rows, `rpc:<cluster>` keys in Redis | `onModuleInit`, `findAll` |
| Query pass-through | `src/indexer/indexer-table.service.ts` | - | runs a query |
| Kamino fractions | `src/indexer/utils-transform/kamino/fraction.ts` | - | fixed-point arithmetic for scripts |
| Guards and strategies | `src/common/guards/` | - | stateless checks of a request |
| Billing | `src/billing/` | - | instruction builders and a generated IDL that nothing calls |
| Bootstrap, configuration, logging | `src/main.ts`, `src/app.module.ts`, `src/config/`, `src/common/processors/` | - | wiring and output |

### How they interact

```
 catalog --event INDEXER_TRIGGER_CREATED--> listener <==websocket==> RPC node
    |  (inside the transaction)                |                        ^
    v                                          | add PDA_CHANGE         |
 PostgreSQL  <--query-- PDA sweep <------------+                        |
    ^                       | add UPDATE_INDEXER (one per indexer)      |
    +--------query---- indexer update                                   |
    ^                       | add EXECUTE_TRANSFORMER (one per trigger) |
    +--query, write--- transformer ------------getAccountInfo-----------+
```

No job carries account data. A job only says *look again*, and the transformer
reads the account when it runs. So a lost or merged job is harmless as long as
some later job will read the account, and a repeated or reordered job is harmless
as long as its read is fresh. Whether the code keeps to that is what the core of
this project is about.

### What is hard about it, and what makes each component correct

* **PDA sweep.** Rows come and go between the queries of one sweep, `page++` sits
  inside the `for..of`, and a retry starts again. Correct: every matching indexer
  gets a job (`SweepComplete`, `SmallSweepComplete`), the fan-out is bounded
  (`FanOutBounded`), the loop ends (`SweepEnds`).
* **Queues.** Job ids of the first two queues are fixed, so that an add is dropped
  while a job with the id exists, active ones included; failures, attempts, stalls
  and crashes decide when an id is free again. Correct: no id stays behind
  (`NoStuckJob`); no change is lost in silence (`Accounted`); tables only follow
  their accounts (`MirrorsAccounts`); the system settles (`Settles`).
* **Listener.** Handlers are assigned after an `await`, `onopen` of one socket sends
  on another, one map of subscription ids serves all nodes, and a registration is
  announced before it commits. Correct: each trigger's account is subscribed
  (`EveryPdaAsked`), is heard in the end (`EveryTriggerHeard`), and a notification
  is taken for the right account (`RightAccount`, which fails with two nodes;
  `RightUnlessShared`).
* **Transformer.** A script of the user runs in the main thread, between reads of a
  catalog that changes and writes to a table that may be dropped; a crash after the
  commit, or a script that outlasts the job's lock, repeats the writes; every error
  completes the job. Correct: a result is written whole or not at all
  (`AllOrNothing`), again only by a job that lost its lock (`RepeatedWhenLostOnly`), at
  most once after its trigger is gone (`LateWriteOnce`), and jobs end (`JobsEnd`).
* **Catalog.** Checks before writes without a constraint behind them, DDL next to
  rows, names that the database folds. Correct: metadata and tables agree
  (`InStep`); a trigger's table and transformer exist and are its indexer's
  (`References`).
* **Accounts.** Nonces and rows are read, awaited over and written; only the user
  name is unique. Correct: a nonce that is gone stays gone (`NonceSpent`), a known
  wallet gets no second account (`NoLaterTwin`), nor does an email whose account
  still has its first name (`OneFreshAccountPerEmail`).
* **IDL upload.** Files shared by name and time, deleted after success only, and a list
  paged by offset. Correct: an IDL is what was uploaded (`OwnContent`), files stay only
  after failures (`OnlyFailuresLeaveFiles`), no row is paged over (`ListingComplete`).
* **Solana transactions.** Three racing timers, a background loop and an outer retry.
  Correct: at most one effect (`ExecutedAtMostOnce`), a reported success has landed
  (`SentMeansReached`), loops end with their attempts (`OneResender`), the call ends
  (`CallEnds`).

The hazards, each at its line, with the properties that cover it or the reason why
none does, are in `PROJECT.json`.

## 2. Modules

| Module | Models | Kind |
|---|---|---|
| `IndexerPaging` | the paged query of the sweep: `take`/`skip` over ids in order | operators |
| `PdaProcessor` | one `PDA_CHANGE` job, await by await, with its retries, while triggers come and go | state machine |
| `PdaProcessor_proofs` | theorems on `PdaProcessor`, and what a page holds and leaves out | proofs |
| `BullQueue` | the life of one job id in a queue configured by `config.bull.ts` | operators |
| `Mirror` | what the synchronisation promises, without queues | abstract specification |
| `SyncPipeline` | the notification, the three queues and workers, faults, crashes; implements `Mirror` | state machine |
| `SyncPipeline_proofs` | theorems on `SyncPipeline`, among them that it implements `Mirror` | proofs |
| `WebsocketListener` | the listener and its nodes | state machine |
| `WebsocketListener_proofs` | theorems on `WebsocketListener` | proofs |
| `Transformer` | one trigger's jobs from the worker to the rows of its table | state machine |
| `Transformer_proofs` | theorems on `Transformer` and `KaminoFraction` | proofs |
| `KaminoFraction` | how a script's helper reads a big fraction | operators |
| `Catalog` | indexers, tables, relations, triggers, transformers under overlapping requests | state machine |
| `Catalog_proofs` | theorems on `Catalog` | proofs |
| `Accounts` | nonces, login, accounts, renaming under overlapping requests | state machine |
| `Accounts_proofs` | theorems on `Accounts` | proofs |
| `SendTransaction` | one call of `sendTransactionWithRetry` and the cluster | state machine |
| `SendTransaction_proofs` | theorems on `SendTransaction` | proofs |
| `IdlDapp` | uploads, their files, the rows and a reader of the list | state machine |
| `IdlDapp_proofs` | theorems on `IdlDapp` | proofs |
| `MCSyncPipeline`, `MCWebsocketListener`, `MCTransformer`, `MCCatalog`, `MCAccounts`, `MCIdlDapp` | instances for TLC | model checking |

`SyncPipeline` uses `IndexerPaging` for the sweep's queries and `BullQueue` for the
first two queues; `Transformer` uses `BullQueue` for the third. `WebsocketListener`
ends where `SyncPipeline` begins: its `OnNotification` is the pipeline's `Deliver`, and
its `JobRemoved` stands for the whole pipeline. `Transformer` looks inside the
pipeline's `ExecStep`: there a run of a script is one write of a version, here it is
the statements, the transaction and the failures. `Catalog` gives the pipeline its
triggers: that whatever trigger the transformer's inner joins look for has its table
and transformer is `References`.

### How state and actions correspond to the code

`PROJECT.json` maps every definition to its lines. In outline:

**PdaProcessor.** `matching` is what the query would select now; `todo` is the rest
of the array that the running `for..of` was started on. The code assigns `indexers`
again in the body, but the loop keeps its array and only the `while` reads the
variable, so a query inside a batch has no effect (`QueryInBatch`) and the last one
starts the next batch or ends the handler (`QueryNextBatch`, `QueryEmpty`). Each
`await` is one action. `Throw` is any rejected await: Bull runs the job again until
`Attempts` runs have failed and then removes it. The query has no `ORDER BY`; with
`take`/`skip` over a join TypeORM first selects distinct primary keys in ascending
order, hence `Rank`.

**BullQueue.** A job id is absent, waiting (or delayed), active, or *stalled*: active
in Redis, but without its lock, because its worker died or the timer that renews the
lock did not run for 30 s (Bull's default, which `config.bull.ts` leaves alone).
`Added` is ignored unless the id is absent. `Failed` returns it to waiting or removes
it; `Recovered` is the stalled check, which restarts a job once (`maxStalledCount` is
left at Bull's default) and then fails it.

**SyncPipeline.** `chain` is the version of each account at the node, `feed` the
notifications under way, `pdaJob` and `updJob` the jobs with fixed ids, `sweep`,
`update` and `exec` the three workers (each `@Process` has concurrency 1, and one
process is deployed), `execQ` the transformer jobs, whose ids contain the time and
so never collide, and `written` the version each trigger last wrote. A version
stands for the account's data; a script is anything that turns one version into
writes. `missed` is a ghost, explained below. Errors anywhere in a handler
(`SweepThrow`, `UpdateThrow`, `ExecFail`), lost notifications (`ChangeUnheard`) and
`Crash` each use up one of `MaxFaults`. The transformer turns every error into a
completed job (`ExecFail`), while the other two rethrow. An indexer query that finds
no row gives `null`, and reading its triggers throws (`UpdateQueryNull`), which is
no fault but plain behaviour. Jobs lose their lock by `Crash` only: those of the first
two queues that wait behind a blocked thread are recovered in the same way, after their
handler has run out, and what a transformer that outlives its lock writes twice is for
`Transformer` to say.

**WebsocketListener.** Everything between two awaits on I/O is one action; the loops
of `programSubscribeAccount` await only functions that do not suspend, so `Open`
subscribes all accounts at once. `ws` throws when a socket is still connecting and
drops the data when it is closing or closed: `Throws` and `AccountSubscribe`. A
rejection in `onopen` is unhandled and ends the process (`OpenTooEarly`), while one
in the event handler is caught by the event emitter. There is no `error` handler on
a socket, so that a failing connection is a `Crash`. `idMap` and `counterMap` are
the two maps of the code; the node picks subscription ids. `Close` ends what a socket
carries, but the ids given out on it stay in `idMap`, as in the code, and so in `subs`.
Two ghosts say what the code has no variable for: `deaf`, the sockets that opened before
`onopen` was assigned, and `loaded`, the triggers that the start found in the database.

**Transformer.** `worker` is the state of the one worker: what it has loaded, what the
script gave, which statements are still to come and the rows as its transaction sees
them (`work`). A row of the user's table is a key, an item an action on keys, and a
script the set of outcomes it can have: an array of items, something else, an error,
or no return. `AddJob` stands for the sweeps, `UpdateTransformer`, `DeleteTrigger`,
`DropTable` and `CreateTable` for the catalog. `DROP TABLE` waits for a transaction
that has touched the table; until its first statement the transaction has not.
`Crash` also starts the process again, which sets `rpc:<cluster>` to one of the
active rows' urls, or leaves it when there is none. A script that returns at once is
`RunScript`. One that takes longer than the job's lock is `RunLong` followed by
`RunScript`: the job is stalled (`lost` counts it), nothing else of the process runs
until the script returns, and then the stalled check and the rest of the run may come in
either order. `Ended` cannot complete a job that has lost its lock. Any script may be
slow; only those with the outcome `endless` never return (`RunForever`), and then all
that can happen is a crash.

**Catalog.** A request is a record in `req` of what it has found, made or locked so far;
what it has written itself is in that record until it commits. The foreign key of a
new trigger locks the table's row until the commit (`SaveTrigger`, and the wait in
`DeleteRows`). `CREATE TABLE IF NOT EXISTS` sees committed relations, waits for another
that is being made, and fails when that one commits; `DROP TABLE IF EXISTS` waits
likewise. `FullName` is a constant function: what PostgreSQL takes the unquoted name to
be. `lenient` is a ghost, the relations for which an `IF [NOT] EXISTS` has let an
overlapping request's work pass.

**Accounts.** `nonce` is the cache, `accounts` the committed rows. `login` is one
transaction, so a new row appears at its end, while the nonce is deleted at once.
`had` is a ghost: whether the wallet had an account when its login began. `gone`
collects the nonces that have left the cache. Which cache it is makes no difference here:
`config.cache.ts:22` returns the Redis store as `store`, which the cache manager of
@nestjs/cache-manager 3 does not read (it takes `stores`), so that nonces are probably in
the memory of the process; a restart that forgets them is `Expire`.

**SendTransaction.** One call, with `retries` as in `recall`. `resenders` and `polls` are
the loops and timers of all attempts, since those of an attempt that was timed out run
on. `level`, `err`, `expired` are the cluster: nothing is assumed of it but that it
executes one signed transaction at most once and does not take back what it has
confirmed. A block that is only processed may be left by a `Fork`. The commitment is any
of web3.js's eight (`Commitment`); `Enough` is the levels at which `confirmTransaction`
resolves, `Matches` what the look at the status compares, which for the deprecated names
is less. `SendFails` may leave the transaction with a node whose answer was lost. Both
variants of the call go through the same steps.

**IdlDapp.** A path is the time and the name of the file. `files` records whose bytes
are in each file; two writers of one path both leave theirs. The controller reads and
parses synchronously. The reader of the list asks for page after page of the size it
chose until an empty one. It is ordered by `created_at` without a second column, so rows
are taken to have different times: among rows of one time PostgreSQL may change the order
from page to page.

**External behaviour assumed.** Bull 4.16.5: an add with an existing id is ignored;
a lock of 30 s, renewed by a timer of the worker's process; a job without its lock is
neither completed nor failed by its worker; the stalled check. ws 8.18.1: `send` as above.
@nestjs/event-emitter 3.0.1: a
listener's rejection is logged. TypeORM 0.3.21: the order of a page. One RPC node
per cluster answers reads at least as fresh as what it has notified (it is read at
`confirmed` and notifies at `finalized`). PostgreSQL at READ COMMITTED, with its locks
on rows and relations as above. multer 1.4 writes a file with flag `w`. @solana/web3.js
1.98: a subscription of `confirmTransaction` resolves at the commitment also for a
transaction that failed, and takes `recent` for processed, `single` and `singleGossip` for
confirmed, `root` and `max` for finalized. decimal.js: a quotient is rounded to 20
significant digits, half up. Node 15 and later end the process on an unhandled rejection.

## 3. Properties

**Accounted** is the heart. A live trigger whose table shows an older version than
its account has something under way that will bring it up to date, or is in
`missed`. `missed` is filled only by the ways the code itself has of skipping a
trigger, each visible in the action that adds to it:

* it was registered after the change, and nothing reads the account at registration
  (`Register`);
* the change was not heard, or its notification died with the process
  (`ChangeUnheard`, `Crash`);
* its indexer was not on the first page of the sweep (`SweepQueryNextBatch`);
* an add was ignored because the job was active and already past it (`Deliver`,
  `SweepAdd`);
* the attempts or stalls of a job were used up (`SweepThrow`, `UpdateThrow`,
  `PdaStalledCheck`, `UpdateStalledCheck`, `Crash`);
* its transformer failed (`ExecFail`).

A later read of the account takes a trigger out again. So the invariant says that
this list is complete: no interleaving of the queues, no retry and no merge of jobs
loses a change in any other way. `Covered` spells out what "under way" means, down
to a handler that has still to come to the trigger.

**NoStuckJob**: an id is active exactly while its worker is at it. Otherwise adds for
it would be ignored for ever, since a fixed id is the only key to an account's
updates. **MirrorsAccounts**: the pipeline implements `Mirror`, in which a table
moves only forward and only to versions the account has had. **Settles**: once
accounts stop changing, every live trigger is up to date for good or has missed a
change.

**AllOrNothing** relates the rows of a user's table to the list of results committed to
it: they are what the results make one after another. Since `work` is a copy of the rows
taken at the first statement, the property also says that nothing else changes the table
between that statement and the commit. **RepeatedWhenLostOnly** and **LateWriteOnce** count
what a reader of the tables would see as duplicates and as rows from a dead trigger. A
result is committed again at most once for each time its job lost its lock: a run that has
lost it commits all the same, and then Bull does not let it complete the job.
`LateWriteOnce` is one, because a run that loads after the deletion finds no trigger.

**InStep** says that a relation exists exactly while a row of the catalog names it. It
leaves out, by definition, relations whose names several tables share once PostgreSQL has
folded them (dropping one drops the other's), and those for which an `IF EXISTS` or `IF
NOT EXISTS` has let pass an overlapping request: `deleteTable` that skips a relation, with
another request making it before the rows are deleted, leaves a relation without a row.

**NonceSpent** is about `getNonce` calls that set late. **NoLaterTwin** and
**OneFreshAccountPerEmail** say how far the code goes in keeping one account per person:
two accounts of one wallet come from overlapping first logins only, and two of one email
only after the first was renamed.

**EveryPdaAsked** says where the listener asks for an account: on the first socket of the
cluster of the trigger's indexer, however starts, registrations and restarts fall. It
names what the code leaves open: a socket that is closed or opened unheard, and an account
registered after the start whose program has an indexer on another cluster, which may be
asked for over there instead. **EveryTriggerHeard** says with the same exceptions, and
that of an id which another node gave out too, that the answer comes and is understood, also
where a second socket opens first and takes the
process down. **RightAccount** is what the map of ids is for, and fails with two nodes;
**RightUnlessShared** says that this is the only way in which it fails, and is proved.

**ExecutedAtMostOnce** holds because a call signs once, whatever the attempts and their
resenders do. It does not say that the caller is told: a call may fail, by timeout or by
an expired block height, and its transaction land later. **SentMeansReached** is the other
direction, for every commitment: the step that returns a signature finds the transaction
at the commitment, and no later step takes it back, except that a fork may do so when no
more than `processed` was asked for. "Reached" is executed, successfully or not, since
nobody reads the error in the value of `confirmTransaction`. **CallEnds** has the end of the
process among the ends, because a poll that throws ends it.

The other properties are described where they are defined.

## 4. Runs

| Run | Instance | Shows |
|---|---|---|
| `PdaSweep` | 5 indexers, pages of 2, 2 attempts | `TypeOK`, `FanOutBounded`, `SmallSweepComplete`, `SweepEnds` |
| `PdaSweepComplete` | 3 indexers, pages of 2 | finding: `SweepComplete` is violated |
| `SyncShared` | 3 triggers of 2 indexers on one account, pages of 2, 2 changes, no fault | `Accounted`, `NoStuckJob`, `MirrorsAccounts` with jobs of two indexers competing, and queries inside a batch |
| `SyncSettles` | 1 trigger, 2 changes, 2 faults, fair | `TypeOK`, `Accounted`, `NoStuckJob`, `MirrorsAccounts`, `Settles` |
| `SyncDelivery` | 1 trigger, 2 changes, no fault | finding: `EveryDeliveryCounts` is violated |
| `ListenTwoClusters` | 1 program with an indexer on each of 2 clusters, 2 sockets on one and 1 on the other, 1 account, 1 subscription id per node, 1 crash, fair | `TypeOK`, `EveryPdaAsked`, `EveryTriggerHeard` |
| `ListenSharedIds` | the same indexers, a socket per cluster, 2 accounts, 2 ids per node, no crash | finding: `RightAccount` is violated |
| `Catalog` | 1 account, 2 indexers, 3 names of which 2 fold together, 2 requests, 3 ids | `TypeOK`, `References`, `InStep` |
| `Transformer` | 2 jobs, 2 scripts with 6 outcomes, any of them slow, rows of 2 kinds, 2 crashes, 1 drop, fair | `TypeOK`, `AllOrNothing`, `RepeatedWhenLostOnly`, `LateWriteOnce`, `JobsEnd`; the assumption `FractionOfWords` |
| `Accounts` | 1 wallet, 1 email, 2 user names, 3 requests, 3 nonces, 3 accounts | `TypeOK`, `NonceSpent`, `NoLaterTwin`, `OneFreshAccountPerEmail` |
| `SendTransaction` | 0 retries asked for, so the default of 3: 5 attempts; all 8 commitments; fair | `TypeOK`, `ExecutedAtMostOnce`, `SentMeansReached`, `OneResender`, `CallEnds` |
| `IdlDapp` | 4 uploads, 2 milliseconds, pages of 1 | `TypeOK`, `OwnContent`, `OnlyFailuresLeaveFiles`, `ListingComplete` |

`FractionOfWords` is an ASSUME that TLC evaluates in the run `Transformer`: the sum that
`toDecimalFromBfs` makes is right exactly on words below ten, and too large otherwise;
and rounding the quotient keeps the order of one-word fractions, but not their
difference. There the multiplier is 8 instead of 2^60 and one digit is kept instead of 20,
with which the sums 21 and 22 that the words 15 and 16 give become the same number, as
large words such as 10^19 and 10^19 + 1 do in the code.

Every property of a passing run has a mutant in `PROJECT.json`: a plausible slip in
the code (a forgotten reset, a fixed job id, a counter incremented too early) with
which TLC finds the property violated. The mutated operators stand beside the
definitions they change, marked `Mutant`.

### Bounds, and why they are enough

* `GET_INDEXER_PAGING` (10 in the code unless configured) is 1 or 2: what matters is
  whether the indexers fit on one page, and whether the counter jumps over a page.
  Five indexers on pages of two give three pages, one of them jumped over.
* `Attempts` is 2: one retry, and a last attempt.
* `MaxStalledCount` is 1, as in Bull.
* `MaxVersion` (changes of an account) is 1 or 2. Losing a change takes two: one that
  is being handled and one that comes too late.
* `MaxFaults` is 0 to 2. Two use up a job's attempts, or its stalls.
* `MaxCrashes`, `MaxChanges` of the listener: one crash, which may be the one that a
  second socket causes by opening first, and one change seen by a node.
* `SubId`: one id for the one account of `ListenTwoClusters`, which both nodes give out;
  two for the two accounts of `ListenSharedIds`.
* `MaxIds`, `MaxNonces` (3): a table with its trigger, and an id for what an overlapping
  request makes; a nonce that is spent, one that is set late and one after it.
* `Request` is 2 or 3 requests at a time, each of which may begin again when it is done.
  Login twice beside a `getNonce` takes 3; requests of the catalog meet in pairs, at a
  relation, a row or a name.
* `MaxCrashes` is 2 and `MaxStalledCount` 1 in `Transformer`: a job is repeated once,
  and given up when it loses its lock again; long scripts need no bound. `MaxDrops` is 1: a
  table and the one made anew.
* `MaxTime` is 1: uploads of the same and of another millisecond.
* `CHECK_DEADLOCK FALSE` is set where all there is to do can be done: changes, ids,
  nonces or uploads are used up, a call has ended, or a script never returns.

### Fairness

* `PdaProcessor!FairSpec`: weak fairness of the handler's steps only. Bull drives a
  job it has taken; nothing is assumed of registrations or errors.
* `SyncPipeline!FairSpec`: the socket delivers, each of the three workers and the
  stalled check keep running. Changes, registrations, deletions and faults need
  never happen. Weak fairness suffices since each worker is alone on its queue.
* `WebsocketListener!FairSpec`: a start goes through, sockets open, the node answers,
  messages are read. Nothing makes a node accept an account it was not asked for.
* `Transformer!Spec`: the worker goes on while no script runs for ever, and Bull while
  none blocks the thread (`Blocked`). A script that is long but not endless returns.
  Nothing is assumed of users, nor that a script's outcome is one or the other.
* `SendTransaction!Spec`: an attempt's timer fires, a resender notices that it was
  aborted, and what the call itself awaits is answered. Neither the cluster's steps, nor
  confirmation, nor the poll is fair.
* `Catalog`, `Accounts` and `IdlDapp` promise safety only.

## 5. Findings

Three are violation runs; the property of each quotes what the code or its documentation
says of itself.

1. `PdaSweepComplete` (`pda.processor.ts:60`): `page++` inside the `for..of`. A page of n
   rows moves the counter on by n, so the next page read is not the second one. With
   10 per page, of the indexers on an account only the first 10 and those from the
   101st on are updated.
2. `SyncDelivery` (`websocket-listenet.service.ts:131`): a notification that arrives while
   the account's `PDA_CHANGE` job is active, but past an indexer, is dropped; that
   indexer's tables stay behind until the next change.
3. `ListenSharedIds` (`websocket-listenet.service.ts:120`): one map of subscription ids for
   all nodes, although each node numbers its own. The node that answers second takes the
   id over, and notifications of the first are taken for the second's account.

The following were met while modelling. The models do what the code does; the properties
are stated so that they leave these cases out, by a bound of the instance or in the
formula, and say so.

* `websocket-listenet.service.ts:78`: a socket that opens during `await
  getAllProgramWithPda()` fires its event before `onopen` is assigned (`OpenUnheard`), and
  none of the accounts loaded from the database is subscribed on it.
* `websocket-listenet.service.ts:173`: accounts are remembered per program and not per
  cluster. When an indexer of the same program on another cluster has an account already,
  registering it subscribes nothing until the next start; the second clause of
  `EveryPdaAsked` and of `EveryTriggerHeard` is this case.
* `execute-transformer.processor.ts:125`: a script that takes longer than 30 s but does
  return costs its job the lock; its result is committed, the job cannot be completed, and
  the stalled check has it run and committed once more.
* `config.cache.ts:22`: the Redis store is returned under a name that is not read, see
  **Accounts** in section 2.
* `idl-dapp.service.ts:42`: the list is ordered by `created_at` alone, see **IdlDapp**.
* `indexer.service.ts:202`: full table names are folded and cut by PostgreSQL, and so can
  be shared; `indexer.service.ts:237`: `IF EXISTS` may leave a relation without its row.
* `indexer.service.ts:384`: `mapColumnType` has no case for some of the types that the
  request accepts (`double precision` becomes TEXT), and `varbinary` is not PostgreSQL's.
* `indexer.controller.ts:216`: `updateTransformer` takes the indexer's id from the body,
  not from the path.
* `account.service.ts:51`: two overlapping updates both pass the only-once check.
* `account.service.ts:23`: a user name that is someone else's email blocks that person's
  first sign-in.
* `auth.service.ts:75`: a login that then fails to commit has spent its nonce, and a login
  may delete a nonce younger than its own.
* `execute-transformer.processor.ts:119`: scripts run in the main thread;
  `examples/README.md:75` says "The script runs in a **secure worker thread**". Line 35
  there asks for an object where the code takes an array only.
* `transaction.ts:230`: a poll that throws is nobody's rejection and ends the process.
* `retry.utils.ts:31`: `maxRetries` + 2 attempts; `transaction.ts:33`: 0 retries means the
  default.
* `fraction.ts:37`: words are printed in decimal and read as hexadecimal.
* `fraction.ts:51`: `fromDecimal` gives BN the text of a Decimal, which from 1e21 on (a
  fraction of about 867) is in exponent notation and is refused.
* `upload-file.interceptor.ts:20`: a request that fails leaves its file.

## 6. Proofs

TLAPS checks these for every value of the constants: any page size, any finite set of
indexers or triggers, any scripts and results, any number of attempts, stalls, changes,
crashes and faults. Assumptions are the named ASSUMEs of the modules: ids are naturals,
`Attempts` and the page size are positive, sets of rows, keys, accounts and subscription
ids are finite, a result is a sequence of items, `FullName` is a function of account,
indexer and name, emails can be user names, and `None` and `Blank` are values of their
own. `OrderIsNotReversed` is for every multiplier and every set of numbers to round to.

| Theorem | Statement |
|---|---|
| `PdaProcessor_proofs!TypeCorrect` | `TypeOK` |
| `PdaProcessor_proofs!FanOutIsBounded` | `FanOutBounded` |
| `PdaProcessor_proofs!SmallSweepIsComplete` | `SmallSweepComplete` |
| `SyncPipeline_proofs!TypeCorrect` | `TypeOK` |
| `SyncPipeline_proofs!NoJobIsStuck` | `NoStuckJob` |
| `SyncPipeline_proofs!ChangesAreAccounted` | `Accounted` |
| `SyncPipeline_proofs!PipelineMirrors` | `MirrorsAccounts` |
| `WebsocketListener_proofs!TypeCorrect` | `TypeOK` |
| `WebsocketListener_proofs!EveryAccountIsAsked` | `EveryPdaAsked` |
| `WebsocketListener_proofs!NotificationsAreRight` | `RightUnlessShared`, for any number of nodes |
| `Transformer_proofs!TypeCorrect` | `TypeOK` |
| `Transformer_proofs!ResultsAreWhole` | `AllOrNothing` |
| `Transformer_proofs!OnlyLossRepeats` | `RepeatedWhenLostOnly` |
| `Transformer_proofs!OneLateWrite` | `LateWriteOnce` |
| `Transformer_proofs!FractionsTooLarge` | `RightBelowTenOnly`, for all words and bases |
| `Transformer_proofs!OrderIsNotReversed` | `KeepsOrder`, for all words, bases and roundings to nearest |
| `Catalog_proofs!TypeCorrect` | `TypeOK` |
| `Catalog_proofs!ReferencesHold` | `References` |
| `Catalog_proofs!TablesInStep` | `InStep` |
| `Accounts_proofs!TypeCorrect` | `TypeOK` |
| `Accounts_proofs!NoncesStaySpent` | `NonceSpent` |
| `Accounts_proofs!NoTwinLater` | `NoLaterTwin` |
| `Accounts_proofs!EmailsApart` | `OneFreshAccountPerEmail` |
| `SendTransaction_proofs!TypeCorrect` | `TypeOK` |
| `SendTransaction_proofs!AtMostOnce` | `ExecutedAtMostOnce` |
| `SendTransaction_proofs!SentIsReached` | `SentMeansReached` |
| `SendTransaction_proofs!ResendsAlone` | `OneResender` |
| `IdlDapp_proofs!TypeCorrect` | `TypeOK` |
| `IdlDapp_proofs!RowsHoldTheirOwn` | `OwnContent` |
| `IdlDapp_proofs!SavedFilesAreDeleted` | `OnlyFailuresLeaveFiles` |
| `IdlDapp_proofs!ReaderMissesNothing` | `ListingComplete` |

**The sweep.** `IInv` adds two conjuncts to what is claimed. `Served`: if the sweep
started on one page, whatever matched all along has its job or is still in the batch.
`BatchOpen`: the query repeated inside a batch is never that of page 0, so the ghosts
are set once. `FanOutBounded` is inductive because a page that is read with counter p
leaves out at least p rows (`PageBound`: each earlier page holds at least one), which
is where the skipped pages do no harm.

**The pipeline.** `IInv` is `Typed /\ NoStuckJob /\ FirstPageFresh /\ Versions /\
Accounted`.

* `WorkerShapes` (in `Typed`): a worker without a job has nothing at hand, so that an
  idle sweep is never "ahead" of a trigger; and a batch holds only indexers with
  triggers on the account.
* `FirstPageFresh`: the first page is read with no batch open. Without it, the query of
  page 0 could be one whose result is thrown away.
* `NoStuckJob` is needed for `Accounted` and not only claimed beside it: when a job
  ends, its id must have been active. Had it been waiting, the work that it stood for
  would go with it.
* `Versions`: written <= about to be written <= account. It makes `ExecSave` a
  `CatchUp` of `Mirror`, and for `Accounted` it says that a table that is up to date is
  not set back by a slow run.

`StepSafe` proves `Accounted` for one trigger, action by action: whoever was to come to
it still will, or has passed the duty on to the next queue, or the action enters it in
`missed`. The one step that needs arithmetic is a sweep that ends on an empty first
page: `EmptyFirstPage`, by `FirstPageOpen` (the least row is on page 0), shows that no
live trigger is left.

**The listener.** `IInv` is `TypeOK /\ NumbersOK /\ MemoryOK /\ AskedOK /\ IdleOK /\
MessagesOK /\ ToldOK`.

* `MemoryOK`: once the service is ready, every indexer's program is listed under its
  cluster and every trigger's account under its program. It is what `onopen` walks.
* `AskedOK` is `EveryPdaAsked` for the accounts in memory instead of the triggers in the
  database. The triggers alone do not carry the induction: a second trigger for an account
  finds it remembered and asks for nothing, even if the first was rolled back or deleted
  meanwhile. Memory has no clusters. So it has two clauses: what the start loaded has been
  asked for on every cluster that lists its program, and what was remembered since, on one
  of them.
* `NumbersOK`: a request's number stands for its account, in `counterMap` and on the way
  back. A number is never given out twice, not even on two sockets.
* `ToldOK` orders what a node sends: before a notification is read, `idMap` has the id's
  account, or an answer that will say so is ahead of it on the same socket, or another node
  gave out the id too (`Shared`, which once true stays true until a restart). It needs
  `MessagesOK` (a message agrees with its node) and `IdleOK` (only the first socket of a
  cluster carries any).

**The transformer.** `IInv` is `TypeOK /\ WorkerOK /\ JobsOK /\ LateOK /\ SaveOK`.

* `SaveOK` says what an open transaction sees: the committed table with the items before
  `todo` applied. A statement takes one item from `todo` and applies it, so that at the end
  the work is the whole result; a refusal or a crash leaves the committed table, which is
  the log's. The facts on folds that this needs (the fold over one more item, `Whole` and
  `Replay` keep tables tables) are proved by induction, as a search for the least length
  that fails.
* `JobsOK` counts on both sides: a job has been stalled at most as often as it has lost its
  lock (`lost`), and has committed, or may still commit in the run under way, at most once
  more than that and no oftener than Bull lets it start (`Starts`). A run that has lost its
  lock may still commit (`May`) while the stalled check already counts the next one.
* `LateOK`: the run that writes late had loaded the trigger before it was deleted. One
  worker means one such run, and whoever loads next finds nothing.

**The fractions.** Two inductions: over a number without its last digit (`RereadMore`,
`RereadGrows`), and over the words from the last to the first. The recursive function and
the fold are first shown to be what their definitions say (`RereadIs`, `ValueIs`). The
higher words weigh more, so one word of ten or more makes the whole fraction too large.
`OrderIsNotReversed` adds that what is read grows with the word and that rounding to the
nearest does not go down where its argument goes up (`RoundedInOrder`); it may stay, and
so `gt` and `lt` of a script can call two different fractions equal, but never swap them.

**The catalog.** `IInv` is `TypeOK /\ Linked /\ NamesOwn /\ Stepwise`.

* `Linked` carries `References` through a registration and a deletion that overlap: ids
  are never given twice (`IdsApart`), what a request has located is of its indexer
  (`LocatedOwn`), and a trigger that is about to commit refers to a row that exists and
  to its own transformer (`LinkedOwn`). The last is where the foreign key's lock is
  needed: `DeleteRows` waits for it.
* `NamesOwn`: a row's full name is that of its owner, indexer and name. Without it
  "unshared" would say nothing about rows.
* `Stepwise`: what requests are making does not exist yet, or its name is lenient, and
  nobody else makes it (`MakesOwn`); what they are dropping exists (`DropsOwn`). Then both
  commits keep `InStep`.

**The accounts.** `NoncesApart` is what makes `NonceSpent` inductive: a nonce on its way to
the cache is in no other request, not in the cache and not among those gone. `HadOne` ties the
ghost `had` to the rows: accounts never lose their wallet, so a login that began with one
finds one. `NamesApart` is the unique constraint as an invariant, with what an account
that was not renamed is called: its email.

**The call.** `SignedOnce` says that at most one transaction is signed, and `SentOnly`
that nodes and cluster know no other, which gives `ExecutedAtMostOnce`. `Waiting`
restricts the count of retries to what the next step needs for `TypeOK`, and `Running`
says which resenders there can be: those of earlier attempts are all aborted. `Sent` keeps
what the returning step has seen: no vote lowers a level, and a fork takes back only what
was no more than processed.

**The upload.** `IInv` is `UploadsOK /\ ReadingOK`. `FilesOK`, `ReadOK` and `RowsOK` follow
bytes from file to memory to row: wherever they are, their upload was given the same path
(`SamePath`). `OwnContent` excepts just the rows of which that is true of another upload.
`OnlyFailuresLeaveFiles` is inductive by itself, given that whoever deletes a shared file
deletes it for all. The list is newest first, so a page read at an offset sees rows again
when others are added but skips none: `AheadOK` says that what the reader has not seen is
still behind the pages read, counted from the end of the list.

**Only model-checked**: liveness (`SweepEnds`, `Settles`, `EveryTriggerHeard`, `JobsEnd`,
`CallEnds`), which is beyond TLAPS's support for fairness. The assumption `FractionOfWords`
and every property of the table but `RightUnlessShared` are checked both ways; of that one
the run `ListenSharedIds` shows the exception, and the theorem that there is no other.

## 7. Not modelled

* **Out of the model on purpose**: the keep-alive ping, logging, rate limits (they only
  delay), the backoff's length, wording of errors. `isActive` of an indexer is never
  cleared by the code. The owner of an account is taken as fixed, so that a job id
  needs only the account.
* **Requests that are refused.** In `Catalog` and `Accounts` a request that a check turns
  away changes nothing and is no step.
* **`createQueryLogs`**: it appends to a log that only its own endpoint reads.
* **Guards**: stateless. `IndexerGuard` is the reason why `Catalog` takes user names as
  given.
* **Migrations**: one-off DDL; the constraints they leave are in the modules whose
  operations meet them.
* **A node that lags.** The pipeline reads from a node at least as fresh as the one that
  notified. With several active rows for a cluster they can be different nodes
  (`rpc.service.ts:19`).
* **Bootstrap, response classes, Swagger annotations**: wiring and layout.
* **Billing**: generated IDL (the longest file of the repository) and instruction builders
  that nothing calls.
* **Query pass-through**: it hands SQL to the database as it comes (a TODO there, at
  `indexer-table.service.ts:16`, would restrict it). In the models the catalog and the
  users' tables are changed by the rest of the code only.
* **The other conversions of `Fraction`**: one call to the decimal library each.

About a fifth of the TypeScript is mapped. What remains is, in the main, the generated
IDL (a quarter of all lines), request and response classes, modules and migrations.

### Plan

In order:

1. Compose `WebsocketListener` with `SyncPipeline`, so that `ChangeUnheard` and the
   loss of `feed` are derived instead of being faults.
2. A second node per cluster in the pipeline, with `MirrorsAccounts` weakened to what
   then holds.
