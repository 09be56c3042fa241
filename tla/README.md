# Verification of the TAT travel-approval services

TLA+ models, TLC runs and TLAPS proofs kept beside `tat-api-services`, a NestJS
back end in which employees of an agency request travel, colleagues sign the
requests in turn, and the resulting rights and expenses are recorded. The
database is Oracle behind knex; Redis-style caching, files on disk, a WebSocket
hub, an LDAP directory and a nightly job against MSSQL surround it.

Paths below are relative to the repository; `AS` is
`src/modules/approval/approval.service.ts`.

## 1. Inventory

| Component | State | Operations | Talks to |
|---|---|---|---|
| approval workflow (`AS`) | `approval`, `approval_continuous`, `approval_status_history`, about fifteen dependent tables | create, update, updateStatus, updateApprovalContinuous, duplicate, duplicateCancel, remove, updateStaffMembersCancelledStatus, updateClothingExpenseDates | cache, attachments, files, notifications, pool |
| approval reads (`AS`) | cached lists, details, statistics | findAll, findById, getStatistics, findAllStatusLabels | cache, database |
| numbering (`AS:55-92`) | the greatest `increment_id` | generateIncrementId, print numbers | database |
| clothing eligibility (`AS:2314-2865`) | `approval_clothing_expense` | eligibility rules, updateClothingExpenseDates; cancellations and claims by hand, in services of master data | the nightly job, cached details |
| attachments (`approval-attachment.service.ts`) | `approval_attachments` | updateAttachments, deleteAttachments, getAttachments | files |
| files (`files.service.ts`) | `files` rows, disk files, cached rows | upload, update, remove, read | cache |
| cache (`redis-cache.service.ts`) | key, value, TTL | get, set, del | |
| pool (`knex.service.ts`, `knexfile.js`) | ten connections | acquire with a timeout, transactions | every service |
| notifications (`notification.service.ts`) | `notifications`, cached lists and counts | create, mark read, push | WebSocket hub |
| WebSocket hub (`websocket.util.ts`) | connected clients | connect, ping, pong, close, terminate | |
| authentication (`auth/`) | `sessions`, JWTs, audit log | login, refresh, logout, revoke | users, LDAP |
| LDAP login (`ldap.service.ts`) | one promise per login | bind with retries, search | sessions |
| nightly job (`cron.service.ts`) | `approval_clothing_expense` | copyReportDate | MSSQL |
| report approval (`reportapprove/`) | a report, its expenses, a form per traveller with six lists of details | update, statement by statement; queries | database |
| master data, users' reports, data views | one table each | CRUD with cache-aside | cache |

What makes the system hard. Node serves many requests in one process: every
`await` is a point where another request may run, and handlers of `AS` have
dozens of them. Transactions give atomic writes and row locks, but some handlers
read before they begin one, write outside one, or use a second connection while
one is open. Nothing serialises a cache fill with the invalidation it races.
Requests die half way, clients repeat them, and the process may end anywhere.

Correctness, component by component:

* workflow: the approval row, its chain of signatures and its status history
  agree; handlers are atomic; only the final signer approves;
* reads: a cached detail is not older than a finished write, and is a detail
  that once was true;
* numbering: numbers of a month have no gap and repeat only where creations overlap;
* attachments and files: a reference names a file that exists; a file without
  references is deleted; one approval never deletes another's file;
* pool: a request that needs a connection gets one or fails, and gives back what
  it holds;
* notifications: what was committed is announced; counts are of the employee's own
  notifications and settle;
* WebSocket hub: a client that is gone is found out and dropped;
* report approval: an update replaces what the one before it stored;
* eligibility: what is done for others changes nobody's answer, every claim is dated
  some night, and the job keeps its hands off what was reported before it looked.

## 2. Modules

| Module | Role |
|---|---|
| `ApprovalRecords` | rows and what an edit or a decision makes of them; shared, no variables |
| `ApprovalLedger` | abstract: every endpoint is one indivisible act on current rows |
| `ApprovalWorkflow` | the handlers, split at the awaits that matter |
| `MCApprovalWorkflow` | instances for TLC |
| `ApprovalWorkflowProofs` | its types, its inductive invariant, its safety theorems, waits for rows |
| `ApprovalLedgerProofs` | the handlers implement `ApprovalLedger` |
| `ApprovalAttachments` | the files of an approval and the lists that show them, statement by statement |
| `MCApprovalAttachments` | instances for TLC |
| `ApprovalAttachmentsProofs` | its types, its inductive invariant, its safety theorems |
| `ApprovalDetails` | what `findById` gathers and caches, the writers that race it, those that do not know the cache, the copies made of it |
| `ApprovalDetailsProofs` | its types, its inductive invariant, its safety theorems |
| `RunningNumber` | what the query for the last number gives, as an operator on sets of numbers; no variables |
| `NumberLedger` | abstract: an approval takes, in one act, a number that followed those of its month in an earlier state of the table |
| `ConnectionPool` | requests, the connections they borrow or hold, and the numbers they give approvals |
| `ConnectionPoolProofs` | types and the size of the pool, the invariant of the numbers, `NumberLedger` implemented, what the text order does, waits and leaks |
| `SocketHub` | connected clients and the heartbeat |
| `Notifications` | extends it: rows announced from inside transactions, pushes, counts and their cache |
| `NotificationsProofs` | types, the safety theorems of both, and what makes counts wrong |
| `ReportForms` | saving a travel report, statement by statement |
| `ReportFormsProofs` | its types, and both of its safety theorems |
| `ClothingClaims` | claims for clothing, copies of stale details, the check of eligibility as operators, the nightly job |
| `ClaimLedger` | abstract: a claim is inserted, copied, entered, dated or deleted in one act, and dated from a day on which its own employee was found on duty |
| `ClothingClaimsProofs` | types, the invariant of the job, answers about eligibility, `ClaimLedger` implemented |
| `MC...` | instances for TLC of each |

The three systems of approvals share the approvals and are kept apart: `ApprovalWorkflow` looks
at who may do what and in which order, `ApprovalAttachments` at statements outside
the transaction, `ApprovalDetails` at reads without one. Where one needs another it
takes the most general behaviour of it (any people in a copy, any file deleted at
any moment, transactions taken whole at their commit).

### ApprovalWorkflow

State. `approval`, `continuous` and `statusHistory` are the committed tables.
`request[p]` is one HTTP request in flight: its handler `op`, where it stands
(`pc`), the approval it works on, the step it read, and what it has written in an
open transaction but not committed (`work`, `entry`). `rowLock` is the Oracle
lock that `UPDATE approval ... WHERE id` takes. `clock` gives each history row
its `created_at`.

| Action | Code |
|---|---|
| `Create`, `CreateHistory` | `create`: two inserts, two connections, no transaction |
| `FindById` | the call every changing handler makes first |
| `Update`, `Commit` | `update`: row, dependent tables, chain, in one transaction |
| `UpdateStatusHistory`, `UpdateStatusCommit` | `updateStatus`: history row, then the row it may have to wait for |
| `Remove` | `remove`: soft delete |
| `UpdateContinuousRead`, `ForwardStep`, `ApproveFinal`, `Reject`, `NoDecision`, `Commit` | `updateApprovalContinuous` |
| `Duplicate` | `duplicate`, `duplicateCancel` |
| `Abort` | an exception, a lost connection or the end of the process at any point |

Abstractions. Of the columns of `approval` the model keeps the status, the three
people (`employee_code`, `continuous_employee_code`, `final_staff_employee_code`)
and `deleted_at`. An edit is reduced to those, to whether it carries
`staffMembers` (which deletes the chain) and to whether it carries `signerName`
(which adds a step). `findById` may answer from the cache, with a detail older
than the row or of a deleted approval: the model lets a handler go on whenever
the approval was ever created, and lets a copy carry any people at all.
Transactions are READ COMMITTED; because every transaction updates the approval
row before it touches the chain, writes under the row lock are taken together.
Cached details, numbers and notifications have modules of their own.

### ApprovalAttachments

State. `file` is the table of files, `attached` the rows of
`approval_attachments` by approval and kind, `rowLock` the lock that `update()`
holds, `request[p]` the update or removal in flight with the calls of
`updateAttachments` it has still to make and the files it has found out of use.

| Action | Code |
|---|---|
| `Upload`, `RemoveFile` | `FilesService`, by any client or by the purge of another approval |
| `StartUpdate`, `Update`, `Commit` | `update`: `findById`, the first UPDATE (takes the row), the commit |
| `StartRemove`, `SoftDelete` | `remove` |
| `SkipCall` | a list absent from the body, or empty, is left alone |
| `FindByEntity`, `DeleteByEntity`, `CreateMany`, `PurgeFile` | the statements of `updateAttachments`, each on a connection of its own, committed at once |
| `CreateManyRefused` | the foreign key refuses a file that is gone |
| `PurgeFails`, `Abort` | a file that cannot be deleted; a request that dies |

A body is the files of the document, those of the signature and a list per budget,
clothing and transport expense. The document and the signature lists are replaced
while the row is locked, the rest after the commit, when nothing keeps two updates
apart; the properties that hold speak of the first two. `file_id` cascades, so a
file takes its attachments with it.

### ApprovalDetails

State. `rows[a][s]` is the content of a section of an approval: a section is a
group of tables that are read and written alike, its content the number of the
transaction that inserted its rows (`id`) and of the last that changed them
(`at`). Children are looked up by the id of the parent that was read, as the
queries do. `cache[a]` is the entry `approval:{id}`; `request[p]` holds the detail
read so far and the sections still to read, in the order of `findById`.

| Action | Code |
|---|---|
| `Arrive` | any endpoint; all but the decision of a step begin with `findById` |
| `Hit`, `Miss`, `NotFound`, `Read`, `Fill` | `findById`: the cache, one query per section, the fill |
| `Update`, `UpdateStatus`, `Cancel`, `UpdateDates`, `SoftDelete`, `Decide` | the transaction of each writer, at its commit |
| `Duplicate` | `duplicate` and `duplicateCancel`: new rows for the sections each copies of the detail it was given |
| `Invalidate`, `CacheCopy` | the deletion of the cached detail; the raw row a copy leaves in the cache |
| `Expire` | the TTL |
| `Create` | `create` |
| `CopyReportDate`, `CancelClaims`, `EnterClaim` | who writes claims past `ApprovalService`, and knows no cache: the nightly job; `ClothingExpenseCancellationRequestService.update`, some claims or all; `ApprovalClothingExpenseService` |
| `Abort` | a request that dies before, between or after its writes |

The sections abstract the columns; a raw row cached by `duplicate` counts as a
detail with nothing in it, since hardly a column keeps its name and no section is
there. A section has one version, so two travellers of one approval are not told
apart, and the nightly job may write a clothing section as long as it has rows,
some of which may lack a date. `Outside` names the approvals whose claims are written
past `ApprovalService`, so that what holds of the others can be told apart; with all
approvals in it the model is the code. The lists of attachments and the names of
people and places that `findById` adds to its answer are no sections: a file that is
removed elsewhere may stay in a cached detail until it expires, and no property here
speaks of it.

### RunningNumber and ConnectionPool

State. `request[r]` is a request in flight: its handler, where it stands in the
`Script` of what such a handler asks of the database, whether a connection is lent
to it for one query (`lent`) and whether its transaction keeps one (`open`), and
the number it has read. `leaked` counts connections of transactions nobody will
end, `approvals` the committed rows with month, number and how many rows there were
when the number was read, `month` is the clock.

| Action | Code |
|---|---|
| `Arrive` | a handler is called; it waits for its first connection |
| `Grant` | the pool lends one of `pool.max` connections (`knexfile.js`), to any waiter |
| `TimeOut` | `acquireTimeoutMillis` |
| `Query`, `Commit`, `Refused` | a statement outside a transaction, the end of one, an error of either |
| `ReadNumber` | `generateIncrementId`, with `NextNumbers` of `RunningNumber` |
| `Insert`, `InsertUnanswered` | `KnexService.create`, which repeats an insert that fails |
| `Restart`, `NextMonth` | the process ends; time passes |

A run of statements of one kind is one step of the script, since a request that
gives back a connection and takes another competes in the same way. `Wide` stands
for 10^5, the first number that no longer fits its five digits: the order of
`increment_id` as text and the five digits that are read of it are modelled for
any `Wide`. `NumberLedger` is what is left of it without requests and connections:
the table, the clock, and one act that gives a number.

### SocketHub and Notifications

State. `clients` is the Map of `WebSocketUtil`, `isAlive` its flag, `wire` what is
true of the connection itself, which the server does not see: a client may be gone
with a pong still on its way. `handler[t]` is a transaction that announces to the
employees of its plan, `rows` the table, `counting[k]` a call of `getUnreadCount`
that nobody awaits, `unread` the cached counts.

| Action | Code |
|---|---|
| `Connect`, `Pong`, `Close`, `Vanish` | a client, and a network that fails silently |
| `Heartbeat` | `startHeartbeat`: terminates the unanswered, pings the others |
| `Begin`, `Notify`, `Commit`, `Abort` | a transaction of `AS` that calls `createNotification` for each of its plan, on another connection |
| `Look`, `Count`, `Store`, `Lost` | `getUnreadCount` await by await, and one that fails |
| `GetUnreadCount`, `MarkAsRead`, `MarkAllAsRead` | the controller |
| `Expire` | the TTL; no write deletes a count that is cached |

`Push` blocks when all of `Counters` are busy: a bound, not behaviour of the code.

### ReportForms

State. The tables of one report, `request[p]` an update with its body, where it
stands, what it has read (`stale`, `target`) and what is left to do; `given` the
sequences. Every statement commits at once, so each is an action. The six lists of
details differ only in whether an update of a row that is gone fails (`Strict`).
`met` and `by` are history: which updates ran beside this one, and who wrote a row.

| Action | Code |
|---|---|
| `FindLists`, `DeleteReceipts`, `DeleteLists` | `deleteByReportId`; the foreign key refuses the last while receipts are there |
| `CreateExpense`, `CreateReceipt` | the other expenses of the body |
| `FindForm`, `FindTraveller`, `CreateTraveller`, `CreateForm` | the form of the traveller, `ensureTraveller` |
| `FindCurrent`, `DeleteDetail`, `UpdateDetail`, `CreateDetail`, `NextList` | each list of details brought in line with the body |
| `Fail` | an error, or the end of the process, after any statement |

### ClothingClaims

State. `claims` is `approval_clothing_expense`, a claim known by the batch of
inserts it came with and its employee; `travelType`, `deleted` are of approvals;
`found` is a detail that `findById` has read, in the cache or in the hands of a request,
as old as it may be; `raw` the copies that are cached as the row that was inserted;
`duty` is the day on which an employee reported, read from another system, where it may
change at any time; `left`, `current` are the records of the nightly job in hand,
`entered` those of them that clerks have dated meanwhile.

| Action | Code |
|---|---|
| `Submit`, `SoftDelete`, `CancelClaims` | what inserts and deletes claims |
| `Find`, `Expire`, `Duplicate` | a detail is read, and forgotten; a copy takes the claims the detail shows, cancelled or dated since or not |
| `AddClaim`, `AmendClaim` | `ApprovalClothingExpenseService`: one claim by hand, with the dates that are given and no others |
| `EnterDates` | `updateClothingExpenseDates`: all claims of the approval, given, null or missing |
| `FindPending`, `FindDuty`, `CopyReportDate`, `Fail` | `copyReportDate`, record by record, and its catch |
| `Report`, `Midnight` | the other system; time |
| `Eligible` (operator) | `checkClothingExpenseEligibility`: period of the last claim of the kind, group of destinations, last transfer |

`ClaimLedger` says the same of the claims alone, without kinds of journeys, deleted
approvals or a job that stands between two of its queries. What somebody still holds is
in it, as that is written later: `shown` is the detail that may be copied, `days` are the
days on which an employee is, or was found, on duty.

## 3. Runs

| Run | Instance | Question |
|---|---|---|
| `approval_chain` | 1 approval, 2 employees, 2 requests, 3 kinds of edit, failures anywhere, 3 steps, 2 history dates | the safety properties, and that the handlers implement `ApprovalLedger` |
| `approval_ledger` | 2 approvals, 2 requests, copies, failures, 1 step | the same with copies; requests that wait for a row are served |
| `approval_attachments` | 1 approval, 3 files, 2 requests, bodies with up to two files, failures | lists and files stay in step inside the transaction |
| `details_races` | 1 approval, 2 requests, 3 transactions of eight kinds, failures | no cached detail mixes submissions backwards; the cache becomes current |
| `details_sequential` | 2 approvals, one of them in `Outside`, 1 request, 3 transactions of every kind, copies, references | every writer of `ApprovalService` invalidates what it changed; of an approval whose claims others write as well, nothing but those claims is late; what nobody invalidates expires |
| `connection_pool` | 2 requests, 2 connections, a month with two numbers left, a second month | the pool is not overdrawn, every request ends, numbers have no gaps and repeat only in races, and that handlers implement `NumberLedger` |
| `notifications` | 1 transaction, 2 employees, 2 clients of one of them, 1 count at a time, 2 rows | what is committed is announced, counts stay within bounds and settle, clients that are gone are dropped |
| `report_forms` | 3 updates of one report, 2 at a time, 2 lists, failures | an update that is through has replaced what was there |
| `clothing_claims` | 2 approvals, 2 employees, 2 days, 3 requests that write, 1 detail that is old | the job and the clerks, whose answers change, and that all who write claims implement `ClaimLedger` |
| `decided_step_pending`, `expense_files`, `leaked_transaction` | one request each | three comments that the code contradicts |

Bounds. `MaxSteps` and `MaxHistory` stop new steps and new dates, never a step in
the middle of a handler; a chain of three holds a submission, a hand-over and a
verdict, the longest pattern any property distinguishes. Two requests are enough
for every pairwise race; a third changes nothing the properties relate, since a
row has one holder at a time, and the proofs cover any number. Two employees give
an author, a signer and a final signer who may coincide or differ. Requests are
symmetric: they are compared only for equality (the fairness run does not use
symmetry).

Fairness. `approval_ledger`: `WF(Proceed)`, since the event loop and the database
answer every await, and `SF(UpdateStatusCommit)`, since Oracle grants a row to its
waiters in order of arrival, so that a waiter enabled again and again is served.
The runs of details assume `WF(Proceed)` for the same reason and `WF(Expire)`: an
entry of the cache is dropped when its TTL is over, if nothing replaces it.
`connection_pool`: `WF` of the steps the database answers and of the timer of each
wait; none of `Grant`, so that `EveryRequestEnds` rests on the timeout alone.
`notifications`: `WF` of the heartbeat (an interval), of calls of `getUnreadCount`
and of the TTL. `clothing_claims`: `WF` of the job, which is scheduled every night.
Nothing is assumed of arrivals, clients or failures anywhere.

Bounds of the attachments: two requests on one approval suffice although files
could be shared among approvals, because `RemoveFile` deletes any file at any
moment, as the purge of another approval would (the instance with two approvals,
4.1 million states, passes as well). Three files let a list lose one, keep one and
gain one. Bounds of the details: `MaxWrites` counts transactions; a submission, a
replacement while it is read and a third write tell every mixture of versions that
`NoOldSubmissionUnderNew` compares, and a copy needs two transactions before it.
`MayInsert` keeps an id free for every copy under way.

Bounds of the other runs. Pool: two handlers that hold a connection each and wait
for a second one exhaust a pool of two, the shape of the deadlock with ten. `Wide`
is 10, with eight numbers given, so that a race, the last padded number, the one
that no longer fits and the start of a new month all happen within three rows.
`read`, `decide` and `write` are left out there since they take connections as the
beginnings of the others do; the theorems cover them. Notifications: two clients of one employee are
what it takes for one to stand in the way of the other; one count beside the
handler races every insert and every reading. Reports: two updates race and a third
finds what they left; one strict list and one that is not follow each other.
Clothing: with `TwoYears` at 0 a second day is past the period; two approvals make a
copy, three writes a submission, a cancellation or an entry, and the copy of the detail
of before, or a broken record. Employees report on day 0 or on one that cannot be
formatted, and the one may replace the other between the two statements of the job. A
clerk enters a report, a next date without one, or takes a report back by hand. The
two approvals of the details are one of each kind: of `a2`, which is not in `Outside`,
every section must be current, whatever is copied to it from the stale detail of `a1`.

What the runs show beyond the invariants: `StatusChangeIsLogged` does not hold of
`create()`, which is why it speaks of existing approvals only; the head of the
status history can disagree with the status after an `updateStatus` that waited,
which is why `ChainDecisionsStayInOrder` allows exactly those cases. A detail read
before a write may be cached after the invalidation of that write and is served
until it expires: `WritersAreHeard` holds of requests one after the other only, and
`EventuallyCurrent` is all that holds of requests together. Even one after the other
they may read cancelled claims: three services write claims and delete no cached detail
(`clothing-expense-cancellation-request.service.ts:78`, `cron.service.ts:68`,
`approval-clothing-expense.service.ts:49`), so `WritersAreHeard` leaves out the claims of
the approvals they write (`Heard`), and a copy made within the TTL brings such claims
back, which `ClaimLedger` therefore allows. The job updates by id alone: a date a clerk
enters after its query is lost, and so is a next date entered without a report, which
`JobKeepsEarlierDates` does not forbid.

## 4. Findings

* `updateApprovalContinuous` decides a step whatever its status. The comment at
  its head promises a check for PENDING; the check is commented out
  (`AS:3227-3249`). The run decides a step that a hand-over inserted as APPROVED
  (`AS:3413`) and that never was PENDING (`OnlyPendingStepsDecided`). A second signature
  of a PENDING step is another matter: its row is not updated (`AS:3324`, `AS:3429`), so
  it stays PENDING, the check would let it pass, and no property forbids it.
* `update()` stores the files of every clothing expense under the id of the
  approval, so each expense deletes the files of the one before
  (`ExpensesKeepTheirFiles`; the migration says `entity_id` is the id of the record
  in its table).
* `updateStatus` begins its transaction before its `try` and may throw in between:
  the transaction is never ended and its connection lost to the pool
  (`ErrorsRollBack`; comment "Rollback the transaction in case of error", `AS:2308`).

Met on the way and not checked by a run, since no property of the code forbids
them: a signature sent twice hands the approval on twice (`AS:3324`), the job overwrites
what a clerk enters while it runs (`cron.service.ts:70`), deleting the file of a copy
deletes that of its original (`AS:3558`), an attachment refused after other lists were
replaced leaves those replaced; these are among the hazards of `PROJECT.json`. Holiday
expenses never reach a copy (`AS:3878`), in any run of the code.

## 5. Proofs

All theorems hold for any sets of approvals, employees, requests and edits, any
bounds and any set of fault points, under the named assumptions of
`ApprovalRecords` and `ApprovalWorkflow`: NULL is not a value of the other sets,
authors are employees, and an edit that adds a step names its employee (the
column is NOT NULL, so the database refuses any other).

* `TypeCorrect`. `TypeOK` is not inductive: an action reads
  `approval[request[p].id]` and needs it to be a row. `InFlight` says a request in
  flight works on an approval that exists and has what its `pc` says;
  `StepsHaveApproval` says the same of steps.
* `Invariance`. `HoldsRow`: an open transaction holds its row, so the status and
  the final signer it read still stand, its history row says what its private row
  says, and only the late history row of `create` can be dated after its own.
  `DatesDiffer`: `created_at` tells the history rows of an approval apart.
* `FinalSigner`, `StatusIsLogged` follow from that invariant step by step.
* `ChainOrder` needs it with one more conjunct, that history belongs to approvals
  that exist.
* `HolderIsNewest`, `OnePendingStep` hold of what every open transaction is about
  to commit (`ChainInv`), because each operation on the records preserves them
  (`EditedChain`, `DecidedChain`).
* `NoCircleOfWaits`. Each row that is locked points to a request that works on it
  (`HoldersWaitForNobody`), the converse of `HoldsRow`; a request takes one row and
  takes it last, so who holds a row waits for nobody. It is the part of
  `WaitersAreServed` that is not fairness.
* `WorkflowImplementsLedger` is the refinement. The act of a handler is the act of
  its commit, so a transaction that read the row and the chain when it took the row
  must still be about to write what they make of it (`Ready`: an edit, a forwarding
  or a verdict applied to the current records); `HoldsRow` gives that. `DatesDiffer`
  and `Recorded` (histories are finite and of approvals that exist) make the history
  row it adds a new one, which the ledger counts. The initial state maps to the
  ledger's, a commit to one act, every other step to a stutter.

`ApprovalAttachmentsProofs` needs no assumption but that NULL is not a value of the
other sets.

* `TypeCorrect`. A request in flight is `Flight`: it works on an approval, an
  update has a body, and a call under way is there to be made.
* `Invariance`. The lists of an open transaction are written by nobody else, since
  whoever is inside holds `rowLock` (`Guarded`, `Inside`), and those it has been
  through stand as the body says, up to files that are gone (`Stands`). It is this
  conjunct that makes `CommittedListsStand` inductive: the property itself speaks of
  the moment of the commit only. Uploads and deletions by anybody move files and
  lists together (`StandsMoved`).
* `CommittedLists`, `FilesKept` follow at once; `NotForgotten` takes one more
  conjunct, that attachments are of files that exist, and a look at every step.
* `ForeignKey` is that conjunct: it holds between any two statements, since the
  insert of a list is refused and a deletion of a file cascades.
* `NeverMixed` speaks of the steps inside a call, where `CommittedLists` speaks of
  the commit: a list is emptied before it is filled, and whoever fills it holds the
  row (`CallOfTransaction`).

`ApprovalDetailsProofs` assumes finitely many requests, and that NULL is neither an
approval nor a detail.

* `Invariance`, `TypeCorrect`. `Sound` says of rows and of details that children
  have their parents, and clothing and signatures are not older than the travellers.
  Of rows it says less (`Stands`): a claim entered past `ApprovalService` asks for no
  traveller. They stand because `update()` replaces what is looked up by a row together
  with it (`ReplacedTogether`), and copies because a sound detail is copied with the
  parents of what is copied (`CopiedTogether`). `Room` counts the transactions
  under way against the bound.
* `NoOldUnderNew`. A detail half read is sound although its parts are of different
  moments: sections are read parents first (`ParentsBefore`), children are matched
  with the parent that was read, and the travellers it shows are never of a later
  submission than those in the table, so clothing and signatures read after them
  are not older (`Reads`).
* `WritersHeard` assumes `OneAtATime`: one request, no failures. In the sections
  somebody tells the cache about (`Heard`), what is read so far is what the tables hold
  (`ReadsCurrent`), and a cached detail is current unless its approval was written and
  the request that wrote it has yet to delete it (`Untold`). The nightly job,
  cancellations and clerks may write at any moment, between two queries of `findById`
  too: they touch claims of approvals in `Outside` only, by which nothing else is looked
  up (`HeardOutside`).
* `ReadsSettle` is the safety half of `EventuallyCurrent`, for any number of requests
  and failures: from a moment at which none is in flight, and while nothing is
  written, every request has read what `findById` would answer at once
  (`NoneBehind`, `LookNow`), the approval that `approval_ref` names included; so an
  approval whose entry has expired never gets an old one again. Which requests are
  in flight at the beginning matters: one that began to read before a write may
  fill the cache any time later.

`ConnectionPoolProofs` assumes a pool of at least one connection, finitely many
requests, and that the first month has given fewer than `Wide` numbers, `Wide` at
least 2.

* `PoolTypeCorrect`. `Used` counts two sets and a number; a step gives back
  (`UsedShrinks`) or, only while fewer than `pool.max` are used, takes one
  (`UsedGrows`). A handler stands inside its script (`Ready`).
* `NoNumberSkipped`, `RepeatsAreRaces`. `Numbered` says what a request knows from
  its read to its insert: the number before its own is there, for rows are never
  deleted, and the rows it saw have other numbers, unless the digits have run out.
  `NextNumberFacts` gives both from the sort order, and it needs the absence of
  gaps itself: with `Wide` in the month there is `Wide - 1`, which sorts behind it.
  A handler takes its month before it has a number (`Unread`), so no change of month
  comes between them.
* `PoolImplementsNumbering` is the refinement of `NumberLedger`. The act that gives a
  number is the insert, and what a request knows of its number speaks of the table
  as it was at the read: `Numbered` has it among the next numbers of the rows that
  were there then (`Taken`), which stay what they were.
* `OneNextNumber`: in the text order, too, every set of numbers has exactly one last.
  `PaddedTextCounts`: without `Wide` that order is the order of numbers.
  `ExhaustedMonthRepeats`: a month that has given `Wide` gives nothing else any more,
  as `Wide - 1` stays the last one in the order of texts. `AloneTheyCount`: where the approvals
  of a month are made one by one, the next one is one more than their number, until
  the digits run out; gaps are excluded down from the greatest number that is there
  (`GreatestNumber`, `NoGapsToGreatest`).
* `OthersRollBack` assumes that nobody calls `updateStatus`: then no connection is
  ever lost, so the finding about it is the only leak. `SpareConnectionSuffices`: with
  more connections than requests and lost ones together, the handlers that hold one and
  wait for another are never stuck on one another.
* `StepsOfRequestsRunOut` is the part of `EveryRequestEnds` that is not fairness:
  each step of a request brings it nearer to its end (`Remaining`), the repeated
  insert and the wait for a connection included.

`NotificationsProofs` assumes that plans are sequences of employees and NULL no
number.

* `SilentAreDropped`. `HubInv`: a pong on its way belongs to a client that has
  not answered the last ping and has missed no beat, so it can save the client once.
* `CommittedAnnounced`. `Announced` carries it through the plan: a handler has left
  a row for each it has told, rows only become more (`RowsGrow`), and it commits
  after the last.
* `ToldAtMostTwice` counts the rows of a transaction against how far it has told,
  which the repeated insert of `KnexService.create` can double and nobody else add to.
* `CountsOwn`. A count is at most the rows its employee has, whether they are read
  or not, and those never become fewer, so it may be stored at any time.
* `OnlyOldCountsHarm` is the safety half of `CountsSettle`: while the table stands
  still no call takes a wrong count, and a cached one turns wrong only when a call
  that counted before stores it, once.

`ClothingClaimsProofs` assumes that the markers for absent values are told apart
from numbers, keys and kinds.

* `TypeCorrect` takes along that an approval, and a detail of one, holds one claim for
  an employee (`OncePerApproval`, `OncePerDetail`), so that a copy cannot give two claims
  one key, and that keys in hand are of batches that were there.
* `EarlierDatesKept`. What is in hand and reported was reported by a clerk since; new
  claims, the copies of reported ones included, have keys the job has never seen.
* `AnswersStayOwn`. An answer is a function of the claims of the employee, of the kinds
  of their journeys and of the day (`OthersLeaveAnswer`). Of the day it asks one thing,
  whether the next date of the newest claim has come, and midnight changes that one way
  (`MidnightGrows`).
* `ClaimsImplementLedger` is the refinement of `ClaimLedger`. The job reads a day and
  writes it later, when the employee may be posted elsewhere; a copy writes claims that
  may be gone. Both are one act on what is still held (`days`, `shown`), and the key in
  hand is of one claim at most.
* `ClaimsComeTogether` assumes that no claims are added by hand, which may join those of
  any request. It is proved of the ledger (`LedgerKeepsTogether`) and carried over by the
  refinement: the claims of an approval are of one request and one day.
* `NoneIsPassedOver` is the safety half of `ClaimsGetDated`: what a night lists stays in
  hand until it is dated or gone; the comparison with the day it found
  (`DatesOverdue`) is where a claim could be let go.

`ReportFormsProofs` assumes that a body's expenses are a sequence of inserts or NULL,
and that NULL is no number.

* `TypeCorrect`. `Sound` says what an update holds at each place: the ids in its body
  were given, its traveller and its form are there, what it has yet to do is what
  the body says. `Meetings`: updates in flight together have met.
* `OldRowsAreGone`. `Recent` says for each place which rows have been dealt with.
  Whatever another update writes meanwhile is of one that was met (`Meetings`), so
  only its own steps can disturb it, and between its look at a list and its last
  deletion an old row is one of those still to be deleted or rewritten.
* `SubmittedRowsAreStored`. An update that has met no other is alone, so `Stored` may
  speak of the tables themselves: the rows of the expenses are counted against the
  inserts made so far (`Inserting`), each list against the rows rewritten and created
  (`Saved`), and lists yet to come hold no row of its own (`Untouched`). New rows are
  told from old ones because a body names only ids that were given before.

Only model-checked: liveness (`WaitersAreServed`, `EventuallyCurrent`,
`EveryRequestEnds`, `CountsSettle`, `LiveClientsAreReached`, `ClaimsGetDated`),
since the prover does not reason about fairness. The safety each of them rests on is
proved: `NoCircleOfWaits`, `ReadsSettle`, `StepsOfRequestsRunOut`,
`OnlyOldCountsHarm`, `SilentAreDropped` and `NoneIsPassedOver`, in this order. Every
invariant, every action property and every refinement of a passing run is a theorem.
Induction over numbers is done by least and greatest elements (`LeastNumber`,
`GreatestNumber`), since the induction theorems of the library take an operator as
a parameter; nothing recursive is proved about.

## 6. Not modelled

* Lists and statistics (`findAll`, `getStatistics`, `findAllStatusLabels`): queries
  whose answers are cached under keys no writer deletes. They change nothing else,
  and what they return is the text of their SQL.
* The dependent tables of an approval in detail: they are replaced wholesale under
  the row lock; `ApprovalDetails` has them as versions of sections.
* The two attachment columns of `approval` that a copy shares with its original:
  one deterministic step.
* Sessions: every handler is two or three statements on one row, and nothing else
  writes that row. LDAP: what may still be called back after a timeout is decided
  inside `ldapjs`.
* Files on disk and cached rows of files: nothing compares them with the table.
* The rest of report approval (certificates, meeting and entertainment reports),
  users' reports, disbursements, types and the thirty master-data services: CRUD
  over one table each, without control of its own.
* Data views, application shell, migrations and seeds: no state of their own at run
  time; the constraints the migrations declare (foreign keys, cascades, NOT NULL)
  are in the guards of the models.

The greater part of the repository by lines is of these kinds (a seed of
sub-districts alone has 5,578 lines, DTOs and repositories most of the rest).
