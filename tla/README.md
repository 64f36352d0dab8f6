# Specifications of the PumaPay merchant SDK

The merchant SDK executes *pull payments*: payments a customer has agreed to once
and the merchant then collects on a schedule. A customer's signed terms are
registered with the `PumaPayPullPayment` contract; the SDK, in the merchant's
Node.js process, watches for the registration, schedules the payments, executes
each of them with a transaction to the contract, keeps the merchant's database up
to date and transfers the proceeds to the merchant's treasury ("bank") address.

This directory holds TLA+ specifications of that core, TLC models that check them
on small instances, and TLAPS proofs that hold for every instance.

## 1. The system

| component | source | state | operations |
|---|---|---|---|
| Scheduler | `core/scheduler/Scheduler.ts`, `ScheduleHelper.ts` | `_schedule`, `_interval`, `_restarting` of each scheduler | `start`, `stop`, `restart`, the job's callback, the interval, `executeCallback` |
| SchedulerBuffer | `ScheduleBuffer.ts` | schedulers by pull payment ID, a redis set of the IDs, the redis client captured when the module is loaded | `set`, `get`, `delete`, `sync` |
| ScheduleQueue | `ScheduleQueue.ts` | `executionQueue`, `isExecuting`, pending timers | `queue`, `drip`, `execute` |
| BlockchainController | `core/blockchain/BlockchainController.ts` | none of its own | two transaction monitors, `executePullPayment` |
| Receipt handlers | `BlockchainTxReceiptHandler.ts` | none of their own | `handleRecurringPaymentReceipt`, `handleRecurringPaymentWithInitialReceipt` |
| Cash-out, funding | `CashOutController.ts`, `FundingController.ts` | a gas-fee cache in redis | `cashOutPMA`, `cashOutETH`, `fundPMA`, `fundETH` |
| Contract, token | `contracts/contracts.sol` | pull payments, rates, executors, owner, balances, allowances | register, delete, execute, the owner's functions, ERC-20 |
| Database access | `core/database/`, `utils/datasource/` | pull payment records, transaction rows | reads, inserts, updates |
| Settings, authentication, web requests | `config/default.config.ts`, `core/authentication/`, `utils/web/` | the settings | `build`, `authenticate`, `getRequest`, `postRequest` |
| Key storage | `utils/datasource/DataServiceEncrypted.ts`, `PrivateKeysDbConnector.ts` | none | queries; ends the process when the database is unreachable |
| Encryption, QR code, error texts, deployment | the rest of `src/` | none | computations and formatting |

How they interact. `monitorRegistrationTransaction` creates a scheduler whose
callback calls `executePullPayment`; `monitorCancellationTransaction` stops it.
A scheduler hands a job to node-schedule; the job's callback executes the first
payment and starts a `setInterval` timer for the rest. `SchedulerBuffer` copies the
IDs of its schedulers to redis, and `build()` has `sync()` start one for every ID it
finds there. Before a scheduler is started the monitor funds the merchant's address
with `fundETH`, whose amount depends on the gas of earlier executions, cached in
redis by `calculateMaxExecutionFee`. `restart` hands the
payments missed while the scheduler was stopped to the queue, and schedules a new
job for the rest. `executePullPayment` reads the record, signs a transaction for
the payment's merchant address with the nonce it read, and sends it; web3 calls a
handler for the transaction hash, which creates a row, and one for the receipt,
which updates the record and the row and cashes out. Everything shares the pull
payment records: the schedulers write their status, the receipt handler their
counts and dates, and every write sends the whole record.

What is hard. JavaScript runs a function without interruption only up to its next
`await`; every database or node operation is such a point, and everything a
function read before it may be stale after it. Calls are not serialised, handlers
of web3 events are not awaited, transactions are mined late, reverted or refused,
timers are created and cleared by several parties, a monitor's interval does not
wait for its polls, a failing database pool ends the process with everything in
memory, an async executor hides a rejection, and on the other side the contract has
its own clock and its own counts. `PROJECT.json` lists the hazards
line by line, and what covers each.

What makes each component correct: a scheduler executes every payment and no
payment after it was stopped, however it is restarted; the queue serves
everything, in order, one at a time; the database never forgets a payment the
customer still owes nor claims a transaction did what it did not do; proceeds are
not stranded; a receipt is acted on once, and what was scheduled is scheduled again
after a restart; the ether is there before the scheduler and comes back after a
cancellation or the last payment; the gas cache misses no block; the contract charges what was agreed,
when it was agreed, and not after a cancellation.

## 2. The modules

| module | models | extends / instantiates |
|---|---|---|
| `SerialQueue` | what the queue promises (abstract) | |
| `ScheduleQueue` | `ScheduleQueue.ts` | refines `SerialQueue` |
| `Scheduler` | schedulers, buffer, timers, records, callbacks | extends `ScheduleQueue` |
| `PullPaymentAgreement` | what the contract promises a client (abstract) | |
| `PullPaymentContract` | `PumaPayPullPayment` and the token functions it needs | refines `PullPaymentAgreement` |
| `PullPaymentExecution` | `executePullPayment`, its handlers, cash-out | |
| `SchedulerRecovery` | the redis set, `sync`, the end and the start of the process | |
| `TransactionMonitor` | the two monitors, funding and cash-out around them | extends `SchedulerRecovery` |
| `Funding` | `fundETH`, `calculateMaxExecutionFee`, the private keys | |
| `Session` | settings, `authenticate`, requests | |
| `MCScheduler`, `MCPullPaymentContract`, `MCPullPaymentExecution`, `MCTransactionMonitor` | values for the constants TLC needs | |
| `*_proofs` | the theorems, one module per component | |
| `Scheduler_sequential_proofs` | those about the scheduler when API calls do not overlap | extends `Scheduler_proofs` |

**ScheduleQueue.** `drips` counts the pending `setTimeout(drip)` calls. `Queue` is
a run of `queue()` calls without an `await` in between, `Drip` a timer that finds
work, `Finish` and `Throw` the end of the awaited execution. A `drip()` that finds
the queue busy re-arms itself and is a stuttering step.

**Scheduler.** A *task* is an async call in progress: the function, the segment
that runs next, the database operation it awaits, and the record it holds. A
database operation is two steps (`DbRead`, `DbWrite`, then the segment), so that
others may act between call, effect and answer. One action is one segment:
`StartAdjust`, `StartSchedule`; `StopCancel`, `StopReturn`; `RestartCheck`,
`RestartQueue`, `RestartSchedule`; `JobRunning`, `JobExecute`; `InvokeCallback`,
`CallbackPull`, `LastPaymentMade` and so on. `timers` holds live node-schedule jobs
and intervals. Assumptions on node-schedule 1.3, as `package.json` pins it: a date
that has passed yields `null` and no job, and job names need not be unique.
`paid` is the contract's side of the story, reduced to the number of executions.
`AwaitCallback` selects the callback. `monitorRegistrationTransaction` and `sync`
build one that awaits nothing (`BlockchainController.ts:58-60`); then the execution is a
task of its own (`pay`). Only the tests use one that awaits the recorded payment
(`SchedulerBuffer.testScheduler`). The theorems hold for both.

**PullPaymentContract.** One action per function, guarded by its modifiers and
`require`s; a reverted call is no step. Ether and tokens are small numbers, uint256
arithmetic wraps at `Modulus`. A client's signature is the set `Terms` of what may be
registered. `agreed` and `charged` are history variables the properties need. Time
is the last block's; several calls may share it.

**PullPaymentExecution.** A call of `executePullPayment` is three strands, because
nobody awaits the handlers: `main` up to the receipt or the error, `recording` of
the row, `handling` of the receipt and the cash-outs. `sent` is what became of each
transaction; a node takes one transaction per address at a time, with the next
nonce, while there is ether for gas. External behaviour is taken from how the code
uses it: web3 emits `receipt` for a transaction that succeeded, rejects for a
reverted one, and gives up on one not mined in time, which may still be mined;
`getTransactions` rejects when nothing matches (the code relies on it,
`BlockchainController.ts:139-142`). `amount` is the PMA balance a cash-out read,
`moving` what the transaction it then sent will move; they differ once a handler that
gave up on a cash-out reads the balance again. Each pull payment has a merchant address of its
own.

**SchedulerRecovery.** A scheduler is reduced to its timers: `armed` with a job or an
interval, or `idle`; `orphans` are live timers whose scheduler the buffer no longer
holds. `starting`, `again` and `stopping` count calls in progress of `start()`,
`start(true)` and `stop()`. `Build` and `Exit` start and end the process; between
them `SyncRead` and `SyncFail` are the answers to the reads of `sync()`. `Configured`
says which redis client `ScheduleBuffer.ts:5` captured: the merchant's, if the host
assigned `DefaultConfig.settings` before the module was loaded, or the stub of
`globals.ts:93` if `build()` came later. `restart()` is in `Scheduler` only.

**TransactionMonitor.** `watch` is the timer of a transaction, `polls` counts its polls
per phase: `asked` the node, writing the `row`, in the `fund` transfer, about to `start`
the scheduler. `See` clears the timer, `RowWritten` decides between failed, registered
and cancelled, `FundETH` is the mined transfer and `StartScheduler` what follows its
receipt, so that a crash or a failure falls between the two. `cashPMA` and `cashETH` count
the cash-outs in progress, begun by a cancellation or by the receipt of the last payment
(`ExecuteFunded`). Amounts are left out, but not what they do: each attempt of
`cashOutETH` pays a fifth more than the one before, out of a balance that was read once,
so after some number of failures (`Affordable` counts from the lowest first fee,
`CashPMA` chooses where a cash-out begins) the amount is negative and no attempt
succeeds any more. `PollFails` and `CashOutFails` are a failure, or an answer that never
comes, after the timer was cleared. `overlapped` remembers which transactions had two
polls at the node at once. A transaction may be monitored again, also after it was acted
on and after a crash, once the monitoring before has ended (`Watch`): so a monitor's
`start()` meets one of `sync`. Environment: a registration that failed cannot be cancelled.

**Funding.** A call of `fundETH` or `executePullPayment` steps from await to await;
`maxFee` and `lastBlock` are the two redis keys, which all contracts share, `chain`
the gas of the executions per block. `stale` marks a call that has read a maximum
another call has changed since. `Answer` is what `executeQueryAsPromise` makes of a
query's result. `Hang` is a failure inside the async executor.

**Session.** `stored` holds the settings; `Settings` is the getter, `Merge` the setter,
`Assign` an assignment to what the getter returns.

## 3. The runs

Bounds are named in the modules (`MaxTasks`, `MaxTime`, `LastCall`, `MaxStops`,
`MaxRestarts`, `QueueLimit`, `Burst`, `MaxExecutions`, `MaxOverlap`, `MaxEther`,
`MaxStarts`, `MaxCrashes`, `MaxFaults`, `MaxPolls`, `MaxWatches`, `Affordable`,
`MaxHeight`).

| run | instance | shows | states |
|---|---|---|---|
| `ScheduleQueue` | 2 payments, queue of 5 | one timer per entry, no overlap, refinement of `SerialQueue` with liveness | 189 |
| `Scheduler_stop_restart` | 1 pull payment of 2, 2 stops, 2 restarts, the SDK's own callback, API calls one after the other | start window, everything collected, never two timers, stopped means no timer, a stop is undone once, queue drains, database and chain agree up to the first restart, only the merchant's stop takes done back | 19,100 |
| `Scheduler_concurrent` | 1 pull payment of 2, 1 stop, 2 restarts, all interleaved, callbacks may reject | no payment forgotten, restarts exclude each other | 1.5 M |
| `Contract` | 1 pair, 2 terms, 2 payment IDs, ether and tokens that run out | schedule, charges, dates, funding, refinement of `PullPaymentAgreement` | 253,416 |
| `Execution` | 3 calls, 2 overlapping, of a pull payment with an initial payment and cash-out after each, or of one whose frequency skips the last cash-out | record never behind, rows truthful, done for good, ether to the end, tokens stranded only by the skip | 2.2 M |
| `Funding` | 2 calls, 1 contract, gas 0, 2 or 3 for a default of 1, 2 blocks, 1 failure | no block skipped, gas remembered, every call ends | 271,272 |
| `Monitor` | 1 pull payment of 2, its registration monitored twice, its cancellation with 2 polls at a time, 1 crash, 1 fault, failing transfers | handled once, redis covers the buffer, ether before and after, scheduling, recovery | 209,522 |

Why the bounds suffice. Two payments are the least for which a first (job) and a
later (interval) execution differ, and the least of which one can be missed while
another is left. Three tasks let a stop or a restart meet a
job whose callback is in progress. Pull payments share nothing in the scheduler but the
queue, which has a run with two of its own; those of the run `Execution` share nothing
at all, so that `OneAtATime` keeps it to executions of one or the other. Times
reach past the last payment date. `Prompt = TRUE` makes all runs assume that a
second's work ends within the second; without that the code has little to promise
(a payment executed in a later second than it was due shifts nothing on chain but
lets timers pile up), and the theorems of `Scheduler_proofs` do not assume it. Two calls
are the least for which one overwrites what the other has cached, and two polls the
least that overlap; a registration monitored twice is the least for which its second
`start()` meets the scheduler of the first, in the buffer or in redis; one crash is
enough for a timer, an ID or a record to be lost, and each is lost in some state. The theorems of section 5 have no such bounds. Three
executions, two of which overlap, are the least for which an initial payment can be
mistaken while a regular one is recorded. Deadlock is not checked where the system
really stops: at `MaxTime`, or when every call has been made and is over.

Fairness. A task whose database operation is answered is resumed by the event loop,
the database answers, due timers fire and time passes (`Fairness` in `Scheduler`).
Nobody is obliged to call the API. In `PullPaymentExecution` every strand goes on
when its operation has ended and transactions that were sent are mined; failures,
late blocks and calls are never obliged. In `TransactionMonitor` the node, the
database and redis answer what they were asked, and an interval that is set goes on
firing (`MonitorFairness`); nobody is obliged to start the process, to mine a
transaction, to fail or to crash, a transfer of `cashOutETH` may succeed or fail each
time (`TransferETH`), and the liveness properties say what holds unless
something fails. In `Funding` every operation is answered, also by a failure; that a
call may hang is one of the ends `CallsEnd` allows. In `ScheduleQueue` an execution returns, a
premise the run names by `MayThrow = FALSE`: an execution that throws stops the
queue for good (`ScheduleQueue.ts:43`), which `Throw` models and the theorems cover.

Each property has a mutant: a small, plausible bug in one definition (`QueueRearms`,
`DripUnguarded`, `AfterCancelJob`, `ValidWhenDue`, ...) under which TLC finds it
violated. The mutants stand next to the definitions they change and are used by no
specification.

## 4. Where the code disagrees with its own documentation

Five runs expect a violation; each counterexample is a disagreement.

- `Scheduler_restart_count`: the tests of `restart` expect that every payment is counted,
  missed or not, yet the write at `Scheduler.ts:81` undoes the record of a missed payment
  that was executed since `restart` read it. The contract is through and the database says
  that a payment is left, so that the pull payment is never done and its scheduler never
  deleted.
- `Execution_rows`: rows that should become `success` "otherwise `failed`" stay
  `pending` (`BlockchainController.ts:171`).
- `Recovery_redis`: redis "is used for storing information related to the PullPayment
  account address that will be executing the PullPayment" (README), yet the client is
  captured before `build()` receives it (`ScheduleBuffer.ts:5`): nothing is stored, and
  a restart recovers nothing. The run `Monitor` takes `Configured = TRUE`, the other
  way to load the SDK, to check what the recovery then does.
- `Monitor_unsettled`: the promise of a registration that failed on the chain is neither
  resolved nor rejected (`BlockchainController.ts:63`).
- `Session_authenticate`: the token is assigned to a temporary object, and a login the
  server accepts is rejected (`AuthenticationController.ts:102`).

Others follow from the same specifications with other constants:

- the README's "Stops a running scheduler" fails when `stop` comes while the job's
  callback awaits; the interval is created afterwards (`Scheduler.ts:108`): `StopStops`
  under `Spec`, where calls overlap;
- "should restart only once even if called multiple times" (a test) fails when the
  second call resumes after the first is over (`Scheduler.ts:66`): `RestartedOnce` with
  two overlapping restarts. `RestartIsExclusive` holds: the flag does exclude, but the
  status it guards is stale;
- "Payment is done, time to cash out." moves no tokens when the cash-out frequency does
  not divide the number of payments (`CashOutController.ts:23`), and the ether that could
  move them later goes all the same. The run `Execution` has such a frequency, and
  `StrandedOnlyBySkip` names it as the one way tokens are stranded;
- with the SDK's callback the scheduler of a pull payment that is done is still in the
  buffer, so that the merchant's `stop()` takes done back (`Scheduler.ts:49`):
  `DoneUntilStopped` names that `stop()` as the one way.

Some properties except a case because the code has it, and no text promises otherwise.
The exception says what happens; the property, that nothing else does:

| hazard | property | what is excepted |
|---|---|---|
| a start moved into the next second is lost if scheduling takes longer (`ScheduleHelper.ts:20`) | `StartWithinWindowPays` | the run assumes `Prompt` |
| a crash or a failed read between `srem` and `sadd` (`ScheduleBuffer.ts:46`) | `BufferCatchesUp` | `faults`, a process that ended |
| an unreadable record takes an ID out of redis (`ScheduleBuffer.ts:73`) | `RedisCoversBuffer` | `dropped` |
| two polls that overlap fund twice and start two schedulers (`BlockchainController.ts:34`) | `HandledOnce` | `overlapped` |
| a failure after the timer was cleared loses the registration (`:38`) | `RegistrationIsScheduled` | `faults` |
| a stale maximum is written over a larger one (`FundingController.ts:139`) | `GasRemembered` | a stale write |
| a failure in the async executor hangs the call (`FundingController.ts:125`) | `CallsEnd` | `hung` is an end |
| the fee of a failing cash-out outgrows the address (`CashOutController.ts:40`) | `EtherReturns` | the last attempt was reached |

Hazards only: the interval that the job starts after the last payment is never cleared
(`Scheduler.ts:108`), and does nothing but poll; a running pull payment recovered from
redis has a start date in the past and gets no timer (`ScheduleBuffer.ts:51`), so that
`BufferCatchesUp` speaks of start dates to come, and a scheduler without a timer counts
as scheduled in `RegistrationIsScheduled`; the monitor of a cancellation returns `true`
at once, where the README promises the receipt.

## 5. What is proved

All theorems hold for every value of the constants that satisfies the named
assumptions (`QueueAssumption`, `SchedulerAssumption`, `ContractAssumption`,
`ExecutionAssumption`, `FundingAssumption`, `RecoveryAssumption`, `MonitorAssumption`):
any number of pull payments, tasks, calls, polls, crashes and terms.

**Queue** (`ScheduleQueue_proofs`). `QueueInv` adds to the types that the number of
timers is the length of the queue and that the flag is up while an execution is
awaited. From it: `DripsAlwaysMatchQueue`, `ExecutionsNeverOverlap`, and
`ImplementsSerialQueueSafely`: while nothing throws every step is a step of
`SerialQueue` or a stutter.

**Scheduler** (`Scheduler_proofs`). No record claims fewer payments than the contract
still allows. That is not inductive: calls in progress hold copies of records and
write them back. `SchedulerInv` therefore says of every task that the copy it may
write *covers* the payments made (`numberOfPayments + paid >= NumberOfPayments`),
and what can be at which segment (`WellFormed`). The copies only age, `paid` only
grows when a copy that counted the payment is decremented with it, and the contract
stops at the last payment; so `PaymentsAreNeverForgotten`, with `TypesAlwaysOK` (no
count below zero). `RestartsExcludeEachOther` follows from following the flag
through the segments of `restart`, and `SchedulerDripsMatchQueue` carries the
queue's invariant over to the composed system, from which
`SchedulerExecutionsNeverOverlap` follows for every bound of the queue.

**Scheduler, used sequentially** (`Scheduler_sequential_proofs`). With API calls that do
not overlap what is in progress (`SequentialSpec`) and `Prompt`, the scheduler promises
more. Whatever will make a timer (a `start`, a `restart` past its check, a job whose
body has yet to set the interval) is a *maker*; `SequentialInv` says that a pull payment
has one maker or one timer at most, that a call of the API that changes anything is
alone, and that a record says `stopped` only where there is neither. Hence
`OneTimerAlways`, `StopAlwaysStops` and `RestartedOnceAlways`, for both callbacks.

**Contract** (`PullPaymentContract_proofs`). `PaymentInv` ties one struct to the terms
agreed, the cents charged and the clock: number of payments, next date and last
date all follow from the number of regular payments made. It is kept by each
function, and yields `PaymentsStayOnSchedule`, `ClientsChargedAsAgreed`,
`PaymentsNeverEarly`; `CallersAlwaysFunded` is an action property;
`ContractKeepsAgreement` is the refinement of `PullPaymentAgreement`, for terms whose
dates fit a uint256 (`Fits`). Without that premise the refinement is false: the next
date is added without SafeMath.

**Execution** (`PullPaymentExecution_proofs`). `RecordNeverBehind` needs counting. A
receipt taken for the regular payment writes the record the call began with, less
one. `Counted(id)` are the calls whose receipt was taken for a regular payment; the
first receipt looked at is always taken for the initial one where there is one, so
their number is at most the number of regular payments the contract has made, and
every record and every copy a call holds is at least the number registered less the
calls counted (`RecordCounts`). `ExecutionInv` conjoins that with what the three
strands of a call may be at (`CallsOK`), and yields `RecordIsNeverBehind`,
`RowsAlwaysTellTruth` and `ExecutionTypesAlwaysOK`.

`Written(id)` are the calls of `Counted(id)` that have also written the record.
`WrittenCounts`, the same bound with `Written`, is kept by every step
(`WrittenInvariant`): handlers overwrite each other's records, but no copy claims less
than what was written when it was read. So when a record says that no payment is left,
as many calls have written as there are regular payments. No more can have been counted,
hence all of them have written (`EnoughWritten`): the contract is through with the pull
payment, and no handler is left that would write the record again (`DoneStaysDone`). For
the cash-out at the end of the payment's life `CashOutInv` adds that it begins only
then, that the balance it reads bounds the tokens from then on, and that the ether goes
only after the tokens unless the frequency skips them. It holds for any cash-out
settings, and yields `EtherAlwaysLasts` (an address without ether has no payment left)
and `TokensStrandedOnlyBySkip`.

**Funding** (`Funding_proofs`). `NoBlockSkipped` speaks of redis, but a call writes to
it what it read awaits before. `FundingInv` therefore says what every call in progress
*knows* (`Knows`): the blocks before the one it starts from were searched, the height it
was told is one the chain has, and its maximum, unless stale, is the one in redis. What
was searched stays searched, so this survives the steps of other calls, and a call that
writes the height has just searched the rest: `FundingSkipsNoBlock`. A call that is not
stale never lowers the maximum: `FundingRemembersGas`, and `FundingTypes`.

**Recovery** (`SchedulerRecovery_proofs`). `RedisCoversBuffer` is inductive with the
types: `set` adds the ID with the scheduler, `delete` removes both, and the two removals
of `sync` either find no scheduler or are remembered as `dropped` (`RecoveryCovers`).

**Monitor** (`TransactionMonitor_proofs`). `HandledOnce` needs a ledger: for a
transaction without overlapping polls, the times it was handled, the polls past the node
and the timer or poll that is still to see the receipt add up to the times it was
monitored at most (`Ledger`): `MonitorHandlesOnce`. For `MonitorFundsFirst`, `Funds` says
that while payments are left and no cancellation has been acted on, what is live (a call
of `start`, a timer, an ID in redis), or is a poll about to start the scheduler, has
ether, and that no cash-out is in progress: one begins only with the last payment or with
a cancellation. It is kept by every step of `SchedulerRecovery`, through redis and a restart.
`MonitorTypes` and `MonitorCovers` carry types and redis over from the recovery.

Only model-checked is what is about liveness, as the prover does not handle fairness:
`StartWithinWindowPays`, `QueueDrains`, `AllPaymentsCollected`,
`CallsEnd`, `RegistrationIsScheduled`, `EtherReturns`, `BufferCatchesUp`, and the
fairness of `SerialQueue` in `ImplementsSerialQueue`; and two properties of the
scheduler, `LedgersAgree` and `DoneUntilStopped`, which no theorem states. Every other
property of a passing run is the statement of a theorem.

## 6. Abstractions, and what is not modelled

- In `Scheduler` and `PullPaymentExecution` database operations succeed, and a read
  finds its record; failing reads, failing writes and the end of the process are in
  `SchedulerRecovery`, `TransactionMonitor` and `Funding`. Every caller makes a
  `DataService` of its own per query, so its pool is not modelled.
- Clocks count whole seconds; the 10 ms between two drips is no time at all.
  `ScheduleHelper.ts:18-19` compares the start with a time that is not rounded, so that
  a start in the very second, or at the very end of the window, is decided up to a second
  earlier or later than in `StartAdjust`.
- Dates other than the next payment's and the start are left out of the records, as
  are the fields of the payment model but the cash-out settings.
- In the scheduler, `executePullPayment` is its outcome (one step between reading
  and writing the record); in `PullPaymentExecution` it is the subject, and the
  schedule is nothing but `due`.
- The client signs a deletion whenever an executor wants one; signatures are not
  computed.
- `SchedulerRecovery` takes a live timer as one step; what happens between the awaits
  of a job is in `Scheduler`. The half hour in which a past start date is moved, and the
  payments that fall due while no process runs, are the choice in `Start` and the
  `idle` scheduler.
- In `Funding` redis answers in order on one connection, and the two writes at
  `FundingController.ts:160-161`, sent in one tick, take effect together; the receipts of
  the logs (`:153-158`) are read in the same step, and the node has a receipt for a log it
  has just returned. The logs are those of one contract. The code filters them by the
  address it was given (`:15`, `:146-147`) but keeps one height for all (`:160`): where
  `fundETH` is called for two contracts, a block searched for one counts as searched for
  the other. `Searched` has no contract in it, so `NoBlockSkipped` does not show that.
  Amounts of ether and the multiplier are left out.
- Two assumptions on what is external decide branches in `PullPaymentExecution`. web3
  rejects for a transaction that was reverted, so that the branches for a receipt without
  status (`BlockchainTxReceiptHandler.ts:22-24`, `:53-54`) are not taken. `getTransactions`
  rejects when nothing matches: `BlockchainController.ts:139-142` takes the catch for "no
  initial payment yet", although `DataService.ts:34-38` resolves with status 204 for an
  empty result; were that what happens, every receipt of a pull payment with an initial
  payment would be taken for a regular one.
- The initial or single payment, executed by the monitor, is a call of
  `executePullPayment`, whose specification is `PullPaymentExecution`; the composition of
  the two is not checked. In `TransactionMonitor` the cash-out after the last payment
  sends the tokens; that a frequency may skip them is in `PullPaymentExecution`. The receipt of
  `fundETH` is that of a transfer that succeeded, for a registration that is valid
  (`BlockchainController.ts:51`).
- Any ether balance that pays for one transaction pays for all until `cashOutETH`.
- Token functions no pull payment needs (minting, the transfer lock, changes of an
  allowance by increments) are left out.
- `EncryptionController` computes, `dbErrorHelper` is a table of texts, the QR code
  formats one object, and the deployment scripts run before any of this: they keep no
  state. The construction of web requests and answers is formatting, too.

## 7. What is left

The plan was: queue, scheduler, contract and execution with their proofs; then the
recovery from redis, the monitors, the gas cache and the session with theirs. All of it
is done. What could follow:

1. `Scheduler` with reads that fail or find no record, and composed with
   `SchedulerRecovery`, whose timers it refines.
2. `TransactionMonitor` composed with `PullPaymentExecution`: the initial payment and the
   nonces of the cash-outs.
3. `Funding` with the contracts as a constant, one height for all of them.
4. Theorems: that `LedgersAgree` holds of every pull payment until it is restarted; that
   `Scheduler`, with executions that do not throw, implements
   `SerialQueue`, which needs that the queue never waits for a scheduler the buffer no
   longer holds.
