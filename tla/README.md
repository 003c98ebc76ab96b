# postgres-cpp-lib in TLA+

A TLA+ development of the client library: modules that model its threads, its
connection pool, what a statement and a transaction go through, the migration
parser and the binary form of numbers; two abstract specifications of what the
client and the pool promise; TLC runs on small instances, and TLAPS proofs for
instances of any size. Paths are relative to the repository (`src/...`).

## The system

| Part | Code | State | Operations |
|---|---|---|---|
| `postgres_client`, its threads | `src/postgres_priv.cpp` 10-171, `src/postgres_pub.cpp` 28-67, `include/database/postgres_client.h` | `m_requests` under `m_mutex`/`m_cv`; `m_cb_queue` under `m_cb_mutex`/`m_cb_cv`; `m_idle_cb_workers` (atomic, read without the mutex); `m_overflow_cb_threads` under `m_temp_cb_mutex`; the worker's jthread and the callback workers' | `connect`, `execute`, `execute_async`, `QueryWorker`, `CallbackWorker`, `PostCallback`, `~postgres_client` |
| Query execution | `src/postgres_priv.cpp` 173-337 | the `PGconn`: connected or not, a statement in flight or not | `ExecuteWithRetry`, `ExecuteQuery`, `AttemptReconnect`, `CheckForPollOut`, `CheckForPollIn`, `ConsumeResult` |
| `transaction` | `include/database/transaction.h`, `src/transaction.cpp`, `create_transaction` in `src/postgres_pub.cpp` | `m_state`, `m_executor` under `m_mutex` | `execute`, `execute_async`, `commit`, `rollback`, destructor, move constructor |
| `ConnectionPool`, `ConnectionManager` | `dependencies/core/include/database/connection_pool_impl.h`, `connection_manager.h` | `m_connections` under `m_mutex`, the semaphore `m_capacity`, `m_pool_ready`, `m_capacity_expanded`, `m_threads` | constructor, `fill_pool`, `wait_for_warmup`, `acquire`, the releaser of `wrap_connection`, manager moves, destructor |
| `intrusive_ptr`, `ref_counted` | `dependencies/core/include/core/memory/intrusive_ptr.h` | the reference count | copy, move, destruction, `decrement_ref` |
| `ConnectionFactory` | `connection_factory.h` | a map of creators under a `shared_mutex` | register, `create_connection` |
| `Migrate`, `ParseStatements` | `include/database/migrations.h`, `internal/sql_parser.h` | local | split a file into statements, execute them in order until one fails |
| Parameter encoding | `internal/type_detail.h` | none | `NormalizeIntegral`, `EncodeNumericUint64`, `ToBinary`, `MakePgParamBuffer` |
| Result decoding | `include/database/result/*.h` | none | typed access to columns |

How they interact. An application thread acquires a `ConnectionManager` from the
pool; the manager's releaser holds a reference to the pool and gives the
connection and a permit back when the manager dies. Through the manager it
calls `execute` or `execute_async`, which push a request on `m_requests`. The
worker thread pops requests one by one, executes each in the client's single
server session and either fulfils a future itself (`execute`) or posts a
callback (`execute_async`) to the callback workers, or to a new overflow thread
when none of them is idle. A `transaction` is a thin object in front of the same
queue: it sends BEGIN, statements and COMMIT or ROLLBACK as requests, and
nothing but their order ties them together. The worker's retry replaces the
session under all of them.

What is hard: wakeups of condition variables against stale reads of the idle
counter; the destructor's stop requests against threads about to wait;
callbacks that execute statements of the same client; a semaphore and a queue
that are updated in separate steps; the last reference dropped on any thread;
statements racing COMMIT; reconnection and retry inside a transaction; timeouts
that leave a statement in flight. `PROJECT.json` lists each hazard at its line,
with the properties aimed at it.

What makes each part correct:

* client threads: each request is in one place and answered once; no sleeping
  over work; destruction waits for every thread; each request is answered;
* execution: a request is answered with its own result; two attempts at most; a
  repeated execution, and one that is reported rejected all the same, only after
  a broken link;
* transactions: nothing behind COMMIT or ROLLBACK; atomic when nothing fails; no
  server transaction left behind for the next user;
* pool: a connection has one owner; permits are not lost and cover the idle
  connections; the pool outlives its use; warm-up ends;
* migrations: the statements are the file without its comments; nothing behind
  a failure runs; success means the whole file, or, for a file with transactions
  of its own, the whole file unless a link broke;
* data: what is written to the column meant for its type reads back; a number
  that fits the type it is read as is read exactly, and nothing is returned for
  NULL, columns of another kind and NUMERICs with a sign. Numbers that do not fit
  are cut to the width of the type, which the properties state and do not excuse.

## Modules

| Module | What it is |
|---|---|
| `RequestService` | what a client promises its callers; refined by `ClientRuntime` and `TransactionSession` |
| `ConnectionLending` | what a pool promises its users; refined by `ConnectionPool` |
| `ClientRuntime`, `ConnectionPool`, `TransactionSession` | threads and queues; the pool; one connection with its retries |
| `Migration`, `Values` | a migration file from its text to the server; one value from C++ to a column and back |
| `MCClientRuntime`, `MCConnectionPool`, `MCTransactionSession`, `MCValues`, `MCData` | instances for TLC |
| `...Proofs`, `TransactionSessionOutcomes`, `ValuesReads` | theorems |
| `Induction` | induction over numbers, and functions defined by it, for the proofs |

### ClientRuntime

One action per access to shared state. `workerPc` and `cbPc` say where the
worker and each callback worker are; a thread holds a mutex exactly in the
states `MutexFree` and `CbMutexFree` exclude, and waits on a condition variable
in state `parked`, entered from `parking` (predicate evaluated, not yet
blocked). `phase[r]` follows a request; `Awaits[r]` is what the callback of `r`
executes and waits for.

| Code | Actions |
|---|---|
| `SendToWorker`, `EnqueueAsync` | `Submit`, `CallbackSubmits` (`Push`, `NotifyWorker`) |
| `QueryWorker` | `WorkerTop`, `WorkerTake`, `WorkerBeginsDrain`, `WorkerParks`, `WaitTimesOut`, `SpuriousWake`, `WorkerLeavesForHeartbeat`, `WorkerBeats`, `WorkerExecutes`, `WorkerDrainsNext`, `WorkerEndsDrain` |
| `PostCallback` | `PostReadsIdle`, `PostQueues`, `PostSpawns` |
| `CallbackWorker` | `CbEnters`, `CbTakes`, `CbExits`, `CbFindsNothing`, `CbParks`, `CbWakes`, `CbSpuriousWake`, `CallbackReturns` |
| `connect`, `~postgres_client` | `Connect`; `RequestWorkerStop` to `DestroyMembers`, one action per statement; `RequestCbStop` asks one callback worker at a time, as the loop does, and goes on when all are asked |

`ExecuteWithRetry` is one step here: the control that follows it is the same for
a table and an error. A push and its `notify_one` are one step: a waiter stays
parked until the notify, and a notify that finds nobody is lost either way.

### ConnectionPool

Users with a pointer to the pool, and one warm-up thread per `init_size`. Each
critical section of `m_mutex`, semaphore operation and change of the reference
count is an action: `Acquire`, `FastPath`/`FindsNone`, `TakePermit`/`TimesOut`,
`RecheckFinds`/`ReturnSpare`, `RecheckFindsNone`, `CreateSucceeds`/`CreateFails`,
`Refund` are `acquire()`; `BeginReturn`, `PushBack`, `ReleasePermit`,
`DropReleaser` the destruction of a manager; `MoveManager` its move assignment;
`DropPool`, `CopyPool` and `MovePool` the
operations of `intrusive_ptr` on a user's pointer; `Fill...` is `fill_pool()`;
`WaitForWarmup`, `SeesReady`, `JoinWarmup` is `wait_for_warmup()`; `StopFiller`
and `Delete` the destructor with the jthreads' stop and join. The factory is
external: it makes a new connection or fails.

### TransactionSession

Transaction objects, the FIFO, the worker inside `ExecuteWithRetry`, libpq and
the server's session. `call[t]` is the owner of a transaction object
(`create_transaction`, `commit`/`rollback`/destructor: mark, send, wait);
`ExecuteLocks` and `ExecuteSends` are `execute()` with `m_mutex` held in between
(`holder`). `Take`, `CheckConnected`, `ResetSucceeds`/`ResetFails`,
`NoSocket`/`SendRefused`/`SendAccepted`, `PollFails`, `LossSeen`, `Consume` and
`ConsumeLoses` are the worker; `Server...` and `Lose` are external. A link that
breaks before the results are read is `LossSeen`, which retries; one that breaks
in the loop over the results is `ConsumeLoses`, which does not: the statement is
answered `QueryFailed` whatever the server has done. The server rejects the
statements of `Failing`, those of a failed transaction and, if it likes, any that
it has executed before (the retry meets its own row); it may refuse a COMMIT
(`ServerRefusesCommit`), which ends the transaction. So a caller may be told
`QueryFailed` of a statement that took effect, and `AnswersTrue` says when: only
if a link broke. `status` is what `is_connected()`
sees, `busy` libpq's refusal to send while a result is outstanding, `session`
the truth at the server. Statements are names; the server keeps those done in
the open transaction (`pending`), how often each was committed (`durable`) and
executed (`ran`). When the client resets a connection, a statement of the old
session that the server has not begun is dropped; one it has executed before is
the other interleaving.

### RequestService and ConnectionLending

`RequestService`: requests are executed one at a time in the order of their
submission, each is answered at most once, callbacks are delivered after the
execution, each once and in any order, and nothing is dropped before the client
is gone. `ClientRuntime` implements it with `backlog` as
`pending \o m_requests` (the drain takes requests out of the queue in front of
the rest), `executing` as the worker's `item`, `delivering` and `answered` as
sets of phases. `TransactionSession` implements it with `backlog` as
`m_requests` and `executing` as `item` unless it is a heartbeat. Each of the two
leaves out what the other models: the first does not look into an execution,
the second not into the threads around it, and `RequestService` is the interface
at which they meet. The property is `ServesInOrder` in both.

`ConnectionLending`: a connection is idle or lent to one user, comes back to the
end of the idle queue and is lent from its front, and the pool closes when none
is out. `ConnectionPool` implements it (`LendsExclusively`) with `m_connections`
as the idle queue, `conn` as what is lent and `alive` as open. A connection that
a warm-up thread has made is fresh until it is queued.

### Migration

| Code | Actions |
|---|---|
| `ParseStatements`, its loop | `LineComment`, `BlockComment`, `Literal`, `Whitespace` (`push_space`), `CloseParen`, `Separator` (`Flush`), `Other`: one per branch; `ParseEnd` the flush behind it |
| `Migrate` | `OpenFile`, `Acquire`, `Execute`, `Succeeds`, `FailsWith`, `AllExecuted`, `Return` |
| `ExecuteWithRetry`, `ExecuteQuery` and what they call | `Send`, `SeesLoss` with `Retries`, `Reconnects`/`ReconnectFails`, `SocketFails`, `ReadsResult`, `LosesResult` |
| the heartbeat between two statements | `BeatReconnects` |

A character of a statement is its position in the file, so the properties can
say which characters were kept, in which order and what stood between them. The
reference `ReadIn` reads the file as SQL, character by character, and knows
nothing of the parser: `TextKept` and `Normalised` compare the two. They speak of
the set of the positions in the statements, of their order, and of what the file
has between two of them, so they ask nothing of how a statement was put together.

What a statement is (plain, BEGIN, COMMIT or ROLLBACK) is chosen when it is sent
(`kinds`). `execute()` is that of `TransactionSession` with one caller: the link
may break at any point, the result may come through or be lost, the one retry
goes to a new session in which no transaction is open, and a poll that fails
answers the statement while the server may still execute it. The server and the
link are external (`ServerRuns`, `ServerEnds`, `ServerRejects`, `Lose`). The
acquired connection may be broken already; a transaction that an earlier user has
left open on it is not modelled. `durable`, `pending` and `undone` are the
statements that took effect, wait for the file's COMMIT, or went with the
transaction they were in.

`CompleteOrError` states a limit that a reader should know of: when a link breaks
inside a transaction that the file has opened, `execute()` repeats the statement
at hand in a new session and succeeds; what the transaction had done is gone, the
file's COMMIT is only a warning, and `Migrate` reports success. Files without
transactions of their own are complete whenever success is reported, whatever
broke.

### Values

| Code | Actions |
|---|---|
| `NormalizeIntegral`, `EncodeFixed`, `ToBinary` | `ToBinaryInteger`, `ToBinaryTimestamp`, `ToBinaryNull` |
| `EncodeNumericUint64` | `EncodeZero`, `BeginDigits`, `SplitDigit`, `SplitEnds`, `StripZero`, `EncodeNumericUint64`: its loops step by step |
| the server's receive functions (external) | `BindFixed`, `BindNull`, `BindNumeric`, `Reject` |
| `as<T>` with `ReadBigEndian` | `AsNothing`, `AsInteger`, `AsTimestamp`, `AsNumeric`, `ReadDigit`, `ReadElided`, `NumericEnds` |

A value travels as words of 16 bits; casts wrap at the width of their type.
`ToNetworkOrder` is taken as it is on a little-endian host (on another it has no
return statement).
A parameter carries no type, so the server takes it for any column whose format
its bytes have: `NothingMisread` says for which columns that goes well. A
behaviour may also begin with a column that another program has filled, and
`DecodesExactly` says what `as<T>` makes of every such column: nothing for NULL, for
a column of another kind and for a NUMERIC with a sign (negative, NaN, infinite),
and only for these; otherwise the number that it reads, cut to the width of `T`,
where the groups of a fraction are read on as if they were in front of the point.
The number of the column, exactly, is what follows when it is integral and fits.
Times beyond the clock's range overflow, which is undefined, and are left open.
`quot` is a history variable: the values of `v` that the digits were taken from.

Operators marked "Seeded fault" are plausible mistakes in the code. The
specifications do not use them; substituting one for the operator it imitates
makes the property it is listed with in `PROJECT.json` fail.

## Runs

| Run | Shows |
|---|---|
| `RuntimeSafety` | `TypeOK`, `WakeupsCoverWork`, `HeldOnce`, `DestructionSafe`, `IInv`, `ServesInOrder`: four requests, the callbacks of two execute the other two; two callback workers; heartbeat on; destruction at any moment |
| `RuntimeProgress` | `EveryRequestAnswered`, `ShutdownCompletes`: without heartbeat, with two callback workers and callbacks that wait for asynchronous statements whose own callbacks then need an overflow thread. A client that lives on answers everything; the destructor returns except in the two situations `NotifyLost` and `Stranded`, and there is no third way to hang |
| `RuntimeLostWakeup` (violation) | `WorkerStops`: a stop between predicate and wait is missed and `join()` hangs |
| `RuntimeUnposted` (violation) | `PendingCallbacksPosted`: a stop while the worker executes makes it skip the drain |
| `PoolLending` | `TypeOK`, `RefCount`, `PoolOutlivesUse`, `SingleOwner`, `NoStrandedConnection`, `IInv`, `PermitsNeverLeak`, `WarmupFills`, `LendsExclusively`: three users and two warm-up threads, which fill the pool when they are left to themselves |
| `PoolProgress` | `AcquireServed`: with one permit, without deadline and with a failing factory, a caller that waits for the other's return, or for the permit of a creation that failed, gets it, during the warm-up too; `WarmupCompletes`: `wait_for_warmup()` returns if nobody acquires before the pool is ready |
| `PoolOvershoot` (violation) | `MaxSizeRespected`: the fast path takes no permit while each return releases one, so a pool of one lends two |
| `SessionShared` | `TypeOK`, `FinishIsLast`, `NoStaleResult`, `AnswersTrue`, `RetryOnlyAfterLoss`, `SessionLeftClean`, `IInv`, `ServesInOrder`: two transactions and a plain statement share a client, with a rejected statement, a broken link, a retry that may be rejected, and a timeout |
| `SessionAtomic` | `Atomic`, `EverySentAnswered`: two transactions in turns, a rejected statement, a COMMIT that may be refused, the heartbeat in between, a broken link or failed reconnection and a timeout |
| `SessionRollback` (violation) | `RollbackUndoes`: the retry moves a statement out of its transaction |
| `DataPaths` | of `Values`: `TypeOK`, `ReadsBack`, `NumericReadsBack`, `NothingMisread`, `DecodesExactly`, `IInv`; of `Migration`: `FileTypeOK`, `TextKept`, `Normalised`, and, for files of up to four statements of every kind on a connection that breaks up to twice, `NeverSkips`, `CompleteOrError` |
| `NumericZero` (violation) | `ZeroIsANumeric`: the encoding of `uint64_t{0}` is no NUMERIC |

`CHECK_DEADLOCK FALSE` is set everywhere: the systems stop when the client or
the pool is destroyed, when every statement has been answered, a migration has
returned or a value was read.

### Bounds

* `Request`, `Async`, `Awaits`, `CbWorker`: four requests reach every way a
  result is delivered (future, callback worker, overflow thread, drain) with a
  callback blocked meanwhile; two callback workers are the default of the
  constructor and the least with which one can steal the task of another.
* `User`, `Filler`, `Conn`, `MaxCalls`, `MaxFailures`: three users are needed for
  a return, a fast path and a waiting caller at once; two fillers race the users
  for permits and each other for `is_full`. `Conn` exceeds the connections that
  can live at once, so the factory never fails for want of a name. `PoolProgress`
  has one permit and four calls of two users: with fewer calls, or a second
  permit, nobody would ever depend on the permit of another's return, which is
  what `AcquireServed` is about. Its single warm-up thread keeps it small; the
  race of two is `WarmupFills` in `PoolLending`.
* `Txn`, `Stmt`, `MaxLosses`, `MaxTimeouts`, `MaxBeats`: one broken link and one
  timeout in every order reach both attempts, the refused send after a timeout
  and the reset. The queue is bounded by the requests that exist.
* `Byte`, `Base`, `Ticks`, `Epoch`: four values to a byte make 16 to a word and
  65536 to 64 bits; base 10 needs five digits for them, as base 10000 needs five
  for the real ones, so overflow, elided zeros and the largest value come out as
  they do in the code. `Edges` holds both sides of the limit of every type,
  `Stored` NUMERICs with fractions, elided digits, signs, NaN and values above
  the largest `uint64_t`. The theorems hold for every scale.
* `Kinds`, `MaxLosses` of `Migration`: four statements hold a transaction with a
  statement in it and one in front or behind; two broken links end both attempts
  of a statement or hit two statements. They apply to the files of `Scripts`; the
  others are there for the parser, with plain statements and a link that stands
  (`Simple`).
* `Texts`: all texts of three characters over the ten that the parser tells
  apart, all of five or six over the alphabets of literals, of either comment
  and of parentheses; the longest look-ahead of the parser is two characters.

In `DataPaths` a behaviour takes one of the two paths while the other rests:
they share no state, so their product would show nothing more.

Callback workers (`RuntimeSafety`), users and warm-up threads (`PoolLending`) and
transactions with their statements (`SessionShared`) are declared symmetric, in runs without liveness. The name a new connection gets
is the first free one, which tells as much as any choice.

### Fairness

* `ClientRuntime`: strong fairness for the worker, each callback worker and each
  callback, because they compete for mutexes that are released again and again;
  weak fairness for the destructor. Nobody is obliged to submit or to destroy.
* `ConnectionPool`: strong fairness for the steps of `acquire()`, which wait on a
  semaphore that others also take from, and for a holder to destroy its manager
  in the end; weak fairness for the warm-up and the destructor.
* `TransactionSession`: weak fairness for the worker, which never waits for the
  application, and for the server. Every wait of the worker has a deadline, so a
  silent server is `PollFails`; links break a bounded number of times.

## Proofs

For all values of the constants that satisfy the module's named assumptions:

| Module | Theorems |
|---|---|
| `ClientRuntimeProofs` | `Spec => []IInv`, and with it `TypeOK`, `IdleCount`, `HeldOnce`, `DestructionSafe`; `Spec => ServesInOrder`, the refinement of `RequestService`; `Spec => []WakeupsCoverWork` |
| `ConnectionPoolProofs` | `Spec => []IInv`, and with it `TypeOK`, `RefCount`, `PoolOutlivesUse`, `SingleOwner`, `NoStrandedConnection`; `Spec => PermitsNeverLeak`; `Spec => LendsExclusively`, the refinement of `ConnectionLending` |
| `TransactionSessionProofs` | `Spec => []OrderInv`, and with it `TypeOK`, `FinishIsLast`, `NoStaleResult`; `Spec => ServesInOrder` |
| `TransactionSessionOutcomes` | `Spec => []IInv`, and with it `AnswersTrue`, `RetryOnlyAfterLoss`, `SessionLeftClean`; `Spec => []AtomicInv`, and with it `Atomic` |
| `MigrationProofs` | `FileSpec => []MInv`, and with it `NeverSkips`, `CompleteOrError`; `FileSpec => []Typed`, and with it `FileTypeOK`; from both `TextKept`, and from that `Normalised` |
| `ValuesProofs` | `Spec => []RoundTripInv`, and with it `NumericReadsBack` |
| `ValuesReads` | `Spec => []IInv`, and with it `TypeOK`, `ReadsBack`, `NothingMisread`, `DecodesExactly` |
| `Induction` | a set of numbers has a least element; what holds of 0 and passes from each number to the next holds of all; a recursion over numbers has exactly one solution |

Each goes through an inductive invariant, with lemmas for its conjuncts and in
them a step per action or per kind of action. It is the `IInv` of the module,
which a run checks as well; `MInv`, `Typed`, `Reads` and `Shapes` for `Migration`,
each on top of the ones before it, and `AtomicInv` on top of `IInv` for `Atomic`.

The library's induction theorems have a predicate as parameter, which cannot be
instantiated here. `Induction` states the principle for a set instead: the set
of the numbers that have a property is an ordinary term. It is proved from the
well-foundedness of `<`, and gives what the recursive functions of `Values` and
`Migration` compute.

* `ClientRuntime`: `HeldOnce` speaks of queues and phases, and needs `Hands`
  (when the worker and the callback workers hold a request), `NestedUnsent`
  (what a callback will submit was not submitted), `DrainState` and `Lifecycle`
  (which threads exist at each step of the owner). `DestructionSafe` needs in
  addition `CbQueueServed`: a callback worker leaves only an empty queue behind,
  and the worker posts only where there are callback workers. The refinement
  sorts the steps by what a caller sees of them (a submission, the beginning and
  the end of an execution, a delivery, a refusal, the end, nothing); that a
  submitted request is unknown to the service is `HeldOnce`. `WakeupsCoverWork`
  counts: the callback workers that are awake are at least as many as the queued
  results that were promised to one, for each push goes with a notify or with a
  worker that has not parked yet.
* `ConnectionPool`: the reference count is a sum of two cardinalities; the lemma
  `LastReference` (a count of one means one pointer or one manager) with
  `CallsHavePool` (a user in a call has a pointer) and `ClearedEnded` gives
  `PoolOutlivesUse`. `SingleOwner` needs `Hands`. `NoStrandedConnection` is
  inductive: each step that queues a connection has a permit in hand. That a
  connection is fresh to the users when a warm-up thread queues it is
  `SingleOwner`, that none is out when the pool closes is `PoolOutlivesUse`.
  `PermitsNeverLeak` sorts the steps by what they do to the semaphore and to the
  set of threads with a permit; that a holder who drops its own pointer keeps its
  permit is `LastReference`, for the manager has a reference of its own.
* `TransactionSession`: `FinishIsLast` needs `LockedActive` (while a statement is
  being queued `m_mutex` is held, the state is active, and neither COMMIT nor
  ROLLBACK was sent) and `SentBefore`. `NoStaleResult` needs `InFlight` (libpq is
  busy while anything is on its way). The refinement needs `SendsOnce`. These are
  `OrderInv`. What the server made of the statements is `OutcomeInv`: `Counts`
  takes a statement that is on its way as executed, so each attempt adds one
  execution and the second comes after a broken link; `Told` says that a
  statement which was executed before meets a session without a transaction (so
  that its retry, rejected or not, disturbs no other), that a good result is that
  of an execution, and that a bad one of an executed statement comes after a broken
  link; `OpenOwned` gives every open transaction of the server
  an owner who still has to end it, or a connection that the next statement
  resets.
* `Atomic`: `Courses` ties how far a transaction object is to what it has sent and
  what of that was answered; `Turns` says that whatever is queued belongs to the
  transaction whose turn it is; `Calm` that without failures there is one attempt
  and the link stands. With these `Tally` follows the server: its transaction is
  the one the application has begun and not ended, `pending` the statements of it
  that were executed, and a statement is durable exactly when COMMIT was executed
  and nothing of the transaction, COMMIT included, was rejected. `Atomic` is `Tally` once the answer
  to COMMIT has arrived.
* `Values`, the way through digits: `quot` carries the argument of `NumericReadsBack`. A digit is what
  separates a value of `v` from the one before it times `Base` (`Quotients`);
  each division leaves at most `value` divided by a power of `Base`, so there are
  at most five digits (`ScaleAssumption`) and neither `weight` nor the length
  overflows; a stripped digit is zero; the decoder climbs through the same values
  (`Climbs`) and ends at the first, `value`, without having wrapped.
* `Values`, everything else: `Written` says that the words of a fixed size are
  what `EncodeFixed` made of the value until the column takes them, `Held` that
  a column holds only what its type can, `Decoded` that the result of
  `as<uint64_t>` is the number of the digits read so far modulo 2^64. The
  positional value of the words of an integer in its range, cast back to that
  range, is the integer (`ReadsBack`); that of a NUMERIC grows with every digit,
  so the loop over the digits, the elided ones included, ends with the number of
  its groups modulo 2^64 (`NumericGroups`), which is that of the column if it is
  integral and fits (`DecodesExactly`). `NothingMisread` is the same fact, for
  the sizes of the types that a column takes.
* `Migration`: `Fresh` (before the file is parsed nothing was sent), `Stages` (Migrate
  goes on only while nothing failed, and what the server has or answers is the
  statement at hand), `Reached` (what was done is what came before the next
  statement, and perhaps this one) and `Lasting` (without transactions of the file
  what was done took effect; with them it is lost only to a broken link, a
  rejection or a ROLLBACK). Each step of `execute()` and of the server is one
  lemma. Of the parser they need only that it makes a sequence (`Splits`), so they
  hold however a file is split. `FileTypeOK`
  goes by the branches of the parser: each moves on to a position of the text or
  the one behind it, and appends positions of the text. For a literal this is an
  induction from the end of the text to its opening quote (`LiteralEnds`); for a
  flush, that the first and the last character that is not blank are positions
  of the statement (`Extremes`).
* `Migration`, the parser against the reference: `TextKept` is what `Reads` comes
  to at the end of the text. Until then the parser stands between two tokens
  (`Boundary`: the reference reads code there) and holds what it has read
  (`Holding`): all of it and nothing else (`Whole`), in order (`Ordered`), and a
  blank of a literal between characters that are no blanks (`Padded`), so that
  trimming cannot reach it unless the literal is open. `LineRead`, `BlockRead` and
  `LiteralRead` follow the reference through a token, by induction over its
  characters, to where the parser goes on; the last one follows the recursion of
  `LiteralEnd` beside that of `ReadIn`. After that there are three kinds of
  branches: one passes text that is not kept (`HoldingQuiet`), one adds a piece of
  it (`HoldingGrown`), and a space of the parser's own weighs nothing
  (`HoldingBlanked`). An open comment of which the last character stays is the one
  exception, and is carried along.
* `Normalised` is what `Shapes` comes to, for a file whose last comment and literal
  are closed. What the parser is building is a chain, each character linked to the
  next as a statement's are to be (`Chain`); behind its end there was no separator,
  and a blank exactly when there is the parser's space or an opening parenthesis
  (`Trail`); in front of it there was one (`Apart`). `TrailJoint` is the heart of it:
  from the trail follows how the next character may be linked. That a flush trims
  exactly the space (`FlushTrims`) is `Padded` again.

The assumptions on constants are `RuntimeAssumption`, `PoolAssumption` and
`SessionAssumption` (finite sets of threads, a `None` that is not an element, the
shape of the functions); `ScaleAssumption` (a byte has two bits at least, five
digits of the base hold a 64-bit value and a digit fits a word, as 10000 does;
`ZeroWord` is a word, a microsecond has at least one tick, 2000 is not before
1970); `SamplesAssumption` (samples are integers), `RowsAssumption` (what another
program has stored is something that the column can hold), `TextsAssumption`
(a file is a sequence of characters) and `KindsAssumption` (the kinds of
statements, and a number of broken links). Nothing else is assumed.

Only model-checked: the liveness properties, because fairness is out of the
prover's reach, and `WarmupFills`, which counts connections and permits of all
warm-up threads at once. Every other invariant and action property that a run
checks is a theorem, and so are the refinements.

## Findings

1. `~postgres_client` can hang: `request_stop` and `notify_all` are called without
   the mutex (`RuntimeLostWakeup`).
2. A stop while the worker is busy skips the drain of `m_requests`
   (`RuntimeUnposted`).
3. `max_size` does not bound the connections lent (`PoolOvershoot`).
4. A statement retried after a reconnection commits outside its transaction
   (`SessionRollback`).
5. `uint64_t{0}` is sent as two bytes, not as the eight of an empty NUMERIC
   (`NumericZero`).

## Not modelled

* A second `connect()`: the old worker is asked to stop and joined without a
  notify, as in finding 1, while nobody may use the client. A client destroyed on
  one of its own threads, and closures that own the last reference to a
  transaction and die on the worker thread: who owns a closure is up to the
  application.
* The move constructor of `transaction`. Between two calls it hands executor and
  state to the new object, and the model, which follows the transaction and not
  the object, does not change; during a call of another thread it leaves that
  call with a null pointer, and what happens then is undefined.
* COPY, statements with several results, and the pointers' layout in libpq;
  memory orders: an atomic access is one step.
* `bool`, text, `bytea` and floating point as values, which are copied bit by bit;
  the access to rows and columns by index and name.
* Double-quoted identifiers, `$$` bodies and nested block comments: the parser
  treats the first two as ordinary text and ends a block comment at the first
  `*/`, where PostgreSQL nests them, and so does the reference `ReadIn` that it is
  compared with.
* `ConnectionFactory`: a map of creators behind a `shared_mutex`, filled before
  use; to the pool it is a choice between a new connection and a failure.
  `IConnection` has no state. Error texts, logging, tests, build files.

## Plan

Done: the modules and proofs above.

Left, in this order:

1. A second `connect()` in `ClientRuntime`.
2. `ConnectionFactory` with registration during use.
