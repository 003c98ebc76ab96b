--------------------------- MODULE ConnectionPool ---------------------------
(***************************************************************************)
(* ConnectionPool<T>: a queue of idle connections under m_mutex, a         *)
(* counting semaphore of permits m_capacity, the threads that warm the     *)
(* pool up, and the intrusive reference count that keeps it alive.  User   *)
(* threads hold an intrusive_ptr to the pool, acquire connections, return  *)
(* them by destroying their ConnectionManager and may move a manager into  *)
(* another one.                                                            *)
(*                                                                         *)
(* Each step is one access to shared state: a critical section of m_mutex, *)
(* an operation on the semaphore or on the reference count.  The factory   *)
(* is external: it makes a new connection or fails.                        *)
(***************************************************************************)
EXTENDS Integers, Sequences, FiniteSets, Functions

CONSTANTS
    User,         \* threads that use the pool
    Filler,       \* the warm-up threads, one for each of InitSize
    Conn,         \* connections the factory can make
    None,         \* no connection
    IsEager,      \* PoolConfig::is_eager
    InitSize,     \* PoolConfig::init_size
    MaxSize,      \* PoolConfig::max_size
    MayTimeout,   \* whether the deadline of acquire() can pass
    MaxCalls,     \* bound on the calls of acquire()
    MaxFailures   \* bound on the failures of the factory

ASSUME PoolAssumption ==
    /\ IsFiniteSet(User) /\ IsFiniteSet(Filler)
    /\ None \notin Conn
    /\ IsEager \in BOOLEAN /\ MayTimeout \in BOOLEAN
    /\ InitSize \in Nat /\ MaxSize \in Nat
    /\ MaxCalls \in Nat /\ MaxFailures \in Nat

(* The constructor warms up only with a consistent configuration            *)
WarmsUp == IsEager /\ InitSize > 0 /\ MaxSize > 0 /\ MaxSize >= InitSize

(* The permits beyond InitSize that are released once                       *)
Extra == IF MaxSize > InitSize THEN MaxSize - InitSize ELSE 0

VARIABLES
    m_connections,        \* the queue of idle connections
    m_capacity,           \* the semaphore
    m_pool_ready,
    m_capacity_expanded,
    m_threads,            \* the warm-up threads not yet cleared
    m_ref_count,
    alive,                \* the pool has not been deleted
    fillPc, fillConn,     \* each warm-up thread in fill_pool, and its connection
    fillStop,             \* warm-up threads with stop_requested
    pc,                   \* each user: in acquire(), a manager's destructor, ...
    conn,                 \* the connection in its hands or its manager
    hasPool,              \* whether it has an intrusive_ptr to the pool
    calls, failures       \* counters for the bounds

poolVars == <<m_connections, m_capacity, m_pool_ready, m_capacity_expanded>>
refVars  == <<m_ref_count, alive, hasPool>>
fillVars == <<m_threads, fillPc, fillConn, fillStop>>
vars     == <<poolVars, refVars, fillVars, pc, conn, calls, failures>>

UserState == {"idle", "first", "sem", "recheck", "spare", "create", "refund",
              "holding", "push", "permit", "unref", "waiting", "joining", "deleting"}
FillState == {"unstarted", "top", "take", "create", "refund", "push", "release",
              "releaseFull", "announce", "expand", "ended"}

(* A user's manager holds a reference to the pool until its releaser dies   *)
HasManager(u) == pc[u] \in {"holding", "push", "permit", "unref"}
FillEnded(f)  == fillPc[f] \in {"unstarted", "ended"}

(* The constructor has run and every user got a copy of the pointer         *)
Init ==
    /\ m_connections = <<>>
    /\ m_capacity = IF WarmsUp THEN InitSize ELSE InitSize + Extra
    /\ m_pool_ready = ~WarmsUp
    /\ m_capacity_expanded = (~WarmsUp /\ MaxSize > InitSize)
    /\ m_threads = IF WarmsUp THEN Filler ELSE {}
    /\ m_ref_count = Cardinality(User)
    /\ alive = TRUE
    /\ fillPc = [f \in Filler |-> IF WarmsUp THEN "top" ELSE "unstarted"]
    /\ fillConn = [f \in Filler |-> None]
    /\ fillStop = {}
    /\ pc = [u \in User |-> "idle"]
    /\ conn = [u \in User |-> None]
    /\ hasPool = [u \in User |-> TRUE]
    /\ calls = 0
    /\ failures = 0

Goto(u, s) == pc' = [pc EXCEPT ![u] = s]
FillGoto(f, s) == fillPc' = [fillPc EXCEPT ![f] = s]

(* Connections that exist, in the queue or with a thread                    *)
Live == Range(m_connections) \cup {conn[u] : u \in User} \cup {fillConn[f] : f \in Filler}

-----------------------------------------------------------------------------
(* create_connection<T>() of the factory                                    *)

(* A connection that does not exist yet; which name it gets is immaterial   *)
Creates(c) == /\ c \in Conn \ Live
              /\ c = CHOOSE d \in Conn : d \notin Live
              /\ UNCHANGED failures
Fails      == failures < MaxFailures /\ failures' = failures + 1

-----------------------------------------------------------------------------
(* acquire()                                                                *)

Acquire(u) ==
    /\ pc[u] = "idle" /\ hasPool[u]
    /\ calls < MaxCalls
    /\ calls' = calls + 1
    /\ Goto(u, "first")
    /\ UNCHANGED <<poolVars, refVars, fillVars, conn, failures>>

(* Seeded fault: the releaser captures this, not a counted pointer          *)
WrapRaw(u) == /\ Goto(u, "holding")
              /\ UNCHANGED <<m_ref_count, alive, hasPool>>

(* wrap_connection: the releaser's copy of the pointer                      *)
Wrap(u) == /\ Goto(u, "holding")
           /\ m_ref_count' = m_ref_count + 1
           /\ UNCHANGED <<alive, hasPool>>

(* Seeded fault: front() without pop()                                      *)
PopForgotten(u) == /\ m_connections # <<>>
                   /\ conn' = [conn EXCEPT ![u] = Head(m_connections)]
                   /\ UNCHANGED m_connections

Pop(u) == /\ m_connections # <<>>
          /\ conn' = [conn EXCEPT ![u] = Head(m_connections)]
          /\ m_connections' = Tail(m_connections)

(* The fast path takes a connection and no permit                           *)
FastPath(u) ==
    /\ pc[u] = "first"
    /\ Pop(u)
    /\ Wrap(u)
    /\ UNCHANGED <<m_capacity, m_pool_ready, m_capacity_expanded, fillVars, calls, failures>>

FindsNone(u) ==
    /\ pc[u] = "first"
    /\ m_connections = <<>>
    /\ Goto(u, "sem")
    /\ UNCHANGED <<poolVars, refVars, fillVars, conn, calls, failures>>

(* Seeded fault: the permit is taken without waiting for one                *)
TakePermitUnchecked(u) ==
    /\ pc[u] = "sem"
    /\ m_capacity' = m_capacity - 1
    /\ Goto(u, "recheck")
    /\ UNCHANGED <<m_connections, m_pool_ready, m_capacity_expanded, refVars, fillVars,
                   conn, calls, failures>>

TakePermit(u) ==
    /\ pc[u] = "sem"
    /\ m_capacity > 0
    /\ m_capacity' = m_capacity - 1
    /\ Goto(u, "recheck")
    /\ UNCHANGED <<m_connections, m_pool_ready, m_capacity_expanded, refVars, fillVars,
                   conn, calls, failures>>

(* The deadline had passed before the wait or passes during it              *)
TimesOut(u) ==
    /\ MayTimeout
    /\ pc[u] = "sem"
    /\ Goto(u, "idle")
    /\ UNCHANGED <<poolVars, refVars, fillVars, conn, calls, failures>>

RecheckFinds(u) ==
    /\ pc[u] = "recheck"
    /\ Pop(u)
    /\ Goto(u, "spare")
    /\ UNCHANGED <<m_capacity, m_pool_ready, m_capacity_expanded, refVars, fillVars,
                   calls, failures>>

ReturnSpare(u) ==
    /\ pc[u] = "spare"
    /\ m_capacity' = m_capacity + 1
    /\ Wrap(u)
    /\ UNCHANGED <<m_connections, m_pool_ready, m_capacity_expanded, fillVars, conn,
                   calls, failures>>

RecheckFindsNone(u) ==
    /\ pc[u] = "recheck"
    /\ m_connections = <<>>
    /\ Goto(u, "create")
    /\ UNCHANGED <<poolVars, refVars, fillVars, conn, calls, failures>>

CreateSucceeds(u) ==
    /\ pc[u] = "create"
    /\ \E c \in Conn : Creates(c) /\ conn' = [conn EXCEPT ![u] = c]
    /\ Wrap(u)
    /\ UNCHANGED <<poolVars, fillVars, calls>>

CreateFails(u) ==
    /\ pc[u] = "create"
    /\ Fails
    /\ Goto(u, "refund")
    /\ UNCHANGED <<poolVars, refVars, fillVars, conn, calls>>

(* Seeded fault: the permit is kept when the factory fails                  *)
RefundForgotten(u) ==
    /\ pc[u] = "refund"
    /\ Goto(u, "idle")
    /\ UNCHANGED <<poolVars, refVars, fillVars, conn, calls, failures>>

Refund(u) ==
    /\ pc[u] = "refund"
    /\ m_capacity' = m_capacity + 1
    /\ Goto(u, "idle")
    /\ UNCHANGED <<m_connections, m_pool_ready, m_capacity_expanded, refVars, fillVars,
                   conn, calls, failures>>

-----------------------------------------------------------------------------
(* ConnectionManager: destruction runs the releaser of wrap_connection      *)

BeginReturn(u) ==
    /\ pc[u] = "holding"
    /\ Goto(u, "push")
    /\ UNCHANGED <<poolVars, refVars, fillVars, conn, calls, failures>>

PushBack(u) ==
    /\ pc[u] = "push"
    /\ m_connections' = Append(m_connections, conn[u])
    /\ conn' = [conn EXCEPT ![u] = None]
    /\ Goto(u, "permit")
    /\ UNCHANGED <<m_capacity, m_pool_ready, m_capacity_expanded, refVars, fillVars,
                   calls, failures>>

(* Seeded fault: the releaser queues the connection and keeps the permit    *)
ReleaseForgotten(u) ==
    /\ pc[u] = "permit"
    /\ Goto(u, "unref")
    /\ UNCHANGED <<poolVars, refVars, fillVars, conn, calls, failures>>

ReleasePermit(u) ==
    /\ pc[u] = "permit"
    /\ m_capacity' = m_capacity + 1
    /\ Goto(u, "unref")
    /\ UNCHANGED <<m_connections, m_pool_ready, m_capacity_expanded, refVars, fillVars,
                   conn, calls, failures>>

(* decrement_ref(): whoever drops the last reference deletes the pool       *)
Unref(u) == /\ m_ref_count' = m_ref_count - 1
            /\ Goto(u, IF m_ref_count = 1 THEN "deleting"
                       ELSE IF pc[u] = "unref" THEN "idle" ELSE pc[u])
            /\ UNCHANGED alive

(* The releaser dies with its copy of the pointer                           *)
DropReleaser(u) ==
    /\ pc[u] = "unref"
    /\ Unref(u)
    /\ UNCHANGED <<poolVars, hasPool, fillVars, conn, calls, failures>>

(* The user's own intrusive_ptr goes out of scope, outside any call         *)
DropPool(u) ==
    /\ hasPool[u] /\ pc[u] \in {"idle", "holding"}
    /\ hasPool' = [hasPool EXCEPT ![u] = FALSE]
    /\ Unref(u)
    /\ UNCHANGED <<poolVars, fillVars, conn, calls, failures>>

(* u's pointer = v's pointer, copied: the new pointer is counted first.  If *)
(* u had one to the same pool nothing changes                               *)
CopyPool(u, v) ==
    /\ hasPool[v] /\ ~hasPool[u]
    /\ pc[u] \in {"idle", "holding"} /\ pc[v] \in {"idle", "holding"}
    /\ hasPool' = [hasPool EXCEPT ![u] = TRUE]
    /\ m_ref_count' = m_ref_count + 1
    /\ UNCHANGED <<poolVars, alive, fillVars, pc, conn, calls, failures>>

(* ... or moved: v's is emptied, and the one that u had is dropped          *)
MovePool(u, v) ==
    /\ u # v /\ hasPool[v]
    /\ pc[u] \in {"idle", "holding"} /\ pc[v] \in {"idle", "holding"}
    /\ hasPool' = [hasPool EXCEPT ![u] = TRUE, ![v] = FALSE]
    /\ m_ref_count' = IF hasPool[u] THEN m_ref_count - 1 ELSE m_ref_count
    /\ UNCHANGED <<poolVars, alive, fillVars, pc, conn, calls, failures>>

(* Seeded fault: the overwritten releaser's reference is not dropped        *)
MoveManagerKeepsRef(u, v) ==
    /\ u # v /\ pc[v] = "holding" /\ pc[u] \in {"idle", "holding"}
    /\ conn' = [conn EXCEPT ![u] = conn[v], ![v] = None]
    /\ pc' = [pc EXCEPT ![u] = "holding", ![v] = "idle"]
    /\ UNCHANGED <<poolVars, refVars, fillVars, calls, failures>>

(* u's manager = std::move(v's manager): what u's manager held is dropped,  *)
(* the connection destroyed and neither it nor its permit returned          *)
MoveManager(u, v) ==
    /\ u # v /\ pc[v] = "holding" /\ pc[u] \in {"idle", "holding"}
    /\ conn' = [conn EXCEPT ![u] = conn[v], ![v] = None]
    /\ pc' = [pc EXCEPT ![u] = "holding", ![v] = "idle"]
    /\ m_ref_count' = IF pc[u] = "holding" THEN m_ref_count - 1 ELSE m_ref_count
    /\ UNCHANGED <<poolVars, alive, hasPool, fillVars, calls, failures>>

-----------------------------------------------------------------------------
(* fill_pool() on a warm-up thread                                          *)

FillTop(f) ==
    /\ fillPc[f] = "top"
    /\ FillGoto(f, IF f \in fillStop THEN "ended" ELSE "take")
    /\ UNCHANGED <<poolVars, refVars, m_threads, fillConn, fillStop, pc, conn, calls, failures>>

(* try_acquire: without a permit the thread gives up                        *)
FillTake(f) ==
    /\ fillPc[f] = "take"
    /\ IF m_capacity > 0
         THEN m_capacity' = m_capacity - 1 /\ FillGoto(f, "create")
         ELSE UNCHANGED m_capacity /\ FillGoto(f, "ended")
    /\ UNCHANGED <<m_connections, m_pool_ready, m_capacity_expanded, refVars, m_threads,
                   fillConn, fillStop, pc, conn, calls, failures>>

FillCreates(f) ==
    /\ fillPc[f] = "create"
    /\ \E c \in Conn : Creates(c) /\ fillConn' = [fillConn EXCEPT ![f] = c]
    /\ FillGoto(f, "push")
    /\ UNCHANGED <<poolVars, refVars, m_threads, fillStop, pc, conn, calls>>

FillFails(f) ==
    /\ fillPc[f] = "create"
    /\ Fails
    /\ FillGoto(f, "refund")
    /\ UNCHANGED <<poolVars, refVars, m_threads, fillConn, fillStop, pc, conn, calls>>

(* Releases the permit, sleeps a second and tries again                     *)
FillRefund(f) ==
    /\ fillPc[f] = "refund"
    /\ m_capacity' = m_capacity + 1
    /\ FillGoto(f, "top")
    /\ UNCHANGED <<m_connections, m_pool_ready, m_capacity_expanded, refVars, m_threads,
                   fillConn, fillStop, pc, conn, calls, failures>>

(* Seeded fault: is_full is computed before the push                        *)
FillPushTestsFirst(f) ==
    /\ fillPc[f] = "push"
    /\ m_connections' = Append(m_connections, fillConn[f])
    /\ fillConn' = [fillConn EXCEPT ![f] = None]
    /\ FillGoto(f, IF Len(m_connections) = InitSize THEN "releaseFull" ELSE "release")
    /\ UNCHANGED <<m_capacity, m_pool_ready, m_capacity_expanded, refVars, m_threads,
                   fillStop, pc, conn, calls, failures>>

(* is_full compares the size after this push with init_size                 *)
FillPush(f) ==
    /\ fillPc[f] = "push"
    /\ m_connections' = Append(m_connections, fillConn[f])
    /\ fillConn' = [fillConn EXCEPT ![f] = None]
    /\ FillGoto(f, IF Len(m_connections') = InitSize THEN "releaseFull" ELSE "release")
    /\ UNCHANGED <<m_capacity, m_pool_ready, m_capacity_expanded, refVars, m_threads,
                   fillStop, pc, conn, calls, failures>>

FillRelease(f) ==
    /\ fillPc[f] \in {"release", "releaseFull"}
    /\ m_capacity' = m_capacity + 1
    /\ FillGoto(f, IF fillPc[f] = "release" THEN "ended" ELSE "announce")
    /\ UNCHANGED <<m_connections, m_pool_ready, m_capacity_expanded, refVars, m_threads,
                   fillConn, fillStop, pc, conn, calls, failures>>

FillAnnounce(f) ==
    /\ fillPc[f] = "announce"
    /\ m_pool_ready' = TRUE
    /\ FillGoto(f, "expand")
    /\ UNCHANGED <<m_connections, m_capacity, m_capacity_expanded, refVars, m_threads,
                   fillConn, fillStop, pc, conn, calls, failures>>

FillExpand(f) ==
    /\ fillPc[f] = "expand"
    /\ IF MaxSize > InitSize /\ ~m_capacity_expanded
         THEN m_capacity_expanded' = TRUE /\ m_capacity' = m_capacity + Extra
         ELSE UNCHANGED <<m_capacity_expanded, m_capacity>>
    /\ FillGoto(f, "ended")
    /\ UNCHANGED <<m_connections, m_pool_ready, refVars, m_threads, fillConn, fillStop,
                   pc, conn, calls, failures>>

-----------------------------------------------------------------------------
(* wait_for_warmup(), by one user at a time: it joins and clears m_threads  *)
(* without a lock                                                           *)

WaitForWarmup(u) ==
    /\ pc[u] = "idle" /\ hasPool[u]
    /\ \A v \in User : pc[v] \notin {"waiting", "joining"}
    /\ Goto(u, "waiting")
    /\ UNCHANGED <<poolVars, refVars, fillVars, conn, calls, failures>>

SeesReady(u) ==
    /\ pc[u] = "waiting"
    /\ m_pool_ready
    /\ Goto(u, "joining")
    /\ UNCHANGED <<poolVars, refVars, fillVars, conn, calls, failures>>

JoinWarmup(u) ==
    /\ pc[u] = "joining"
    /\ \A f \in m_threads : FillEnded(f)
    /\ m_threads' = {}
    /\ Goto(u, "idle")
    /\ UNCHANGED <<poolVars, refVars, fillPc, fillConn, fillStop, conn, calls, failures>>

-----------------------------------------------------------------------------
(* ~ConnectionPool(): stops and joins the warm-up threads one by one        *)

StopFiller(u, f) ==
    /\ pc[u] = "deleting" /\ alive
    /\ f \in m_threads \ fillStop
    /\ \A g \in m_threads \cap fillStop : FillEnded(g)
    /\ fillStop' = fillStop \cup {f}
    /\ UNCHANGED <<poolVars, refVars, m_threads, fillPc, fillConn, pc, conn, calls, failures>>

(* The queue's connections are destroyed with the pool                      *)
Delete(u) ==
    /\ pc[u] = "deleting" /\ alive
    /\ \A f \in m_threads : f \in fillStop /\ FillEnded(f)
    /\ alive' = FALSE
    /\ m_connections' = <<>>
    /\ m_threads' = {}
    /\ UNCHANGED <<m_capacity, m_pool_ready, m_capacity_expanded, m_ref_count, hasPool,
                   fillPc, fillConn, fillStop, pc, conn, calls, failures>>

-----------------------------------------------------------------------------
AcquireStep(u) == \/ FastPath(u) \/ FindsNone(u) \/ TakePermit(u) \/ TimesOut(u)
                  \/ RecheckFinds(u) \/ ReturnSpare(u) \/ RecheckFindsNone(u)
                  \/ CreateSucceeds(u) \/ CreateFails(u) \/ Refund(u)

ReturnStep(u) == BeginReturn(u) \/ PushBack(u) \/ ReleasePermit(u) \/ DropReleaser(u)

FillStep(f) == \/ FillTop(f) \/ FillTake(f) \/ FillCreates(f) \/ FillFails(f)
               \/ FillRefund(f) \/ FillPush(f) \/ FillRelease(f) \/ FillAnnounce(f)
               \/ FillExpand(f)

WaitStep(u)   == SeesReady(u) \/ JoinWarmup(u)
DeleteStep(u) == Delete(u) \/ \E f \in Filler : StopFiller(u, f)

UserStep(u) == \/ Acquire(u) \/ AcquireStep(u) \/ ReturnStep(u) \/ DropPool(u)
               \/ WaitForWarmup(u) \/ WaitStep(u) \/ DeleteStep(u)

Next == \/ \E u \in User : UserStep(u)
        \/ \E u, v \in User : MoveManager(u, v) \/ CopyPool(u, v) \/ MovePool(u, v)
        \/ \E f \in Filler : FillStep(f)

Spec == Init /\ [][Next]_vars

(* Threads are scheduled; a semaphore that keeps getting permits serves     *)
(* each waiter in the end.  A holder destroys its manager some day.  Nobody *)
(* has to acquire, to wait for the warm-up or to give up the pool.          *)
Fairness == /\ \A u \in User : /\ SF_vars(AcquireStep(u))
                               /\ SF_vars(ReturnStep(u))
                               /\ WF_vars(WaitStep(u))
                               /\ WF_vars(DeleteStep(u))
            /\ \A f \in Filler : WF_vars(FillStep(f))

FairSpec == Spec /\ Fairness

-----------------------------------------------------------------------------
(* Properties                                                               *)

(* Every variable keeps its type; the semaphore and the reference count are *)
(* never taken below zero.                                                  *)
TypeOK ==
    /\ m_connections \in Seq(Conn)
    /\ m_capacity \in Nat
    /\ m_pool_ready \in BOOLEAN
    /\ m_capacity_expanded \in BOOLEAN
    /\ m_threads \subseteq Filler
    /\ m_ref_count \in Nat
    /\ alive \in BOOLEAN
    /\ fillPc \in [Filler -> FillState]
    /\ fillConn \in [Filler -> Conn \cup {None}]
    /\ fillStop \subseteq Filler
    /\ pc \in [User -> UserState]
    /\ conn \in [User -> Conn \cup {None}]
    /\ hasPool \in [User -> BOOLEAN]
    /\ calls \in Nat
    /\ failures \in Nat

(* The reference count is the number of pointers to the pool: the users'    *)
(* and the one in each manager's releaser, through acquire, the releaser's  *)
(* destruction and the moves of managers.                                   *)
RefCount == m_ref_count = Cardinality({u \in User : hasPool[u]})
                          + Cardinality({u \in User : HasManager(u)})

(* The pool outlives its use: one thread deletes it, when no user can reach *)
(* it through a pointer, a call or a manager, and its members go only after *)
(* every warm-up thread has ended.                                          *)
PoolOutlivesUse ==
    /\ \A u \in User : pc[u] = "deleting" =>
         \A v \in User : ~hasPool[v] /\ (v # u => pc[v] = "idle")
    /\ ~alive => /\ \E u \in User : pc[u] = "deleting"
                 /\ \A f \in Filler : FillEnded(f)

(* A connection has one place: once in the queue, with one user or with one *)
(* warm-up thread.  So no two threads drive the same connection, and none   *)
(* is queued while a manager still holds it.                                *)
SingleOwner ==
    /\ IsInjective(m_connections)
    /\ \A u \in User : conn[u] # None =>
         /\ conn[u] \notin Range(m_connections)
         /\ \A v \in User : conn[v] = conn[u] => v = u
         /\ \A f \in Filler : fillConn[f] # conn[u]
    /\ \A f \in Filler : fillConn[f] # None =>
         /\ fillConn[f] \notin Range(m_connections)
         /\ \A g \in Filler : fillConn[g] = fillConn[f] => g = f

(* Threads that will release a permit without waiting for anybody, or look  *)
(* at the queue with one in hand                                            *)
UserCredit == {u \in User : pc[u] \in {"recheck", "spare", "permit"}}
FillCredit == {f \in Filler : fillPc[f] \in {"create", "refund", "push", "release", "releaseFull"}}

(* A caller that found the queue empty and waits for a permit cannot miss a *)
(* connection that was queued meanwhile: while one is idle there is a       *)
(* permit, free or about to be, although the fast path of acquire() takes   *)
(* connections without permits and every push comes before its release.     *)
NoStrandedConnection ==
    alive /\ m_connections # <<>> => m_capacity > 0 \/ UserCredit # {} \/ FillCredit # {}

(* The pool seen by its users                                               *)
Lending == INSTANCE ConnectionLending WITH
    open <- alive, idle <- m_connections, lent <- conn

(* Behind the semaphore, the warm-up and the reference counts, connections  *)
(* are lent to one user at a time, oldest first, and none comes back to a   *)
(* pool that is gone or is still out when it goes.                          *)
LendsExclusively == Lending!Spec

(* Permits that are free, in a thread's hands or out with a connection      *)
Permits == m_capacity
           + Cardinality({u \in User : pc[u] \in {"recheck", "spare", "create", "refund",
                                                   "holding", "push", "permit"}})
           + Cardinality({f \in Filler : fillPc[f] \in {"create", "refund", "push", "release",
                                                         "releaseFull"}})

(* A permit is never lost, on no path of acquire(), of a failing factory, of *)
(* the warm-up or of a return: only a manager that is overwritten while it  *)
(* holds a connection takes its permit with it.                             *)
PermitsNeverLeak ==
    [][Permits' >= Permits \/ \E u, v \in User : pc[u] = "holding" /\ MoveManager(u, v)]_vars

(* Without a deadline every acquire() ends, with a connection or with the   *)
(* factory's error, if holders return their connections: also of a caller   *)
(* that waits on the semaphore for the permit that another one gives back,  *)
(* returning a connection or failing to make one.                           *)
AcquireServed ==
    \A u \in User : pc[u] = "first" ~> pc[u] \in {"holding", "idle"}

(* Whatever the warm-up threads do among themselves, and however often the  *)
(* factory fails: when the last one has ended, and nobody acquired or       *)
(* deleted the pool meanwhile, one of them has seen the queue full.  The    *)
(* pool is ready with InitSize connections, and the permits were raised to  *)
(* MaxSize, once.                                                           *)
WarmupFills ==
    /\ WarmsUp /\ alive /\ calls = 0 /\ fillStop = {}
    /\ \A f \in Filler : fillPc[f] = "ended"
    => m_pool_ready /\ Len(m_connections) = InitSize /\ m_capacity = MaxSize

(* wait_for_warmup() returns if nobody acquires before the pool is ready;   *)
(* an acquire() that takes a permit or a connection during the warm-up may  *)
(* leave m_pool_ready FALSE for ever.                                       *)
WarmupCompletes ==
    [](m_pool_ready \/ \A u \in User : pc[u] \in {"idle", "waiting", "deleting"})
        => \A u \in User : pc[u] = "waiting" ~> pc[u] = "idle"

(* "Pool exhausted; second acquire with zero timeout should return Timeout" *)
(* (db_pool_test.cpp:119): no more than max_size connections are lent.      *)
MaxSizeRespected ==
    Cardinality({u \in User : pc[u] = "holding"}) <= MaxSize

-----------------------------------------------------------------------------
(* The inductive invariant behind the safety properties                     *)

(* A thread has a connection in hand exactly between the pop or the         *)
(* creation and the push                                                    *)
Hands ==
    /\ \A u \in User : conn[u] # None <=> pc[u] \in {"spare", "holding", "push"}
    /\ \A f \in Filler : fillConn[f] # None <=> fillPc[f] = "push"

(* Member functions run through a pointer that the caller keeps             *)
CallsHavePool ==
    \A u \in User : hasPool[u] \/ pc[u] \in {"idle", "holding", "push", "permit", "unref", "deleting"}

(* m_threads.clear() comes after the joins                                  *)
ClearedEnded == \A f \in Filler : f \in m_threads \/ FillEnded(f)

IInv == TypeOK /\ RefCount /\ PoolOutlivesUse /\ SingleOwner /\ NoStrandedConnection
        /\ Hands /\ CallsHavePool /\ ClearedEnded

=============================================================================
