--------------------------- MODULE ClientRuntime ---------------------------
(***************************************************************************)
(* The threads of a postgres_client: the database worker (QueryWorker)     *)
(* with its request queue, the callback workers (CallbackWorker) with      *)
(* theirs, the overflow threads that PostCallback starts when no callback  *)
(* worker is idle, and the thread that connects and destroys the client.   *)
(*                                                                         *)
(* What a statement does in the database is left out (ExecuteWithRetry     *)
(* returns after some time, with a table or an error; the control that     *)
(* follows is the same for both).  A mutex is held by the thread whose     *)
(* program counter is in a state that says so; a condition variable is the *)
(* set of threads whose program counter is "parked".  A producer's push    *)
(* and the notify_one that follows it are one step: until the notify a     *)
(* waiter stays parked, and a notify that finds nobody is lost in either   *)
(* case.  The destructor's request_stop and notify_all, which take no      *)
(* mutex, are two steps.                                                   *)
(***************************************************************************)
EXTENDS Naturals, Sequences, FiniteSets, Functions

CONSTANTS
    Request,    \* the calls of execute and execute_async
    None,       \* no request
    Async,      \* those made with execute_async: answered by a callback
    Awaits,     \* Awaits[r]: what the callback of r executes and waits for
    CbWorker,   \* the callback workers, m_num_cb_threads of them
    Heartbeat,  \* m_heartbeat_enabled
    MayClose    \* whether the owner ever destroys the client

Nested == {Awaits[r] : r \in Request} \ {None}

ASSUME RuntimeAssumption ==
    /\ None \notin Request
    /\ Async \subseteq Request
    /\ Awaits \in [Request -> Request \cup {None}]
    /\ \A r \in Request : Awaits[r] # None => r \in Async /\ Awaits[r] # r
    /\ \A r, s \in Request : Awaits[r] = Awaits[s] /\ Awaits[r] # None => r = s
    /\ IsFiniteSet(CbWorker)
    /\ Heartbeat \in BOOLEAN
    /\ MayClose \in BOOLEAN

VARIABLES
    m_requests,   \* queue of the database worker
    workerPc,     \* where the database worker is in QueryWorker
    item,         \* the request it has popped or is answering, or None
    pending,      \* pending_reqs: what it still has to answer when draining
    draining,     \* whether it is in the shutdown branch
    beatDue,      \* now >= next_heartbeat
    m_cb_queue,   \* queue of the callback workers
    m_idle,       \* m_idle_cb_workers
    cbPc,         \* where each callback worker is in CallbackWorker
    cbTask,       \* the request whose callback it runs, or None
    m_overflow,   \* m_overflow_cb_threads: requests whose callback has a thread
    workerStop,   \* stop_requested of m_worker_thread
    cbStop,       \* the threads of m_cb_workers with stop_requested
    owner,        \* where the owning thread is in connect and the destructor
    phase         \* how far each request has got

workerVars == <<workerPc, item, pending, draining, beatDue>>
cbVars     == <<m_cb_queue, m_idle, cbPc, cbTask, m_overflow>>
ownerVars  == <<workerStop, cbStop, owner>>
vars       == <<m_requests, workerVars, cbVars, ownerVars, phase>>

WorkerState == {"unstarted", "top", "lock", "parking", "parked", "woken",
                "beat", "exec", "post", "queue", "spawn", "drain", "exited"}
CbState     == {"unstarted", "lock", "pred", "parking", "parked", "wake",
                "run", "exited"}
OwnerState  == {"new", "live", "stopping", "joinWorker", "overflow", "stopCb",
                "notifyCb", "joinCb", "members", "destroyed"}
Phase       == {"unsent", "queued", "executing", "pending", "posted",
                "running", "awaiting", "answered", "dropped"}

(* A callback worker counts itself idle from the fetch_add to the fetch_sub *)
IdleState == {"pred", "parking", "parked", "wake"}
(* A terminated or never started thread is not joinable or joins at once    *)
Ended     == {"unstarted", "exited"}

MutexFree   == workerPc # "parking"
CbMutexFree == \A c \in CbWorker : cbPc[c] \notin {"pred", "parking"}

Init ==
    /\ m_requests = <<>>
    /\ workerPc = "unstarted"
    /\ item = None
    /\ pending = <<>>
    /\ draining = FALSE
    /\ beatDue = FALSE
    /\ m_cb_queue = <<>>
    /\ m_idle = 0
    /\ cbPc = [c \in CbWorker |-> "unstarted"]
    /\ cbTask = [c \in CbWorker |-> None]
    /\ m_overflow = {}
    /\ workerStop = FALSE
    /\ cbStop = {}
    /\ owner = "new"
    /\ phase = [r \in Request |-> "unsent"]

-----------------------------------------------------------------------------
(* Producers: SendToWorker and EnqueueAsync, by the application's threads   *)
(* and by callbacks                                                         *)

(* m_cv.notify_one() and notify_all(): one thread ever waits on m_cv        *)
NotifyWorker == workerPc' = IF workerPc = "parked" THEN "woken" ELSE workerPc

Push(r) ==
    /\ MutexFree
    /\ m_requests' = Append(m_requests, r)
    /\ NotifyWorker
    /\ UNCHANGED <<item, pending, draining, beatDue>>

Submit(r) ==
    /\ owner = "live"
    /\ r \notin Nested
    /\ phase[r] = "unsent"
    /\ Push(r)
    /\ phase' = [phase EXCEPT ![r] = "queued"]
    /\ UNCHANGED <<cbVars, ownerVars>>

(* The callback of r executes a further statement on the same client        *)
CallbackSubmits(r) ==
    /\ phase[r] = "running"
    /\ Awaits[r] # None
    /\ Push(Awaits[r])
    /\ phase' = [phase EXCEPT ![r] = "awaiting", ![Awaits[r]] = "queued"]
    /\ UNCHANGED <<cbVars, ownerVars>>

(* The callback of r returns, once what it waits for has been answered      *)
CallbackReturns(r) ==
    /\ \/ phase[r] = "running" /\ Awaits[r] = None
       \/ phase[r] = "awaiting" /\ phase[Awaits[r]] = "answered"
    /\ phase' = [phase EXCEPT ![r] = "answered"]
    /\ cbPc' = [c \in CbWorker |-> IF cbTask[c] = r THEN "lock" ELSE cbPc[c]]
    /\ cbTask' = [c \in CbWorker |-> IF cbTask[c] = r THEN None ELSE cbTask[c]]
    /\ UNCHANGED <<m_requests, workerVars, m_cb_queue, m_idle, m_overflow, ownerVars>>

-----------------------------------------------------------------------------
(* The database worker                                                      *)

(* while (!st.stop_requested()): leaves the queue alone when it exits here  *)
WorkerTop ==
    /\ workerPc = "top"
    /\ workerPc' = IF workerStop THEN "exited" ELSE "lock"
    /\ UNCHANGED <<m_requests, item, pending, draining, beatDue, cbVars, ownerVars, phase>>

(* The worker holds m_mutex and is not on its way to the heartbeat          *)
AtPredicate == \/ workerPc = "lock" /\ ~(Heartbeat /\ beatDue)
               \/ workerPc = "woken"

WorkerTake ==
    /\ AtPredicate
    /\ ~workerStop
    /\ m_requests # <<>>
    /\ item' = Head(m_requests)
    /\ m_requests' = Tail(m_requests)
    /\ workerPc' = "exec"
    /\ phase' = [phase EXCEPT ![item'] = "executing"]
    /\ UNCHANGED <<pending, draining, beatDue, cbVars, ownerVars>>

(* Seeded fault: pending_reqs is copied from m_requests, not swapped        *)
WorkerCopiesPending ==
    /\ AtPredicate
    /\ workerStop
    /\ pending' = m_requests
    /\ draining' = TRUE
    /\ workerPc' = "drain"
    /\ phase' = [r \in Request |-> IF phase[r] = "queued" THEN "pending" ELSE phase[r]]
    /\ UNCHANGED <<m_requests, item, beatDue, cbVars, ownerVars>>

WorkerBeginsDrain ==
    /\ AtPredicate
    /\ workerStop
    /\ pending' = m_requests
    /\ m_requests' = <<>>
    /\ draining' = TRUE
    /\ workerPc' = "drain"
    /\ phase' = [r \in Request |-> IF phase[r] = "queued" THEN "pending" ELSE phase[r]]
    /\ UNCHANGED <<item, beatDue, cbVars, ownerVars>>

(* The predicate is false: wait, or return to the loop when wait_for has    *)
(* timed out                                                                *)
WorkerFindsNothing ==
    /\ AtPredicate
    /\ ~workerStop
    /\ m_requests = <<>>
    /\ workerPc' = IF workerPc = "woken" /\ beatDue THEN "top" ELSE "parking"
    /\ UNCHANGED <<m_requests, item, pending, draining, beatDue, cbVars, ownerVars, phase>>

(* The wait proper: m_mutex is released and the thread blocks               *)
WorkerParks ==
    /\ workerPc = "parking"
    /\ workerPc' = "parked"
    /\ UNCHANGED <<m_requests, item, pending, draining, beatDue, cbVars, ownerVars, phase>>

HeartbeatFallsDue ==
    /\ Heartbeat
    /\ workerPc \notin Ended
    /\ ~beatDue
    /\ beatDue' = TRUE
    /\ UNCHANGED <<m_requests, workerPc, item, pending, draining, cbVars, ownerVars, phase>>

WaitTimesOut ==
    /\ beatDue
    /\ workerPc = "parked"
    /\ workerPc' = "woken"
    /\ UNCHANGED <<m_requests, item, pending, draining, beatDue, cbVars, ownerVars, phase>>

SpuriousWake ==
    /\ workerPc = "parked"
    /\ workerPc' = "woken"
    /\ UNCHANGED <<m_requests, item, pending, draining, beatDue, cbVars, ownerVars, phase>>

WorkerLeavesForHeartbeat ==
    /\ workerPc = "lock"
    /\ Heartbeat /\ beatDue
    /\ workerPc' = "beat"
    /\ UNCHANGED <<m_requests, item, pending, draining, beatDue, cbVars, ownerVars, phase>>

WorkerBeats ==
    /\ workerPc = "beat"
    /\ beatDue' = FALSE
    /\ workerPc' = "top"
    /\ UNCHANGED <<m_requests, item, pending, draining, cbVars, ownerVars, phase>>

(* Where the worker goes after it has answered or dispatched a request      *)
AfterAnswer == IF draining THEN "drain" ELSE "top"

(* ExecuteWithRetry returns; execute() is answered on this thread, the      *)
(* callback of execute_async() is posted                                    *)
WorkerExecutes ==
    /\ workerPc = "exec"
    /\ IF item \in Async
         THEN /\ workerPc' = "post"
              /\ UNCHANGED <<item, phase>>
         ELSE /\ workerPc' = AfterAnswer
              /\ item' = None
              /\ phase' = [phase EXCEPT ![item] = "answered"]
    /\ UNCHANGED <<m_requests, pending, draining, beatDue, cbVars, ownerVars>>

(* Seeded fault: the drain takes the newest of pending_reqs first           *)
WorkerDrainsNewest ==
    /\ workerPc = "drain"
    /\ pending # <<>>
    /\ LET r == pending[Len(pending)] IN
         /\ pending' = SubSeq(pending, 1, Len(pending) - 1)
         /\ IF r \in Async
              THEN workerPc' = "post" /\ item' = r
                   /\ phase' = [phase EXCEPT ![r] = "executing"]
              ELSE phase' = [phase EXCEPT ![r] = "answered"] /\ UNCHANGED <<workerPc, item>>
    /\ UNCHANGED <<m_requests, draining, beatDue, cbVars, ownerVars>>

WorkerDrainsNext ==
    /\ workerPc = "drain"
    /\ pending # <<>>
    /\ pending' = Tail(pending)
    /\ IF Head(pending) \in Async
         THEN /\ workerPc' = "post"
              /\ item' = Head(pending)
              /\ phase' = [phase EXCEPT ![Head(pending)] = "executing"]
         ELSE /\ phase' = [phase EXCEPT ![Head(pending)] = "answered"]
              /\ UNCHANGED <<workerPc, item>>
    /\ UNCHANGED <<m_requests, draining, beatDue, cbVars, ownerVars>>

WorkerEndsDrain ==
    /\ workerPc = "drain"
    /\ pending = <<>>
    /\ workerPc' = "exited"
    /\ UNCHANGED <<m_requests, item, pending, draining, beatDue, cbVars, ownerVars, phase>>

-----------------------------------------------------------------------------
(* PostCallback, on the database worker                                     *)

(* Seeded fault: there are no overflow threads                              *)
PostAlwaysQueues ==
    /\ workerPc = "post"
    /\ workerPc' = "queue"
    /\ UNCHANGED <<m_requests, item, pending, draining, beatDue, cbVars, ownerVars, phase>>

(* m_idle_cb_workers is read without m_cb_mutex                             *)
PostReadsIdle ==
    /\ workerPc = "post"
    /\ workerPc' = IF m_idle = 0 THEN "spawn" ELSE "queue"
    /\ UNCHANGED <<m_requests, item, pending, draining, beatDue, cbVars, ownerVars, phase>>

PostSpawns ==
    /\ workerPc = "spawn"
    /\ m_overflow' = {r \in m_overflow : phase[r] # "answered"} \cup {item}
    /\ phase' = [phase EXCEPT ![item] = "running"]
    /\ item' = None
    /\ workerPc' = AfterAnswer
    /\ UNCHANGED <<m_requests, pending, draining, beatDue,
                   m_cb_queue, m_idle, cbPc, cbTask, ownerVars>>

(* m_cb_cv.notify_one(): some waiter, if there is one                       *)
NotifyOneCb ==
    IF \E c \in CbWorker : cbPc[c] = "parked"
      THEN \E c \in CbWorker : /\ cbPc[c] = "parked"
                               /\ cbPc' = [cbPc EXCEPT ![c] = "wake"]
      ELSE UNCHANGED cbPc

(* Seeded fault: the task is pushed without m_cb_mutex                      *)
PostQueuesUnlocked ==
    /\ workerPc = "queue"
    /\ m_cb_queue' = Append(m_cb_queue, item)
    /\ NotifyOneCb
    /\ phase' = [phase EXCEPT ![item] = "posted"]
    /\ item' = None
    /\ workerPc' = AfterAnswer
    /\ UNCHANGED <<m_requests, pending, draining, beatDue, m_idle, cbTask,
                   m_overflow, ownerVars>>

PostQueues ==
    /\ workerPc = "queue"
    /\ CbMutexFree
    /\ m_cb_queue' = Append(m_cb_queue, item)
    /\ NotifyOneCb
    /\ phase' = [phase EXCEPT ![item] = "posted"]
    /\ item' = None
    /\ workerPc' = AfterAnswer
    /\ UNCHANGED <<m_requests, pending, draining, beatDue, m_idle, cbTask,
                   m_overflow, ownerVars>>

-----------------------------------------------------------------------------
(* The callback workers                                                     *)

(* Seeded fault: the fetch_add is missing                                   *)
CbEntersUncounted(c) ==
    /\ cbPc[c] = "lock"
    /\ CbMutexFree
    /\ cbPc' = [cbPc EXCEPT ![c] = "pred"]
    /\ UNCHANGED <<m_requests, workerVars, m_cb_queue, m_idle, cbTask, m_overflow, ownerVars, phase>>

CbEnters(c) ==
    /\ cbPc[c] = "lock"
    /\ CbMutexFree
    /\ m_idle' = m_idle + 1
    /\ cbPc' = [cbPc EXCEPT ![c] = "pred"]
    /\ UNCHANGED <<m_requests, workerVars, m_cb_queue, cbTask, m_overflow, ownerVars, phase>>

CbWakes(c) ==
    /\ cbPc[c] = "wake"
    /\ CbMutexFree
    /\ cbPc' = [cbPc EXCEPT ![c] = "pred"]
    /\ UNCHANGED <<m_requests, workerVars, m_cb_queue, m_idle, cbTask, m_overflow, ownerVars, phase>>

CbTakes(c) ==
    /\ cbPc[c] = "pred"
    /\ m_cb_queue # <<>>
    /\ m_idle' = m_idle - 1
    /\ cbTask' = [cbTask EXCEPT ![c] = Head(m_cb_queue)]
    /\ m_cb_queue' = Tail(m_cb_queue)
    /\ cbPc' = [cbPc EXCEPT ![c] = "run"]
    /\ phase' = [phase EXCEPT ![Head(m_cb_queue)] = "running"]
    /\ UNCHANGED <<m_requests, workerVars, m_overflow, ownerVars>>

(* Seeded fault: leaves on stop without looking at the queue                *)
CbExitsEarly(c) ==
    /\ cbPc[c] = "pred"
    /\ c \in cbStop
    /\ m_idle' = m_idle - 1
    /\ cbPc' = [cbPc EXCEPT ![c] = "exited"]
    /\ UNCHANGED <<m_requests, workerVars, m_cb_queue, cbTask, m_overflow, ownerVars, phase>>

(* Stop requested and queue fully drained                                   *)
CbExits(c) ==
    /\ cbPc[c] = "pred"
    /\ m_cb_queue = <<>>
    /\ c \in cbStop
    /\ m_idle' = m_idle - 1
    /\ cbPc' = [cbPc EXCEPT ![c] = "exited"]
    /\ UNCHANGED <<m_requests, workerVars, m_cb_queue, cbTask, m_overflow, ownerVars, phase>>

CbFindsNothing(c) ==
    /\ cbPc[c] = "pred"
    /\ m_cb_queue = <<>>
    /\ c \notin cbStop
    /\ cbPc' = [cbPc EXCEPT ![c] = "parking"]
    /\ UNCHANGED <<m_requests, workerVars, m_cb_queue, m_idle, cbTask, m_overflow, ownerVars, phase>>

CbParks(c) ==
    /\ cbPc[c] = "parking"
    /\ cbPc' = [cbPc EXCEPT ![c] = "parked"]
    /\ UNCHANGED <<m_requests, workerVars, m_cb_queue, m_idle, cbTask, m_overflow, ownerVars, phase>>

CbSpuriousWake(c) ==
    /\ cbPc[c] = "parked"
    /\ cbPc' = [cbPc EXCEPT ![c] = "wake"]
    /\ UNCHANGED <<m_requests, workerVars, m_cb_queue, m_idle, cbTask, m_overflow, ownerVars, phase>>

-----------------------------------------------------------------------------
(* The owner: connect() and ~postgres_client()                              *)

Connect ==
    /\ owner = "new"
    /\ owner' = "live"
    /\ workerPc' = "top"
    /\ cbPc' = [c \in CbWorker |-> "lock"]
    /\ UNCHANGED <<m_requests, item, pending, draining, beatDue, m_cb_queue, m_idle,
                   cbTask, m_overflow, workerStop, cbStop, phase>>

(* A client that failed to connect is destroyed too                         *)
RequestWorkerStop ==
    /\ MayClose
    /\ owner \in {"new", "live"}
    /\ workerStop' = TRUE
    /\ owner' = "stopping"
    /\ UNCHANGED <<m_requests, workerVars, cbVars, cbStop, phase>>

NotifyStoppedWorker ==
    /\ owner = "stopping"
    /\ NotifyWorker
    /\ owner' = "joinWorker"
    /\ UNCHANGED <<m_requests, item, pending, draining, beatDue, cbVars,
                   workerStop, cbStop, phase>>

(* Seeded fault: the destructor goes on without joining the worker          *)
JoinWorkerSkipped ==
    /\ owner = "joinWorker"
    /\ owner' = "overflow"
    /\ UNCHANGED <<m_requests, workerVars, cbVars, workerStop, cbStop, phase>>

JoinWorker ==
    /\ owner = "joinWorker"
    /\ workerPc \in Ended
    /\ owner' = "overflow"
    /\ UNCHANGED <<m_requests, workerVars, cbVars, workerStop, cbStop, phase>>

(* reap_overflow_threads, then clear(), which joins the others              *)
ClearOverflow ==
    /\ owner = "overflow"
    /\ \A r \in m_overflow : phase[r] = "answered"
    /\ m_overflow' = {}
    /\ owner' = "stopCb"
    /\ UNCHANGED <<m_requests, workerVars, m_cb_queue, m_idle, cbPc, cbTask,
                   workerStop, cbStop, phase>>

(* One by one: each thread sees its own stop                                *)
RequestCbStop ==
    /\ owner = "stopCb"
    /\ \/ \E c \in CbWorker \ cbStop : cbStop' = cbStop \cup {c} /\ UNCHANGED owner
       \/ cbStop = CbWorker /\ owner' = "notifyCb" /\ UNCHANGED cbStop
    /\ UNCHANGED <<m_requests, workerVars, cbVars, workerStop, phase>>

(* Seeded fault: notify_one in place of notify_all                          *)
NotifyStoppedCbsOne ==
    /\ owner = "notifyCb"
    /\ NotifyOneCb
    /\ owner' = "joinCb"
    /\ UNCHANGED <<m_requests, workerVars, m_cb_queue, m_idle, cbTask, m_overflow,
                   workerStop, cbStop, phase>>

NotifyStoppedCbs ==
    /\ owner = "notifyCb"
    /\ cbPc' = [c \in CbWorker |-> IF cbPc[c] = "parked" THEN "wake" ELSE cbPc[c]]
    /\ owner' = "joinCb"
    /\ UNCHANGED <<m_requests, workerVars, m_cb_queue, m_idle, cbTask, m_overflow,
                   workerStop, cbStop, phase>>

JoinCbs ==
    /\ owner = "joinCb"
    /\ \A c \in CbWorker : cbPc[c] \in Ended
    /\ owner' = "members"
    /\ UNCHANGED <<m_requests, workerVars, cbVars, workerStop, cbStop, phase>>

(* m_requests goes with the members: its promises break, its callbacks are  *)
(* destroyed uncalled                                                       *)
DestroyMembers ==
    /\ owner = "members"
    /\ m_requests' = <<>>
    /\ phase' = [r \in Request |-> IF phase[r] = "queued" THEN "dropped" ELSE phase[r]]
    /\ owner' = "destroyed"
    /\ UNCHANGED <<workerVars, cbVars, workerStop, cbStop>>

-----------------------------------------------------------------------------
WorkerStep == \/ WorkerTop \/ WorkerTake \/ WorkerBeginsDrain \/ WorkerFindsNothing
              \/ WorkerParks \/ WorkerLeavesForHeartbeat \/ WorkerBeats
              \/ WorkerExecutes \/ WorkerDrainsNext \/ WorkerEndsDrain
              \/ PostReadsIdle \/ PostSpawns \/ PostQueues

CbStep(c) == CbEnters(c) \/ CbWakes(c) \/ CbTakes(c) \/ CbExits(c)
             \/ CbFindsNothing(c) \/ CbParks(c)

CallbackStep(r) == CallbackSubmits(r) \/ CallbackReturns(r)

DestructorStep == \/ NotifyStoppedWorker \/ JoinWorker \/ ClearOverflow
                  \/ RequestCbStop \/ NotifyStoppedCbs \/ JoinCbs \/ DestroyMembers

TimerStep == HeartbeatFallsDue \/ WaitTimesOut

Next == \/ Connect
        \/ RequestWorkerStop
        \/ DestructorStep
        \/ WorkerStep
        \/ TimerStep
        \/ SpuriousWake
        \/ \E r \in Request : Submit(r) \/ CallbackStep(r)
        \/ \E c \in CbWorker : CbStep(c) \/ CbSpuriousWake(c)

Spec == Init /\ [][Next]_vars

(* Every thread that can run is scheduled, and whoever asks for a mutex     *)
(* that is free again and again gets it.  Callbacks return, statements      *)
(* finish (the five-second poll timeouts), clocks advance.  Nothing makes   *)
(* the application connect, submit or destroy, or makes a wait wake         *)
(* spuriously.                                                              *)
Fairness == /\ SF_vars(WorkerStep)
            /\ WF_vars(HeartbeatFallsDue)
            /\ WF_vars(WaitTimesOut)
            /\ WF_vars(DestructorStep)
            /\ \A r \in Request : SF_vars(CallbackStep(r))
            /\ \A c \in CbWorker : SF_vars(CbStep(c))

FairSpec == Spec /\ Fairness

-----------------------------------------------------------------------------
(* Properties                                                               *)

(* Every variable keeps its type; m_idle_cb_workers is a uint32 that must   *)
(* never be decremented below zero.                                         *)
TypeOK ==
    /\ m_requests \in Seq(Request)
    /\ workerPc \in WorkerState
    /\ item \in Request \cup {None}
    /\ pending \in Seq(Request)
    /\ draining \in BOOLEAN
    /\ beatDue \in BOOLEAN
    /\ m_cb_queue \in Seq(Request)
    /\ m_idle \in Nat
    /\ cbPc \in [CbWorker -> CbState]
    /\ cbTask \in [CbWorker -> Request \cup {None}]
    /\ m_overflow \subseteq Request
    /\ workerStop \in BOOLEAN
    /\ cbStop \subseteq CbWorker
    /\ owner \in OwnerState
    /\ phase \in [Request -> Phase]

(* m_idle_cb_workers, written under m_cb_mutex and read without it, counts  *)
(* exactly the callback workers between the fetch_add and the fetch_sub     *)
(* around the wait of CallbackWorker, however the waits wake and end: an    *)
(* excess would make PostCallback queue a task that nobody serves.          *)
IdleCount == m_idle = Cardinality({c \in CbWorker : cbPc[c] \in IdleState})

(* No notification is lost before the destructor runs: the worker never     *)
(* sleeps over a request in m_requests, and while some callback worker      *)
(* sleeps there are as many others about to look at m_cb_queue as it holds  *)
(* tasks, although PostCallback decides on a stale m_idle_cb_workers, wakes *)
(* can be spurious and a running worker can steal a task from a woken one.  *)
WakeupsCoverWork ==
    /\ m_requests # <<>> => workerPc \notin {"parking", "parked"}
    /\ (\E c \in CbWorker : cbPc[c] = "parked")
         => Len(m_cb_queue) <= Cardinality({c \in CbWorker : cbPc[c] \in {"lock", "pred", "wake"}})

(* The queue q holds the requests in phase p, each once                     *)
Exactly(q, p) == IsInjective(q) /\ Range(q) = {r \in Request : phase[r] = p}

(* A callback that has begun and not returned has one thread: a callback    *)
(* worker or an overflow thread                                             *)
RunsOnce ==
    \A r \in Request :
        /\ phase[r] \in {"running", "awaiting"}
             <=> (r \in m_overflow /\ phase[r] # "answered") \/ (\E c \in CbWorker : cbTask[c] = r)
        /\ r \in m_overflow => \A c \in CbWorker : cbTask[c] # r
        /\ \A c, d \in CbWorker : cbTask[c] = r /\ cbTask[d] = r => c = d

(* A request that was submitted and is not answered is in exactly one       *)
(* place: m_requests, the worker's hands, pending_reqs, m_cb_queue, or the  *)
(* one thread that runs its callback.  So none is lost between PostCallback *)
(* and the callback workers or in the drain, and none is answered twice.    *)
HeldOnce ==
    /\ Exactly(m_requests, "queued")
    /\ Exactly(pending, "pending")
    /\ Exactly(m_cb_queue, "posted")
    /\ {item} \ {None} = {r \in Request : phase[r] = "executing"}
    /\ RunsOnce

(* The client seen by its callers: pending_reqs is the front of the backlog *)
Service == INSTANCE RequestService WITH
    state <- IF owner \in {"new", "live"} THEN "open"
             ELSE IF owner = "destroyed" THEN "closed" ELSE "closing",
    backlog <- pending \o m_requests,
    executing <- item,
    delivering <- {r \in Request : phase[r] \in {"posted", "running", "awaiting"}},
    answered <- {r \in Request : phase[r] = "answered"}

(* Through the drain of QueryWorker, PostCallback and both queues the       *)
(* client serves requests in the order of execute() and execute_async(),    *)
(* one at a time, runs each callback once after its execution, and drops    *)
(* nothing before its members are destroyed.                                *)
ServesInOrder == Service!Spec

(* When ~postgres_client lets the members go, no thread is alive that could *)
(* still touch them, no callback is queued or running, and the worker has   *)
(* nothing in hand: what remains unanswered never left m_requests.          *)
DestructionSafe ==
    owner \in {"members", "destroyed"} =>
        /\ workerPc \in Ended
        /\ \A c \in CbWorker : cbPc[c] \in Ended
        /\ m_cb_queue = <<>>
        /\ \A r \in Request :
             phase[r] \in {"unsent", "queued", "answered", "dropped"}

(* While the client lives, every execute() and execute_async() is answered, *)
(* also when callbacks execute further statements and wait for them with    *)
(* every callback worker busy or none configured (the overflow threads).    *)
EveryRequestAnswered ==
    \A r \in Request : phase[r] = "queued" ~> (phase[r] = "answered" \/ owner # "live")

(* The destructor notifies a condition variable without its mutex: a thread *)
(* that has evaluated its predicate and not blocked yet misses it           *)
NotifyLost ==
    \/ owner = "joinWorker" /\ workerPc = "parking" /\ ~Heartbeat
    \/ owner = "joinCb" /\ \E c \in CbWorker : cbPc[c] = "parking"

(* A callback waits for a statement it queued when the worker had ended     *)
Stranded == /\ workerPc = "exited"
            /\ \E r \in Request : phase[r] = "awaiting" /\ phase[Awaits[r]] = "queued"

(* The destructor returns, and so joins every thread, unless a thread       *)
(* missed its notify in the window before the wait or a callback waits for  *)
(* a statement that nobody will execute: there is no third way to hang.     *)
ShutdownCompletes ==
    owner = "stopping" ~> (owner = "destroyed" \/ NotifyLost \/ Stranded)

(* "Stop the DB worker first" (postgres_pub.cpp:29): request_stop and       *)
(* notify_all make the worker end, so that join returns.                    *)
WorkerStops == owner = "stopping" ~> owner = "overflow"

(* "all pending callbacks are now in the queue" (postgres_pub.cpp:35): once *)
(* the worker is joined no execute_async request waits in m_requests.       *)
PendingCallbacksPosted ==
    owner \in {"overflow", "stopCb", "notifyCb", "joinCb", "members"}
        => \A r \in Async : phase[r] # "queued"

-----------------------------------------------------------------------------
(* The inductive invariant behind the safety properties                     *)

(* The worker has a request in hand exactly between the pop and the answer  *)
(* or dispatch, a callback worker while it runs a callback                  *)
Hands ==
    /\ item # None <=> workerPc \in {"exec", "post", "queue", "spawn"}
    /\ \A c \in CbWorker : cbTask[c] # None <=> cbPc[c] = "run"

(* Only what execute_async() sent is posted                                 *)
PostOnlyAsync == workerPc \in {"post", "queue", "spawn"} => item \in Async

(* What a callback will execute is submitted by that callback only          *)
NestedUnsent ==
    \A r \in Request :
        Awaits[r] # None /\ phase[r] \notin {"awaiting", "answered"}
            => phase[Awaits[r]] = "unsent"

(* The drain: pending_reqs is filled in the shutdown branch only, and empty *)
(* when the worker has ended                                                *)
DrainState ==
    /\ draining => workerPc \in {"drain", "post", "queue", "spawn", "exited"} /\ workerStop
    /\ workerPc = "drain" => draining
    /\ ~draining \/ workerPc \in Ended => pending = <<>>

(* Which threads exist at each step of the owner                            *)
Lifecycle ==
    /\ owner = "new" => workerPc = "unstarted"
    /\ workerStop <=> owner \notin {"new", "live"}
    /\ workerPc = "unstarted" => owner # "live" /\ \A r \in Request : phase[r] = "unsent"
    /\ \A c \in CbWorker : cbPc[c] = "unstarted" <=> workerPc = "unstarted"
    /\ owner \in {"overflow", "stopCb", "notifyCb", "joinCb", "members", "destroyed"}
         => workerPc \in Ended
    /\ owner \in {"stopCb", "notifyCb", "joinCb", "members", "destroyed"} => m_overflow = {}
    /\ cbStop # {} => owner \in {"stopCb", "notifyCb", "joinCb", "members", "destroyed"}
    /\ owner \in {"members", "destroyed"} => \A c \in CbWorker : cbPc[c] \in Ended

(* The callback queue is used only when there is somebody to serve it, and  *)
(* a callback worker leaves it empty for good                               *)
CbQueueServed ==
    /\ workerPc = "queue" \/ m_cb_queue # <<>> => CbWorker # {}
    /\ \A c \in CbWorker : cbPc[c] = "exited" => c \in cbStop /\ m_cb_queue = <<>>

IInv == TypeOK /\ IdleCount /\ HeldOnce /\ Hands /\ PostOnlyAsync /\ NestedUnsent
        /\ DrainState /\ Lifecycle /\ CbQueueServed

=============================================================================
