------------------------ MODULE ClientRuntimeProofs ------------------------
(* Proofs of the safety properties of ClientRuntime for every set of        *)
(* requests, every nesting of callbacks and any number of callback workers, *)
(* of the refinement of RequestService, and that no thread sleeps over work.*)
EXTENDS ClientRuntime, FiniteSetTheorems, SequenceTheorems, TLAPS

-----------------------------------------------------------------------------
(* Queues without repetition: the deques m_requests, pending_reqs and       *)
(* m_cb_queue as push_back, front and pop_front change them                 *)

(* The empty deque repeats and contains nothing.                            *)
LEMMA EmptyUnique == IsInjective(<<>>) /\ Range(<<>>) = {}
  BY DEF IsInjective, Range

(* push_back of an element that is not in the deque.                        *)
LEMMA AppendUnique ==
  ASSUME NEW S, NEW s \in Seq(S), NEW e \in S, IsInjective(s), e \notin Range(s)
  PROVE  /\ IsInjective(Append(s, e))
         /\ Range(Append(s, e)) = Range(s) \cup {e}
<1> DEFINE t == Append(s, e)
<1>1. /\ t \in Seq(S) /\ Len(t) = Len(s) + 1 /\ Len(s) \in Nat
      /\ \A i \in 1..Len(s) : t[i] = s[i]
      /\ t[Len(s) + 1] = e
      /\ DOMAIN t = 1..(Len(s) + 1) /\ DOMAIN s = 1..Len(s)
  BY AppendProperties, LenProperties
<1> HIDE DEF t
<1>2. \A i \in 1..Len(s) : s[i] # e
  BY <1>1 DEF Range
<1>3. IsInjective(t)
  BY <1>1, <1>2 DEF IsInjective
<1>4. Range(t) = Range(s) \cup {e}
  BY <1>1 DEF Range
<1> QED BY <1>3, <1>4 DEF t

(* front and pop_front of a deque that is not empty.                        *)
LEMMA TailUnique ==
  ASSUME NEW S, NEW s \in Seq(S), s # <<>>, IsInjective(s)
  PROVE  /\ Head(s) \in Range(s)
         /\ IsInjective(Tail(s))
         /\ Range(Tail(s)) = Range(s) \ {Head(s)}
<1> DEFINE t == Tail(s)
<1>1. /\ t \in Seq(S) /\ Len(t) = Len(s) - 1 /\ Len(s) \in Nat \ {0}
      /\ \A i \in 1..Len(t) : t[i] = s[i + 1]
      /\ DOMAIN t = 1..Len(t) /\ DOMAIN s = 1..Len(s)
  BY HeadTailProperties, LenProperties, EmptySeq
<1>2. Head(s) = s[1]
  BY <1>1
<1> HIDE DEF t
<1>3. ASSUME NEW i \in 1..Len(t)
      PROVE  i + 1 \in 1..Len(s) /\ i + 1 # 1 /\ t[i] = s[i + 1]
  BY <1>1
<1>4. IsInjective(t)
  <2> SUFFICES ASSUME NEW i \in 1..Len(t), NEW j \in 1..Len(t), t[i] = t[j] PROVE i = j
    BY <1>1 DEF IsInjective
  <2>1. i + 1 = j + 1
    BY <1>1, <1>3 DEF IsInjective
  <2> QED BY <2>1
<1>5. Range(t) \subseteq Range(s) \ {s[1]}
  <2> SUFFICES ASSUME NEW i \in 1..Len(t) PROVE t[i] \in Range(s) /\ t[i] # s[1]
    BY <1>1 DEF Range
  <2> QED BY <1>1, <1>3 DEF IsInjective, Range
<1>6. ASSUME NEW x \in Range(s), x # s[1] PROVE x \in Range(t)
  <2>1. PICK i \in 1..Len(s) : x = s[i]
    BY <1>1 DEF Range
  <2>2. i - 1 \in 1..Len(t) /\ t[i - 1] = x
    BY <2>1, <1>1, <1>6
  <2> QED BY <2>2, <1>1 DEF Range
<1>7. s[1] \in Range(s)
  BY <1>1 DEF Range
<1> QED BY <1>2, <1>4, <1>5, <1>6, <1>7 DEF t

-----------------------------------------------------------------------------
(* m_idle_cb_workers                                                        *)

Idle == {c \in CbWorker : cbPc[c] \in IdleState}

(* The set that the counter counts is finite, and a member keeps the        *)
(* counter above zero.                                                      *)
LEMMA IdleFinite ==
  ASSUME IdleCount
  PROVE  /\ IsFiniteSet(Idle)
         /\ m_idle = Cardinality(Idle)
         /\ m_idle \in Nat
         /\ \A c \in Idle : m_idle - 1 \in Nat
<1>1. IsFiniteSet(Idle)
  BY FS_Subset, RuntimeAssumption DEF Idle
<1>2. m_idle = Cardinality(Idle) /\ m_idle \in Nat
  BY <1>1, FS_CardinalityType DEF IdleCount, Idle
<1>3. ASSUME NEW c \in Idle PROVE m_idle # 0
  BY <1>1, <1>2, FS_EmptySet
<1> QED BY <1>1, <1>2, <1>3

(* Every step that writes m_idle_cb_workers or moves a callback worker into *)
(* or out of its wait does both together.                                   *)
LEMMA IdleStep ==
  ASSUME TypeOK, IdleCount, Hands, Lifecycle, [Next]_vars
  PROVE  IdleCount'
<1>1. IsFiniteSet(Idle) /\ m_idle = Cardinality(Idle)
  BY IdleFinite
<1>2. IdleCount' <=> m_idle' = Cardinality(Idle')
  BY DEF IdleCount, Idle
<1>3. ASSUME m_idle' = m_idle, Idle' = Idle PROVE IdleCount'
  BY <1>1, <1>2, <1>3
<1>4. CASE UNCHANGED <<m_idle, cbPc>>
  BY <1>3, <1>4 DEF Idle
<1>5. ASSUME NEW c \in CbWorker, CbEnters(c) PROVE IdleCount'
  <2>1. c \notin Idle /\ Idle' = Idle \cup {c}
    BY <1>5 DEF CbEnters, Idle, IdleState, TypeOK
  <2> QED BY <2>1, <1>1, <1>2, <1>5, FS_AddElement DEF CbEnters
<1>6. ASSUME NEW c \in CbWorker, CbTakes(c) \/ CbExits(c) PROVE IdleCount'
  <2>1. c \in Idle /\ Idle' = Idle \ {c} /\ m_idle' = m_idle - 1
    BY <1>6 DEF CbTakes, CbExits, Idle, IdleState, TypeOK
  <2> QED BY <2>1, <1>1, <1>2, FS_RemoveElement
<1>7. ASSUME NEW c \in CbWorker,
             CbWakes(c) \/ CbFindsNothing(c) \/ CbParks(c) \/ CbSpuriousWake(c)
      PROVE  IdleCount'
  <2>1. Idle' = Idle /\ m_idle' = m_idle
    BY <1>7 DEF CbWakes, CbFindsNothing, CbParks, CbSpuriousWake, Idle, IdleState, TypeOK
  <2> QED BY <2>1, <1>3
<1>8. ASSUME NEW r \in Request, CallbackReturns(r) PROVE IdleCount'
  <2>1. \A c \in CbWorker : cbTask[c] = r => cbPc[c] = "run"
    BY RuntimeAssumption DEF Hands
  <2>2. Idle' = Idle /\ m_idle' = m_idle
    BY <1>8, <2>1 DEF CallbackReturns, Idle, IdleState, TypeOK
  <2> QED BY <2>2, <1>3
<1>9. CASE PostQueues
  <2>1. Idle' = Idle /\ m_idle' = m_idle
    BY <1>9 DEF PostQueues, NotifyOneCb, Idle, IdleState, TypeOK
  <2> QED BY <2>1, <1>3
<1>10. CASE Connect
  <2>1. Idle' = Idle /\ m_idle' = m_idle
    BY <1>10 DEF Connect, Idle, IdleState, TypeOK, Lifecycle
  <2> QED BY <2>1, <1>3
<1>11. CASE NotifyStoppedCbs
  <2>1. Idle' = Idle /\ m_idle' = m_idle
    BY <1>11 DEF NotifyStoppedCbs, Idle, IdleState, TypeOK
  <2> QED BY <2>1, <1>3
<1>12. ASSUME NEW r \in Request, Submit(r) \/ CallbackSubmits(r) PROVE IdleCount'
  BY <1>12, <1>4 DEF Submit, CallbackSubmits, cbVars
<1>13. CASE WorkerStep /\ ~PostQueues
  BY <1>13, <1>4 DEF WorkerStep, WorkerTop, WorkerTake, WorkerBeginsDrain, WorkerFindsNothing,
     WorkerParks, WorkerLeavesForHeartbeat, WorkerBeats, WorkerExecutes, WorkerDrainsNext,
     WorkerEndsDrain, PostReadsIdle, PostSpawns, cbVars
<1>14. CASE TimerStep \/ SpuriousWake \/ RequestWorkerStop
  BY <1>14, <1>4 DEF TimerStep, HeartbeatFallsDue, WaitTimesOut, SpuriousWake,
     RequestWorkerStop, cbVars
<1>15. CASE DestructorStep /\ ~NotifyStoppedCbs
  BY <1>15, <1>4 DEF DestructorStep, NotifyStoppedWorker, JoinWorker, ClearOverflow,
     RequestCbStop, JoinCbs, DestroyMembers, cbVars
<1>16. CASE UNCHANGED vars
  BY <1>16, <1>4 DEF vars, cbVars
<1> QED BY <1>5, <1>6, <1>7, <1>8, <1>9, <1>10, <1>11, <1>12, <1>13, <1>14, <1>15, <1>16
        DEF Next, CallbackStep, CbStep

-----------------------------------------------------------------------------
(* Types                                                                    *)

(* Heads, tails and hands are requests, and the counter never goes below    *)
(* zero.                                                                    *)
LEMMA TypeStep ==
  ASSUME TypeOK, IdleCount, Hands, [Next]_vars
  PROVE  TypeOK'
<1> USE RuntimeAssumption DEF TypeOK, WorkerState, CbState, OwnerState, Phase
<1>1. ASSUME NEW r \in Request, Submit(r) \/ CallbackStep(r) PROVE TypeOK'
  <2>1. ASSUME NEW s \in Request PROVE Append(m_requests, s) \in Seq(Request)
    BY AppendProperties
  <2>2. CASE Submit(r)
    BY <2>1, <2>2 DEF Submit, Push, NotifyWorker, cbVars, ownerVars
  <2>3. CASE CallbackSubmits(r)
    <3>1. Awaits[r] \in Request /\ Push(Awaits[r])
      BY <2>3 DEF CallbackSubmits
    <3>2. m_requests' \in Seq(Request)
      BY <2>1, <3>1 DEF Push
    <3>3. phase' \in [Request -> Phase]
      BY <2>3 DEF CallbackSubmits
    <3>4. workerPc' \in WorkerState
      BY <3>1 DEF Push, NotifyWorker
    <3> QED BY <2>3, <3>1, <3>2, <3>3, <3>4 DEF CallbackSubmits, Push, cbVars, ownerVars
  <2>4. CASE CallbackReturns(r)
    BY <2>4 DEF CallbackReturns, workerVars, ownerVars
  <2> QED BY <1>1, <2>2, <2>3, <2>4 DEF CallbackStep
<1>2. CASE WorkerStep
  <2>1. CASE WorkerTake
    <3>1. Head(m_requests) \in Request /\ Tail(m_requests) \in Seq(Request)
      BY <2>1, HeadTailProperties DEF WorkerTake
    <3> QED BY <2>1, <3>1 DEF WorkerTake, cbVars, ownerVars
  <2>2. CASE WorkerBeginsDrain
    BY <2>2, EmptySeq DEF WorkerBeginsDrain, cbVars, ownerVars
  <2>3. CASE WorkerDrainsNext
    <3>1. Head(pending) \in Request /\ Tail(pending) \in Seq(Request)
      BY <2>3, HeadTailProperties DEF WorkerDrainsNext
    <3> QED BY <2>3, <3>1 DEF WorkerDrainsNext, cbVars, ownerVars
  <2>4. CASE WorkerExecutes
    <3>1. phase' \in [Request -> Phase] /\ item' \in Request \cup {None}
      BY <2>4 DEF WorkerExecutes
    <3>2. workerPc' \in WorkerState
      BY <2>4 DEF WorkerExecutes, AfterAnswer
    <3> QED BY <2>4, <3>1, <3>2 DEF WorkerExecutes, cbVars, ownerVars
  <2>5. CASE PostSpawns
    BY <2>5 DEF PostSpawns, AfterAnswer, Hands, ownerVars
  <2>6. CASE PostQueues
    <3>1. item \in Request
      BY <2>6 DEF PostQueues, Hands
    <3>2. Append(m_cb_queue, item) \in Seq(Request)
      BY <3>1, AppendProperties
    <3>3. cbPc' \in [CbWorker -> CbState]
      BY <2>6 DEF PostQueues, NotifyOneCb
    <3> QED BY <2>6, <3>1, <3>2, <3>3 DEF PostQueues, AfterAnswer, ownerVars
  <2>7. CASE WorkerTop \/ WorkerFindsNothing \/ WorkerParks
    BY <2>7 DEF WorkerTop, WorkerFindsNothing, WorkerParks, cbVars, ownerVars
  <2>8. CASE WorkerLeavesForHeartbeat
    BY <2>8 DEF WorkerLeavesForHeartbeat, cbVars, ownerVars
  <2>10. CASE WorkerBeats
    BY <2>10 DEF WorkerBeats, cbVars, ownerVars
  <2>9. CASE WorkerEndsDrain \/ PostReadsIdle
    BY <2>9 DEF WorkerEndsDrain, PostReadsIdle, cbVars, ownerVars
  <2> HIDE DEF TypeOK
  <2> QED BY <1>2, <2>1, <2>2, <2>3, <2>4, <2>5, <2>6, <2>7, <2>8, <2>9, <2>10
          DEF WorkerStep
<1>3. ASSUME NEW c \in CbWorker, CbStep(c) \/ CbSpuriousWake(c) PROVE TypeOK'
  <2>1. CASE CbTakes(c)
    <3>1. m_idle' \in Nat
      BY <2>1, IdleFinite DEF CbTakes, Idle, IdleState
    <3>2. Head(m_cb_queue) \in Request /\ Tail(m_cb_queue) \in Seq(Request)
      BY <2>1, HeadTailProperties DEF CbTakes
    <3> QED BY <2>1, <3>1, <3>2 DEF CbTakes, workerVars, ownerVars
  <2>2. CASE CbExits(c)
    <3>1. m_idle' \in Nat
      BY <2>2, IdleFinite DEF CbExits, Idle, IdleState
    <3> QED BY <2>2, <3>1 DEF CbExits, workerVars, ownerVars
  <2>3. CASE CbEnters(c)
    BY <2>3 DEF CbEnters, workerVars, ownerVars
  <2>4. CASE CbWakes(c) \/ CbFindsNothing(c)
    BY <2>4 DEF CbWakes, CbFindsNothing, workerVars, ownerVars
  <2>5. CASE CbParks(c)
    BY <2>5 DEF CbParks, workerVars, ownerVars
  <2>6. CASE CbSpuriousWake(c)
    BY <2>6 DEF CbSpuriousWake, workerVars, ownerVars
  <2> QED BY <1>3, <2>1, <2>2, <2>3, <2>4, <2>5, <2>6 DEF CbStep
<1>4. CASE Connect \/ RequestWorkerStop \/ DestructorStep
  <2>1. CASE Connect
    BY <2>1 DEF Connect
  <2>2. CASE RequestWorkerStop
    BY <2>2 DEF RequestWorkerStop, workerVars, cbVars
  <2>3. CASE NotifyStoppedWorker
    BY <2>3 DEF NotifyStoppedWorker, NotifyWorker, cbVars
  <2>4. CASE JoinWorker
    BY <2>4 DEF JoinWorker, workerVars, cbVars
  <2>5. CASE ClearOverflow
    BY <2>5 DEF ClearOverflow, workerVars
  <2>6. CASE NotifyStoppedCbs
    BY <2>6 DEF NotifyStoppedCbs, workerVars
  <2>7. CASE DestroyMembers
    BY <2>7, EmptySeq DEF DestroyMembers, workerVars, cbVars
  <2>8. CASE RequestCbStop
    BY <2>8 DEF RequestCbStop, workerVars, cbVars
  <2>9. CASE JoinCbs
    BY <2>9 DEF JoinCbs, workerVars, cbVars
  <2> QED BY <1>4, <2>1, <2>2, <2>3, <2>4, <2>5, <2>6, <2>7, <2>8, <2>9 DEF DestructorStep
<1>5. CASE TimerStep \/ SpuriousWake
  <2>1. CASE HeartbeatFallsDue
    BY <2>1 DEF HeartbeatFallsDue, cbVars, ownerVars
  <2>2. CASE WaitTimesOut \/ SpuriousWake
    BY <2>2 DEF WaitTimesOut, SpuriousWake, cbVars, ownerVars
  <2> QED BY <1>5, <2>1, <2>2 DEF TimerStep
<1>6. CASE UNCHANGED vars
  BY <1>6 DEF vars, workerVars, cbVars, ownerVars
<1> QED BY <1>1, <1>2, <1>3, <1>4, <1>5, <1>6 DEF Next

-----------------------------------------------------------------------------
(* Control                                                                  *)

(* A request leaves the worker's or a callback worker's hands in the step   *)
(* that moves the thread on.                                                *)
LEMMA HandsStep ==
  ASSUME TypeOK, Hands, Lifecycle, [Next]_vars
  PROVE  Hands'
<1> USE RuntimeAssumption DEF Hands
<1>1. ASSUME NEW r \in Request, Submit(r) \/ CallbackSubmits(r) PROVE Hands'
  BY <1>1 DEF Submit, CallbackSubmits, Push, NotifyWorker, cbVars
<1>2. ASSUME NEW r \in Request, CallbackReturns(r) PROVE Hands'
  BY <1>2 DEF CallbackReturns, workerVars
<1>3. CASE WorkerStep
  <2>1. CASE WorkerTake
    <3>1. Head(m_requests) \in Request
      BY <2>1, HeadTailProperties DEF WorkerTake, TypeOK
    <3> QED BY <2>1, <3>1 DEF WorkerTake, cbVars
  <2>2. CASE WorkerDrainsNext
    <3>1. Head(pending) \in Request
      BY <2>2, HeadTailProperties DEF WorkerDrainsNext, TypeOK
    <3> QED BY <2>2, <3>1 DEF WorkerDrainsNext, cbVars
  <2>3. CASE PostQueues
    <3>1. \A c \in CbWorker : cbTask'[c] = cbTask[c] /\ (cbPc'[c] = "run" <=> cbPc[c] = "run")
      BY <2>3 DEF PostQueues, NotifyOneCb, TypeOK
    <3> QED BY <2>3, <3>1 DEF PostQueues, AfterAnswer
  <2>4. CASE WorkerExecutes \/ PostSpawns
    BY <2>4 DEF WorkerExecutes, PostSpawns, AfterAnswer, cbVars
  <2> QED BY <1>3, <2>1, <2>2, <2>3, <2>4
          DEF WorkerStep, WorkerTop, WorkerBeginsDrain, WorkerFindsNothing, WorkerParks,
              WorkerLeavesForHeartbeat, WorkerBeats, WorkerEndsDrain, PostReadsIdle,
              AtPredicate, cbVars
<1>4. ASSUME NEW c \in CbWorker, CbStep(c) \/ CbSpuriousWake(c) PROVE Hands'
  <2>1. CASE CbTakes(c)
    <3>1. Head(m_cb_queue) \in Request
      BY <2>1, HeadTailProperties DEF CbTakes, TypeOK
    <3> QED BY <2>1, <3>1 DEF CbTakes, workerVars, TypeOK
  <2>2. CASE ~CbTakes(c)
    <3>1. /\ cbPc[c] # "run" /\ cbTask' = cbTask
          /\ cbPc' \in {[cbPc EXCEPT ![c] = s] : s \in CbState \ {"run"}}
      BY <1>4, <2>2 DEF CbStep, CbEnters, CbWakes, CbExits, CbFindsNothing, CbParks,
         CbSpuriousWake, CbState
    <3>2. UNCHANGED workerVars
      BY <1>4, <2>2 DEF CbStep, CbEnters, CbWakes, CbExits, CbFindsNothing, CbParks,
         CbSpuriousWake
    <3> QED BY <3>1, <3>2 DEF workerVars, TypeOK
  <2> QED BY <2>1, <2>2
<1>5. CASE Connect
  BY <1>5 DEF Connect, Lifecycle
<1>6. CASE RequestWorkerStop \/ DestructorStep
  BY <1>6 DEF RequestWorkerStop, DestructorStep, NotifyStoppedWorker, NotifyWorker, JoinWorker,
     ClearOverflow, RequestCbStop, NotifyStoppedCbs, JoinCbs, DestroyMembers, workerVars, cbVars
<1>7. CASE TimerStep \/ SpuriousWake
  BY <1>7 DEF TimerStep, HeartbeatFallsDue, WaitTimesOut, SpuriousWake, cbVars
<1>8. CASE UNCHANGED vars
  BY <1>8 DEF vars, workerVars, cbVars
<1> QED BY <1>1, <1>2, <1>3, <1>4, <1>5, <1>6, <1>7, <1>8 DEF Next, CallbackStep

(* PostCallback gets what the worker has just found to be asynchronous.     *)
LEMMA PostStep ==
  ASSUME PostOnlyAsync, [Next]_vars
  PROVE  PostOnlyAsync'
<1> USE DEF PostOnlyAsync
<1>1. CASE WorkerStep
  BY <1>1 DEF WorkerStep, WorkerTop, WorkerTake, WorkerBeginsDrain, WorkerFindsNothing, WorkerParks,
     WorkerLeavesForHeartbeat, WorkerBeats, WorkerExecutes, WorkerDrainsNext, WorkerEndsDrain,
     PostReadsIdle, PostSpawns, PostQueues, AfterAnswer
<1>2. ASSUME NEW r \in Request, Submit(r) \/ CallbackStep(r) PROVE PostOnlyAsync'
  BY <1>2 DEF Submit, CallbackStep, CallbackSubmits, CallbackReturns, Push, NotifyWorker, workerVars
<1>3. ASSUME NEW c \in CbWorker, CbStep(c) \/ CbSpuriousWake(c) PROVE PostOnlyAsync'
  BY <1>3 DEF CbStep, CbEnters, CbWakes, CbTakes, CbExits, CbFindsNothing, CbParks,
     CbSpuriousWake, workerVars
<1>4. CASE Connect \/ RequestWorkerStop \/ DestructorStep
  BY <1>4 DEF Connect, RequestWorkerStop, DestructorStep, NotifyStoppedWorker, NotifyWorker,
     JoinWorker, ClearOverflow, RequestCbStop, NotifyStoppedCbs, JoinCbs, DestroyMembers, workerVars
<1>5. CASE TimerStep \/ SpuriousWake \/ UNCHANGED vars
  BY <1>5 DEF TimerStep, HeartbeatFallsDue, WaitTimesOut, SpuriousWake, vars, workerVars
<1> QED BY <1>1, <1>2, <1>3, <1>4, <1>5 DEF Next

(* pending_reqs is empty again when the worker leaves the shutdown branch.  *)
LEMMA DrainStep ==
  ASSUME TypeOK, DrainState, Hands, Lifecycle, [Next]_vars
  PROVE  DrainState'
<1> USE DEF DrainState, Ended
<1>1. CASE WorkerStep
  BY <1>1 DEF WorkerStep, WorkerTop, WorkerTake, WorkerBeginsDrain, WorkerFindsNothing, WorkerParks,
     WorkerLeavesForHeartbeat, WorkerBeats, WorkerExecutes, WorkerDrainsNext, WorkerEndsDrain,
     PostReadsIdle, PostSpawns, PostQueues, AtPredicate, AfterAnswer, TypeOK, ownerVars
<1>2. CASE UNCHANGED <<workerPc, pending, draining, workerStop>>
  BY <1>2
<1>3. ASSUME NEW r \in Request, Submit(r) \/ CallbackSubmits(r) PROVE DrainState'
  BY <1>3 DEF Submit, CallbackSubmits, Push, NotifyWorker, ownerVars
<1>4. CASE Connect \/ NotifyStoppedWorker \/ WaitTimesOut \/ SpuriousWake
  BY <1>4 DEF Connect, NotifyStoppedWorker, NotifyWorker, WaitTimesOut, SpuriousWake, Lifecycle,
     ownerVars
<1>5. CASE RequestWorkerStop
  BY <1>5 DEF RequestWorkerStop, workerVars
<1>6. ASSUME NEW c \in CbWorker, CbStep(c) \/ CbSpuriousWake(c) PROVE DrainState'
  BY <1>2, <1>6 DEF CbStep, CbEnters, CbWakes, CbTakes, CbExits, CbFindsNothing, CbParks,
     CbSpuriousWake, workerVars, ownerVars
<1>7. CASE DestructorStep /\ ~NotifyStoppedWorker
  BY <1>2, <1>7 DEF DestructorStep, JoinWorker, ClearOverflow, RequestCbStop, NotifyStoppedCbs,
     JoinCbs, DestroyMembers, workerVars
<1>8. ASSUME NEW r \in Request, CallbackReturns(r) PROVE DrainState'
  BY <1>2, <1>8 DEF CallbackReturns, workerVars, ownerVars
<1>9. CASE HeartbeatFallsDue \/ UNCHANGED vars
  BY <1>2, <1>9 DEF HeartbeatFallsDue, vars, workerVars, ownerVars
<1> QED BY <1>1, <1>3, <1>4, <1>5, <1>6, <1>7, <1>8, <1>9 DEF Next, CallbackStep, TimerStep

(* The queues hold requests of the phase that belongs to them, so the       *)
(* threads only move requests that were submitted, forward, and answer on   *)
(* the worker only what execute() sent.                                     *)
LEMMA ThreadsMoveForward ==
  ASSUME TypeOK, HeldOnce, Hands, WorkerStep \/ \E c \in CbWorker : CbStep(c)
  PROVE  \A r \in Request :
           \/ phase'[r] = phase[r]
           \/ /\ phase[r] \in {"queued", "executing", "pending", "posted"}
              /\ phase'[r] \in {"executing", "pending", "posted", "running", "answered"}
              /\ phase'[r] = "answered" => r \notin Async
<1> DEFINE Forward(r) ==
           \/ phase'[r] = phase[r]
           \/ /\ phase[r] \in {"queued", "executing", "pending", "posted"}
              /\ phase'[r] \in {"executing", "pending", "posted", "running", "answered"}
              /\ phase'[r] = "answered" => r \notin Async
<1>1. CASE WorkerTake
  <2>1. Head(m_requests) \in Request /\ phase[Head(m_requests)] = "queued"
    BY <1>1, TailUnique DEF WorkerTake, TypeOK, HeldOnce, Exactly
  <2> QED BY <1>1, <2>1 DEF WorkerTake, TypeOK
<1>2. CASE WorkerDrainsNext
  <2>1. Head(pending) \in Request /\ phase[Head(pending)] = "pending"
    BY <1>2, TailUnique DEF WorkerDrainsNext, TypeOK, HeldOnce, Exactly
  <2> QED BY <1>2, <2>1 DEF WorkerDrainsNext, TypeOK
<1>3. CASE WorkerBeginsDrain
  BY <1>3 DEF WorkerBeginsDrain
<1>4. CASE WorkerExecutes \/ PostSpawns \/ PostQueues
  <2>1. item \in Request /\ phase[item] = "executing"
    BY <1>4 DEF WorkerExecutes, PostSpawns, PostQueues, HeldOnce, Hands, TypeOK
  <2> QED BY <1>4, <2>1 DEF WorkerExecutes, PostSpawns, PostQueues, TypeOK
<1>5. ASSUME NEW c \in CbWorker, CbTakes(c) PROVE \A r \in Request : Forward(r)
  <2>1. Head(m_cb_queue) \in Request /\ phase[Head(m_cb_queue)] = "posted"
    BY <1>5, TailUnique DEF CbTakes, TypeOK, HeldOnce, Exactly
  <2> QED BY <1>5, <2>1 DEF CbTakes, TypeOK
<1>6. CASE UNCHANGED phase
  BY <1>6
<1> QED BY <1>1, <1>2, <1>3, <1>4, <1>5, <1>6
        DEF WorkerStep, WorkerTop, WorkerFindsNothing, WorkerParks, WorkerLeavesForHeartbeat,
            WorkerBeats, WorkerEndsDrain, PostReadsIdle, CbStep, CbEnters, CbWakes, CbExits,
            CbFindsNothing, CbParks

(* No step but its own callback's submits a nested request.                 *)
LEMMA NestedStep ==
  ASSUME TypeOK, NestedUnsent, HeldOnce, Hands, [Next]_vars
  PROVE  NestedUnsent'
<1> USE RuntimeAssumption DEF NestedUnsent
<1>1. CASE WorkerStep \/ \E c \in CbWorker : CbStep(c)
  <2>1. ASSUME NEW r \in Request, Awaits[r] # None, phase'[r] \notin {"awaiting", "answered"}
        PROVE  phase'[Awaits[r]] = "unsent"
    <3>1. phase[r] \notin {"awaiting", "answered"} /\ Awaits[r] \in Request
      BY <1>1, <2>1, ThreadsMoveForward
    <3>2. phase[Awaits[r]] = "unsent"
      BY <2>1, <3>1
    <3> QED BY <1>1, <3>1, <3>2, ThreadsMoveForward
  <2> QED BY <2>1
<1>2. ASSUME NEW r \in Request, Submit(r) PROVE NestedUnsent'
  BY <1>2 DEF Submit, Nested, TypeOK
<1>3. ASSUME NEW r \in Request, CallbackSubmits(r) PROVE NestedUnsent'
  BY <1>3 DEF CallbackSubmits, TypeOK
<1>4. ASSUME NEW r \in Request, CallbackReturns(r) PROVE NestedUnsent'
  BY <1>4 DEF CallbackReturns, TypeOK
<1>5. CASE DestroyMembers
  BY <1>5 DEF DestroyMembers
<1>6. CASE UNCHANGED phase
  BY <1>6
<1> QED BY <1>1, <1>2, <1>3, <1>4, <1>5, <1>6
        DEF Next, CallbackStep, CbSpuriousWake, DestructorStep, NotifyStoppedWorker, JoinWorker,
            ClearOverflow, RequestCbStop, NotifyStoppedCbs, JoinCbs, Connect, RequestWorkerStop,
            TimerStep, HeartbeatFallsDue, WaitTimesOut, SpuriousWake, vars

(* Threads are created by connect() and joined in the destructor's order.   *)
LEMMA LifecycleStep ==
  ASSUME TypeOK, Lifecycle, Hands, HeldOnce, [Next]_vars
  PROVE  Lifecycle'
<1> USE DEF Lifecycle, Ended
<1>1. CASE WorkerStep
  <2>1. workerPc \notin Ended /\ workerPc' # "unstarted"
    BY <1>1 DEF WorkerStep, WorkerTop, WorkerTake, WorkerBeginsDrain, WorkerFindsNothing,
       WorkerParks, WorkerLeavesForHeartbeat, WorkerBeats, WorkerExecutes, WorkerDrainsNext,
       WorkerEndsDrain, PostReadsIdle, PostSpawns, PostQueues, AtPredicate, AfterAnswer
  <2>2. UNCHANGED <<owner, cbStop, workerStop>>
    BY <1>1 DEF WorkerStep, WorkerTop, WorkerTake, WorkerBeginsDrain, WorkerFindsNothing,
       WorkerParks, WorkerLeavesForHeartbeat, WorkerBeats, WorkerExecutes, WorkerDrainsNext,
       WorkerEndsDrain, PostReadsIdle, PostSpawns, PostQueues, ownerVars
  <2>3. \A c \in CbWorker : cbPc'[c] = "unstarted" <=> cbPc[c] = "unstarted"
    BY <1>1 DEF WorkerStep, WorkerTop, WorkerTake, WorkerBeginsDrain, WorkerFindsNothing,
       WorkerParks, WorkerLeavesForHeartbeat, WorkerBeats, WorkerExecutes, WorkerDrainsNext,
       WorkerEndsDrain, PostReadsIdle, PostSpawns, PostQueues, NotifyOneCb, cbVars, TypeOK
  <2> QED BY <2>1, <2>2, <2>3
<1>2. ASSUME NEW r \in Request, Submit(r) \/ CallbackSubmits(r) PROVE Lifecycle'
  BY <1>2 DEF Submit, CallbackSubmits, Push, NotifyWorker, cbVars, ownerVars
<1>3. ASSUME NEW r \in Request, CallbackReturns(r) PROVE Lifecycle'
  <2>1. workerPc # "unstarted" /\ UNCHANGED <<workerPc, owner, cbStop, workerStop, m_overflow>>
    BY <1>3 DEF CallbackReturns, workerVars, ownerVars
  <2>2. \A c \in CbWorker : cbTask[c] = r => cbPc[c] = "run"
    BY RuntimeAssumption DEF Hands
  <2> QED BY <1>3, <2>1, <2>2 DEF CallbackReturns
<1>4. ASSUME NEW c \in CbWorker, CbStep(c) \/ CbSpuriousWake(c) PROVE Lifecycle'
  <2>1. /\ cbPc[c] \notin Ended
        /\ UNCHANGED <<workerPc, owner, cbStop, workerStop, m_overflow>>
        /\ cbPc' \in {[cbPc EXCEPT ![c] = s] : s \in CbState \ {"unstarted"}}
    BY <1>4 DEF CbStep, CbEnters, CbWakes, CbTakes, CbExits, CbFindsNothing, CbParks,
       CbSpuriousWake, CbState, workerVars, ownerVars
  <2>2. workerPc # "unstarted" /\ owner \notin {"members", "destroyed"}
    BY <2>1
  <2> QED BY <2>1, <2>2 DEF TypeOK
<1>5. CASE Connect \/ RequestWorkerStop \/ NotifyStoppedWorker \/ JoinWorker
  BY <1>5 DEF Connect, RequestWorkerStop, NotifyStoppedWorker, NotifyWorker, JoinWorker,
     workerVars, cbVars
<1>6. CASE ClearOverflow \/ RequestCbStop \/ JoinCbs \/ DestroyMembers
  BY <1>6 DEF ClearOverflow, RequestCbStop, JoinCbs, DestroyMembers, workerVars, cbVars
<1>7. CASE NotifyStoppedCbs
  BY <1>7 DEF NotifyStoppedCbs, workerVars
<1>8. CASE TimerStep \/ SpuriousWake
  BY <1>8 DEF TimerStep, HeartbeatFallsDue, WaitTimesOut, SpuriousWake, cbVars, ownerVars
<1>9. CASE UNCHANGED vars
  BY <1>9 DEF vars, workerVars, cbVars, ownerVars
<1> QED BY <1>1, <1>2, <1>3, <1>4, <1>5, <1>6, <1>7, <1>8, <1>9
        DEF Next, CallbackStep, DestructorStep

(* PostCallback queues only after it has seen an idle worker, and never     *)
(* once a callback worker has left.                                         *)
LEMMA CbQueueStep ==
  ASSUME TypeOK, IdleCount, Lifecycle, CbQueueServed, [Next]_vars
  PROVE  CbQueueServed'
<1> USE DEF CbQueueServed
<1>1. CASE PostReadsIdle
  <2>1. m_idle # 0 => CbWorker # {}
    <3> SUFFICES ASSUME CbWorker = {} PROVE m_idle = 0
      OBVIOUS
    <3>1. Idle = {}
      BY DEF Idle
    <3> QED BY <3>1, IdleFinite, FS_EmptySet
  <2> QED BY <1>1, <2>1 DEF PostReadsIdle, cbVars, ownerVars
<1>2. CASE PostQueues
  <2>1. \A c \in CbWorker : cbPc'[c] = "exited" => cbPc[c] = "exited"
    BY <1>2 DEF PostQueues, NotifyOneCb, TypeOK
  <2>2. cbStop = {}
    BY <1>2 DEF PostQueues, Lifecycle, Ended
  <2> QED BY <1>2, <2>1, <2>2 DEF PostQueues, AfterAnswer
<1>3. CASE WorkerStep /\ ~PostReadsIdle /\ ~PostQueues
  BY <1>3 DEF WorkerStep, WorkerTop, WorkerTake, WorkerBeginsDrain, WorkerFindsNothing,
     WorkerParks, WorkerLeavesForHeartbeat, WorkerBeats, WorkerExecutes, WorkerDrainsNext,
     WorkerEndsDrain, PostSpawns, AfterAnswer, cbVars, ownerVars
<1>4. ASSUME NEW c \in CbWorker, CbTakes(c) PROVE CbQueueServed'
  <2>1. \A d \in CbWorker : cbPc'[d] # "exited"
    BY <1>4 DEF CbTakes, TypeOK
  <2> QED BY <1>4, <2>1 DEF CbTakes, workerVars
<1>5. ASSUME NEW c \in CbWorker, CbExits(c) PROVE CbQueueServed'
  BY <1>5 DEF CbExits, workerVars, ownerVars, TypeOK
<1>6. ASSUME NEW c \in CbWorker, CbStep(c) \/ CbSpuriousWake(c), ~CbTakes(c), ~CbExits(c)
      PROVE  CbQueueServed'
  <2>1. /\ UNCHANGED <<m_cb_queue, workerPc, cbStop>>
        /\ cbPc' \in {[cbPc EXCEPT ![c] = s] : s \in CbState \ {"exited"}}
    BY <1>6 DEF CbStep, CbEnters, CbWakes, CbFindsNothing, CbParks, CbSpuriousWake, CbState,
       workerVars, ownerVars
  <2> QED BY <2>1 DEF TypeOK
<1>7. ASSUME NEW r \in Request, Submit(r) \/ CallbackSubmits(r) PROVE CbQueueServed'
  BY <1>7 DEF Submit, CallbackSubmits, Push, NotifyWorker, cbVars, ownerVars
<1>8. ASSUME NEW r \in Request, CallbackReturns(r) PROVE CbQueueServed'
  BY <1>8 DEF CallbackReturns, workerVars, ownerVars
<1>9. CASE Connect \/ RequestWorkerStop \/ DestructorStep
  BY <1>9 DEF Connect, RequestWorkerStop, DestructorStep, NotifyStoppedWorker, NotifyWorker,
     JoinWorker, ClearOverflow, RequestCbStop, NotifyStoppedCbs, JoinCbs, DestroyMembers,
     workerVars, cbVars
<1>10. CASE TimerStep \/ SpuriousWake
  BY <1>10 DEF TimerStep, HeartbeatFallsDue, WaitTimesOut, SpuriousWake, cbVars, ownerVars
<1>11. CASE UNCHANGED vars
  BY <1>11 DEF vars, workerVars, cbVars, ownerVars
<1> QED BY <1>1, <1>2, <1>3, <1>4, <1>5, <1>6, <1>7, <1>8, <1>9, <1>10, <1>11
        DEF Next, CallbackStep

-----------------------------------------------------------------------------
(* The ledger                                                               *)

(* Every step that takes a request out of one place puts it into the next.  *)
LEMMA HeldStep ==
  ASSUME TypeOK, HeldOnce, Hands, NestedUnsent, DrainState, [Next]_vars
  PROVE  HeldOnce'
<1> USE RuntimeAssumption
<1>1. ASSUME NEW r \in Request, phase[r] = "unsent"
      PROVE  /\ IsInjective(Append(m_requests, r))
             /\ Range(Append(m_requests, r)) = Range(m_requests) \cup {r}
  BY <1>1, AppendUnique DEF HeldOnce, Exactly, TypeOK
<1>2. ASSUME NEW r \in Request, Submit(r) PROVE HeldOnce'
  BY <1>1, <1>2 DEF Submit, Push, HeldOnce, Exactly, RunsOnce, TypeOK, cbVars
<1>3. ASSUME NEW r \in Request, CallbackSubmits(r) PROVE HeldOnce'
  <2> DEFINE a == Awaits[r]
  <2>1. a \in Request /\ a # r /\ phase[a] = "unsent" /\ phase[r] = "running"
    BY <1>3 DEF CallbackSubmits, NestedUnsent
  <2> QED BY <1>1, <1>3, <2>1 DEF CallbackSubmits, Push, HeldOnce, Exactly, RunsOnce, TypeOK, cbVars
<1>4. ASSUME NEW r \in Request, CallbackReturns(r) PROVE HeldOnce'
  BY <1>4 DEF CallbackReturns, HeldOnce, Exactly, RunsOnce, TypeOK, workerVars
<1>5. CASE WorkerTake
  <2>1. /\ Head(m_requests) \in Request /\ phase[Head(m_requests)] = "queued"
        /\ IsInjective(Tail(m_requests))
        /\ Range(Tail(m_requests)) = Range(m_requests) \ {Head(m_requests)}
    BY <1>5, TailUnique DEF WorkerTake, HeldOnce, Exactly, TypeOK
  <2>2. item = None
    BY <1>5 DEF WorkerTake, AtPredicate, Hands
  <2> QED BY <1>5, <2>1, <2>2 DEF WorkerTake, HeldOnce, Exactly, RunsOnce, TypeOK, cbVars
<1>6. CASE WorkerBeginsDrain
  <2>1. pending = <<>>
    BY <1>6 DEF WorkerBeginsDrain, AtPredicate, DrainState
  <2> QED BY <1>6, <2>1, EmptyUnique
          DEF WorkerBeginsDrain, HeldOnce, Exactly, RunsOnce, TypeOK, cbVars
<1>7. CASE WorkerDrainsNext
  <2>1. /\ Head(pending) \in Request /\ phase[Head(pending)] = "pending"
        /\ IsInjective(Tail(pending))
        /\ Range(Tail(pending)) = Range(pending) \ {Head(pending)}
    BY <1>7, TailUnique DEF WorkerDrainsNext, HeldOnce, Exactly, TypeOK
  <2>2. item = None
    BY <1>7 DEF WorkerDrainsNext, Hands
  <2>3. CASE Head(pending) \in Async
    <3>1. phase' = [phase EXCEPT ![Head(pending)] = "executing"] /\ item' = Head(pending)
      BY <1>7, <2>3 DEF WorkerDrainsNext
    <3>2. RunsOnce'
      BY <1>7, <2>1, <3>1 DEF WorkerDrainsNext, HeldOnce, RunsOnce, TypeOK, cbVars
    <3>3. {item'} \ {None} = {r \in Request : phase'[r] = "executing"}
      BY <2>1, <2>2, <3>1 DEF HeldOnce, TypeOK
    <3> QED BY <1>7, <2>1, <3>1, <3>2, <3>3
            DEF WorkerDrainsNext, HeldOnce, Exactly, TypeOK, cbVars
  <2>4. CASE Head(pending) \notin Async
    BY <1>7, <2>1, <2>2, <2>4 DEF WorkerDrainsNext, HeldOnce, Exactly, RunsOnce, TypeOK, cbVars
  <2> QED BY <2>3, <2>4
<1>8. ASSUME workerPc \in {"exec", "spawn", "queue"}
      PROVE  item \in Request /\ phase[item] = "executing" /\ {item} \ {None} = {item}
  BY <1>8 DEF Hands, HeldOnce, TypeOK
<1>9. CASE WorkerExecutes
  <2>1. item \in Request /\ phase[item] = "executing" /\ {item} \ {None} = {item}
    BY <1>8, <1>9 DEF WorkerExecutes
  <2>2. CASE item \in Async
    BY <1>9, <2>1, <2>2 DEF WorkerExecutes, HeldOnce, Exactly, RunsOnce, cbVars
  <2>3. CASE item \notin Async
    BY <1>9, <2>1, <2>3 DEF WorkerExecutes, HeldOnce, Exactly, RunsOnce, TypeOK, cbVars
  <2> QED BY <2>2, <2>3
<1>10. CASE PostSpawns
  BY <1>8, <1>10 DEF PostSpawns, HeldOnce, Exactly, RunsOnce, TypeOK
<1>11. CASE PostQueues
  <2>1. item \in Request /\ phase[item] = "executing" /\ {item} \ {None} = {item}
    BY <1>8, <1>11 DEF PostQueues
  <2>2. /\ IsInjective(Append(m_cb_queue, item))
        /\ Range(Append(m_cb_queue, item)) = Range(m_cb_queue) \cup {item}
    BY <2>1, AppendUnique DEF HeldOnce, Exactly, TypeOK
  <2> QED BY <1>11, <2>1, <2>2 DEF PostQueues, HeldOnce, Exactly, RunsOnce, TypeOK
<1>12. ASSUME NEW c \in CbWorker, CbTakes(c) PROVE HeldOnce'
  <2> DEFINE h == Head(m_cb_queue)
  <2>1. /\ h \in Request /\ phase[h] = "posted"
        /\ IsInjective(Tail(m_cb_queue))
        /\ Range(Tail(m_cb_queue)) = Range(m_cb_queue) \ {h}
    BY <1>12, TailUnique DEF CbTakes, HeldOnce, Exactly, TypeOK
  <2>2. cbTask[c] = None
    BY <1>12 DEF CbTakes, Hands
  <2>3. h \notin m_overflow /\ \A d \in CbWorker : cbTask[d] # h
    BY <2>1 DEF HeldOnce, RunsOnce
  <2>4. RunsOnce'
    BY <1>12, <2>1, <2>2, <2>3 DEF CbTakes, HeldOnce, RunsOnce, TypeOK
  <2>5. Exactly(m_cb_queue, "posted")'
    BY <1>12, <2>1 DEF CbTakes, HeldOnce, Exactly, TypeOK
  <2> QED BY <1>12, <2>1, <2>4, <2>5 DEF CbTakes, HeldOnce, Exactly, TypeOK, workerVars
<1>13. CASE ClearOverflow
  BY <1>13 DEF ClearOverflow, HeldOnce, Exactly, RunsOnce, workerVars
<1>14. CASE DestroyMembers
  BY <1>14, EmptyUnique DEF DestroyMembers, HeldOnce, Exactly, RunsOnce, workerVars, cbVars
<1>15. CASE UNCHANGED <<m_requests, item, pending, m_cb_queue, cbTask, m_overflow, phase>>
  BY <1>15 DEF HeldOnce, Exactly, RunsOnce
<1> QED BY <1>2, <1>3, <1>4, <1>5, <1>6, <1>7, <1>9, <1>10, <1>11, <1>12, <1>13, <1>14, <1>15
        DEF Next, CallbackStep, CbStep, CbEnters, CbWakes, CbExits, CbFindsNothing, CbParks,
            CbSpuriousWake, WorkerStep, WorkerTop, WorkerFindsNothing, WorkerParks,
            WorkerLeavesForHeartbeat, WorkerBeats, WorkerEndsDrain, PostReadsIdle,
            DestructorStep, NotifyStoppedWorker, JoinWorker, RequestCbStop, NotifyStoppedCbs,
            JoinCbs, Connect, RequestWorkerStop, TimerStep, HeartbeatFallsDue, WaitTimesOut,
            SpuriousWake, vars, workerVars, cbVars

-----------------------------------------------------------------------------
(* The theorems                                                             *)

(* A client that has not connected satisfies the invariant.                 *)
LEMMA InitIInv == Init => IInv
<1> SUFFICES ASSUME Init PROVE IInv
  OBVIOUS
<1> USE RuntimeAssumption DEF Init
<1>1. TypeOK
  BY EmptySeq DEF TypeOK, WorkerState, CbState, OwnerState, Phase
<1>2. IdleCount
  <2>1. {c \in CbWorker : cbPc[c] \in IdleState} = {}
    BY DEF IdleState
  <2> QED BY <2>1, FS_EmptySet DEF IdleCount
<1>3. HeldOnce
  BY EmptyUnique DEF HeldOnce, Exactly, RunsOnce
<1>4. Hands /\ PostOnlyAsync /\ NestedUnsent /\ DrainState /\ Lifecycle /\ CbQueueServed
  BY DEF Hands, PostOnlyAsync, NestedUnsent, DrainState, Lifecycle, CbQueueServed, Ended
<1> QED BY <1>1, <1>2, <1>3, <1>4 DEF IInv

(* In every reachable state of the client the invariant holds.              *)
THEOREM Invariance == Spec => []IInv
<1>1. Init => IInv
  BY InitIInv
<1>2. IInv /\ [Next]_vars => IInv'
  BY TypeStep, IdleStep, HeldStep, HandsStep, PostStep, NestedStep, DrainStep, LifecycleStep, CbQueueStep
     DEF IInv
<1> QED BY <1>1, <1>2, PTL DEF Spec

(* Type correctness; with it, m_idle_cb_workers never wraps below zero.     *)
THEOREM TypeCorrect == Spec => []TypeOK
<1>1. IInv => TypeOK
  BY DEF IInv
<1> QED BY <1>1, Invariance, PTL

(* The counter that PostCallback reads without m_cb_mutex is exact.         *)
THEOREM IdleCountCorrect == Spec => []IdleCount
<1>1. IInv => IdleCount
  BY DEF IInv
<1> QED BY <1>1, Invariance, PTL

(* No request is lost or held twice, whatever the threads do.               *)
THEOREM LedgerCorrect == Spec => []HeldOnce
<1>1. IInv => HeldOnce
  BY DEF IInv
<1> QED BY <1>1, Invariance, PTL

(* When the members are destroyed nobody can touch them any more.           *)
THEOREM DestructionIsSafe == Spec => []DestructionSafe
<1>1. IInv => DestructionSafe
  <2> SUFFICES ASSUME IInv, owner \in {"members", "destroyed"}
               PROVE  /\ workerPc \in Ended
                      /\ \A c \in CbWorker : cbPc[c] \in Ended
                      /\ m_cb_queue = <<>>
                      /\ \A r \in Request :
                           phase[r] \in {"unsent", "queued", "answered", "dropped"}
    BY DEF DestructionSafe
  <2>1. /\ workerPc \in Ended
        /\ \A c \in CbWorker : cbPc[c] \in Ended
        /\ m_overflow = {}
    BY DEF IInv, Lifecycle
  <2>2. item = None /\ pending = <<>> /\ \A c \in CbWorker : cbTask[c] = None
    BY <2>1 DEF IInv, Hands, DrainState, Ended
  <2>3. CASE workerPc = "unstarted"
    <3>1. \A r \in Request : phase[r] = "unsent"
      BY <2>3 DEF IInv, Lifecycle
    <3>2. m_cb_queue = <<>>
      <4> SUFFICES ASSUME m_cb_queue # <<>> PROVE FALSE
        OBVIOUS
      <4>1. Head(m_cb_queue) \in Range(m_cb_queue) /\ Head(m_cb_queue) \in Request
        BY TailUnique, HeadTailProperties DEF IInv, TypeOK, HeldOnce, Exactly
      <4> QED BY <3>1, <4>1 DEF IInv, HeldOnce, Exactly
    <3> QED BY <2>1, <3>1, <3>2
  <2>4. CASE workerPc # "unstarted"
    <3>1. m_cb_queue = <<>>
      BY <2>1, <2>4 DEF IInv, CbQueueServed, Lifecycle, Ended
    <3>2. \A r \in Request : phase[r] \notin {"executing", "pending", "posted"}
      BY <2>2, <3>1, EmptyUnique DEF IInv, HeldOnce, Exactly
    <3>3. \A r \in Request : phase[r] \notin {"running", "awaiting"}
      BY <2>1, <2>2, RuntimeAssumption DEF IInv, HeldOnce, RunsOnce
    <3> QED BY <2>1, <3>1, <3>2, <3>3 DEF IInv, TypeOK, Phase
  <2> QED BY <2>3, <2>4
<1> QED BY <1>1, Invariance, PTL

-----------------------------------------------------------------------------
(* The refinement of RequestService, and the wakeups: for every set of      *)
(* requests, every nesting of callbacks and any number of callback workers. *)

(* pending_reqs in front of m_requests                                      *)

(* push_back on m_requests adds the request at the end of the backlog.      *)
LEMMA BacklogAppend ==
  ASSUME NEW S, NEW p \in Seq(S), NEW q \in Seq(S), NEW e \in S
  PROVE  p \o Append(q, e) = Append(p \o q, e)
<1>1. <<e>> \in Seq(S) /\ p \o q \in Seq(S)
  BY ConcatProperties
<1>2. Append(q, e) = q \o <<e>> /\ Append(p \o q, e) = (p \o q) \o <<e>>
  BY <1>1, AppendIsConcat
<1> QED BY <1>1, <1>2, ConcatAssociative

(* pop_front of pending_reqs takes the first request of the backlog.        *)
LEMMA BacklogTail ==
  ASSUME NEW S, NEW p \in Seq(S), NEW q \in Seq(S), p # <<>>
  PROVE  /\ p \o q # <<>>
         /\ Head(p \o q) = Head(p)
         /\ Tail(p \o q) = Tail(p) \o q
<1>1. p \o q # <<>>
  BY ConcatEqualIffEmpty
<1> DEFINE t == Tail(p \o q)
           u == Tail(p) \o q
<1>2. /\ Len(p) \in Nat \ {0} /\ Len(q) \in Nat
      /\ p \o q \in Seq(S) /\ Len(p \o q) = Len(p) + Len(q)
      /\ \A i \in 1..Len(p) + Len(q) : (p \o q)[i] = IF i <= Len(p) THEN p[i] ELSE q[i - Len(p)]
  BY ConcatProperties, LenProperties, EmptySeq
<1>3. /\ Tail(p) \in Seq(S) /\ Len(Tail(p)) = Len(p) - 1
      /\ \A i \in 1..Len(p) - 1 : Tail(p)[i] = p[i + 1]
  BY HeadTailProperties
<1>4. /\ t \in Seq(S) /\ Len(t) = Len(p) + Len(q) - 1
      /\ \A i \in 1..Len(p) + Len(q) - 1 : t[i] = (p \o q)[i + 1]
  BY <1>1, <1>2, HeadTailProperties
<1>5. /\ u \in Seq(S) /\ Len(u) = Len(p) - 1 + Len(q)
      /\ \A i \in 1..Len(p) - 1 + Len(q) :
           u[i] = IF i <= Len(p) - 1 THEN Tail(p)[i] ELSE q[i - (Len(p) - 1)]
  BY <1>3, ConcatProperties
<1> HIDE DEF t, u
<1>6. ASSUME NEW i \in 1..Len(t) PROVE t[i] = u[i]
  <2>1. i \in 1..Len(p) - 1 + Len(q) /\ i + 1 \in 1..Len(p) + Len(q)
    BY <1>2, <1>4
  <2>2. CASE i <= Len(p) - 1
    BY <2>1, <2>2, <1>2, <1>3, <1>4, <1>5
  <2>3. CASE i > Len(p) - 1
    <3>1. t[i] = q[i + 1 - Len(p)] /\ u[i] = q[i - (Len(p) - 1)]
      BY <2>1, <2>3, <1>2, <1>4, <1>5
    <3>2. i + 1 - Len(p) = i - (Len(p) - 1)
      BY <1>2
    <3> QED BY <3>1, <3>2
  <2> QED BY <1>2, <2>1, <2>2, <2>3
<1>7. t = u
  BY <1>2, <1>4, <1>5, <1>6, SeqEqual
<1>8. Head(p \o q) = Head(p)
  BY <1>1, <1>2
<1> QED BY <1>1, <1>7, <1>8 DEF t, u

(* The backlog holds what either queue holds.                               *)
LEMMA BacklogRange ==
  ASSUME NEW S, NEW p \in Seq(S), NEW q \in Seq(S)
  PROVE  Range(p \o q) \subseteq Range(p) \cup Range(q)
<1> DEFINE t == p \o q
<1>1. /\ Len(p) \in Nat /\ Len(q) \in Nat
      /\ DOMAIN p = 1..Len(p) /\ DOMAIN q = 1..Len(q) /\ DOMAIN t = 1..Len(p) + Len(q)
      /\ \A i \in 1..Len(p) + Len(q) : t[i] = IF i <= Len(p) THEN p[i] ELSE q[i - Len(p)]
  BY ConcatProperties, LenProperties
<1> HIDE DEF t
<1>2. ASSUME NEW i \in 1..Len(p) + Len(q) PROVE t[i] \in Range(p) \cup Range(q)
  <2>1. CASE i <= Len(p)
    BY <1>1, <2>1 DEF Range
  <2>2. CASE i > Len(p)
    <3>1. i - Len(p) \in 1..Len(q) /\ t[i] = q[i - Len(p)]
      BY <1>1, <2>2
    <3> QED BY <1>1, <3>1 DEF Range
  <2> QED BY <1>1, <2>1, <2>2
<1>3. Range(t) \subseteq Range(p) \cup Range(q)
  BY <1>1, <1>2 DEF Range
<1> QED BY <1>3 DEF t

-----------------------------------------------------------------------------
(* The refinement                                                           *)

Backlog    == pending \o m_requests
Delivering == {r \in Request : phase[r] \in {"posted", "running", "awaiting"}}
Answered   == {r \in Request : phase[r] = "answered"}
Stage      == IF owner \in {"new", "live"} THEN "open"
              ELSE IF owner = "destroyed" THEN "closed" ELSE "closing"

(* Nobody has heard of a request that was not submitted.                    *)
LEMMA UnsentUnknown ==
  ASSUME TypeOK, HeldOnce, NEW r \in Request, phase[r] = "unsent"
  PROVE  r \notin Range(Backlog) \cup {item} \cup Delivering \cup Answered
<1>1. r \notin Range(m_requests) /\ r \notin Range(pending)
  BY DEF HeldOnce, Exactly
<1>2. r \notin Range(Backlog)
  BY <1>1, BacklogRange DEF TypeOK, Backlog
<1>3. r # item
  BY RuntimeAssumption DEF HeldOnce
<1>4. r \notin Delivering \cup Answered
  BY DEF Delivering, Answered
<1> QED BY <1>2, <1>3, <1>4

(* SendToWorker and EnqueueAsync submit, from whatever thread.              *)
LEMMA SubmitServes ==
  ASSUME IInv, NEW r \in Request, NEW s \in Request,
         \/ Submit(r) /\ s = r
         \/ CallbackSubmits(r) /\ s = Awaits[r]
  PROVE  Service!Submit(s)
<1> USE DEF IInv
<1>1. phase[s] = "unsent"
  BY RuntimeAssumption DEF Submit, CallbackSubmits, NestedUnsent
<1>2. s \notin Range(Backlog) \cup {item} \cup Delivering \cup Answered
  BY <1>1, UnsentUnknown
<1>3. owner # "destroyed"
  <2>1. CASE Submit(r)
    BY <2>1 DEF Submit
  <2>2. CASE CallbackSubmits(r)
    <3>1. phase[r] = "running"
      BY <2>2 DEF CallbackSubmits
    <3>2. r \in m_overflow \/ \E c \in CbWorker : cbTask[c] = r
      BY <3>1 DEF HeldOnce, RunsOnce
    <3>3. r \in m_overflow \/ \E c \in CbWorker : cbPc[c] = "run"
      BY <3>2, RuntimeAssumption DEF Hands
    <3> QED BY <3>3 DEF Lifecycle, Ended
  <2> QED BY <2>1, <2>2
<1>4. /\ pending' = pending /\ item' = item /\ owner' = owner
      /\ m_requests' = Append(m_requests, s)
  BY DEF Submit, CallbackSubmits, Push, ownerVars
<1>5. Backlog' = Append(Backlog, s)
  BY <1>4, BacklogAppend DEF Backlog, TypeOK
<1>6. Delivering' = Delivering
  <2>1. CASE Submit(r)
    BY <2>1, <1>1 DEF Submit, Delivering, TypeOK
  <2>2. CASE CallbackSubmits(r)
    BY <2>2, <1>1 DEF CallbackSubmits, Delivering, TypeOK
  <2> QED BY <2>1, <2>2
<1>7. Answered' = Answered
  BY <1>1 DEF Submit, CallbackSubmits, Answered, TypeOK
<1>8. Service!Range(Backlog) = Range(Backlog)
  BY DEF Range, Service!Range
<1> HIDE DEF IInv
<1> QED BY <1>2, <1>3, <1>4, <1>5, <1>6, <1>7, <1>8
        DEF Service!Submit, Service!Known, Backlog, Delivering, Answered

(* The worker begins the oldest request, from m_requests or pending_reqs.   *)
LEMMA TakeServes ==
  ASSUME IInv, WorkerTake \/ (WorkerDrainsNext /\ Head(pending) \in Async)
  PROVE  Service!Begin
<1> USE DEF IInv
<1>1. item = None /\ owner' = owner
  BY DEF WorkerTake, WorkerDrainsNext, AtPredicate, Hands, ownerVars
<1>2. Backlog # <<>> /\ item' = Head(Backlog) /\ Backlog' = Tail(Backlog)
  <2>1. CASE WorkerTake
    <3>1. pending = <<>> /\ pending' = <<>>
      BY <2>1 DEF WorkerTake, AtPredicate, DrainState
    <3>2. Backlog = m_requests /\ Backlog' = m_requests'
      <4>1. m_requests' \in Seq(Request)
        BY <2>1, HeadTailProperties DEF WorkerTake, TypeOK
      <4> QED BY <3>1, <4>1, ConcatEmptySeq DEF Backlog, TypeOK
    <3> QED BY <2>1, <3>2 DEF WorkerTake
  <2>2. CASE WorkerDrainsNext /\ Head(pending) \in Async
    BY <2>2, BacklogTail DEF WorkerDrainsNext, Backlog, TypeOK
  <2> QED BY <2>1, <2>2
<1>3. item' \in Request /\ phase[item'] \in {"queued", "pending"}
      /\ phase' = [phase EXCEPT ![item'] = "executing"]
  <2>1. CASE WorkerTake
    BY <2>1, TailUnique DEF WorkerTake, HeldOnce, Exactly, TypeOK
  <2>2. CASE WorkerDrainsNext /\ Head(pending) \in Async
    BY <2>2, TailUnique DEF WorkerDrainsNext, HeldOnce, Exactly, TypeOK
  <2> QED BY <2>1, <2>2
<1>4. Delivering' = Delivering /\ Answered' = Answered
  BY <1>3 DEF Delivering, Answered, TypeOK
<1> QED BY <1>1, <1>2, <1>4 DEF Service!Begin, Backlog, Delivering, Answered

(* execute() is answered by the worker, execute_async() dispatched.         *)
LEMMA FinishServes ==
  ASSUME IInv, PostSpawns \/ PostQueues \/ (WorkerExecutes /\ item \notin Async)
  PROVE  Service!Finish
<1> USE DEF IInv
<1>1. /\ item \in Request /\ item # None /\ phase[item] = "executing"
      /\ item' = None /\ owner' = owner
      /\ pending' = pending /\ m_requests' = m_requests
  BY RuntimeAssumption DEF PostSpawns, PostQueues, WorkerExecutes, HeldOnce, Hands, TypeOK, ownerVars
<1>2. CASE PostSpawns \/ PostQueues
  <2>1. item \in Async
    BY <1>2 DEF PostSpawns, PostQueues, PostOnlyAsync
  <2>2. Delivering' = Delivering \cup {item} /\ Answered' = Answered
    BY <1>1, <1>2 DEF PostSpawns, PostQueues, Delivering, Answered, TypeOK
  <2> QED BY <1>1, <2>1, <2>2 DEF Service!Finish, Delivering, Answered
<1>3. CASE WorkerExecutes /\ item \notin Async
  <2>1. Delivering' = Delivering /\ Answered' = Answered \cup {item}
    BY <1>1, <1>3 DEF WorkerExecutes, Delivering, Answered, TypeOK
  <2> QED BY <1>1, <1>3, <2>1 DEF Service!Finish, Delivering, Answered
<1> QED BY <1>2, <1>3

(* A callback that returns is delivered.                                    *)
LEMMA DeliverServes ==
  ASSUME IInv, NEW r \in Request, CallbackReturns(r)
  PROVE  Service!Deliver(r)
<1>1. phase[r] \in {"running", "awaiting"} /\ phase' = [phase EXCEPT ![r] = "answered"]
  BY DEF CallbackReturns
<1>2. r \in Delivering /\ Delivering' = Delivering \ {r} /\ Answered' = Answered \cup {r}
  BY <1>1 DEF Delivering, Answered, IInv, TypeOK
<1>3. UNCHANGED <<m_requests, pending, item, owner>>
  BY DEF CallbackReturns, workerVars, ownerVars
<1> QED BY <1>2, <1>3 DEF Service!Deliver, Delivering, Answered

(* The drain answers execute() without executing it.                        *)
LEMMA RefuseServes ==
  ASSUME IInv, WorkerDrainsNext, Head(pending) \notin Async
  PROVE  Service!Refuse
<1> USE DEF IInv
<1>1. /\ item = None /\ item' = None /\ owner' = owner
      /\ owner \notin {"new", "live", "destroyed"}
  <2>1. workerPc = "drain" /\ item = None
    BY DEF WorkerDrainsNext, Hands
  <2>2. draining
    BY <2>1 DEF DrainState, WorkerDrainsNext, Ended
  <2> QED BY <2>1, <2>2 DEF WorkerDrainsNext, DrainState, Lifecycle, Ended, ownerVars
<1>2. Backlog # <<>> /\ Head(Backlog) = Head(pending) /\ Backlog' = Tail(Backlog)
  BY BacklogTail DEF WorkerDrainsNext, Backlog, TypeOK
<1>3. Head(pending) \in Request /\ phase[Head(pending)] = "pending"
  BY TailUnique DEF WorkerDrainsNext, HeldOnce, Exactly, TypeOK
<1>4. Delivering' = Delivering /\ Answered' = Answered \cup {Head(pending)}
  BY <1>3 DEF WorkerDrainsNext, Delivering, Answered, TypeOK
<1> QED BY <1>1, <1>2, <1>4 DEF Service!Refuse, Backlog, Delivering, Answered

(* The members are destroyed when nothing is executing or being delivered.  *)
LEMMA DiscardServes ==
  ASSUME IInv, DestructionSafe, DestroyMembers
  PROVE  Service!Discard
<1> USE DEF IInv
<1>1. owner = "members" /\ owner' = "destroyed" /\ item' = item
  BY DEF DestroyMembers, workerVars
<1>2. item = None /\ pending' = <<>> /\ m_requests' = <<>>
  BY <1>1 DEF DestroyMembers, Lifecycle, Hands, DrainState, Ended, workerVars
<1>3. Backlog' = <<>>
  BY <1>2, EmptySeq, ConcatEmptySeq DEF Backlog
<1>4. Delivering = {} /\ Delivering' = {} /\ Answered' = Answered
  BY <1>1 DEF DestroyMembers, DestructionSafe, Delivering, Answered, TypeOK
<1> QED BY <1>1, <1>2, <1>3, <1>4 DEF Service!Discard, Backlog, Delivering, Answered

(* What the threads do besides is invisible to the callers.                 *)
LEMMA StutterServes ==
  ASSUME IInv, UNCHANGED <<m_requests, pending, item, Stage>>,
         \A r \in Request : phase'[r] = phase[r]
                          \/ {phase'[r], phase[r]} \subseteq {"posted", "running", "awaiting"}
  PROVE  UNCHANGED Service!vars
<1>1. Delivering' = Delivering /\ Answered' = Answered
  BY DEF Delivering, Answered
<1> QED BY <1>1 DEF Service!vars, Delivering, Answered, Stage

(* Each step of the threads is a step of the service or invisible.          *)
LEMMA StepServes ==
  ASSUME IInv, DestructionSafe, [Next]_vars
  PROVE  [Service!Next]_Service!vars
<1> USE DEF IInv
<1>1. ASSUME NEW r \in Request, Submit(r) PROVE Service!Next
  BY <1>1, SubmitServes DEF Service!Next
<1>2. ASSUME NEW r \in Request, CallbackSubmits(r) PROVE Service!Next
  <2>1. Awaits[r] \in Request
    BY <1>2, RuntimeAssumption DEF CallbackSubmits
  <2> QED BY <1>2, <2>1, SubmitServes DEF Service!Next
<1>3. ASSUME NEW r \in Request, CallbackReturns(r) PROVE Service!Next
  BY <1>3, DeliverServes DEF Service!Next
<1>4. CASE WorkerTake
  BY <1>4, TakeServes DEF Service!Next
<1>5. CASE WorkerDrainsNext
  BY <1>5, TakeServes, RefuseServes DEF Service!Next
<1>6. CASE PostSpawns \/ PostQueues
  BY <1>6, FinishServes DEF Service!Next
<1>7. CASE WorkerExecutes
  <2>1. CASE item \notin Async
    BY <1>7, <2>1, FinishServes DEF Service!Next
  <2>2. CASE item \in Async
    BY <1>7, <2>2, StutterServes DEF WorkerExecutes, ownerVars, Stage
  <2> QED BY <2>1, <2>2
<1>8. CASE WorkerBeginsDrain
  <2>1. pending = <<>> /\ pending' = m_requests /\ m_requests' = <<>>
    BY <1>8 DEF WorkerBeginsDrain, AtPredicate, DrainState
  <2>2. Backlog' = Backlog
    BY <2>1, ConcatEmptySeq DEF Backlog, TypeOK
  <2>3. Delivering' = Delivering /\ Answered' = Answered
    BY <1>8 DEF WorkerBeginsDrain, Delivering, Answered
  <2>4. UNCHANGED <<item, owner>>
    BY <1>8 DEF WorkerBeginsDrain, ownerVars
  <2> QED BY <2>2, <2>3, <2>4 DEF Service!vars, Backlog, Delivering, Answered
<1>9. CASE \/ WorkerTop \/ WorkerFindsNothing \/ WorkerParks \/ WorkerLeavesForHeartbeat
           \/ WorkerBeats \/ WorkerEndsDrain \/ PostReadsIdle \/ TimerStep \/ SpuriousWake
  <2>1. UNCHANGED <<m_requests, pending, item, owner, phase>>
    BY <1>9 DEF WorkerTop, WorkerFindsNothing, WorkerParks, WorkerLeavesForHeartbeat, WorkerBeats,
       WorkerEndsDrain, PostReadsIdle, TimerStep, HeartbeatFallsDue, WaitTimesOut, SpuriousWake,
       ownerVars
  <2> QED BY <2>1, StutterServes DEF Stage
<1>10. ASSUME NEW c \in CbWorker, CbTakes(c) PROVE UNCHANGED Service!vars
  <2>1. Head(m_cb_queue) \in Request /\ phase[Head(m_cb_queue)] = "posted"
    BY <1>10, TailUnique DEF CbTakes, TypeOK, HeldOnce, Exactly
  <2>2. UNCHANGED <<m_requests, pending, item, owner>>
    BY <1>10 DEF CbTakes, workerVars, ownerVars
  <2> QED BY <1>10, <2>1, <2>2, StutterServes DEF CbTakes, TypeOK, Stage
<1>11. ASSUME NEW c \in CbWorker, CbStep(c) \/ CbSpuriousWake(c), ~CbTakes(c)
       PROVE  UNCHANGED Service!vars
  <2>1. UNCHANGED <<m_requests, pending, item, owner, phase>>
    BY <1>11 DEF CbStep, CbEnters, CbWakes, CbExits, CbFindsNothing, CbParks, CbSpuriousWake,
       workerVars, ownerVars
  <2> QED BY <2>1, StutterServes DEF Stage
<1>12. CASE RequestWorkerStop
  <2>1. /\ Stage = "open" /\ Stage' = "closing"
        /\ UNCHANGED <<m_requests, pending, item, phase>>
    BY <1>12 DEF RequestWorkerStop, Stage, workerVars
  <2> QED BY <2>1 DEF Service!Next, Service!Close, Stage
<1>13. CASE DestroyMembers
  BY <1>13, DiscardServes DEF Service!Next
<1>14. CASE Connect \/ (DestructorStep /\ ~DestroyMembers)
  <2>1. /\ Stage' = Stage
        /\ UNCHANGED <<m_requests, pending, item, phase>>
    BY <1>14 DEF Connect, DestructorStep, NotifyStoppedWorker, JoinWorker, ClearOverflow,
       RequestCbStop, NotifyStoppedCbs, JoinCbs, workerVars, Stage
  <2> QED BY <2>1, StutterServes
<1>15. CASE UNCHANGED vars
  <2>1. UNCHANGED <<m_requests, pending, item, owner, phase>>
    BY <1>15 DEF vars, workerVars, ownerVars
  <2> QED BY <2>1, StutterServes DEF Stage
<1> HIDE DEF IInv
<1> QED BY <1>1, <1>2, <1>3, <1>4, <1>5, <1>6, <1>7, <1>8, <1>9, <1>10, <1>11, <1>12, <1>13,
           <1>14, <1>15
        DEF Next, CallbackStep, WorkerStep, DestructorStep

(* The client's threads and queues implement the request service.           *)
THEOREM Serves == Spec => ServesInOrder
<1>1. Init => Service!Init
  <2> SUFFICES ASSUME Init PROVE Service!Init
    OBVIOUS
  <2>1. Backlog = <<>> /\ Delivering = {} /\ Answered = {}
    BY EmptySeq, ConcatEmptySeq DEF Init, Backlog, Delivering, Answered
  <2> QED BY <2>1 DEF Init, Service!Init, Backlog, Delivering, Answered
<1>2. IInv /\ DestructionSafe /\ [Next]_vars => [Service!Next]_Service!vars
  BY StepServes
<1> QED BY <1>1, <1>2, Invariance, DestructionIsSafe, PTL DEF Spec, ServesInOrder, Service!Spec

-----------------------------------------------------------------------------
(* Wakeups                                                                  *)

(* Callback workers that will look at m_cb_queue                            *)
Awake == {c \in CbWorker : cbPc[c] \in {"lock", "pred", "wake"}}

(* A callback worker that gives up its mutex to sleep left no task          *)
ParksOnEmpty == \A c \in CbWorker : cbPc[c] = "parking" => m_cb_queue = <<>>

SomeParked == \E c \in CbWorker : cbPc[c] = "parked"

WorkerAwake  == m_requests # <<>> => workerPc \notin {"parking", "parked"}
EnoughAwake  == SomeParked => Len(m_cb_queue) <= Cardinality(Awake)
WakeInv      == WorkerAwake /\ EnoughAwake /\ ParksOnEmpty

(* Who pushes to m_requests wakes the worker, and the worker blocks only    *)
(* after it has seen m_requests empty under m_mutex.                        *)
LEMMA WorkerAwakeStep ==
  ASSUME TypeOK, Lifecycle, WorkerAwake, [Next]_vars
  PROVE  WorkerAwake'
<1> USE DEF WorkerAwake
<1>1. ASSUME NEW r \in Request, Submit(r) \/ CallbackSubmits(r) PROVE WorkerAwake'
  BY <1>1 DEF Submit, CallbackSubmits, Push, NotifyWorker, MutexFree
<1>2. CASE WorkerStep
  BY <1>2 DEF WorkerStep, WorkerTop, WorkerTake, WorkerBeginsDrain, WorkerFindsNothing,
     WorkerParks, WorkerLeavesForHeartbeat, WorkerBeats, WorkerExecutes, WorkerDrainsNext,
     WorkerEndsDrain, PostReadsIdle, PostSpawns, PostQueues, AtPredicate, AfterAnswer
<1>3. CASE Connect \/ NotifyStoppedWorker \/ DestroyMembers \/ WaitTimesOut \/ SpuriousWake
  BY <1>3 DEF Connect, NotifyStoppedWorker, NotifyWorker, DestroyMembers, WaitTimesOut,
     SpuriousWake, workerVars
<1>4. CASE UNCHANGED <<m_requests, workerPc>>
  BY <1>4
<1>5. ASSUME NEW c \in CbWorker, CbStep(c) \/ CbSpuriousWake(c) PROVE WorkerAwake'
  BY <1>4, <1>5 DEF CbStep, CbEnters, CbWakes, CbTakes, CbExits, CbFindsNothing, CbParks,
     CbSpuriousWake, workerVars
<1> QED BY <1>1, <1>2, <1>3, <1>4, <1>5
        DEF Next, CallbackStep, CallbackReturns, DestructorStep, JoinWorker, ClearOverflow,
            RequestCbStop, NotifyStoppedCbs, JoinCbs, RequestWorkerStop, TimerStep,
            HeartbeatFallsDue, workerVars, vars

(* A task is pushed only when m_cb_mutex is free.                           *)
LEMMA ParksOnEmptyStep ==
  ASSUME TypeOK, Hands, ParksOnEmpty, [Next]_vars
  PROVE  ParksOnEmpty'
<1> USE DEF ParksOnEmpty
<1>1. CASE PostQueues
  <2>1. \A c \in CbWorker : cbPc'[c] # "parking"
    BY <1>1 DEF PostQueues, CbMutexFree, NotifyOneCb, TypeOK
  <2> QED BY <2>1
<1>2. ASSUME NEW c \in CbWorker, CbFindsNothing(c) PROVE ParksOnEmpty'
  BY <1>2 DEF CbFindsNothing, TypeOK
<1>3. ASSUME NEW c \in CbWorker, CbTakes(c) PROVE ParksOnEmpty'
  BY <1>3 DEF CbTakes, TypeOK
<1>4. ASSUME m_cb_queue' = m_cb_queue, \A c \in CbWorker : cbPc'[c] = "parking" => cbPc[c] = "parking"
      PROVE  ParksOnEmpty'
  BY <1>4
<1>5. ASSUME NEW c \in CbWorker, CbStep(c) \/ CbSpuriousWake(c), ~CbTakes(c), ~CbFindsNothing(c)
      PROVE  ParksOnEmpty'
  <2>1. m_cb_queue' = m_cb_queue /\ \A d \in CbWorker : cbPc'[d] = "parking" => cbPc[d] = "parking"
    BY <1>5 DEF CbStep, CbEnters, CbWakes, CbExits, CbParks, CbSpuriousWake, TypeOK
  <2> QED BY <2>1, <1>4
<1>6. CASE Connect \/ NotifyStoppedCbs \/ \E r \in Request : CallbackReturns(r)
  <2>1. m_cb_queue' = m_cb_queue /\ \A d \in CbWorker : cbPc'[d] = "parking" => cbPc[d] = "parking"
    BY <1>6 DEF Connect, NotifyStoppedCbs, CallbackReturns, TypeOK
  <2> QED BY <2>1, <1>4
<1>7. CASE UNCHANGED <<m_cb_queue, cbPc>>
  BY <1>7
<1>8. CASE WorkerStep /\ ~PostQueues
  BY <1>7, <1>8 DEF WorkerStep, WorkerTop, WorkerTake, WorkerBeginsDrain, WorkerFindsNothing,
     WorkerParks, WorkerLeavesForHeartbeat, WorkerBeats, WorkerExecutes, WorkerDrainsNext,
     WorkerEndsDrain, PostReadsIdle, PostSpawns, cbVars
<1> QED BY <1>1, <1>2, <1>3, <1>5, <1>6, <1>7, <1>8
        DEF Next, CallbackStep, Submit, CallbackSubmits, DestructorStep, NotifyStoppedWorker,
            JoinWorker, ClearOverflow, RequestCbStop, JoinCbs, DestroyMembers, RequestWorkerStop,
            TimerStep, HeartbeatFallsDue, WaitTimesOut, SpuriousWake, cbVars, vars

(* Sets of callback workers are finite, so their sizes are numbers.         *)
LEMMA AwakeFinite ==
  /\ IsFiniteSet(Awake) /\ Cardinality(Awake) \in Nat
  /\ IsFiniteSet(Awake') /\ Cardinality(Awake') \in Nat
<1>1. Awake \subseteq CbWorker /\ Awake' \subseteq CbWorker
  BY DEF Awake
<1> QED BY <1>1, FS_Subset, FS_CardinalityType, RuntimeAssumption

(* One task more wakes one worker more; a worker that takes one leaves one  *)
(* less; a worker parks only over an empty queue.                           *)
LEMMA EnoughAwakeStep ==
  ASSUME TypeOK, Hands, Lifecycle, EnoughAwake, ParksOnEmpty, [Next]_vars
  PROVE  EnoughAwake'
<1>1. Len(m_cb_queue) \in Nat
  BY LenProperties DEF TypeOK
<1>2. ASSUME m_cb_queue' = <<>> PROVE EnoughAwake'
  BY <1>2, AwakeFinite, EmptySeq DEF EnoughAwake
<1>3. ASSUME m_cb_queue' = m_cb_queue, Awake \subseteq Awake',
             SomeParked' => SomeParked \/ m_cb_queue = <<>>
      PROVE  EnoughAwake'
  <2>1. Cardinality(Awake) <= Cardinality(Awake')
    BY <1>3, AwakeFinite, FS_Subset
  <2>2. CASE SomeParked
    BY <2>1, <2>2, <1>1, <1>3, AwakeFinite DEF EnoughAwake
  <2>3. CASE m_cb_queue = <<>>
    BY <2>3, <1>2, <1>3
  <2> QED BY <2>2, <2>3, <1>3 DEF EnoughAwake
<1>4. CASE PostQueues
  <2>1. Len(m_cb_queue') = Len(m_cb_queue) + 1
    BY <1>4, AppendProperties DEF PostQueues, Hands, TypeOK
  <2>2. CASE SomeParked
    <3>1. PICK c \in CbWorker : cbPc[c] = "parked" /\ cbPc' = [cbPc EXCEPT ![c] = "wake"]
      BY <1>4, <2>2 DEF PostQueues, NotifyOneCb, SomeParked
    <3>2. c \notin Awake /\ Awake' = Awake \cup {c}
      BY <3>1 DEF Awake, TypeOK
    <3>3. Cardinality(Awake') = Cardinality(Awake) + 1
      BY <3>2, AwakeFinite, FS_AddElement
    <3> QED BY <2>1, <2>2, <3>3, <1>1, AwakeFinite DEF EnoughAwake
  <2>3. CASE ~SomeParked
    <3>1. cbPc' = cbPc
      BY <1>4, <2>3 DEF PostQueues, NotifyOneCb, SomeParked
    <3> QED BY <2>3, <3>1 DEF EnoughAwake, SomeParked
  <2> QED BY <2>2, <2>3
<1>5. ASSUME NEW c \in CbWorker, CbTakes(c) PROVE EnoughAwake'
  <2>1. Len(m_cb_queue') = Len(m_cb_queue) - 1
    BY <1>5, HeadTailProperties DEF CbTakes, TypeOK
  <2>2. c \in Awake /\ Awake' = Awake \ {c}
    BY <1>5 DEF CbTakes, Awake, TypeOK
  <2>3. Cardinality(Awake') = Cardinality(Awake) - 1
    BY <2>2, AwakeFinite, FS_RemoveElement
  <2>4. SomeParked' => SomeParked
    BY <1>5 DEF CbTakes, SomeParked, TypeOK
  <2> QED BY <2>1, <2>3, <2>4, <1>1, AwakeFinite DEF EnoughAwake
<1>6. ASSUME NEW c \in CbWorker, CbExits(c) \/ CbFindsNothing(c) PROVE EnoughAwake'
  BY <1>2, <1>6 DEF CbExits, CbFindsNothing
<1>7. ASSUME NEW c \in CbWorker, CbParks(c) PROVE EnoughAwake'
  BY <1>2, <1>7 DEF CbParks, ParksOnEmpty
<1>8. ASSUME NEW c \in CbWorker, CbEnters(c) \/ CbWakes(c) \/ CbSpuriousWake(c) PROVE EnoughAwake'
  <2>1. /\ m_cb_queue' = m_cb_queue /\ Awake \subseteq Awake'
        /\ SomeParked' => SomeParked
    BY <1>8 DEF CbEnters, CbWakes, CbSpuriousWake, Awake, SomeParked, TypeOK
  <2> QED BY <2>1, <1>3
<1>9. ASSUME NEW r \in Request, CallbackReturns(r) PROVE EnoughAwake'
  <2>1. \A c \in CbWorker : cbTask[c] = r => cbPc[c] = "run"
    BY RuntimeAssumption DEF Hands
  <2>2. /\ m_cb_queue' = m_cb_queue /\ Awake \subseteq Awake'
        /\ SomeParked' => SomeParked
    BY <1>9, <2>1 DEF CallbackReturns, Awake, SomeParked, TypeOK
  <2> QED BY <2>2, <1>3
<1>10. CASE Connect \/ NotifyStoppedCbs
  <2>1. ~SomeParked'
    BY <1>10 DEF Connect, NotifyStoppedCbs, SomeParked
  <2> QED BY <2>1 DEF EnoughAwake
<1>11. CASE UNCHANGED <<m_cb_queue, cbPc>>
  <2>1. m_cb_queue' = m_cb_queue /\ Awake' = Awake /\ SomeParked' = SomeParked
    BY <1>11 DEF Awake, SomeParked
  <2> QED BY <2>1, <1>3
<1>12. CASE WorkerStep /\ ~PostQueues
  BY <1>11, <1>12 DEF WorkerStep, WorkerTop, WorkerTake, WorkerBeginsDrain, WorkerFindsNothing,
     WorkerParks, WorkerLeavesForHeartbeat, WorkerBeats, WorkerExecutes, WorkerDrainsNext,
     WorkerEndsDrain, PostReadsIdle, PostSpawns, cbVars
<1> QED BY <1>4, <1>5, <1>6, <1>7, <1>8, <1>9, <1>10, <1>11, <1>12
        DEF Next, CallbackStep, Submit, CallbackSubmits, CbStep, DestructorStep,
            NotifyStoppedWorker, JoinWorker, ClearOverflow, RequestCbStop, JoinCbs,
            DestroyMembers, RequestWorkerStop, TimerStep, HeartbeatFallsDue, WaitTimesOut,
            SpuriousWake, cbVars, vars

(* No notify is lost in the running client, whatever PostCallback has read  *)
(* from m_idle_cb_workers and whoever takes the task.                       *)
THEOREM WakeupsSuffice == Spec => []WakeupsCoverWork
<1>1. Init => WakeInv
  <2> SUFFICES ASSUME Init PROVE WakeInv
    OBVIOUS
  <2> QED BY DEF Init, WakeInv, WorkerAwake, EnoughAwake, ParksOnEmpty, SomeParked
<1>2. IInv /\ WakeInv /\ [Next]_vars => WakeInv'
  BY WorkerAwakeStep, ParksOnEmptyStep, EnoughAwakeStep DEF IInv, WakeInv
<1>3. WakeInv => WakeupsCoverWork
  BY DEF WakeInv, WorkerAwake, EnoughAwake, SomeParked, Awake, WakeupsCoverWork
<1> QED BY <1>1, <1>2, <1>3, Invariance, PTL DEF Spec

=============================================================================
