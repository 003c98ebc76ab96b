------------------------ MODULE ConnectionPoolProofs ------------------------
(* Proofs of the safety properties of ConnectionPool for any number of      *)
(* users and warm-up threads and every configuration.                       *)
EXTENDS ConnectionPool, FiniteSetTheorems, SequenceTheorems, TLAPS

-----------------------------------------------------------------------------
(* The queue of connections                                                 *)

(* push of a connection that is not in the queue.                           *)
LEMMA PushUnique ==
  ASSUME NEW S, NEW s \in Seq(S), NEW e \in S, IsInjective(s), e \notin Range(s)
  PROVE  /\ Append(s, e) \in Seq(S)
         /\ IsInjective(Append(s, e))
         /\ Range(Append(s, e)) = Range(s) \cup {e}
<1> DEFINE t == Append(s, e)
<1>1. /\ t \in Seq(S) /\ Len(s) \in Nat
      /\ \A i \in 1..Len(s) : t[i] = s[i]
      /\ t[Len(s) + 1] = e
      /\ DOMAIN t = 1..(Len(s) + 1) /\ DOMAIN s = 1..Len(s)
  BY AppendProperties, LenProperties
<1> HIDE DEF t
<1>2. \A i \in 1..Len(s) : s[i] # e
  BY <1>1 DEF Range
<1>3. IsInjective(t) /\ Range(t) = Range(s) \cup {e}
  BY <1>1, <1>2 DEF IsInjective, Range
<1> QED BY <1>1, <1>3 DEF t

(* front and pop of a queue that is not empty.                              *)
LEMMA PopUnique ==
  ASSUME NEW S, NEW s \in Seq(S), s # <<>>, IsInjective(s)
  PROVE  /\ Head(s) \in S /\ Head(s) \in Range(s)
         /\ Tail(s) \in Seq(S)
         /\ IsInjective(Tail(s))
         /\ Range(Tail(s)) \subseteq Range(s) \ {Head(s)}
<1> DEFINE t == Tail(s)
<1>1. /\ t \in Seq(S) /\ Len(t) = Len(s) - 1 /\ Len(s) \in Nat \ {0}
      /\ \A i \in 1..Len(t) : t[i] = s[i + 1]
      /\ DOMAIN t = 1..Len(t) /\ DOMAIN s = 1..Len(s)
      /\ Head(s) = s[1] /\ Head(s) \in S
  BY HeadTailProperties, LenProperties, EmptySeq
<1> HIDE DEF t
<1>2. ASSUME NEW i \in 1..Len(t)
      PROVE  i + 1 \in 1..Len(s) /\ i + 1 # 1 /\ t[i] = s[i + 1]
  BY <1>1
<1>3. IsInjective(t)
  <2> SUFFICES ASSUME NEW i \in 1..Len(t), NEW j \in 1..Len(t), t[i] = t[j] PROVE i = j
    BY <1>1 DEF IsInjective
  <2>1. i + 1 = j + 1
    BY <1>1, <1>2 DEF IsInjective
  <2> QED BY <2>1
<1>4. Range(t) \subseteq Range(s) \ {s[1]}
  <2> SUFFICES ASSUME NEW i \in 1..Len(t) PROVE t[i] \in Range(s) /\ t[i] # s[1]
    BY <1>1 DEF Range
  <2> QED BY <1>1, <1>2 DEF IsInjective, Range
<1>5. s[1] \in Range(s)
  BY <1>1 DEF Range
<1> QED BY <1>1, <1>3, <1>4, <1>5 DEF t

-----------------------------------------------------------------------------
(* The reference count                                                      *)

Pointers == {u \in User : hasPool[u]}
Managers == {u \in User : HasManager(u)}

(* Both kinds of reference are finite sets, counted by m_ref_count.         *)
LEMMA CountedFinite ==
  ASSUME RefCount
  PROVE  /\ IsFiniteSet(Pointers) /\ IsFiniteSet(Managers)
         /\ Cardinality(Pointers) \in Nat /\ Cardinality(Managers) \in Nat
         /\ m_ref_count = Cardinality(Pointers) + Cardinality(Managers)
<1>1. IsFiniteSet(Pointers) /\ IsFiniteSet(Managers)
  BY FS_Subset, PoolAssumption DEF Pointers, Managers
<1> QED BY <1>1, FS_CardinalityType DEF RefCount, Pointers, Managers

(* The last reference is the only one.                                      *)
LEMMA LastReference ==
  ASSUME RefCount, m_ref_count = 1, NEW u \in User, hasPool[u] \/ HasManager(u)
  PROVE  /\ \A v \in User : hasPool[v] => v = u
         /\ \A v \in User : HasManager(v) => v = u
         /\ ~(hasPool[u] /\ HasManager(u))
<1>1. /\ IsFiniteSet(Pointers) /\ IsFiniteSet(Managers)
      /\ Cardinality(Pointers) \in Nat /\ Cardinality(Managers) \in Nat
      /\ Cardinality(Pointers) + Cardinality(Managers) = 1
  BY CountedFinite
<1>2. CASE Cardinality(Pointers) = 0
  <2>1. Pointers = {} /\ Cardinality(Managers) = 1
    BY <1>1, <1>2, FS_EmptySet
  <2>2. u \in Managers
    BY <2>1 DEF Pointers, Managers
  <2>3. Cardinality(Managers \ {u}) = 0 /\ IsFiniteSet(Managers \ {u})
    BY <1>1, <2>1, <2>2, FS_RemoveElement
  <2>4. Managers \ {u} = {}
    BY <2>3, FS_EmptySet
  <2> QED BY <2>1, <2>4 DEF Pointers, Managers
<1>3. CASE Cardinality(Managers) = 0
  <2>1. Managers = {} /\ Cardinality(Pointers) = 1
    BY <1>1, <1>3, FS_EmptySet
  <2>2. u \in Pointers
    BY <2>1 DEF Pointers, Managers
  <2>3. Cardinality(Pointers \ {u}) = 0 /\ IsFiniteSet(Pointers \ {u})
    BY <1>1, <2>1, <2>2, FS_RemoveElement
  <2>4. Pointers \ {u} = {}
    BY <2>3, FS_EmptySet
  <2> QED BY <2>1, <2>4 DEF Pointers, Managers
<1> QED BY <1>1, <1>2, <1>3

(* Without references nobody holds anything.                                *)
LEMMA NoReference ==
  ASSUME RefCount, NEW u \in User, hasPool[u] \/ HasManager(u)
  PROVE  m_ref_count - 1 \in Nat
<1>1. u \in Pointers \/ u \in Managers
  BY DEF Pointers, Managers
<1>2. Cardinality(Pointers) # 0 \/ Cardinality(Managers) # 0
  BY <1>1, CountedFinite, FS_EmptySet
<1> QED BY <1>2, CountedFinite

(* Steps of a user that neither make nor end a manager and keep its pointer *)
Plain(u) == \/ Acquire(u) \/ FindsNone(u) \/ TakePermit(u) \/ TimesOut(u) \/ RecheckFinds(u)
            \/ RecheckFindsNone(u) \/ CreateFails(u) \/ Refund(u)
            \/ BeginReturn(u) \/ PushBack(u) \/ ReleasePermit(u)
            \/ WaitForWarmup(u) \/ SeesReady(u) \/ JoinWarmup(u) \/ DeleteStep(u)

(* The steps that return a connection with a manager around it              *)
Wrapping(u) == FastPath(u) \/ ReturnSpare(u) \/ CreateSucceeds(u)

(* The assignments of a user's pointer                                      *)
Assigns(u, v) == CopyPool(u, v) \/ MovePool(u, v)

(* Every step of the pool is of one of these kinds.                         *)
LEMMA StepKinds ==
  ASSUME [Next]_vars
  PROVE  \/ \E u \in User : Plain(u) \/ Wrapping(u) \/ DropReleaser(u) \/ DropPool(u)
         \/ \E u, v \in User : MoveManager(u, v) \/ Assigns(u, v)
         \/ \E f \in Filler : FillStep(f)
         \/ UNCHANGED vars
  BY DEF Next, UserStep, AcquireStep, ReturnStep, WaitStep, DeleteStep, Plain, Wrapping, Assigns

(* A plain step leaves references and managers as they are.                 *)
LEMMA PlainKeepsReferences ==
  ASSUME TypeOK, NEW u \in User, Plain(u)
  PROVE  UNCHANGED <<m_ref_count, hasPool, Managers>>
<1> USE DEF TypeOK, UserState, Goto
<1>1. UNCHANGED <<m_ref_count, hasPool>>
  BY DEF Plain, Acquire, FindsNone, TakePermit, TimesOut, RecheckFinds, RecheckFindsNone,
     CreateFails, Refund, BeginReturn, PushBack, ReleasePermit, WaitForWarmup, SeesReady,
     JoinWarmup, DeleteStep, StopFiller, Delete, refVars
<1>2. ASSUME pc' = pc PROVE Managers' = Managers
  BY <1>2 DEF Managers, HasManager
<1>3. ASSUME NEW s \in UserState, pc' = [pc EXCEPT ![u] = s],
             pc[u] \in {"holding", "push", "permit", "unref"}
               <=> s \in {"holding", "push", "permit", "unref"}
      PROVE  Managers' = Managers
  BY <1>3 DEF Managers, HasManager
<1>4. \/ pc' = pc
      \/ \E s \in UserState : /\ pc' = [pc EXCEPT ![u] = s]
                              /\ pc[u] \in {"holding", "push", "permit", "unref"}
                                   <=> s \in {"holding", "push", "permit", "unref"}
  BY DEF Plain, Acquire, FindsNone, TakePermit, TimesOut, RecheckFinds, RecheckFindsNone,
     CreateFails, Refund, BeginReturn, PushBack, ReleasePermit, WaitForWarmup, SeesReady,
     JoinWarmup, DeleteStep, StopFiller, Delete
<1>5. Managers' = Managers
  BY <1>2, <1>3, <1>4
<1> QED BY <1>1, <1>5

(* Making, moving and ending managers and pointers keeps the count exact.   *)
LEMMA RefStep ==
  ASSUME TypeOK, RefCount, [Next]_vars
  PROVE  RefCount'
<1> USE DEF TypeOK, UserState, Goto
<1>1. /\ IsFiniteSet(Pointers) /\ IsFiniteSet(Managers)
      /\ Cardinality(Pointers) \in Nat /\ Cardinality(Managers) \in Nat
      /\ m_ref_count = Cardinality(Pointers) + Cardinality(Managers)
  BY CountedFinite
<1>2. RefCount' <=> m_ref_count' = Cardinality(Pointers') + Cardinality(Managers')
  BY DEF RefCount, Pointers, Managers
<1>3. ASSUME UNCHANGED <<m_ref_count, hasPool, Managers>> PROVE RefCount'
  BY <1>1, <1>2, <1>3 DEF Pointers
<1>4. ASSUME NEW u \in User, Wrapping(u) PROVE RefCount'
  <2>1. /\ pc' = [pc EXCEPT ![u] = "holding"] /\ ~HasManager(u)
        /\ m_ref_count' = m_ref_count + 1 /\ hasPool' = hasPool
    BY <1>4 DEF Wrapping, FastPath, ReturnSpare, CreateSucceeds, Wrap, HasManager
  <2>2. Managers' = Managers \cup {u} /\ u \notin Managers /\ Pointers' = Pointers
    BY <2>1 DEF Managers, HasManager, Pointers
  <2>3. Cardinality(Managers') = Cardinality(Managers) + 1
    BY <2>2, <1>1, FS_AddElement
  <2> QED BY <2>1, <2>2, <2>3, <1>1, <1>2
<1>5. ASSUME NEW u \in User, DropReleaser(u) PROVE RefCount'
  <2>1. /\ HasManager(u) /\ hasPool' = hasPool /\ m_ref_count' = m_ref_count - 1
        /\ \E s \in {"deleting", "idle"} : pc' = [pc EXCEPT ![u] = s]
    BY <1>5 DEF DropReleaser, Unref, HasManager
  <2>2. Managers' = Managers \ {u} /\ u \in Managers /\ Pointers' = Pointers
    BY <2>1 DEF Managers, HasManager, Pointers
  <2>3. Cardinality(Managers') = Cardinality(Managers) - 1
    BY <2>2, <1>1, FS_RemoveElement
  <2> QED BY <2>1, <2>2, <2>3, <1>1, <1>2
<1>6. ASSUME NEW u \in User, DropPool(u) PROVE RefCount'
  <2>1. /\ hasPool[u] /\ hasPool' = [hasPool EXCEPT ![u] = FALSE]
        /\ m_ref_count' = m_ref_count - 1
    BY <1>6 DEF DropPool, Unref
  <2>2. Pointers' = Pointers \ {u} /\ u \in Pointers
    BY <2>1 DEF Pointers
  <2>3. Managers' = Managers
    <3>1. CASE m_ref_count = 1
      <4>1. ~HasManager(u)
        BY <2>1, <3>1, LastReference
      <4> QED BY <1>6, <3>1, <4>1 DEF DropPool, Unref, Managers, HasManager
    <3>2. CASE m_ref_count # 1
      <4>1. pc' = [pc EXCEPT ![u] = pc[u]]
        BY <1>6, <3>2 DEF DropPool, Unref
      <4> QED BY <4>1 DEF Managers, HasManager
    <3> QED BY <3>1, <3>2
  <2>4. Cardinality(Pointers') = Cardinality(Pointers) - 1
    BY <2>2, <1>1, FS_RemoveElement
  <2> QED BY <2>1, <2>3, <2>4, <1>1, <1>2
<1>7. ASSUME NEW u \in User, NEW v \in User, MoveManager(u, v) PROVE RefCount'
  <2>1. /\ u # v /\ v \in Managers /\ hasPool' = hasPool
        /\ Managers' = (Managers \ {v}) \cup {u}
        /\ m_ref_count' = IF u \in Managers THEN m_ref_count - 1 ELSE m_ref_count
    BY <1>7 DEF MoveManager, Managers, HasManager
  <2>2. /\ IsFiniteSet(Managers \ {v})
        /\ Cardinality(Managers \ {v}) = Cardinality(Managers) - 1
    BY <2>1, <1>1, FS_RemoveElement
  <2>3. Cardinality(Managers') = IF u \in Managers THEN Cardinality(Managers) - 1
                                                   ELSE Cardinality(Managers)
    <3>1. CASE u \in Managers
      <4>1. Managers' = Managers \ {v}
        BY <2>1, <3>1
      <4> QED BY <2>1, <2>2, <3>1, <4>1
    <3>2. CASE u \notin Managers
      <4>1. Cardinality((Managers \ {v}) \cup {u}) = Cardinality(Managers \ {v}) + 1
        BY <2>2, <3>2, FS_AddElement
      <4> QED BY <2>1, <2>2, <3>2, <4>1, <1>1
    <3> QED BY <3>1, <3>2
  <2> QED BY <2>1, <2>3, <1>1, <1>2 DEF Pointers
<1>8. ASSUME NEW f \in Filler, FillStep(f) PROVE RefCount'
  BY <1>8, <1>3 DEF FillStep, FillTop, FillTake, FillCreates, FillFails, FillRefund, FillPush,
     FillRelease, FillAnnounce, FillExpand, refVars, Managers, HasManager
<1>9. CASE UNCHANGED vars
  BY <1>9, <1>3 DEF vars, refVars, Managers, HasManager
<1>10. ASSUME NEW u \in User, NEW v \in User, CopyPool(u, v) PROVE RefCount'
  <2>1. /\ Pointers' = Pointers \cup {u} /\ u \notin Pointers /\ Managers' = Managers
        /\ m_ref_count' = m_ref_count + 1
    BY <1>10 DEF CopyPool, Pointers, Managers, HasManager
  <2>2. Cardinality(Pointers') = Cardinality(Pointers) + 1
    BY <2>1, <1>1, FS_AddElement
  <2> QED BY <2>1, <2>2, <1>1, <1>2
<1>11. ASSUME NEW u \in User, NEW v \in User, MovePool(u, v) PROVE RefCount'
  <2>1. /\ u # v /\ v \in Pointers /\ Managers' = Managers
        /\ Pointers' = (Pointers \ {v}) \cup {u}
        /\ m_ref_count' = IF u \in Pointers THEN m_ref_count - 1 ELSE m_ref_count
    BY <1>11 DEF MovePool, Pointers, Managers, HasManager
  <2>2. Cardinality(Pointers') = IF u \in Pointers THEN Cardinality(Pointers) - 1
                                                   ELSE Cardinality(Pointers)
    <3>1. /\ IsFiniteSet(Pointers \ {v})
          /\ Cardinality(Pointers \ {v}) = Cardinality(Pointers) - 1
      BY <2>1, <1>1, FS_RemoveElement
    <3>2. CASE u \in Pointers
      <4>1. Pointers' = Pointers \ {v}
        BY <2>1, <3>2
      <4> QED BY <3>1, <3>2, <4>1
    <3>3. CASE u \notin Pointers
      <4>1. Cardinality((Pointers \ {v}) \cup {u}) = Cardinality(Pointers \ {v}) + 1
        BY <3>1, <3>3, FS_AddElement
      <4> QED BY <2>1, <3>1, <3>3, <4>1, <1>1
    <3> QED BY <3>2, <3>3
  <2> QED BY <2>1, <2>2, <1>1, <1>2
<1> QED BY <1>3, <1>4, <1>5, <1>6, <1>7, <1>8, <1>9, <1>10, <1>11, StepKinds,
           PlainKeepsReferences DEF Assigns

-----------------------------------------------------------------------------
(* Types and the connections in the threads' hands                          *)

(* Every step keeps the types; the count stays a number because whoever     *)
(* drops a reference had one.                                               *)
LEMMA TypeStep ==
  ASSUME TypeOK, RefCount, Hands, [Next]_vars
  PROVE  TypeOK'
<1> USE PoolAssumption DEF TypeOK, UserState, FillState, Goto, FillGoto,
        poolVars, refVars, fillVars
<1>0. m_connections # <<>> => Head(m_connections) \in Conn /\ Tail(m_connections) \in Seq(Conn)
  BY HeadTailProperties, EmptySeq
<1>1. \A c \in Conn : Append(m_connections, c) \in Seq(Conn)
  BY AppendProperties
<1>2. Extra \in Nat
  BY DEF Extra
<1>3. ASSUME NEW u \in User, Plain(u) PROVE TypeOK'
  <2>1. CASE Acquire(u) \/ FindsNone(u) \/ TakePermit(u) \/ TimesOut(u) \/ RecheckFindsNone(u)
    BY <2>1 DEF Acquire, FindsNone, TakePermit, TimesOut, RecheckFindsNone
  <2>2. CASE RecheckFinds(u)
    BY <2>2, <1>0 DEF RecheckFinds, Pop
  <2>3. CASE CreateFails(u) \/ Refund(u) \/ BeginReturn(u) \/ ReleasePermit(u)
    BY <2>3 DEF CreateFails, Fails, Refund, BeginReturn, ReleasePermit
  <2>4. CASE PushBack(u)
    <3>1. conn[u] \in Conn
      BY <2>4 DEF PushBack, Hands
    <3> QED BY <2>4, <3>1, <1>1 DEF PushBack
  <2>5. CASE WaitForWarmup(u) \/ SeesReady(u) \/ JoinWarmup(u)
    BY <2>5 DEF WaitForWarmup, SeesReady, JoinWarmup
  <2>6. CASE Delete(u)
    BY <2>6, EmptySeq DEF Delete
  <2>7. ASSUME NEW f \in Filler, StopFiller(u, f) PROVE TypeOK'
    BY <2>7 DEF StopFiller
  <2> QED BY <1>3, <2>7, <2>1, <2>2, <2>3, <2>4, <2>5, <2>6 DEF Plain, DeleteStep
<1>4. ASSUME NEW u \in User, Wrapping(u) PROVE TypeOK'
  <2>1. CASE FastPath(u)
    BY <2>1, <1>0 DEF FastPath, Pop, Wrap
  <2>2. CASE ReturnSpare(u)
    BY <2>2 DEF ReturnSpare, Wrap
  <2>3. CASE CreateSucceeds(u)
    BY <2>3 DEF CreateSucceeds, Creates, Wrap
  <2> QED BY <1>4, <2>1, <2>2, <2>3 DEF Wrapping
<1>5. ASSUME NEW u \in User, DropReleaser(u) PROVE TypeOK'
  <2>1. m_ref_count - 1 \in Nat
    BY <1>5, NoReference DEF DropReleaser, HasManager
  <2> QED BY <1>5, <2>1 DEF DropReleaser, Unref
<1>6. ASSUME NEW u \in User, DropPool(u) PROVE TypeOK'
  <2>1. m_ref_count - 1 \in Nat
    BY <1>6, NoReference DEF DropPool
  <2> QED BY <1>6, <2>1 DEF DropPool, Unref
<1>7. ASSUME NEW u \in User, NEW v \in User, MoveManager(u, v) PROVE TypeOK'
  <2>1. m_ref_count - 1 \in Nat
    BY <1>7, NoReference DEF MoveManager, HasManager
  <2> QED BY <1>7, <2>1 DEF MoveManager
<1>8. ASSUME NEW f \in Filler, FillStep(f) PROVE TypeOK'
  <2>1. CASE FillTop(f) \/ FillTake(f) \/ FillFails(f) \/ FillRefund(f)
    BY <2>1 DEF FillTop, FillTake, FillFails, Fails, FillRefund
  <2>2. CASE FillCreates(f)
    BY <2>2 DEF FillCreates, Creates
  <2>3. CASE FillPush(f)
    <3>1. fillConn[f] \in Conn
      BY <2>3 DEF FillPush, Hands
    <3>2. \E s \in FillState : fillPc' = [fillPc EXCEPT ![f] = s]
      BY <2>3 DEF FillPush
    <3> QED BY <2>3, <3>1, <3>2, <1>1 DEF FillPush
  <2>4. CASE FillRelease(f)
    <3>1. \E s \in FillState : fillPc' = [fillPc EXCEPT ![f] = s]
      BY <2>4 DEF FillRelease
    <3> QED BY <2>4, <3>1 DEF FillRelease
  <2>5. CASE FillAnnounce(f)
    BY <2>5 DEF FillAnnounce
  <2>6. CASE FillExpand(f)
    <3>0. m_capacity + Extra \in Nat
      BY <1>2
    <3>1. m_capacity' \in Nat /\ m_capacity_expanded' \in BOOLEAN
      <4>1. CASE MaxSize > InitSize /\ ~m_capacity_expanded
        BY <2>6, <3>0, <4>1 DEF FillExpand
      <4>2. CASE ~(MaxSize > InitSize /\ ~m_capacity_expanded)
        BY <2>6, <4>2 DEF FillExpand
      <4> QED BY <4>1, <4>2
    <3> QED BY <2>6, <3>1 DEF FillExpand
  <2> QED BY <1>8, <2>1, <2>2, <2>3, <2>4, <2>5, <2>6 DEF FillStep
<1>9. CASE UNCHANGED vars
  BY <1>9 DEF vars
<1>10. ASSUME NEW u \in User, NEW v \in User, Assigns(u, v) PROVE TypeOK'
  <2>1. CASE CopyPool(u, v)
    BY <2>1 DEF CopyPool
  <2>2. CASE MovePool(u, v)
    <3>1. m_ref_count - 1 \in Nat
      BY <2>2, NoReference DEF MovePool
    <3> QED BY <2>2, <3>1 DEF MovePool
  <2> QED BY <1>10, <2>1, <2>2 DEF Assigns
<1> QED BY <1>3, <1>4, <1>5, <1>6, <1>7, <1>8, <1>9, <1>10, StepKinds

(* A thread has a connection exactly between the pop or the creation and    *)
(* the push.                                                                *)
LEMMA HandsStep ==
  ASSUME TypeOK, RefCount, Hands, [Next]_vars
  PROVE  Hands'
<1> USE PoolAssumption DEF TypeOK, Hands, UserState, FillState, Goto, FillGoto, fillVars
<1>0. m_connections # <<>> => Head(m_connections) # None
  BY HeadTailProperties, EmptySeq
<1>3. ASSUME NEW u \in User, Plain(u) PROVE Hands'
  <2>1. CASE Acquire(u) \/ FindsNone(u) \/ TakePermit(u) \/ TimesOut(u) \/ RecheckFindsNone(u)
    BY <2>1 DEF Acquire, FindsNone, TakePermit, TimesOut, RecheckFindsNone
  <2>2. CASE RecheckFinds(u)
    BY <2>2, <1>0 DEF RecheckFinds, Pop
  <2>3. CASE CreateFails(u) \/ Refund(u) \/ BeginReturn(u) \/ ReleasePermit(u)
    BY <2>3 DEF CreateFails, Refund, BeginReturn, ReleasePermit
  <2>4. CASE PushBack(u)
    BY <2>4 DEF PushBack
  <2>5. CASE WaitForWarmup(u) \/ SeesReady(u) \/ JoinWarmup(u)
    BY <2>5 DEF WaitForWarmup, SeesReady, JoinWarmup
  <2>6. CASE DeleteStep(u)
    BY <2>6 DEF DeleteStep, Delete, StopFiller
  <2> QED BY <1>3, <2>1, <2>2, <2>3, <2>4, <2>5, <2>6 DEF Plain
<1>4. ASSUME NEW u \in User, Wrapping(u) PROVE Hands'
  <2>1. CASE FastPath(u)
    BY <2>1, <1>0 DEF FastPath, Pop, Wrap
  <2>2. CASE ReturnSpare(u)
    BY <2>2 DEF ReturnSpare, Wrap
  <2>3. CASE CreateSucceeds(u)
    BY <2>3 DEF CreateSucceeds, Creates, Wrap
  <2> QED BY <1>4, <2>1, <2>2, <2>3 DEF Wrapping
<1>5. ASSUME NEW u \in User, DropReleaser(u) PROVE Hands'
  BY <1>5 DEF DropReleaser, Unref
<1>6. ASSUME NEW u \in User, DropPool(u) PROVE Hands'
  <2>1. CASE m_ref_count = 1
    <3>1. ~HasManager(u)
      BY <1>6, <2>1, LastReference DEF DropPool
    <3> QED BY <1>6, <2>1, <3>1 DEF DropPool, Unref, HasManager
  <2>2. CASE m_ref_count # 1
    <3>1. pc' = pc
      BY <1>6, <2>2 DEF DropPool, Unref
    <3> QED BY <1>6, <3>1 DEF DropPool
  <2> QED BY <2>1, <2>2
<1>7. ASSUME NEW u \in User, NEW v \in User, MoveManager(u, v) PROVE Hands'
  BY <1>7 DEF MoveManager
<1>8. ASSUME NEW f \in Filler, FillStep(f) PROVE Hands'
  <2>1. CASE FillTop(f) \/ FillTake(f) \/ FillFails(f) \/ FillRefund(f)
    BY <2>1 DEF FillTop, FillTake, FillFails, FillRefund
  <2>2. CASE FillCreates(f)
    BY <2>2 DEF FillCreates, Creates
  <2>3. CASE FillPush(f)
    <3>1. \E s \in {"releaseFull", "release"} : fillPc' = [fillPc EXCEPT ![f] = s]
      BY <2>3 DEF FillPush
    <3> QED BY <2>3, <3>1 DEF FillPush
  <2>4. CASE FillRelease(f) \/ FillAnnounce(f) \/ FillExpand(f)
    BY <2>4 DEF FillRelease, FillAnnounce, FillExpand
  <2> QED BY <1>8, <2>1, <2>2, <2>3, <2>4 DEF FillStep
<1>9. CASE UNCHANGED vars
  BY <1>9 DEF vars
<1>10. ASSUME NEW u \in User, NEW v \in User, Assigns(u, v) PROVE Hands'
  BY <1>10 DEF Assigns, CopyPool, MovePool
<1> QED BY <1>3, <1>4, <1>5, <1>6, <1>7, <1>8, <1>9, <1>10, StepKinds

-----------------------------------------------------------------------------
(* The life of the pool                                                     *)

(* A user without a pointer is in no call; the warm-up threads that were    *)
(* cleared have ended.                                                      *)
LEMMA CallsStep ==
  ASSUME TypeOK, RefCount, CallsHavePool, ClearedEnded, [Next]_vars
  PROVE  CallsHavePool' /\ ClearedEnded'
<1> USE DEF TypeOK, UserState, FillState, Goto, FillGoto, CallsHavePool, ClearedEnded,
        FillEnded, refVars, fillVars
<1>1. ASSUME NEW u \in User, Plain(u) PROVE CallsHavePool' /\ ClearedEnded'
  <2>1. CASE Acquire(u) \/ FindsNone(u) \/ TakePermit(u) \/ TimesOut(u) \/ RecheckFindsNone(u)
    BY <2>1 DEF Acquire, FindsNone, TakePermit, TimesOut, RecheckFindsNone
  <2>2. CASE RecheckFinds(u) \/ CreateFails(u) \/ Refund(u)
    BY <2>2 DEF RecheckFinds, Pop, CreateFails, Refund
  <2>3. CASE BeginReturn(u) \/ PushBack(u) \/ ReleasePermit(u)
    BY <2>3 DEF BeginReturn, PushBack, ReleasePermit
  <2>4. CASE WaitForWarmup(u) \/ SeesReady(u) \/ JoinWarmup(u)
    BY <2>4 DEF WaitForWarmup, SeesReady, JoinWarmup
  <2>5. CASE DeleteStep(u)
    BY <2>5 DEF DeleteStep, Delete, StopFiller
  <2> QED BY <1>1, <2>1, <2>2, <2>3, <2>4, <2>5 DEF Plain
<1>2. ASSUME NEW u \in User, Wrapping(u) PROVE CallsHavePool' /\ ClearedEnded'
  BY <1>2 DEF Wrapping, FastPath, ReturnSpare, CreateSucceeds, Wrap
<1>3. ASSUME NEW u \in User, DropReleaser(u) PROVE CallsHavePool' /\ ClearedEnded'
  BY <1>3 DEF DropReleaser, Unref
<1>4. ASSUME NEW u \in User, DropPool(u) PROVE CallsHavePool' /\ ClearedEnded'
  BY <1>4 DEF DropPool, Unref
<1>5. ASSUME NEW u \in User, NEW v \in User, MoveManager(u, v)
      PROVE  CallsHavePool' /\ ClearedEnded'
  BY <1>5 DEF MoveManager
<1>6. ASSUME NEW f \in Filler, FillStep(f) PROVE CallsHavePool' /\ ClearedEnded'
  <2>1. /\ fillPc[f] \notin {"unstarted", "ended"}
        /\ \A g \in Filler : g # f => fillPc'[g] = fillPc[g]
        /\ UNCHANGED <<m_threads, pc, hasPool>>
    BY <1>6 DEF FillStep, FillTop, FillTake, FillCreates, FillFails, FillRefund, FillPush,
       FillRelease, FillAnnounce, FillExpand
  <2> QED BY <2>1
<1>7. CASE UNCHANGED vars
  BY <1>7 DEF vars
<1>8. ASSUME NEW u \in User, NEW v \in User, Assigns(u, v)
      PROVE  CallsHavePool' /\ ClearedEnded'
  BY <1>8 DEF Assigns, CopyPool, MovePool
<1> QED BY <1>1, <1>2, <1>3, <1>4, <1>5, <1>6, <1>7, <1>8, StepKinds

(* While the pool is being deleted nobody else takes a step in it: whoever  *)
(* drops the last reference was the last to hold one.                       *)
LEMMA PoolOutlivesStep ==
  ASSUME TypeOK, RefCount, CallsHavePool, ClearedEnded, PoolOutlivesUse, [Next]_vars
  PROVE  PoolOutlivesUse'
<1> USE DEF TypeOK, UserState, FillState, Goto, FillGoto, CallsHavePool, FillEnded,
        refVars, fillVars
<1>1. ASSUME NEW u \in User, pc[u] # "deleting", pc[u] # "idle" \/ hasPool[u]
      PROVE  alive /\ \A v \in User : pc[v] # "deleting"
  BY <1>1 DEF PoolOutlivesUse
<1>2. ASSUME alive, \A v \in User : pc[v] # "deleting", alive' = alive,
             NEW u \in User, NEW s \in UserState \ {"deleting"}, pc' = [pc EXCEPT ![u] = s]
      PROVE  PoolOutlivesUse'
  BY <1>2 DEF PoolOutlivesUse
<1>3. ASSUME NEW u \in User, Plain(u), ~DeleteStep(u) PROVE PoolOutlivesUse'
  <2>1. /\ pc[u] # "deleting" /\ (pc[u] # "idle" \/ hasPool[u])
        /\ alive' = alive
        /\ \E s \in UserState \ {"deleting"} : pc' = [pc EXCEPT ![u] = s]
    BY <1>3 DEF Plain, Acquire, FindsNone, TakePermit, TimesOut, RecheckFinds, RecheckFindsNone,
       CreateFails, Refund, BeginReturn, PushBack, ReleasePermit, WaitForWarmup, SeesReady,
       JoinWarmup
  <2> QED BY <1>1, <1>2, <2>1
<1>4. ASSUME NEW u \in User, DeleteStep(u) PROVE PoolOutlivesUse'
  <2>1. CASE Delete(u)
    BY <2>1 DEF Delete, PoolOutlivesUse, ClearedEnded
  <2>2. CASE \E f \in Filler : StopFiller(u, f)
    BY <2>2 DEF StopFiller, PoolOutlivesUse
  <2> QED BY <1>4, <2>1, <2>2 DEF DeleteStep
<1>5. ASSUME NEW u \in User, Wrapping(u) PROVE PoolOutlivesUse'
  <2>1. /\ pc[u] \notin {"deleting", "idle"} /\ alive' = alive
        /\ pc' = [pc EXCEPT ![u] = "holding"]
    BY <1>5 DEF Wrapping, FastPath, ReturnSpare, CreateSucceeds, Wrap
  <2> QED BY <1>1, <1>2, <2>1
<1>6. ASSUME NEW u \in User, DropReleaser(u) PROVE PoolOutlivesUse'
  <2>1. /\ alive /\ \A v \in User : pc[v] # "deleting"
        /\ HasManager(u) /\ alive' = alive /\ hasPool' = hasPool
    BY <1>1, <1>6 DEF DropReleaser, Unref, HasManager
  <2>2. CASE m_ref_count = 1
    <3>1. \A v \in User : ~hasPool[v] /\ (v # u => ~HasManager(v))
      BY <2>1, <2>2, LastReference
    <3>2. \A v \in User : v # u => pc[v] = "idle"
      BY <2>1, <3>1 DEF HasManager
    <3>3. pc' = [pc EXCEPT ![u] = "deleting"]
      BY <1>6, <2>2 DEF DropReleaser, Unref
    <3> QED BY <2>1, <3>1, <3>2, <3>3 DEF PoolOutlivesUse
  <2>3. CASE m_ref_count # 1
    BY <1>2, <1>6, <2>1, <2>3 DEF DropReleaser, Unref
  <2> QED BY <2>2, <2>3
<1>7. ASSUME NEW u \in User, DropPool(u) PROVE PoolOutlivesUse'
  <2>1. /\ alive /\ \A v \in User : pc[v] # "deleting"
        /\ hasPool[u] /\ alive' = alive /\ hasPool' = [hasPool EXCEPT ![u] = FALSE]
    BY <1>1, <1>7 DEF DropPool, Unref
  <2>2. CASE m_ref_count = 1
    <3>1. \A v \in User : (hasPool[v] => v = u) /\ (HasManager(v) => v = u)
      BY <2>1, <2>2, LastReference
    <3>2. \A v \in User : v # u => pc[v] = "idle"
      BY <2>1, <3>1 DEF HasManager
    <3>3. pc' = [pc EXCEPT ![u] = "deleting"]
      BY <1>7, <2>2 DEF DropPool, Unref
    <3> QED BY <2>1, <3>1, <3>2, <3>3 DEF PoolOutlivesUse
  <2>3. CASE m_ref_count # 1
    <3>1. pc' = pc
      BY <1>7, <2>3 DEF DropPool, Unref
    <3> QED BY <2>1, <3>1 DEF PoolOutlivesUse
  <2> QED BY <2>2, <2>3
<1>8. ASSUME NEW u \in User, NEW v \in User, MoveManager(u, v) PROVE PoolOutlivesUse'
  <2>1. /\ alive /\ \A w \in User : pc[w] # "deleting"
        /\ alive' = alive /\ pc' = [pc EXCEPT ![u] = "holding", ![v] = "idle"]
    BY <1>1, <1>8 DEF MoveManager
  <2> QED BY <2>1 DEF PoolOutlivesUse
<1>9. ASSUME NEW f \in Filler, FillStep(f) PROVE PoolOutlivesUse'
  <2>1. /\ ~FillEnded(f) /\ UNCHANGED <<pc, hasPool, alive>>
    BY <1>9 DEF FillStep, FillTop, FillTake, FillCreates, FillFails, FillRefund, FillPush,
       FillRelease, FillAnnounce, FillExpand
  <2> QED BY <2>1 DEF PoolOutlivesUse
<1>10. CASE UNCHANGED vars
  BY <1>10 DEF vars, PoolOutlivesUse
<1>11. ASSUME NEW u \in User, NEW v \in User, Assigns(u, v) PROVE PoolOutlivesUse'
  <2>1. /\ hasPool[v] /\ pc[v] # "deleting" /\ pc' = pc /\ alive' = alive
    BY <1>11 DEF Assigns, CopyPool, MovePool
  <2> QED BY <1>1, <2>1 DEF PoolOutlivesUse
<1> QED BY <1>3, <1>4, <1>5, <1>6, <1>7, <1>8, <1>9, <1>10, <1>11, StepKinds

-----------------------------------------------------------------------------
(* The connections                                                          *)

(* An idle connection always comes with a permit that is free or that a     *)
(* running thread is about to release.                                      *)
LEMMA NoStrandedStep ==
  ASSUME TypeOK, NoStrandedConnection, [Next]_vars
  PROVE  NoStrandedConnection'
<1> USE PoolAssumption DEF TypeOK, UserState, FillState, Goto, FillGoto,
        poolVars, refVars, fillVars
<1>1. ASSUME m_capacity' > 0 PROVE NoStrandedConnection'
  BY <1>1 DEF NoStrandedConnection
<1>2. ASSUME NEW u \in User, pc'[u] \in {"recheck", "spare", "permit"}
      PROVE  NoStrandedConnection'
  BY <1>2 DEF NoStrandedConnection, UserCredit
<1>3. ASSUME NEW f \in Filler, fillPc'[f] \in {"create", "refund", "push", "release", "releaseFull"}
      PROVE  NoStrandedConnection'
  BY <1>3 DEF NoStrandedConnection, FillCredit
<1>4. ASSUME alive' => alive, m_connections' # <<>> => m_connections # <<>>,
             m_capacity > 0 => m_capacity' > 0,
             NEW u \in User, NEW v \in User,
             pc[u] \notin {"recheck", "spare", "permit"}, pc[v] \notin {"recheck", "spare", "permit"},
             \A w \in User \ {u, v} : pc'[w] = pc[w], fillPc' = fillPc
      PROVE  NoStrandedConnection'
  <2>1. UserCredit \subseteq UserCredit' /\ FillCredit' = FillCredit
    BY <1>4 DEF UserCredit, FillCredit
  <2> QED BY <1>1, <1>4, <2>1 DEF NoStrandedConnection
<1>5. ASSUME NEW u \in User, Plain(u) \/ Wrapping(u) \/ DropReleaser(u) \/ DropPool(u)
      PROVE  NoStrandedConnection'
  <2>1. CASE \/ Acquire(u) \/ FindsNone(u) \/ TimesOut(u) \/ CreateFails(u) \/ BeginReturn(u)
             \/ WaitForWarmup(u) \/ SeesReady(u) \/ JoinWarmup(u)
    BY <1>4, <2>1 DEF Acquire, FindsNone, TimesOut, CreateFails, BeginReturn, WaitForWarmup,
       SeesReady, JoinWarmup
  <2>2. CASE TakePermit(u) \/ RecheckFinds(u) \/ PushBack(u)
    BY <1>2, <2>2 DEF TakePermit, RecheckFinds, PushBack
  <2>3. CASE Refund(u) \/ ReturnSpare(u) \/ ReleasePermit(u)
    BY <1>1, <2>3 DEF Refund, ReturnSpare, ReleasePermit
  <2>4. CASE RecheckFindsNone(u)
    BY <2>4 DEF RecheckFindsNone, NoStrandedConnection
  <2>5. CASE CreateSucceeds(u) \/ FastPath(u)
    <3>1. /\ pc' = [pc EXCEPT ![u] = "holding"] /\ pc[u] \in {"create", "first"}
          /\ UNCHANGED <<alive, m_capacity, fillPc>>
          /\ m_connections' # <<>> => m_connections # <<>>
      BY <2>5 DEF CreateSucceeds, FastPath, Wrap, Pop
    <3> QED BY <1>4, <3>1
  <2>6. CASE DeleteStep(u)
    <3>1. CASE Delete(u)
      BY <3>1 DEF Delete, NoStrandedConnection
    <3>2. CASE \E f \in Filler : StopFiller(u, f)
      BY <1>4, <3>2 DEF StopFiller
    <3> QED BY <2>6, <3>1, <3>2 DEF DeleteStep
  <2>7. CASE DropReleaser(u)
    BY <1>4, <2>7 DEF DropReleaser, Unref
  <2>8. CASE DropPool(u)
    <3>1. /\ pc[u] \in {"idle", "holding"} /\ UNCHANGED <<alive, poolVars, fillPc>>
          /\ \A w \in User \ {u} : pc'[w] = pc[w]
      BY <2>8 DEF DropPool, Unref
    <3> QED BY <1>4, <3>1
  <2> QED BY <1>5, <2>1, <2>2, <2>3, <2>4, <2>5, <2>6, <2>7, <2>8 DEF Plain, Wrapping
<1>6. ASSUME NEW u \in User, NEW v \in User, MoveManager(u, v) PROVE NoStrandedConnection'
  BY <1>4, <1>6 DEF MoveManager
<1>7. ASSUME NEW f \in Filler, FillStep(f) PROVE NoStrandedConnection'
  <2>1. CASE FillCreates(f) \/ FillFails(f) \/ FillPush(f)
    BY <1>3, <2>1 DEF FillCreates, FillFails, FillPush
  <2>2. CASE FillRefund(f) \/ FillRelease(f)
    BY <1>1, <2>2 DEF FillRefund, FillRelease
  <2>3. CASE FillTake(f)
    <3>1. CASE m_capacity > 0
      BY <1>3, <2>3, <3>1 DEF FillTake
    <3>2. CASE ~(m_capacity > 0)
      <4>1. UserCredit' = UserCredit /\ FillCredit \subseteq FillCredit'
        BY <2>3, <3>2 DEF FillTake, UserCredit, FillCredit
      <4> QED BY <2>3, <3>2, <4>1 DEF FillTake, NoStrandedConnection
    <3> QED BY <3>1, <3>2
  <2>4. CASE FillTop(f) \/ FillAnnounce(f) \/ FillExpand(f)
    <3>1. UserCredit' = UserCredit /\ FillCredit \subseteq FillCredit'
      BY <2>4 DEF FillTop, FillAnnounce, FillExpand, UserCredit, FillCredit
    <3>2. m_capacity > 0 => m_capacity' > 0
      BY <2>4 DEF FillTop, FillAnnounce, FillExpand, Extra
    <3>3. UNCHANGED <<alive, m_connections>>
      BY <2>4 DEF FillTop, FillAnnounce, FillExpand
    <3> QED BY <3>1, <3>2, <3>3 DEF NoStrandedConnection
  <2> QED BY <1>7, <2>1, <2>2, <2>3, <2>4 DEF FillStep
<1>8. CASE UNCHANGED vars
  BY <1>8 DEF vars, NoStrandedConnection, UserCredit, FillCredit
<1>9. ASSUME NEW u \in User, NEW v \in User, Assigns(u, v) PROVE NoStrandedConnection'
  BY <1>4, <1>9 DEF Assigns, CopyPool, MovePool
<1> QED BY <1>5, <1>6, <1>7, <1>8, <1>9, StepKinds

(* A connection moves from place to place and is never in two of them.      *)
LEMMA SingleOwnerStep ==
  ASSUME TypeOK, Hands, SingleOwner, [Next]_vars
  PROVE  SingleOwner'
<1> USE PoolAssumption DEF TypeOK, Goto, FillGoto, poolVars, refVars, fillVars
<1>1. ASSUME UNCHANGED <<conn, fillConn>>,
             m_connections' = m_connections \/ m_connections' = <<>>
      PROVE  SingleOwner'
  <2>1. CASE m_connections' = m_connections
    BY <1>1, <2>1 DEF SingleOwner
  <2>2. CASE m_connections' = <<>>
    <3>1. Range(m_connections') = {} /\ IsInjective(m_connections')
      BY <2>2 DEF Range, IsInjective
    <3> QED BY <1>1, <3>1 DEF SingleOwner
  <2> QED BY <1>1, <2>1, <2>2
<1>2. ASSUME NEW u \in User, Pop(u), conn[u] = None, fillConn' = fillConn PROVE SingleOwner'
  <2> DEFINE c == Head(m_connections)
  <2>1. /\ c \in Range(m_connections)
        /\ IsInjective(m_connections')
        /\ Range(m_connections') \subseteq Range(m_connections) \ {c}
        /\ conn' = [conn EXCEPT ![u] = c]
    BY <1>2, PopUnique DEF Pop, SingleOwner
  <2>2. c # None
    BY <1>2, HeadTailProperties, EmptySeq DEF Pop
  <2> HIDE DEF c
  <2> QED BY <1>2, <2>1, <2>2 DEF SingleOwner
<1>3. ASSUME NEW u \in User, CreateSucceeds(u) PROVE SingleOwner'
  <2>1. PICK c \in Conn \ Live : conn' = [conn EXCEPT ![u] = c]
    BY <1>3 DEF CreateSucceeds, Creates
  <2>2. UNCHANGED <<m_connections, fillConn>> /\ c # None
    BY <1>3 DEF CreateSucceeds
  <2> QED BY <2>1, <2>2 DEF SingleOwner, Live
<1>4. ASSUME NEW u \in User, PushBack(u) PROVE SingleOwner'
  <2>1. conn[u] \in Conn /\ conn[u] # None
    BY <1>4 DEF PushBack, Hands
  <2>2. conn[u] \notin Range(m_connections)
    BY <2>1 DEF SingleOwner
  <2>3. /\ IsInjective(m_connections')
        /\ Range(m_connections') = Range(m_connections) \cup {conn[u]}
        /\ conn' = [conn EXCEPT ![u] = None] /\ fillConn' = fillConn
    BY <1>4, <2>1, <2>2, PushUnique DEF PushBack, SingleOwner
  <2> QED BY <2>1, <2>3 DEF SingleOwner
<1>5. ASSUME NEW u \in User, NEW v \in User, MoveManager(u, v) PROVE SingleOwner'
  BY <1>5 DEF MoveManager, SingleOwner
<1>6. ASSUME NEW f \in Filler, FillCreates(f) PROVE SingleOwner'
  <2>1. PICK c \in Conn \ Live : fillConn' = [fillConn EXCEPT ![f] = c]
    BY <1>6 DEF FillCreates, Creates
  <2>2. UNCHANGED <<m_connections, conn>> /\ c # None
    BY <1>6 DEF FillCreates
  <2> QED BY <2>1, <2>2 DEF SingleOwner, Live
<1>7. ASSUME NEW f \in Filler, FillPush(f) PROVE SingleOwner'
  <2>1. fillConn[f] \in Conn /\ fillConn[f] # None
    BY <1>7 DEF FillPush, Hands
  <2>2. fillConn[f] \notin Range(m_connections)
    BY <2>1 DEF SingleOwner
  <2>3. /\ IsInjective(m_connections')
        /\ Range(m_connections') = Range(m_connections) \cup {fillConn[f]}
        /\ fillConn' = [fillConn EXCEPT ![f] = None] /\ conn' = conn
    BY <1>7, <2>1, <2>2, PushUnique DEF FillPush, SingleOwner
  <2> QED BY <2>1, <2>3 DEF SingleOwner
<1>8. ASSUME NEW u \in User, Plain(u) \/ Wrapping(u) \/ DropReleaser(u) \/ DropPool(u)
      PROVE  SingleOwner'
  <2>1. CASE FastPath(u)
    BY <1>2, <2>1 DEF FastPath, Hands
  <2>2. CASE RecheckFinds(u)
    BY <1>2, <2>2 DEF RecheckFinds, Hands
  <2>3. CASE \/ Acquire(u) \/ FindsNone(u) \/ TakePermit(u) \/ TimesOut(u) \/ RecheckFindsNone(u)
             \/ CreateFails(u) \/ Refund(u) \/ BeginReturn(u) \/ ReleasePermit(u) \/ ReturnSpare(u)
    BY <1>1, <2>3 DEF Acquire, FindsNone, TakePermit, TimesOut, RecheckFindsNone, CreateFails,
       Refund, BeginReturn, ReleasePermit, ReturnSpare
  <2>4. CASE WaitForWarmup(u) \/ SeesReady(u) \/ JoinWarmup(u) \/ DropReleaser(u) \/ DropPool(u)
    BY <1>1, <2>4 DEF WaitForWarmup, SeesReady, JoinWarmup, DropReleaser, DropPool
  <2>5. CASE DeleteStep(u)
    BY <1>1, <2>5 DEF DeleteStep, Delete, StopFiller
  <2> QED BY <1>3, <1>4, <1>8, <2>1, <2>2, <2>3, <2>4, <2>5 DEF Plain, Wrapping
<1>9. ASSUME NEW f \in Filler, FillStep(f) PROVE SingleOwner'
  <2>1. CASE \/ FillTop(f) \/ FillTake(f) \/ FillFails(f) \/ FillRefund(f) \/ FillRelease(f)
             \/ FillAnnounce(f) \/ FillExpand(f)
    BY <1>1, <2>1 DEF FillTop, FillTake, FillFails, FillRefund, FillRelease, FillAnnounce,
       FillExpand
  <2> QED BY <1>6, <1>7, <1>9, <2>1 DEF FillStep
<1>10. CASE UNCHANGED vars
  BY <1>1, <1>10 DEF vars
<1>11. ASSUME NEW u \in User, NEW v \in User, Assigns(u, v) PROVE SingleOwner'
  BY <1>1, <1>11 DEF Assigns, CopyPool, MovePool
<1> QED BY <1>5, <1>8, <1>9, <1>10, <1>11, StepKinds

-----------------------------------------------------------------------------
(* The theorems                                                             *)

(* The pool as its constructor leaves it.                                   *)
LEMMA InitIInv == Init => IInv
<1> SUFFICES ASSUME Init PROVE IInv
  OBVIOUS
<1> USE PoolAssumption DEF Init
<1>1. Extra \in Nat
  BY DEF Extra
<1>2. {u \in User : hasPool[u]} = User /\ {u \in User : HasManager(u)} = {}
  BY DEF HasManager
<1>3. Cardinality(User) \in Nat /\ Cardinality({}) = 0
  BY FS_CardinalityType, FS_EmptySet
<1>4. TypeOK
  <2>1. m_capacity \in Nat /\ m_ref_count \in Nat /\ m_connections \in Seq(Conn)
    BY <1>1, <1>3, EmptySeq
  <2> QED BY <2>1 DEF TypeOK, UserState, FillState
<1>5. RefCount
  <2>1. m_ref_count = Cardinality(User) + Cardinality({})
    BY <1>3
  <2> HIDE DEF Init
  <2> QED BY <1>2, <2>1 DEF RefCount
<1>6. PoolOutlivesUse /\ CallsHavePool /\ Hands
  BY DEF PoolOutlivesUse, CallsHavePool, Hands
<1>7. SingleOwner /\ NoStrandedConnection
  BY DEF SingleOwner, NoStrandedConnection, IsInjective, Range
<1>8. ClearedEnded
  BY DEF ClearedEnded, FillEnded
<1> QED BY <1>4, <1>5, <1>6, <1>7, <1>8 DEF IInv

(* The invariant holds of every pool, whatever its configuration, its users *)
(* and the failures of its factory.                                         *)
THEOREM Invariance == Spec => []IInv
<1>1. Init => IInv
  BY InitIInv
<1>2. IInv /\ [Next]_vars => IInv'
  BY TypeStep, RefStep, PoolOutlivesStep, SingleOwnerStep, NoStrandedStep, HandsStep, CallsStep
  DEF IInv
<1> QED BY <1>1, <1>2, PTL DEF Spec

(* The types, and with them: no permit is taken that is not there and no    *)
(* reference dropped that nobody holds.                                     *)
THEOREM TypeCorrect == Spec => []TypeOK
<1>1. IInv => TypeOK
  BY DEF IInv
<1> QED BY <1>1, Invariance, PTL

(* decrement_ref and increment_ref keep m_ref_count equal to the number of  *)
(* pointers through every acquire, return and move.                         *)
THEOREM RefCountCorrect == Spec => []RefCount
<1>1. IInv => RefCount
  BY DEF IInv
<1> QED BY <1>1, Invariance, PTL

(* ~ConnectionPool runs once, when no user can reach the pool, and its      *)
(* members go after the warm-up threads.                                    *)
THEOREM PoolOutlivesUseCorrect == Spec => []PoolOutlivesUse
<1>1. IInv => PoolOutlivesUse
  BY DEF IInv
<1> QED BY <1>1, Invariance, PTL

(* No connection is lent twice or queued while it is lent.                  *)
THEOREM SingleOwnerCorrect == Spec => []SingleOwner
<1>1. IInv => SingleOwner
  BY DEF IInv
<1> QED BY <1>1, Invariance, PTL

(* A caller of acquire() cannot sleep on the semaphore for want of a permit *)
(* while connections lie idle, once the running threads have finished.      *)
THEOREM NoStrandedConnectionCorrect == Spec => []NoStrandedConnection
<1>1. IInv => NoStrandedConnection
  BY DEF IInv
<1> QED BY <1>1, Invariance, PTL

-----------------------------------------------------------------------------
(* Permits                                                                  *)

(* Users with a permit in hand or out with their connection; FillCredit is  *)
(* the same of the warm-up threads                                          *)
UserPermits == {u \in User : pc[u] \in {"recheck", "spare", "create", "refund",
                                         "holding", "push", "permit"}}

(* The permits are a sum of two cardinalities and the semaphore's count.    *)
LEMMA PermitSum ==
  /\ IsFiniteSet(UserPermits) /\ Cardinality(UserPermits) \in Nat
  /\ IsFiniteSet(FillCredit) /\ Cardinality(FillCredit) \in Nat
  /\ Permits = m_capacity + Cardinality(UserPermits) + Cardinality(FillCredit)
<1>1. IsFiniteSet(UserPermits) /\ IsFiniteSet(FillCredit)
  BY FS_Subset, PoolAssumption DEF UserPermits, FillCredit
<1> QED BY <1>1, FS_CardinalityType DEF Permits, UserPermits, FillCredit

(* One thread more or less counts as one.                                   *)
LEMMA OneMore ==
  ASSUME NEW S, IsFiniteSet(S), NEW x, NEW T, T = S \/ T = S \cup {x}
  PROVE  Cardinality(T) \in Nat /\ Cardinality(T) >= Cardinality(S)
<1>1. Cardinality(S) \in Nat
  BY FS_CardinalityType
<1>2. CASE T = S
  BY <1>1, <1>2
<1>3. CASE T # S
  <2>1. x \notin S /\ T = S \cup {x}
    BY <1>3
  <2>2. Cardinality(T) = Cardinality(S) + 1
    BY <2>1, FS_AddElement
  <2> QED BY <1>1, <2>2
<1> QED BY <1>2, <1>3

(* A finite set that loses an element, if it has it, is at most one         *)
(* smaller.                                                                 *)
LEMMA OneLess ==
  ASSUME NEW S, IsFiniteSet(S), NEW x, NEW T, T = S \ {x}
  PROVE  Cardinality(T) \in Nat /\ Cardinality(T) >= Cardinality(S) - 1
<1>1. Cardinality(S) \in Nat /\ IsFiniteSet(T) /\ Cardinality(T) \in Nat
  BY FS_RemoveElement, FS_CardinalityType
<1>2. Cardinality(T) \in {Cardinality(S), Cardinality(S) - 1}
  BY FS_RemoveElement
<1> QED BY <1>1, <1>2

(* What a step gives back to the semaphore, it gives up, and what it takes  *)
(* it keeps: the step of a user.                                            *)
LEMMA UserPermitStep ==
  ASSUME TypeOK, RefCount, NEW u \in User,
         Plain(u) \/ Wrapping(u) \/ DropReleaser(u) \/ DropPool(u)
  PROVE  \/ UserPermits' \in {UserPermits, UserPermits \cup {u}} /\ m_capacity' = m_capacity
         \/ UserPermits' = UserPermits \cup {u} /\ m_capacity' = m_capacity + 1
         \/ u \notin UserPermits /\ UserPermits' = UserPermits \cup {u}
              /\ m_capacity' = m_capacity - 1
         \/ UserPermits' = UserPermits \ {u} /\ m_capacity' = m_capacity + 1
<1> USE DEF TypeOK, Goto, poolVars, refVars
<1>1. CASE Acquire(u) \/ FindsNone(u) \/ TimesOut(u) \/ RecheckFinds(u) \/ RecheckFindsNone(u)
  BY <1>1 DEF Acquire, FindsNone, TimesOut, RecheckFinds, RecheckFindsNone, UserPermits
<1>2. CASE CreateFails(u) \/ BeginReturn(u) \/ PushBack(u)
  BY <1>2 DEF CreateFails, BeginReturn, PushBack, UserPermits
<1>3. CASE WaitForWarmup(u) \/ SeesReady(u) \/ JoinWarmup(u) \/ DeleteStep(u)
  BY <1>3 DEF WaitForWarmup, SeesReady, JoinWarmup, DeleteStep, StopFiller, Delete, UserPermits
<1>4. CASE TakePermit(u)
  BY <1>4 DEF TakePermit, UserPermits
<1>5. CASE Refund(u) \/ ReleasePermit(u)
  BY <1>5 DEF Refund, ReleasePermit, UserPermits
<1>6. CASE FastPath(u) \/ CreateSucceeds(u)
  BY <1>6 DEF FastPath, CreateSucceeds, Wrap, UserPermits
<1>7. CASE ReturnSpare(u)
  BY <1>7 DEF ReturnSpare, Wrap, UserPermits
<1>8. CASE DropReleaser(u)
  BY <1>8 DEF DropReleaser, Unref, UserPermits
<1>9. CASE DropPool(u)
  <2>1. m_capacity' = m_capacity /\ hasPool[u] /\ pc[u] \in {"idle", "holding"}
    BY <1>9 DEF DropPool
  <2>2. CASE m_ref_count = 1
    <3>1. pc[u] = "idle"
      BY <2>1, <2>2, LastReference DEF HasManager
    <3>2. pc' = [pc EXCEPT ![u] = "deleting"]
      BY <1>9, <2>2 DEF DropPool, Unref
    <3> QED BY <2>1, <3>1, <3>2 DEF UserPermits
  <2>3. CASE m_ref_count # 1
    <3>1. pc' = [pc EXCEPT ![u] = pc[u]]
      BY <1>9, <2>1, <2>3 DEF DropPool, Unref
    <3> QED BY <2>1, <3>1 DEF UserPermits
  <2> QED BY <2>2, <2>3
<1> QED BY <1>1, <1>2, <1>3, <1>4, <1>5, <1>6, <1>7, <1>8, <1>9 DEF Plain, Wrapping

(* The step of a warm-up thread.                                            *)
LEMMA FillPermitStep ==
  ASSUME TypeOK, NEW f \in Filler, FillStep(f)
  PROVE  /\ UserPermits' = UserPermits
         /\ \/ FillCredit' = FillCredit /\ m_capacity' \in Nat /\ m_capacity' >= m_capacity
            \/ f \notin FillCredit /\ FillCredit' = FillCredit \cup {f}
                 /\ m_capacity' = m_capacity - 1
            \/ FillCredit' = FillCredit \ {f} /\ m_capacity' = m_capacity + 1
<1> USE DEF TypeOK, FillGoto, poolVars, refVars
<1>0. UserPermits' = UserPermits
  BY DEF FillStep, FillTop, FillTake, FillCreates, FillFails, FillRefund, FillPush, FillRelease,
     FillAnnounce, FillExpand, UserPermits
<1>1. CASE FillTop(f) \/ FillCreates(f) \/ FillFails(f) \/ FillAnnounce(f)
  BY <1>0, <1>1 DEF FillTop, FillCreates, FillFails, FillAnnounce, FillCredit
<1>2. CASE FillPush(f)
  BY <1>0, <1>2 DEF FillPush, FillCredit
<1>3. CASE FillTake(f)
  BY <1>0, <1>3 DEF FillTake, FillCredit
<1>4. CASE FillRefund(f) \/ FillRelease(f)
  BY <1>0, <1>4 DEF FillRefund, FillRelease, FillCredit
<1>5. CASE FillExpand(f)
  <2>1. Extra \in Nat
    BY PoolAssumption DEF Extra
  <2>2. FillCredit' = FillCredit
    BY <1>5 DEF FillExpand, FillCredit
  <2>3. m_capacity' \in {m_capacity, m_capacity + Extra}
    BY <1>5 DEF FillExpand
  <2> QED BY <1>0, <2>1, <2>2, <2>3
<1> QED BY <1>0, <1>1, <1>2, <1>3, <1>4, <1>5 DEF FillStep

(* No path of acquire, of a return or of the warm-up loses a permit; only   *)
(* the manager that is overwritten while it holds a connection does.        *)
THEOREM PermitsNeverLeakCorrect == Spec => PermitsNeverLeak
<1>1. ASSUME IInv, [Next]_vars
      PROVE  Permits' >= Permits \/ (\E u, v \in User : pc[u] = "holding" /\ MoveManager(u, v))
  <2>1. TypeOK /\ RefCount /\ m_capacity \in Nat
    BY <1>1 DEF IInv, TypeOK
  <2>2. /\ IsFiniteSet(UserPermits) /\ Cardinality(UserPermits) \in Nat
        /\ IsFiniteSet(FillCredit) /\ Cardinality(FillCredit) \in Nat
        /\ Permits = m_capacity + Cardinality(UserPermits) + Cardinality(FillCredit)
    BY PermitSum
  <2>3. Permits' = m_capacity' + Cardinality(UserPermits') + Cardinality(FillCredit')
    BY DEF Permits, UserPermits, FillCredit
  <2>4. ASSUME m_capacity' = m_capacity, UserPermits' = UserPermits, FillCredit' = FillCredit
        PROVE  Permits' >= Permits
    BY <2>1, <2>2, <2>3, <2>4
  <2>5. ASSUME NEW u \in User, Plain(u) \/ Wrapping(u) \/ DropReleaser(u) \/ DropPool(u)
        PROVE  Permits' >= Permits
    <3>1. FillCredit' = FillCredit
      BY <2>5 DEF Plain, Wrapping, Acquire, FindsNone, TakePermit, TimesOut, RecheckFinds,
         RecheckFindsNone, CreateFails, Refund, BeginReturn, PushBack, ReleasePermit,
         WaitForWarmup, SeesReady, JoinWarmup, DeleteStep, StopFiller, Delete, FastPath,
         ReturnSpare, CreateSucceeds, DropReleaser, DropPool, fillVars, FillCredit
    <3>2. CASE UserPermits' \in {UserPermits, UserPermits \cup {u}}
                 /\ m_capacity' \in {m_capacity, m_capacity + 1}
      <4>1. Cardinality(UserPermits') \in Nat /\ Cardinality(UserPermits') >= Cardinality(UserPermits)
        BY <2>2, <3>2, OneMore
      <4> QED BY <2>1, <2>2, <2>3, <3>1, <3>2, <4>1
    <3>3. CASE u \notin UserPermits /\ UserPermits' = UserPermits \cup {u}
                 /\ m_capacity' = m_capacity - 1
      <4>1. Cardinality(UserPermits') = Cardinality(UserPermits) + 1
        BY <2>2, <3>3, FS_AddElement
      <4> QED BY <2>1, <2>2, <2>3, <3>1, <3>3, <4>1
    <3>4. CASE UserPermits' = UserPermits \ {u} /\ m_capacity' = m_capacity + 1
      <4>1. Cardinality(UserPermits') \in Nat /\ Cardinality(UserPermits') >= Cardinality(UserPermits) - 1
        BY <2>2, <3>4, OneLess
      <4> QED BY <2>1, <2>2, <2>3, <3>1, <3>4, <4>1
    <3> QED BY <2>1, <2>5, <3>2, <3>3, <3>4, UserPermitStep
  <2>6. ASSUME NEW f \in Filler, FillStep(f) PROVE Permits' >= Permits
    <3>1. UserPermits' = UserPermits
      BY <2>1, <2>6, FillPermitStep
    <3>2. CASE FillCredit' = FillCredit /\ m_capacity' \in Nat /\ m_capacity' >= m_capacity
      BY <2>1, <2>2, <2>3, <3>1, <3>2
    <3>3. CASE f \notin FillCredit /\ FillCredit' = FillCredit \cup {f}
                 /\ m_capacity' = m_capacity - 1
      <4>1. Cardinality(FillCredit') = Cardinality(FillCredit) + 1
        BY <2>2, <3>3, FS_AddElement
      <4> QED BY <2>1, <2>2, <2>3, <3>1, <3>3, <4>1
    <3>4. CASE FillCredit' = FillCredit \ {f} /\ m_capacity' = m_capacity + 1
      <4>1. Cardinality(FillCredit') \in Nat /\ Cardinality(FillCredit') >= Cardinality(FillCredit) - 1
        BY <2>2, <3>4, OneLess
      <4> QED BY <2>1, <2>2, <2>3, <3>1, <3>4, <4>1
    <3> QED BY <2>1, <2>6, <3>2, <3>3, <3>4, FillPermitStep
  <2>7. ASSUME NEW u \in User, NEW v \in User, MoveManager(u, v), pc[u] # "holding"
        PROVE  Permits' >= Permits
    <3>1. /\ u \notin UserPermits /\ v \in UserPermits
          /\ UserPermits' = (UserPermits \ {v}) \cup {u}
          /\ m_capacity' = m_capacity /\ FillCredit' = FillCredit
      BY <2>1, <2>7 DEF MoveManager, UserPermits, FillCredit, TypeOK, poolVars, fillVars
    <3>2. /\ IsFiniteSet(UserPermits \ {v})
          /\ Cardinality(UserPermits \ {v}) = Cardinality(UserPermits) - 1
      BY <2>2, <3>1, FS_RemoveElement
    <3>3. Cardinality(UserPermits') = Cardinality(UserPermits \ {v}) + 1
      BY <3>1, <3>2, FS_AddElement
    <3> QED BY <2>1, <2>2, <2>3, <3>1, <3>2, <3>3
  <2>8. ASSUME NEW u \in User, NEW v \in User, Assigns(u, v) PROVE Permits' >= Permits
    BY <2>4, <2>8 DEF Assigns, CopyPool, MovePool, poolVars, fillVars, UserPermits, FillCredit
  <2>9. CASE UNCHANGED vars
    BY <2>4, <2>9 DEF vars, poolVars, fillVars, UserPermits, FillCredit
  <2> QED BY <1>1, <2>5, <2>6, <2>7, <2>8, <2>9, StepKinds
<1> QED BY <1>1, Invariance, PTL DEF Spec, PermitsNeverLeak

-----------------------------------------------------------------------------
(* The refinement                                                           *)

(* A new connection, to the users' eyes, has never been lent.               *)
LEMMA FreshToUsers ==
  ASSUME NEW c \in Conn, c \notin Range(m_connections), \A u \in User : conn[u] # c
  PROVE  c \in Lending!Fresh
BY DEF Range, Lending!Fresh, Lending!Range

(* What neither lends nor returns is invisible.                             *)
LEMMA InvisibleStep ==
  ASSUME UNCHANGED <<alive, m_connections, conn>>
  PROVE  UNCHANGED Lending!vars
BY DEF Lending!vars

(* Each step of a user is a step of the lending or invisible.               *)
LEMMA UserLends ==
  ASSUME IInv, NEW u \in User, Plain(u) \/ Wrapping(u) \/ DropReleaser(u) \/ DropPool(u)
  PROVE  [Lending!Next]_Lending!vars
<1> USE DEF IInv
<1>0. pc[u] \in {"first", "recheck", "create", "push"} => alive
  BY DEF PoolOutlivesUse
<1>1. ASSUME Pop(u), conn[u] = None, alive, alive' = alive PROVE Lending!Next
  BY <1>1 DEF Pop, Lending!Next, Lending!LendIdle
<1>2. CASE FastPath(u)
  BY <1>0, <1>1, <1>2 DEF FastPath, Wrap, Hands
<1>3. CASE RecheckFinds(u)
  BY <1>0, <1>1, <1>3 DEF RecheckFinds, Hands, refVars
<1>4. CASE CreateSucceeds(u)
  <2>1. PICK c \in Conn \ Live : conn' = [conn EXCEPT ![u] = c]
    BY <1>4 DEF CreateSucceeds, Creates
  <2>2. c \in Lending!Fresh
    BY <2>1, FreshToUsers DEF Live
  <2>3. conn[u] = None /\ alive /\ UNCHANGED <<alive, m_connections>>
    BY <1>0, <1>4 DEF CreateSucceeds, Wrap, Hands, poolVars
  <2>4. Lending!LendNew(u)
    BY <2>1, <2>2, <2>3 DEF Lending!LendNew
  <2> QED BY <2>4 DEF Lending!Next
<1>5. CASE PushBack(u)
  <2>1. conn[u] # None /\ alive
    BY <1>0, <1>5 DEF PushBack, Hands
  <2>2. Lending!GiveBack(u)
    BY <1>5, <2>1 DEF PushBack, Lending!GiveBack, refVars
  <2> QED BY <2>2 DEF Lending!Next
<1>6. CASE Delete(u)
  <2>1. \A v \in User : conn[v] = None
    BY <1>6 DEF Delete, PoolOutlivesUse, Hands
  <2>2. Lending!Close
    BY <1>6, <2>1 DEF Delete, Lending!Close
  <2> QED BY <2>2 DEF Lending!Next
<1>7. CASE \/ Acquire(u) \/ FindsNone(u) \/ TakePermit(u) \/ TimesOut(u) \/ RecheckFindsNone(u)
           \/ CreateFails(u) \/ Refund(u) \/ BeginReturn(u) \/ ReleasePermit(u) \/ ReturnSpare(u)
  BY <1>7, InvisibleStep DEF Acquire, FindsNone, TakePermit, TimesOut, RecheckFindsNone,
     CreateFails, Refund, BeginReturn, ReleasePermit, ReturnSpare, Wrap, poolVars, refVars
<1>8. CASE \/ WaitForWarmup(u) \/ SeesReady(u) \/ JoinWarmup(u) \/ DropReleaser(u) \/ DropPool(u)
           \/ \E f \in Filler : StopFiller(u, f)
  BY <1>8, InvisibleStep DEF WaitForWarmup, SeesReady, JoinWarmup, DropReleaser, DropPool, Unref,
     StopFiller, poolVars, refVars
<1> QED BY <1>2, <1>3, <1>4, <1>5, <1>6, <1>7, <1>8 DEF Plain, Wrapping, DeleteStep

(* So is each step of a warm-up thread.                                     *)
LEMMA FillerLends ==
  ASSUME IInv, NEW f \in Filler, FillStep(f)
  PROVE  [Lending!Next]_Lending!vars
<1> USE DEF IInv
<1>1. CASE FillPush(f)
  <2>1. fillConn[f] \in Conn
    BY <1>1 DEF FillPush, Hands, TypeOK
  <2>2. fillConn[f] # None
    BY <1>1 DEF FillPush, Hands
  <2>3. fillConn[f] \in Lending!Fresh
    <3>1. fillConn[f] \notin Range(m_connections)
      BY <2>2 DEF SingleOwner
    <3>2. \A u \in User : conn[u] # fillConn[f]
      BY <2>2 DEF SingleOwner
    <3> QED BY <2>1, <3>1, <3>2, FreshToUsers
  <2>4. alive
    BY <1>1 DEF FillPush, PoolOutlivesUse, FillEnded
  <2>5. Lending!Stock
    BY <1>1, <2>3, <2>4 DEF FillPush, Lending!Stock, refVars
  <2> QED BY <2>5 DEF Lending!Next
<1>2. CASE \/ FillTop(f) \/ FillTake(f) \/ FillCreates(f) \/ FillFails(f) \/ FillRefund(f)
           \/ FillRelease(f) \/ FillAnnounce(f) \/ FillExpand(f)
  BY <1>2, InvisibleStep DEF FillTop, FillTake, FillCreates, FillFails, FillRefund, FillRelease,
     FillAnnounce, FillExpand, poolVars, refVars
<1> QED BY <1>1, <1>2 DEF FillStep

(* The pool implements the lending, for any number of users, whatever the   *)
(* warm-up and the factory do and however pointers and managers move.       *)
THEOREM Lends == Spec => LendsExclusively
<1>1. Init => Lending!Init
  BY DEF Init, Lending!Init
<1>2. IInv /\ [Next]_vars => [Lending!Next]_Lending!vars
  <2> SUFFICES ASSUME IInv, [Next]_vars PROVE [Lending!Next]_Lending!vars
    OBVIOUS
  <2>1. ASSUME NEW u \in User, NEW v \in User, MoveManager(u, v) PROVE Lending!Next
    <3>1. Lending!HandOver(u, v)
      BY <2>1 DEF MoveManager, Lending!HandOver, IInv, Hands, poolVars
    <3> QED BY <3>1 DEF Lending!Next
  <2>2. ASSUME NEW u \in User, NEW v \in User, Assigns(u, v) PROVE UNCHANGED Lending!vars
    BY <2>2, InvisibleStep DEF Assigns, CopyPool, MovePool, poolVars
  <2>3. CASE UNCHANGED vars
    BY <2>3, InvisibleStep DEF vars, poolVars, refVars
  <2> QED BY <2>1, <2>2, <2>3, UserLends, FillerLends, StepKinds
<1> QED BY <1>1, <1>2, Invariance, PTL DEF Spec, LendsExclusively, Lending!Spec

=============================================================================
