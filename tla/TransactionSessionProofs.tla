----------------------- MODULE TransactionSessionProofs -----------------------
(* Proofs of the ordering of a transaction's statements and of the pairing  *)
(* of results, for any number of transactions and statements, any failures  *)
(* and any sharing of the client.                                           *)
EXTENDS TransactionSession, SequenceTheorems, TLAPS

-----------------------------------------------------------------------------
(* Requests                                                                 *)

(* What the tuples that name requests are.                                  *)
LEMMA RequestFacts ==
  /\ \A s \in Stmt : Run(s) \in Request
  /\ \A t \in Txn, k \in {"begin", "commit", "rollback"} : <<k, t>> \in Request
  /\ \A t \in Txn, s \in Stmt, k \in {"begin", "commit", "rollback"} : <<k, t>> # Run(s)
  /\ Beat \notin Request /\ None \notin Request /\ Beat # None
  /\ \A r \in Request : r[1] = "stmt" => r[2] \in Stmt
<1>1. Beat \notin Request
  BY DEF Request, Control, Beat
<1>2. \A r \in Request : r[1] = "stmt" => r[2] \in Stmt
  BY DEF Request, Control
<1> QED BY <1>1, <1>2, SessionAssumption DEF Request, Control, Run

(* The queue after a request is sent and after the worker takes one.        *)
LEMMA QueueFacts ==
  ASSUME NEW q \in Seq(Request)
  PROVE  /\ Len(q) \in Nat
         /\ \A i \in 1..Len(q) : q[i] \in Request
         /\ \A r \in Request :
              /\ Append(q, r) \in Seq(Request) /\ Len(Append(q, r)) = Len(q) + 1
              /\ \A i \in 1..Len(q) : Append(q, r)[i] = q[i]
              /\ Append(q, r)[Len(q) + 1] = r
         /\ q # <<>> =>
              /\ Tail(q) \in Seq(Request) /\ Len(Tail(q)) = Len(q) - 1
              /\ \A i \in 1..Len(Tail(q)) : Tail(q)[i] = q[i + 1]
              /\ Head(q) = q[1] /\ Head(q) \in Request /\ Len(q) > 0
<1>1. Len(q) \in Nat /\ \A i \in 1..Len(q) : q[i] \in Request
  BY LenProperties, ElementOfSeq
<1>2. \A r \in Request :
        /\ Append(q, r) \in Seq(Request) /\ Len(Append(q, r)) = Len(q) + 1
        /\ \A i \in 1..Len(q) : Append(q, r)[i] = q[i]
        /\ Append(q, r)[Len(q) + 1] = r
  BY AppendProperties
<1>3. ASSUME q # <<>>
      PROVE  /\ Tail(q) \in Seq(Request) /\ Len(Tail(q)) = Len(q) - 1
             /\ \A i \in 1..Len(Tail(q)) : Tail(q)[i] = q[i + 1]
             /\ Head(q) = q[1] /\ Head(q) \in Request /\ Len(q) > 0
  BY <1>1, <1>3, HeadTailProperties, EmptySeq
<1> QED BY <1>1, <1>2, <1>3

-----------------------------------------------------------------------------
(* Types                                                                    *)

(* What an answer does to the worker and the answers.                       *)
LEMMA AnswerType ==
  ASSUME TypeOK, NEW a \in Answer, AnswerItem(a)
  PROVE  /\ answer' \in [Request -> Answer] /\ pc' = "idle" /\ item' = None /\ attempts' = 1
<1>1. CASE item = Beat
  BY <1>1 DEF TypeOK, AnswerItem
<1>2. CASE item # Beat
  BY <1>2 DEF TypeOK, AnswerItem
<1> QED BY <1>1, <1>2

(* The same for a bad connection, which is retried once.                    *)
LEMMA RetryType ==
  ASSUME TypeOK, RetryOrAnswer
  PROVE  /\ answer' \in [Request -> Answer] /\ pc' \in {"idle", "reset"}
         /\ item' \in {item, None} /\ attempts' \in 1..2
<1>1. CASE attempts = 1
  BY <1>1 DEF TypeOK, RetryOrAnswer
<1>2. CASE attempts # 1
  <2>1. AnswerItem("BadConnection") /\ "BadConnection" \in Answer
    BY <1>2 DEF RetryOrAnswer, Answer
  <2> QED BY <2>1, AnswerType
<1> QED BY <1>1, <1>2

(* Every step keeps the types.                                              *)
LEMMA TypeStep ==
  ASSUME TypeOK, LockedActive, [Next]_vars
  PROVE  TypeOK'
<1> USE DEF TypeOK, txnVars, workerVars, linkVars,
        serverVars, bounds
<1>0. ASSUME NEW r \in Request, Send(r)
      PROVE  m_requests' \in Seq(Request) /\ answer' \in [Request -> Answer]
  BY <1>0, QueueFacts DEF Send, Answer
<1>1. ASSUME NEW t \in Txn, OwnerStep(t) PROVE TypeOK'
  <2>2. CASE CreateTransaction(t)
    <3>1. <<"begin", t>> \in Request
      BY RequestFacts
    <3>2. m_requests' \in Seq(Request) /\ answer' \in [Request -> Answer]
      BY <1>0, <2>2, <3>1 DEF CreateTransaction
    <3> QED BY <2>2, <3>2 DEF CreateTransaction, CallState
  <2>3. CASE BeginAnswered(t)
    BY <2>3 DEF BeginAnswered, CallState
  <2>4. CASE Drop(t)
    BY <2>4 DEF Drop
  <2>5. ASSUME NEW state \in {"commit", "rollback"}, Finish(t, state) PROVE TypeOK'
    BY <2>5 DEF Finish, CallState
  <2>6. CASE FinishSends(t)
    <3>1. m_state[t] \in {"commit", "rollback"}
      BY <2>6 DEF FinishSends, LockedActive
    <3>2. <<m_state[t], t>> \in Request
      BY <3>1, RequestFacts
    <3> QED BY <1>0, <2>6, <3>2 DEF FinishSends, CallState
  <2>7. CASE FinishAnswered(t)
    BY <2>7 DEF FinishAnswered, CallState
  <2> QED BY <1>1, <2>2, <2>3, <2>4, <2>5, <2>6, <2>7 DEF OwnerStep
<1>2. ASSUME NEW s \in Stmt, CallerStep(s) PROVE TypeOK'
  <2>1. ASSUME NEW t \in Txn, ExecuteLocks(s, t) PROVE TypeOK'
    <3>1. CASE m_state[t] = "active"
      BY <2>1, <3>1 DEF ExecuteLocks
    <3>2. CASE m_state[t] # "active"
      BY <2>1, <3>2, RequestFacts DEF ExecuteLocks, Answer
    <3> QED BY <3>1, <3>2
  <2>2. ASSUME NEW t \in Txn, ExecuteSends(s, t) PROVE TypeOK'
    BY <1>0, <2>2, RequestFacts DEF ExecuteSends
  <2>3. CASE ExecutePlain(s)
    BY <1>0, <2>3, RequestFacts DEF ExecutePlain
  <2> QED BY <1>2, <2>1, <2>2, <2>3 DEF CallerStep
<1>3. CASE WorkerStep \/ TakeBeat
  <2>0. CASE Take
    BY <2>0, QueueFacts DEF Take
  <2>1. CASE TakeBeat
    BY <2>1 DEF TakeBeat
  <2>2. CASE CheckConnected
    BY <2>2 DEF CheckConnected
  <2>3. CASE ResetSucceeds
    BY <2>3 DEF ResetSucceeds, Reset
  <2>4. CASE ResetFails
    <3>1. /\ answer' \in [Request -> Answer] /\ pc' = "idle" /\ item' = None /\ attempts' = 1
      BY <2>4, AnswerType DEF ResetFails, Answer
    <3>2. /\ status' \in {"ok", "bad"} /\ session' \in {"idle", "gone"}
          /\ losses' \in Nat /\ UNCHANGED <<txnVars, m_requests, timeouts, beats>>
      BY <2>4 DEF ResetFails
    <3>3. /\ busy' = FALSE /\ inbox' = None /\ reply' = None /\ pending' = {}
          /\ UNCHANGED <<durable, ran>>
      BY <2>4 DEF ResetFails, Reset
    <3>4. busy' \in BOOLEAN
      BY <3>3
    <3> QED BY <3>1, <3>2, <3>3, <3>4
  <2>5. CASE SendRefused
    BY <2>5, RetryType DEF SendRefused
  <2>6. CASE SendAccepted
    BY <2>6 DEF SendAccepted
  <2>7. CASE PollFails
    <3>1. /\ answer' \in [Request -> Answer] /\ pc' = "idle" /\ item' = None /\ attempts' = 1
      BY <2>7, AnswerType DEF PollFails, Answer
    <3> QED BY <2>7, <3>1 DEF PollFails
  <2>8. CASE LossSeen
    BY <2>8, RetryType DEF LossSeen
  <2>9. CASE Consume
    <3>1. (IF reply.ok THEN "ok" ELSE "QueryFailed") \in Answer
      BY DEF Answer
    <3>2. /\ answer' \in [Request -> Answer] /\ pc' = "idle" /\ item' = None /\ attempts' = 1
      BY <2>9, <3>1, AnswerType DEF Consume
    <3>3. /\ busy' = FALSE /\ reply' = None
          /\ UNCHANGED <<txnVars, m_requests, status, inbox, serverVars, bounds>>
      BY <2>9 DEF Consume
    <3>4. busy' \in BOOLEAN
      BY <3>3
    <3> QED BY <3>2, <3>3, <3>4
  <2>10. CASE NoSocket
    <3>1. /\ answer' \in [Request -> Answer] /\ pc' = "idle" /\ item' = None /\ attempts' = 1
      BY <2>10, AnswerType DEF NoSocket, Answer
    <3> QED BY <2>10, <3>1 DEF NoSocket
  <2>11. CASE ConsumeLoses
    <3>1. /\ answer' \in [Request -> Answer] /\ pc' = "idle" /\ item' = None /\ attempts' = 1
      BY <2>11, AnswerType DEF ConsumeLoses, Answer
    <3>2. /\ status' = "bad" /\ busy' = FALSE /\ inbox' = None /\ reply' = None
          /\ UNCHANGED <<txnVars, m_requests, serverVars, bounds>>
      BY <2>11 DEF ConsumeLoses
    <3>3. busy' \in BOOLEAN
      BY <3>2
    <3> QED BY <3>1, <3>2, <3>3
  <2> QED BY <1>3, <2>0, <2>1, <2>2, <2>3, <2>4, <2>5, <2>6, <2>7, <2>8, <2>9, <2>10, <2>11
          DEF WorkerStep
<1>4. CASE ServerStep
  <2>1. ASSUME NEW ok \in BOOLEAN, Replies(ok), inbox # None
        PROVE  reply' \in [to : Request \cup {Beat}, ok : BOOLEAN] /\ inbox' = None
    BY <2>1 DEF Replies
  <2>2. CASE ServerBegins
    BY <2>1, <2>2 DEF ServerBegins, Arrives, Replies
  <2>3. CASE ServerRuns
    <3>0. inbox # None /\ inbox[1] = "stmt" /\ Replies(TRUE)
      BY <2>3 DEF ServerRuns, Arrives
    <3>1. inbox[2] \in Stmt
      <4>1. Beat[1] = "beat"
        BY DEF Beat
      <4>2. inbox \in Request
        BY <3>0, <4>1
      <4> QED BY <3>0, <4>2, RequestFacts
    <3>2. /\ ran' \in [Stmt -> Nat] /\ durable' \in [Stmt -> Nat]
          /\ pending' \subseteq Stmt /\ session' = session
      <4> DEFINE s == inbox[2]
      <4>1. /\ ran' = [ran EXCEPT ![s] = @ + 1] /\ session' = session
            /\ IF session = "open"
                 THEN pending' = pending \cup {s} /\ UNCHANGED durable
                 ELSE durable' = [durable EXCEPT ![s] = @ + 1] /\ UNCHANGED pending
        BY <2>3 DEF ServerRuns
      <4>2. s \in Stmt
        BY <3>1
      <4> HIDE DEF s
      <4>3. ran' \in [Stmt -> Nat]
        BY <4>1, <4>2
      <4>4. CASE session = "open"
        BY <4>1, <4>2, <4>3, <4>4
      <4>5. CASE session # "open"
        <5>1. durable' = [durable EXCEPT ![s] = durable[s] + 1] /\ pending' = pending
          BY <4>1, <4>5
        <5>2. durable' \in [Stmt -> Nat]
          BY <4>2, <5>1
        <5> QED BY <4>1, <4>3, <5>1, <5>2
      <4> QED BY <4>4, <4>5
    <3> QED BY <2>1, <3>0, <3>2 DEF Replies
  <2>4. CASE ServerRejects
    BY <2>1, <2>4 DEF ServerRejects, Arrives, Replies
  <2>5. CASE ServerEnds
    <3>1. durable' \in [Stmt -> Nat]
      BY <2>5 DEF ServerEnds
    <3> QED BY <2>1, <2>5, <3>1 DEF ServerEnds, Arrives, Replies
  <2>6. CASE ServerPings
    BY <2>1, <2>6 DEF ServerPings, Arrives, Replies
  <2>7. CASE ServerRefusesCommit
    BY <2>1, <2>7 DEF ServerRefusesCommit, Arrives, Replies
  <2> QED BY <1>4, <2>2, <2>3, <2>4, <2>5, <2>6, <2>7 DEF ServerStep
<1>5. CASE Lose
  BY <1>5 DEF Lose
<1>6. CASE UNCHANGED vars
  BY <1>6 DEF vars
<1> QED BY <1>1, <1>2, <1>3, <1>4, <1>5, <1>6 DEF Next

-----------------------------------------------------------------------------
(* The order of a transaction's statements                                  *)

(* The worker leaves the transaction objects alone, takes requests from the *)
(* front of the queue and answers nothing but what was sent.                *)
LEMMA WorkerAnswers ==
  ASSUME TypeOK, SentBefore, WorkerStep \/ TakeBeat \/ ServerStep \/ Lose
  PROVE  /\ UNCHANGED txnVars
         /\ \A r \in Request : answer'[r] = "unsent" <=> answer[r] = "unsent"
         /\ \/ m_requests' = m_requests /\ item' \in {item, None, Beat}
            \/ Take
<1> USE DEF TypeOK, SentBefore, txnVars, workerVars
<1>1. ASSUME NEW a \in Final, AnswerItem(a)
      PROVE  /\ \A r \in Request : answer'[r] = "unsent" <=> answer[r] = "unsent"
             /\ item' = None
  <2>1. CASE item = Beat
    BY <1>1, <2>1 DEF AnswerItem
  <2>2. CASE item # Beat /\ item \in Request
    BY <1>1, <2>2 DEF AnswerItem, Final
  <2>3. CASE item = None
    BY <1>1, <2>3, RequestFacts DEF AnswerItem
  <2> QED BY <2>1, <2>2, <2>3
<1>2. ASSUME RetryOrAnswer
      PROVE  /\ \A r \in Request : answer'[r] = "unsent" <=> answer[r] = "unsent"
             /\ item' \in {item, None}
  <2>1. CASE attempts = 1
    BY <1>2, <2>1 DEF RetryOrAnswer
  <2>2. CASE attempts # 1
    <3>1. AnswerItem("BadConnection") /\ "BadConnection" \in Final
      BY <1>2, <2>2 DEF RetryOrAnswer, Final, Answer
    <3> QED BY <1>1, <3>1
  <2> QED BY <2>1, <2>2
<1>3. CASE Take \/ TakeBeat
  BY <1>3 DEF Take, TakeBeat
<1>4. CASE CheckConnected \/ ResetSucceeds \/ SendAccepted
  BY <1>4 DEF CheckConnected, ResetSucceeds, SendAccepted
<1>5. CASE ResetFails
  <2>1. "FailedToReconnect" \in Final
    BY DEF Final, Answer
  <2> QED BY <1>1, <1>5, <2>1 DEF ResetFails
<1>6. CASE SendRefused
  BY <1>2, <1>6 DEF SendRefused
<1>7. CASE LossSeen
  BY <1>2, <1>7 DEF LossSeen
<1>8. CASE PollFails
  <2>1. "SocketFailed" \in Final
    BY DEF Final, Answer
  <2> QED BY <1>1, <1>8, <2>1 DEF PollFails
<1>9. CASE Consume
  <2>1. (IF reply.ok THEN "ok" ELSE "QueryFailed") \in Final
    BY DEF Final, Answer
  <2> QED BY <1>1, <1>9, <2>1 DEF Consume
<1>10. CASE ServerStep \/ Lose
  BY <1>10 DEF ServerStep, ServerBegins, ServerRuns, ServerRejects, ServerEnds,
     ServerRefusesCommit, ServerPings, Replies, Lose
<1>11. CASE NoSocket
  <2>1. "SocketFailed" \in Final
    BY DEF Final, Answer
  <2> QED BY <1>1, <1>11, <2>1 DEF NoSocket
<1>12. CASE ConsumeLoses
  <2>1. "QueryFailed" \in Final
    BY DEF Final, Answer
  <2> QED BY <1>1, <1>12, <2>1 DEF ConsumeLoses
<1> QED BY <1>3, <1>4, <1>5, <1>6, <1>7, <1>8, <1>9, <1>10, <1>11, <1>12 DEF WorkerStep

(* m_mutex keeps the state of a transaction active while one of its         *)
(* statements is being queued.                                              *)
LEMMA LockedStep ==
  ASSUME TypeOK, SentBefore, LockedActive, [Next]_vars
  PROVE  LockedActive'
<1> USE DEF TypeOK, txnVars
<1>0. \A t \in Txn, k \in {"commit", "rollback"} : <<k, t>> \in Request
  BY RequestFacts
<1>1. ASSUME NEW t \in Txn, OwnerStep(t) PROVE LockedActive'
  <2>1. CASE CreateTransaction(t)
    <3>1. \A u \in Txn, k \in {"commit", "rollback"} : <<k, u>> # <<"begin", t>>
      OBVIOUS
    <3>2. \A u \in Txn : Unfinished(u)' = Unfinished(u)
      BY <1>0, <2>1, <3>1 DEF CreateTransaction, Send, Unfinished
    <3>3. /\ call' = [call EXCEPT ![t] = "beginning"] /\ call[t] = "none"
          /\ UNCHANGED <<m_state, holder>>
      BY <2>1 DEF CreateTransaction
    <3> QED BY <3>2, <3>3 DEF LockedActive
  <2>2. CASE BeginAnswered(t) \/ Drop(t) \/ FinishAnswered(t)
    <3>1. \A u \in Txn : Unfinished(u)' = Unfinished(u)
      BY <2>2 DEF BeginAnswered, Drop, FinishAnswered, Unfinished
    <3> QED BY <2>2, <3>1 DEF BeginAnswered, Drop, FinishAnswered, LockedActive
  <2>3. ASSUME NEW state \in {"commit", "rollback"}, Finish(t, state) PROVE LockedActive'
    <3>1. \A u \in Txn : Unfinished(u)' = Unfinished(u)
      BY <2>3 DEF Finish, Unfinished
    <3> QED BY <2>3, <3>1 DEF Finish, LockedActive
  <2>4. CASE FinishSends(t)
    <3>1. m_state[t] # "active" /\ UNCHANGED <<m_state, holder>>
          /\ call' = [call EXCEPT ![t] = "waiting"] /\ Send(<<m_state[t], t>>)
      BY <2>4 DEF FinishSends, LockedActive
    <3>2. \A u \in Txn : u # t => Unfinished(u)' = Unfinished(u)
      <4>1. \A u \in Txn, k \in {"commit", "rollback"} : u # t => <<k, u>> # <<m_state[t], t>>
        OBVIOUS
      <4> QED BY <1>0, <3>1, <4>1 DEF Send, Unfinished
    <3> QED BY <3>1, <3>2 DEF LockedActive
  <2> QED BY <1>1, <2>1, <2>2, <2>3, <2>4 DEF OwnerStep
<1>2. ASSUME NEW s \in Stmt, CallerStep(s) PROVE LockedActive'
  <2>1. \A u \in Txn, k \in {"commit", "rollback"} : <<k, u>> # Run(s)
    BY RequestFacts
  <2>2. ASSUME NEW t \in Txn, ExecuteLocks(s, t) PROVE LockedActive'
    <3>1. CASE m_state[t] = "active"
      <4>1. \A u \in Txn : Unfinished(u)' = Unfinished(u)
        BY <2>2, <3>1 DEF ExecuteLocks, Unfinished
      <4> QED BY <2>2, <3>1, <4>1 DEF ExecuteLocks, LockedActive
    <3>2. CASE m_state[t] # "active"
      <4>1. /\ \A u \in Txn : Unfinished(u)' = Unfinished(u)
            /\ UNCHANGED <<m_state, call, holder>>
        BY <1>0, <2>1, <2>2, <3>2 DEF ExecuteLocks, Unfinished
      <4> QED BY <4>1 DEF LockedActive
    <3> QED BY <3>1, <3>2
  <2>3. ASSUME Send(Run(s))
        PROVE  \A u \in Txn : Unfinished(u)' = Unfinished(u)
    BY <1>0, <2>1, <2>3 DEF Send, Unfinished
  <2>4. ASSUME NEW t \in Txn, ExecuteSends(s, t) PROVE LockedActive'
    <3>1. /\ holder' = [holder EXCEPT ![t] = None] /\ UNCHANGED <<m_state, call>>
      BY <2>4 DEF ExecuteSends
    <3> QED BY <2>3, <2>4, <3>1 DEF ExecuteSends, LockedActive
  <2>5. CASE ExecutePlain(s)
    BY <2>3, <2>5 DEF ExecutePlain, LockedActive
  <2> QED BY <1>2, <2>2, <2>4, <2>5 DEF CallerStep
<1>3. CASE WorkerStep \/ TakeBeat \/ ServerStep \/ Lose
  <2>1. /\ UNCHANGED <<m_state, holder, call>>
        /\ \A r \in Request : answer'[r] = "unsent" <=> answer[r] = "unsent"
    BY <1>3, WorkerAnswers
  <2>2. \A u \in Txn : Unfinished(u)' = Unfinished(u)
    BY <1>0, <2>1 DEF Unfinished
  <2> QED BY <2>1, <2>2 DEF LockedActive
<1>4. CASE UNCHANGED vars
  <2>1. \A u \in Txn : Unfinished(u)' = Unfinished(u)
    BY <1>4 DEF vars, Unfinished
  <2> QED BY <1>4, <2>1 DEF vars, LockedActive
<1> QED BY <1>1, <1>2, <1>3, <1>4 DEF Next

(* Only what was sent is in the queue or with the worker.                   *)
LEMMA SentStep ==
  ASSUME TypeOK, SentBefore, LockedActive, [Next]_vars
  PROVE  SentBefore'
<1> USE DEF TypeOK, txnVars, workerVars
<1>1. ASSUME NEW r \in Request, Send(r), UNCHANGED item PROVE SentBefore'
  <2>1. /\ m_requests' = Append(m_requests, r) /\ Len(m_requests') = Len(m_requests) + 1
        /\ Len(m_requests) \in Nat
        /\ \A i \in 1..Len(m_requests) : m_requests'[i] = m_requests[i] /\ m_requests[i] \in Request
        /\ m_requests'[Len(m_requests) + 1] = r
    BY <1>1, QueueFacts DEF Send
  <2>2. answer' = [answer EXCEPT ![r] = "queued"]
    BY <1>1 DEF Send
  <2>3. \A q \in Request : answer[q] # "unsent" => answer'[q] # "unsent"
    BY <2>2
  <2>4. ASSUME NEW i \in 1..Len(m_requests') PROVE answer'[m_requests'[i]] # "unsent"
    <3>1. CASE i = Len(m_requests) + 1
      BY <2>1, <2>2, <3>1
    <3>2. CASE i # Len(m_requests) + 1
      <4>1. i \in 1..Len(m_requests)
        BY <2>1, <3>2
      <4> QED BY <2>1, <2>3, <4>1 DEF SentBefore
    <3> QED BY <3>1, <3>2
  <2>5. item' \in Request => answer'[item'] # "unsent"
    BY <1>1, <2>3 DEF SentBefore
  <2> QED BY <2>4, <2>5 DEF SentBefore
<1>2. ASSUME UNCHANGED <<m_requests, item>>,
             \A q \in Request : answer[q] # "unsent" => answer'[q] # "unsent"
      PROVE  SentBefore'
  <2>1. \A i \in 1..Len(m_requests) : m_requests[i] \in Request
    BY QueueFacts
  <2> QED BY <1>2, <2>1 DEF SentBefore
<1>3. ASSUME NEW t \in Txn, OwnerStep(t) PROVE SentBefore'
  <2>1. CASE CreateTransaction(t)
    BY <1>1, <2>1, RequestFacts DEF CreateTransaction
  <2>2. CASE BeginAnswered(t) \/ Drop(t) \/ FinishAnswered(t)
    BY <1>2, <2>2 DEF BeginAnswered, Drop, FinishAnswered
  <2>3. ASSUME NEW state \in {"commit", "rollback"}, Finish(t, state) PROVE SentBefore'
    BY <1>2, <2>3 DEF Finish
  <2>4. CASE FinishSends(t)
    <3>1. m_state[t] \in {"commit", "rollback"}
      BY <2>4 DEF FinishSends, LockedActive
    <3>2. <<m_state[t], t>> \in Request
      BY <3>1, RequestFacts
    <3> QED BY <1>1, <2>4, <3>2 DEF FinishSends
  <2> QED BY <1>3, <2>1, <2>2, <2>3, <2>4 DEF OwnerStep
<1>4. ASSUME NEW s \in Stmt, CallerStep(s) PROVE SentBefore'
  <2>1. Run(s) \in Request
    BY RequestFacts
  <2>2. ASSUME NEW t \in Txn, ExecuteLocks(s, t) PROVE SentBefore'
    <3>1. \A q \in Request : answer[q] # "unsent" => answer'[q] # "unsent"
      BY <2>1, <2>2 DEF ExecuteLocks
    <3> QED BY <1>2, <2>2, <3>1 DEF ExecuteLocks
  <2>3. ASSUME NEW t \in Txn, ExecuteSends(s, t) PROVE SentBefore'
    BY <1>1, <2>1, <2>3 DEF ExecuteSends
  <2>4. CASE ExecutePlain(s)
    BY <1>1, <2>1, <2>4 DEF ExecutePlain
  <2> QED BY <1>4, <2>2, <2>3, <2>4 DEF CallerStep
<1>5. CASE WorkerStep \/ TakeBeat \/ ServerStep \/ Lose
  <2>1. /\ \A r \in Request : answer'[r] = "unsent" <=> answer[r] = "unsent"
        /\ \/ m_requests' = m_requests /\ item' \in {item, None, Beat}
           \/ Take
    BY <1>5, WorkerAnswers
  <2>2. \A i \in 1..Len(m_requests) : m_requests[i] \in Request
    BY QueueFacts
  <2>3. CASE m_requests' = m_requests /\ item' \in {item, None, Beat}
    BY <2>1, <2>2, <2>3, RequestFacts DEF SentBefore
  <2>4. CASE Take
    <3>1. /\ item' = m_requests[1] /\ 1 \in 1..Len(m_requests)
          /\ Len(m_requests') = Len(m_requests) - 1
          /\ \A i \in 1..Len(m_requests') : m_requests'[i] = m_requests[i + 1]
          /\ answer' = answer /\ Len(m_requests) \in Nat
      BY <2>4, QueueFacts DEF Take
    <3>2. ASSUME NEW i \in 1..Len(m_requests') PROVE answer'[m_requests'[i]] # "unsent"
      <4>1. i + 1 \in 1..Len(m_requests)
        BY <3>1
      <4> QED BY <3>1, <4>1 DEF SentBefore
    <3> QED BY <3>1, <3>2 DEF SentBefore
  <2> QED BY <2>1, <2>3, <2>4
<1>6. CASE UNCHANGED vars
  BY <1>2, <1>6 DEF vars
<1> QED BY <1>3, <1>4, <1>5, <1>6 DEF Next

(* BEGIN, COMMIT, ROLLBACK and each statement are sent once: their senders  *)
(* pass through call and holder, and a statement has one transaction.       *)
LEMMA SendsOnceStep ==
  ASSUME TypeOK, SentBefore, LockedActive, SendsOnce, [Next]_vars
  PROVE  SendsOnce'
<1> USE DEF TypeOK
<1> DEFINE Ok(u) == /\ call[u] = "none" => answer[<<"begin", u>>] = "unsent"
                    /\ call[u] = "finishing" => Unfinished(u) /\ m_state[u] # "active"
                    /\ holder[u] # None => answer[Run(holder[u])] = "unsent"
<1>0. SendsOnce <=> \A u \in Txn : Ok(u)
  BY DEF SendsOnce
<1>1. SendsOnce' <=> \A u \in Txn : Ok(u)'
  BY DEF SendsOnce
<1>2. /\ \A u \in Txn, k \in {"begin", "commit", "rollback"} : <<k, u>> \in Request
      /\ \A u \in Txn : holder[u] # None => Run(holder[u]) \in Request /\ StmtTxn[holder[u]] = u
      /\ \A u \in Txn, k \in {"begin", "commit", "rollback"} :
           holder[u] # None => \A v \in Txn : <<k, v>> # Run(holder[u])
  BY RequestFacts DEF LockedActive
<1>3. ASSUME NEW u \in Txn, call'[u] = call[u], m_state'[u] = m_state[u], holder'[u] = holder[u],
             \A k \in {"begin", "commit", "rollback"} : answer[<<k, u>>] = "unsent" => answer'[<<k, u>>] = "unsent",
             holder[u] # None => (answer[Run(holder[u])] = "unsent" => answer'[Run(holder[u])] = "unsent")
      PROVE  Ok(u)'
  BY <1>0, <1>3 DEF Unfinished
<1> HIDE DEF TypeOK
<1>4. ASSUME NEW t \in Txn, OwnerStep(t) PROVE \A u \in Txn : Ok(u)'
  <2>1. CASE CreateTransaction(t)
    <3>1. /\ answer' = [answer EXCEPT ![<<"begin", t>>] = "queued"]
          /\ call' = [call EXCEPT ![t] = "beginning"] /\ UNCHANGED <<m_state, holder>>
      BY <2>1 DEF CreateTransaction, Send
    <3>2. holder[t] # None => answer'[Run(holder[t])] = answer[Run(holder[t])]
      BY <1>2, <3>1 DEF TypeOK
    <3>3. Ok(t)'
      BY <1>0, <3>1, <3>2 DEF TypeOK
    <3>4. ASSUME NEW u \in Txn, u # t PROVE Ok(u)'
      <4>1. call'[u] = call[u]
        BY <3>1, <3>4 DEF TypeOK
      <4>2. \A k \in {"begin", "commit", "rollback"} : answer'[<<k, u>>] = answer[<<k, u>>]
        BY <1>2, <3>1, <3>4 DEF TypeOK
      <4>3. holder[u] # None => answer'[Run(holder[u])] = answer[Run(holder[u])]
        BY <1>2, <3>1 DEF TypeOK
      <4> QED BY <1>3, <3>1, <4>1, <4>2, <4>3
    <3> QED BY <3>3, <3>4
  <2>2. CASE BeginAnswered(t) \/ Drop(t) \/ FinishAnswered(t)
    <3>1. /\ answer' = answer /\ UNCHANGED <<m_state, holder>>
          /\ call'[t] \notin {"none", "finishing"} /\ \A u \in Txn : u # t => call'[u] = call[u]
      BY <2>2 DEF BeginAnswered, Drop, FinishAnswered, TypeOK
    <3>2. Ok(t)'
      BY <1>0, <3>1
    <3> QED BY <1>3, <3>1, <3>2
  <2>3. ASSUME NEW state \in {"commit", "rollback"}, Finish(t, state) PROVE \A u \in Txn : Ok(u)'
    <3>1. /\ answer' = answer /\ holder' = holder
          /\ m_state' = [m_state EXCEPT ![t] = state] /\ call' = [call EXCEPT ![t] = "finishing"]
          /\ m_state[t] = "active"
      BY <2>3 DEF Finish
    <3>2. Unfinished(t)'
      BY <3>1 DEF LockedActive, Unfinished
    <3>3. Ok(t)'
      BY <1>0, <3>1, <3>2 DEF TypeOK
    <3>4. \A u \in Txn : u # t => call'[u] = call[u] /\ m_state'[u] = m_state[u]
      BY <3>1 DEF TypeOK
    <3> QED BY <1>3, <3>1, <3>3, <3>4
  <2>4. CASE FinishSends(t)
    <3>1. /\ answer' = [answer EXCEPT ![<<m_state[t], t>>] = "queued"]
          /\ call' = [call EXCEPT ![t] = "waiting"] /\ UNCHANGED <<m_state, holder>>
          /\ m_state[t] \in {"commit", "rollback"}
      BY <2>4 DEF FinishSends, Send, LockedActive, TypeOK
    <3>2. \A u \in Txn : holder[u] # None => answer'[Run(holder[u])] = answer[Run(holder[u])]
      BY <1>2, <3>1 DEF TypeOK
    <3>3. Ok(t)'
      BY <1>0, <3>1, <3>2 DEF TypeOK
    <3>4. ASSUME NEW u \in Txn, u # t PROVE Ok(u)'
      <4>1. call'[u] = call[u]
        BY <3>1, <3>4 DEF TypeOK
      <4>2. \A k \in {"begin", "commit", "rollback"} : answer'[<<k, u>>] = answer[<<k, u>>]
        BY <1>2, <3>1, <3>4 DEF TypeOK
      <4> QED BY <1>3, <3>1, <3>2, <4>1, <4>2
    <3> QED BY <3>3, <3>4
  <2> QED BY <1>4, <2>1, <2>2, <2>3, <2>4 DEF OwnerStep
<1>5. ASSUME NEW s \in Stmt, answer'[Run(s)] # "unsent",
             answer' \in {[answer EXCEPT ![Run(s)] = a] : a \in Answer},
             UNCHANGED <<m_state, call>>,
             \A u \in Txn : (holder'[u] = holder[u] /\ holder[u] # s) \/ holder'[u] = None
      PROVE  \A u \in Txn : Ok(u)'
  <2> TAKE u \in Txn
  <2>1. Run(s) \in Request /\ \A k \in {"begin", "commit", "rollback"} : <<k, u>> # Run(s)
    BY RequestFacts
  <2>2. \A k \in {"begin", "commit", "rollback"} : answer'[<<k, u>>] = answer[<<k, u>>]
    <3>1. PICK a \in Answer : answer' = [answer EXCEPT ![Run(s)] = a]
      BY <1>5
    <3>2. \A k \in {"begin", "commit", "rollback"} : <<k, u>> \in Request
      BY RequestFacts
    <3>3. answer \in [Request -> Answer]
      BY <1>2 DEF TypeOK
    <3> QED BY <2>1, <3>1, <3>2, <3>3
  <2>3. CASE holder'[u] = None
    BY <1>0, <1>5, <2>2, <2>3 DEF Unfinished
  <2>4. CASE holder'[u] = holder[u] /\ holder[u] # s /\ holder[u] # None
    <3>1. Run(holder[u]) # Run(s)
      BY <2>4 DEF Run
    <3>2. answer'[Run(holder[u])] = answer[Run(holder[u])]
      BY <1>2, <1>5, <2>4, <3>1 DEF TypeOK
    <3> QED BY <1>3, <1>5, <2>2, <2>4, <3>2
  <2> QED BY <1>5, <2>3, <2>4
<1>6. ASSUME NEW s \in Stmt, CallerStep(s) PROVE \A u \in Txn : Ok(u)'
  <2>0. Run(s) \in Request /\ s # None
    BY RequestFacts, SessionAssumption
  <2>1. ASSUME NEW t \in Txn, ExecuteLocks(s, t), m_state[t] = "active"
        PROVE  \A u \in Txn : Ok(u)'
    <3>1. /\ answer' = answer /\ UNCHANGED <<m_state, call>>
          /\ holder' = [holder EXCEPT ![t] = s] /\ answer[Run(s)] = "unsent"
      BY <2>1 DEF ExecuteLocks
    <3>2. holder'[t] = s /\ \A u \in Txn : u # t => holder'[u] = holder[u]
      BY <3>1 DEF TypeOK
    <3>3. Ok(t)'
      BY <1>0, <3>1, <3>2 DEF Unfinished
    <3> QED BY <1>3, <3>1, <3>2, <3>3
  <2>2. ASSUME NEW t \in Txn, ExecuteLocks(s, t), m_state[t] # "active"
        PROVE  \A u \in Txn : Ok(u)'
    <3>1. /\ answer' = [answer EXCEPT ![Run(s)] = "TransactionRolledBack"]
          /\ UNCHANGED <<m_state, call, holder>>
          /\ holder[t] = None /\ StmtTxn[s] = t
      BY <2>2 DEF ExecuteLocks
    <3>2. \A u \in Txn : holder[u] # s
      BY <1>2, <2>0, <3>1
    <3>3. answer'[Run(s)] # "unsent"
      BY <2>0, <3>1 DEF TypeOK
    <3> QED BY <1>5, <3>1, <3>2, <3>3 DEF Answer
  <2>3. ASSUME Send(Run(s))
        PROVE  /\ answer' \in {[answer EXCEPT ![Run(s)] = a] : a \in Answer}
               /\ answer'[Run(s)] # "unsent"
    BY <2>0, <2>3 DEF Send, Answer, TypeOK
  <2>4. ASSUME NEW t \in Txn, ExecuteSends(s, t) PROVE \A u \in Txn : Ok(u)'
    <3>1. /\ Send(Run(s)) /\ UNCHANGED <<m_state, call>>
          /\ holder[t] = s /\ holder' = [holder EXCEPT ![t] = None]
      BY <2>4 DEF ExecuteSends
    <3>2. \A u \in Txn : u # t => holder[u] # s /\ holder'[u] = holder[u]
      BY <1>2, <2>0, <3>1 DEF TypeOK
    <3>3. holder'[t] = None
      BY <3>1 DEF TypeOK
    <3>4. \A u \in Txn : (holder'[u] = holder[u] /\ holder[u] # s) \/ holder'[u] = None
      BY <3>2, <3>3
    <3> HIDE DEF Ok
    <3> QED BY <1>5, <2>3, <3>1, <3>4
  <2>5. CASE ExecutePlain(s)
    <3>1. Send(Run(s)) /\ UNCHANGED <<m_state, call, holder>> /\ StmtTxn[s] = None
      BY <2>5 DEF ExecutePlain, txnVars
    <3>2. \A u \in Txn : holder[u] # s
      BY <1>2, <2>0, <3>1, SessionAssumption
    <3> QED BY <1>5, <2>3, <3>1, <3>2
  <2> QED BY <1>6, <2>1, <2>2, <2>4, <2>5 DEF CallerStep
<1>7. CASE WorkerStep \/ TakeBeat \/ ServerStep \/ Lose
  <2>1. /\ UNCHANGED <<m_state, call, holder>>
        /\ \A r \in Request : answer'[r] = "unsent" <=> answer[r] = "unsent"
    BY <1>7, WorkerAnswers DEF txnVars
  <2>2. ASSUME NEW u \in Txn PROVE Ok(u)'
    <3>1. \A k \in {"begin", "commit", "rollback"} : answer[<<k, u>>] = "unsent" => answer'[<<k, u>>] = "unsent"
      BY <1>2, <2>1
    <3>2. holder[u] # None => (answer[Run(holder[u])] = "unsent" => answer'[Run(holder[u])] = "unsent")
      BY <1>2, <2>1
    <3>3. call'[u] = call[u] /\ m_state'[u] = m_state[u] /\ holder'[u] = holder[u]
      BY <2>1
    <3> QED BY <1>3, <3>1, <3>2, <3>3
  <2> QED BY <1>1, <2>2
<1>8. CASE UNCHANGED vars
  <2>1. UNCHANGED <<m_state, call, holder, answer>>
    BY <1>8 DEF vars, txnVars
  <2>2. ASSUME NEW u \in Txn PROVE Ok(u)'
    BY <1>3, <2>1
  <2> QED BY <1>1, <2>2
<1> HIDE DEF Ok
<1> QED BY <1>1, <1>4, <1>6, <1>7, <1>8 DEF Next

(* The worker puts its request away in the step that answers it.            *)
LEMMA WorkerHandsStep ==
  ASSUME TypeOK, WorkerHands, [Next]_vars
  PROVE  WorkerHands'
<1> USE DEF WorkerHands
<1>1. ASSUME UNCHANGED <<pc, item>> PROVE WorkerHands'
  BY <1>1
<1>2. ASSUME NEW t \in Txn, OwnerStep(t) PROVE WorkerHands'
  BY <1>1, <1>2 DEF OwnerStep, CreateTransaction, BeginAnswered, Drop, Finish, FinishSends,
     FinishAnswered, workerVars
<1>3. ASSUME NEW s \in Stmt, CallerStep(s) PROVE WorkerHands'
  BY <1>1, <1>3 DEF CallerStep, ExecuteLocks, ExecuteSends, ExecutePlain, workerVars
<1>4. CASE Take
  <2>1. item' \in Request /\ pc' = "check"
    BY <1>4, QueueFacts DEF Take, TypeOK
  <2> QED BY <2>1, RequestFacts
<1>5. CASE TakeBeat
  BY <1>5, RequestFacts DEF TakeBeat
<1>6. CASE CheckConnected \/ ResetSucceeds \/ SendAccepted
  <2>1. CASE CheckConnected
    BY <2>1 DEF CheckConnected
  <2>2. CASE ResetSucceeds
    BY <2>2 DEF ResetSucceeds, Reset
  <2>3. CASE SendAccepted
    BY <2>3 DEF SendAccepted
  <2> QED BY <1>6, <2>1, <2>2, <2>3
<1>7. CASE ResetFails \/ PollFails \/ Consume \/ NoSocket \/ ConsumeLoses
  BY <1>7 DEF ResetFails, PollFails, Consume, NoSocket, ConsumeLoses, AnswerItem
<1>8. CASE SendRefused \/ LossSeen
  BY <1>8 DEF SendRefused, LossSeen, RetryOrAnswer, AnswerItem
<1>9. CASE ServerStep \/ Lose
  BY <1>1, <1>9 DEF ServerStep, ServerBegins, ServerRuns, ServerRejects, ServerEnds,
     ServerRefusesCommit, ServerPings,
     Replies, Lose, workerVars
<1>10. CASE UNCHANGED vars
  BY <1>1, <1>10 DEF vars, workerVars
<1> QED BY <1>2, <1>3, <1>4, <1>5, <1>6, <1>7, <1>8, <1>9, <1>10 DEF Next, WorkerStep

(* Sending anything but the statement keeps it in front, and sending COMMIT *)
(* or ROLLBACK puts everything in front.                                    *)
LEMMA SendInFront ==
  ASSUME TypeOK, NEW r \in Request, Send(r), UNCHANGED item,
         NEW s \in Stmt, NEW f \in Request, r # Run(s),
         InFront(s, f) \/ r = f
  PROVE  InFront(s, f)'
<1> USE DEF TypeOK
<1>1. /\ Len(m_requests') = Len(m_requests) + 1 /\ Len(m_requests) \in Nat
      /\ \A i \in 1..Len(m_requests) : m_requests'[i] = m_requests[i]
      /\ m_requests'[Len(m_requests) + 1] = r
  BY QueueFacts DEF Send
<1>2. ASSUME item = Run(s) PROVE \E j \in 1..Len(m_requests') : m_requests'[j] = f
  <2>1. CASE r = f
    <3>1. Len(m_requests) + 1 \in 1..Len(m_requests')
      BY <1>1
    <3> QED BY <1>1, <2>1, <3>1
  <2>2. CASE r # f
    <3>1. PICK j \in 1..Len(m_requests) : m_requests[j] = f
      BY <1>2, <2>2 DEF InFront
    <3>2. j \in 1..Len(m_requests') /\ m_requests'[j] = f
      BY <1>1, <3>1
    <3> QED BY <3>2
  <2> QED BY <2>1, <2>2
<1>3. ASSUME NEW i \in 1..Len(m_requests'), m_requests'[i] = Run(s)
      PROVE  \E j \in i+1..Len(m_requests') : m_requests'[j] = f
  <2>1. i \in 1..Len(m_requests) /\ m_requests[i] = Run(s)
    BY <1>1, <1>3
  <2>2. CASE r = f
    <3>1. Len(m_requests) + 1 \in i+1..Len(m_requests')
      BY <1>1, <2>1
    <3> QED BY <1>1, <2>2, <3>1
  <2>3. CASE r # f
    <3>1. PICK j \in i+1..Len(m_requests) : m_requests[j] = f
      BY <2>1, <2>3 DEF InFront
    <3>2. j \in i+1..Len(m_requests') /\ j \in 1..Len(m_requests)
      BY <1>1, <2>1, <3>1
    <3> QED BY <1>1, <3>1, <3>2
  <2> QED BY <2>2, <2>3
<1> QED BY <1>2, <1>3 DEF InFront

(* Taking the first request keeps the order of the others.                  *)
LEMMA TakeInFront ==
  ASSUME TypeOK, Take, NEW s \in Stmt, NEW f \in Request, InFront(s, f)
  PROVE  InFront(s, f)'
<1> USE DEF TypeOK
<1>1. /\ item' = m_requests[1] /\ 1 \in 1..Len(m_requests)
      /\ Len(m_requests') = Len(m_requests) - 1 /\ Len(m_requests) \in Nat
      /\ \A i \in 1..Len(m_requests') : m_requests'[i] = m_requests[i + 1]
  BY QueueFacts DEF Take
<1>2. ASSUME item' = Run(s) PROVE \E j \in 1..Len(m_requests') : m_requests'[j] = f
  <2>1. PICK j \in 1+1..Len(m_requests) : m_requests[j] = f
    BY <1>1, <1>2 DEF InFront
  <2>2. j - 1 \in 1..Len(m_requests') /\ (j - 1) + 1 = j
    BY <1>1, <2>1
  <2> QED BY <1>1, <2>1, <2>2
<1>3. ASSUME NEW i \in 1..Len(m_requests'), m_requests'[i] = Run(s)
      PROVE  \E j \in i+1..Len(m_requests') : m_requests'[j] = f
  <2>1. i + 1 \in 1..Len(m_requests) /\ m_requests[i + 1] = Run(s)
    BY <1>1, <1>3
  <2>2. PICK j \in (i+1)+1..Len(m_requests) : m_requests[j] = f
    BY <2>1 DEF InFront
  <2>3. j - 1 \in i+1..Len(m_requests') /\ j - 1 \in 1..Len(m_requests') /\ (j - 1) + 1 = j
    BY <1>1, <2>2
  <2> QED BY <1>1, <2>2, <2>3
<1> QED BY <1>2, <1>3 DEF InFront

(* No step lets a statement slip behind its transaction's COMMIT or         *)
(* ROLLBACK: whoever queues one holds m_mutex, and then neither was sent.   *)
LEMMA FinishIsLastStep ==
  ASSUME TypeOK, LockedActive, FinishIsLast, SentBefore, [Next]_vars
  PROVE  FinishIsLast'
<1> SUFFICES ASSUME NEW t \in Txn, NEW k \in {"commit", "rollback"}, NEW s \in Of(t),
                    answer'[<<k, t>>] # "unsent"
             PROVE  holder'[t] = None /\ InFront(s, <<k, t>>)'
  <2>1. \A t \in Txn : None \notin Of(t)
    BY SessionAssumption DEF Of
  <2> QED BY <2>1 DEF FinishIsLast
<1> USE DEF TypeOK, txnVars, workerVars
<1>0. s \in Stmt /\ StmtTxn[s] = t
  BY DEF Of
<1> DEFINE f == <<k, t>>
<1>1. f \in Request /\ Run(s) \in Request /\ f # Run(s)
  BY <1>0, RequestFacts
<1>2. answer[f] # "unsent" => holder[t] = None /\ InFront(s, f) /\ m_state[t] # "active"
  <2>1. answer[f] # "unsent" => InFront(s, f)
    BY DEF FinishIsLast
  <2>2. answer[f] # "unsent" => m_state[t] # "active"
    <3>1. Unfinished(t) => answer[<<k, t>>] = "unsent"
      BY DEF Unfinished
    <3> QED BY <3>1 DEF LockedActive
  <2>3. m_state[t] # "active" => holder[t] = None
    BY DEF LockedActive
  <2> QED BY <2>1, <2>2, <2>3
<1> HIDE DEF f
<1>3. ASSUME UNCHANGED <<m_requests, item>>, InFront(s, f) PROVE InFront(s, f)'
  BY <1>3 DEF InFront
<1>4. ASSUME NEW u \in Txn, OwnerStep(u) PROVE holder'[t] = None /\ InFront(s, f)'
  <2>1. CASE CreateTransaction(u)
    <3>1. <<"begin", u>> \in Request /\ <<"begin", u>> # Run(s) /\ <<"begin", u>> # f
      BY <1>0, RequestFacts DEF f
    <3>2. answer[f] # "unsent"
      BY <1>1, <2>1, <3>1 DEF CreateTransaction, Send, f
    <3> QED BY <1>1, <1>2, <2>1, <3>1, <3>2, <1>0, SendInFront DEF CreateTransaction
  <2>2. CASE BeginAnswered(u) \/ Drop(u) \/ FinishAnswered(u)
    BY <1>2, <1>3, <2>2 DEF BeginAnswered, Drop, FinishAnswered, f
  <2>3. ASSUME NEW state \in {"commit", "rollback"}, Finish(u, state)
        PROVE  holder'[t] = None /\ InFront(s, f)'
    BY <1>2, <1>3, <2>3 DEF Finish, f
  <2>4. CASE FinishSends(u)
    <3>1. /\ m_state[u] \in {"commit", "rollback"} /\ holder[u] = None
          /\ Send(<<m_state[u], u>>) /\ UNCHANGED <<holder, item>>
      BY <2>4 DEF FinishSends, LockedActive
    <3>2. <<m_state[u], u>> \in Request /\ <<m_state[u], u>> # Run(s)
      BY <1>0, <3>1, RequestFacts
    <3>3. CASE <<m_state[u], u>> = f
      <4>1. u = t
        BY <3>3 DEF f
      <4> QED BY <1>1, <3>1, <3>2, <3>3, <4>1, <1>0, SendInFront
    <3>4. CASE <<m_state[u], u>> # f
      <4>1. answer[f] # "unsent"
        BY <1>1, <3>1, <3>2, <3>4 DEF Send, f
      <4> QED BY <1>1, <1>2, <3>1, <3>2, <4>1, <1>0, SendInFront
    <3> QED BY <3>3, <3>4
  <2> QED BY <1>4, <2>1, <2>2, <2>3, <2>4 DEF OwnerStep
<1>5. ASSUME NEW r \in Stmt, CallerStep(r) PROVE holder'[t] = None /\ InFront(s, f)'
  <2>1. Run(r) \in Request /\ Run(r) # f /\ (r # s => Run(r) # Run(s))
    BY <1>0, RequestFacts DEF Run, f
  <2>2. ASSUME NEW u \in Txn, ExecuteLocks(r, u) PROVE holder'[t] = None /\ InFront(s, f)'
    <3>1. answer[f] # "unsent" /\ UNCHANGED <<m_requests, item>>
      BY <1>1, <2>1, <2>2 DEF ExecuteLocks, f
    <3>2. CASE m_state[u] = "active"
      <4>1. u # t /\ holder' = [holder EXCEPT ![u] = r]
        BY <1>2, <2>2, <3>1, <3>2 DEF ExecuteLocks
      <4> QED BY <1>2, <1>3, <3>1, <4>1
    <3>3. CASE m_state[u] # "active"
      BY <1>2, <1>3, <2>2, <3>1, <3>3 DEF ExecuteLocks
    <3> QED BY <3>2, <3>3
  <2>3. ASSUME Send(Run(r)), r # s, UNCHANGED item PROVE answer[f] # "unsent" /\ InFront(s, f)'
    <3>1. answer[f] # "unsent"
      BY <1>1, <2>1, <2>3 DEF Send, f
    <3> QED BY <1>1, <1>2, <2>1, <2>3, <3>1, <1>0, SendInFront
  <2>4. ASSUME NEW u \in Txn, ExecuteSends(r, u) PROVE holder'[t] = None /\ InFront(s, f)'
    <3>1. /\ Send(Run(r)) /\ UNCHANGED item /\ holder[u] = r /\ r # None
          /\ holder' = [holder EXCEPT ![u] = None]
      BY <2>4, SessionAssumption DEF ExecuteSends
    <3>2. StmtTxn[r] = u /\ m_state[u] = "active"
      BY <3>1 DEF LockedActive
    <3>3. answer[f] # "unsent"
      BY <1>1, <2>1, <3>1 DEF Send, f
    <3>4. r # s
      BY <1>0, <1>2, <3>2, <3>3
    <3> QED BY <1>2, <2>3, <3>1, <3>3, <3>4
  <2>5. CASE ExecutePlain(r)
    <3>1. r # s /\ Send(Run(r)) /\ UNCHANGED <<item, holder>>
      BY <1>0, <2>5, SessionAssumption DEF ExecutePlain
    <3> QED BY <1>2, <2>3, <3>1
  <2> QED BY <1>5, <2>2, <2>4, <2>5 DEF CallerStep
<1>6. ASSUME WorkerStep \/ TakeBeat \/ ServerStep \/ Lose
      PROVE  holder'[t] = None /\ InFront(s, f)'
  <2>1. /\ holder' = holder /\ answer[f] # "unsent"
        /\ \/ m_requests' = m_requests /\ item' \in {item, None, Beat}
           \/ Take
    BY <1>1, <1>6, WorkerAnswers DEF f
  <2>2. CASE m_requests' = m_requests /\ item' \in {item, None, Beat}
    <3>1. Run(s) # None /\ Run(s) # Beat
      BY <1>1, RequestFacts
    <3>2. InFront(s, f)
      BY <1>2, <2>1
    <3>3. CASE item' = item
      <4>1. InFront(s, f)'
        BY <1>3, <2>2, <3>2, <3>3
      <4> QED BY <1>2, <2>1, <4>1
    <3>4. CASE item' # item
      <4>1. item' # Run(s)
        BY <2>2, <3>1, <3>4
      <4> QED BY <1>2, <2>1, <2>2, <3>2, <4>1 DEF InFront
    <3> QED BY <3>3, <3>4
  <2>3. CASE Take
    <3>1. InFront(s, f)'
      BY <1>1, <1>2, <2>1, <2>3, <1>0, TakeInFront
    <3> QED BY <1>2, <2>1, <3>1
  <2> QED BY <2>1, <2>2, <2>3
<1>7. CASE UNCHANGED vars
  BY <1>2, <1>3, <1>7 DEF vars, f
<1> QED BY <1>4, <1>5, <1>6, <1>7 DEF Next, f

-----------------------------------------------------------------------------
(* The pairing of results                                                   *)

(* While the worker waits only its own request is on its way: libpq refuses *)
(* to send while an earlier one is, and the reset that follows forgets it.  *)
LEMMA FlightStep ==
  ASSUME TypeOK, InFlight, NoStaleResult, [Next]_vars
  PROVE  InFlight' /\ NoStaleResult'
<1> USE DEF TypeOK, workerVars, linkVars, InFlight, NoStaleResult
<1>1. ASSUME UNCHANGED <<workerVars, linkVars>> PROVE InFlight' /\ NoStaleResult'
  BY <1>1
<1>2. ASSUME NEW t \in Txn, OwnerStep(t) PROVE InFlight' /\ NoStaleResult'
  BY <1>1, <1>2 DEF OwnerStep, CreateTransaction, BeginAnswered, Drop, Finish, FinishSends,
     FinishAnswered
<1>3. ASSUME NEW s \in Stmt, CallerStep(s) PROVE InFlight' /\ NoStaleResult'
  BY <1>1, <1>3 DEF CallerStep, ExecuteLocks, ExecuteSends, ExecutePlain
<1>4. CASE Take \/ TakeBeat \/ CheckConnected
  BY <1>4 DEF Take, TakeBeat, CheckConnected
<1>5. CASE ResetSucceeds \/ ResetFails
  <2>1. busy' = FALSE /\ inbox' = None /\ reply' = None
    BY <1>5 DEF ResetSucceeds, ResetFails, Reset
  <2> QED BY <2>1
<1>6. ASSUME RetryOrAnswer PROVE pc' # "await"
  BY <1>6 DEF RetryOrAnswer, AnswerItem
<1>7. CASE SendRefused \/ LossSeen
  <2>1. pc' # "await" /\ UNCHANGED <<busy, inbox, reply>>
    BY <1>6, <1>7 DEF SendRefused, LossSeen
  <2> QED BY <2>1
<1>8. CASE SendAccepted
  BY <1>8 DEF SendAccepted
<1>14. CASE NoSocket
  <2>1. pc' = "idle" /\ UNCHANGED <<inbox, busy, reply>>
    BY <1>14 DEF NoSocket, AnswerItem
  <2> QED BY <2>1
<1>15. CASE ConsumeLoses
  <2>1. inbox' = None /\ reply' = None
    BY <1>15 DEF ConsumeLoses
  <2> QED BY <2>1
<1>9. CASE PollFails
  <2>1. pc' = "idle" /\ inbox' \in {inbox, None} /\ UNCHANGED <<busy, reply>>
    BY <1>9 DEF PollFails, AnswerItem
  <2> QED BY <2>1
<1>10. CASE Consume
  <2>1. pc' = "idle" /\ inbox' = inbox /\ busy' = FALSE /\ reply' = None /\ reply # None
    BY <1>10 DEF Consume, AnswerItem
  <2> QED BY <2>1
<1>11. CASE ServerStep
  <2>1. /\ inbox # None /\ inbox' = None /\ reply'.to = inbox
        /\ UNCHANGED <<pc, item, attempts, busy>>
    BY <1>11 DEF ServerStep, ServerBegins, ServerRuns, ServerRejects, ServerEnds,
     ServerRefusesCommit, ServerPings,
       Arrives, Replies
  <2> QED BY <2>1
<1>12. CASE Lose
  BY <1>12 DEF Lose
<1>13. CASE UNCHANGED vars
  BY <1>1, <1>13 DEF vars
<1> QED BY <1>2, <1>3, <1>4, <1>5, <1>7, <1>8, <1>9, <1>10, <1>11, <1>12, <1>13, <1>14, <1>15
    DEF Next, WorkerStep

-----------------------------------------------------------------------------
(* The theorems                                                             *)

(* A client that is connected and was not used.                             *)
LEMMA InitOrderInv == Init => OrderInv
<1> SUFFICES ASSUME Init PROVE OrderInv
  OBVIOUS
<1> USE SessionAssumption DEF Init
<1>1. TypeOK
  <2>1. m_requests \in Seq(Request)
    BY EmptySeq
  <2>2. answer \in [Request -> Answer]
    BY DEF Answer
  <2>3. call \in [Txn -> CallState] /\ m_state \in [Txn -> {"active", "commit", "rollback"}]
    BY DEF CallState
  <2>4. /\ durable \in [Stmt -> Nat] /\ ran \in [Stmt -> Nat]
        /\ holder \in [Txn -> Stmt \cup {None}]
    OBVIOUS
  <2>5. /\ losses \in Nat /\ timeouts \in Nat /\ beats \in Nat /\ attempts \in 1..2
    OBVIOUS
  <2>6. busy \in BOOLEAN
    BY ZenonT(20)
  <2> QED BY <2>1, <2>2, <2>3, <2>4, <2>5, <2>6 DEF TypeOK
<1>2. \A t \in Txn, k \in {"commit", "rollback"} : answer[<<k, t>>] = "unsent"
  BY RequestFacts
<1>3. FinishIsLast
  BY <1>2 DEF FinishIsLast
<1>4. LockedActive
  <2>1. \A t \in Txn : Unfinished(t)
    BY <1>2 DEF Unfinished
  <2> QED BY <2>1 DEF LockedActive
<1>5. SentBefore
  <2>1. Len(m_requests) = 0
    BY EmptySeq
  <2> QED BY <2>1, RequestFacts DEF SentBefore
<1>6. InFlight /\ NoStaleResult /\ WorkerHands
  BY DEF InFlight, NoStaleResult, WorkerHands
<1>7. SendsOnce
  BY RequestFacts DEF SendsOnce
<1> QED BY <1>1, <1>3, <1>4, <1>5, <1>6, <1>7 DEF OrderInv

(* The invariant of the transaction objects, the queue and the connection,  *)
(* whatever the threads, the server and the link do.                        *)
THEOREM Invariance == Spec => []OrderInv
<1>1. Init => OrderInv
  BY InitOrderInv
<1>2. OrderInv /\ [Next]_vars => OrderInv'
  BY TypeStep, LockedStep, SentStep, SendsOnceStep, WorkerHandsStep, FinishIsLastStep, FlightStep
     DEF OrderInv
<1> QED BY <1>1, <1>2, PTL DEF Spec

(* The types, and with them the end of the retry loop: a request has at     *)
(* most two attempts.                                                       *)
THEOREM TypeCorrect == Spec => []TypeOK
<1>1. OrderInv => TypeOK
  BY DEF OrderInv
<1> QED BY <1>1, Invariance, PTL

(* No statement that execute() accepted for a transaction is queued behind  *)
(* its COMMIT or ROLLBACK, however execute(), commit(), rollback() and the  *)
(* destructor race.                                                         *)
THEOREM FinishIsLastCorrect == Spec => []FinishIsLast
<1>1. OrderInv => FinishIsLast
  BY DEF OrderInv
<1> QED BY <1>1, Invariance, PTL

(* ExecuteQuery reads the result of its own statement and never one that a  *)
(* timeout left behind.                                                     *)
THEOREM NoStaleResultCorrect == Spec => []NoStaleResult
<1>1. OrderInv => NoStaleResult
  BY DEF OrderInv
<1> QED BY <1>1, Invariance, PTL

-----------------------------------------------------------------------------
(* The refinement of RequestService: whatever fails, times out or is       *)
(* retried, and however transactions share the client, its callers are      *)
(* served in order.                                                         *)

Executing == IF item = Beat THEN None ELSE item
Answered  == {r \in Request : answer[r] \in Final \ {"TransactionRolledBack"}}

(* The service cannot see a step that keeps the queue, the item and the     *)
(* answers that the client gave.                                            *)
LEMMA Invisible ==
  ASSUME UNCHANGED <<m_requests, Executing, Answered>>
  PROVE  UNCHANGED Service!vars
BY DEF Executing, Answered, Service!vars

(* What is sent for the first time is known to nobody.                      *)
LEMMA SendServes ==
  ASSUME OrderInv, NEW r \in Request, answer[r] = "unsent", Send(r), item' = item
  PROVE  Service!Submit(r)
<1> USE DEF OrderInv
<1>1. Service!Range(m_requests) = {m_requests[i] : i \in 1..Len(m_requests)}
  BY LenProperties DEF Service!Range, TypeOK
<1>2. r \notin Service!Range(m_requests) /\ r # item
  BY <1>1 DEF SentBefore
<1>3. r # Executing /\ r \notin Answered
  BY <1>2, RequestFacts DEF Executing, Answered, Final
<1>4. Answered' = Answered
  BY DEF Answered, Send, Final, TypeOK
<1>5. Executing' = Executing /\ m_requests' = Append(m_requests, r)
  BY DEF Executing, Send
<1> HIDE DEF OrderInv
<1> QED BY <1>2, <1>3, <1>4, <1>5 DEF Service!Submit, Service!Known, Executing, Answered

(* An answer of the worker finishes its request; the heartbeat is no one's. *)
LEMMA AnswerServes ==
  ASSUME OrderInv, pc # "idle", UNCHANGED m_requests,
         NEW a \in Final \ {"TransactionRolledBack"}, AnswerItem(a)
  PROVE  Service!Next \/ UNCHANGED Service!vars
<1> USE DEF OrderInv
<1>1. item # None /\ item' = None
  BY DEF WorkerHands, AnswerItem
<1>2. CASE item = Beat
  <2>1. Answered' = Answered /\ Executing = None /\ Executing' = None
    BY <1>1, <1>2, RequestFacts DEF AnswerItem, Answered, Executing
  <2> QED BY <2>1, Invisible
<1>3. CASE item # Beat
  <2>1. item \in Request /\ answer' = [answer EXCEPT ![item] = a]
    BY <1>1, <1>3 DEF TypeOK, AnswerItem
  <2>2. Answered' = Answered \cup {item}
    BY <2>1 DEF Answered, TypeOK
  <2>3. Executing = item /\ Executing' = None
    BY <1>1, <1>3, RequestFacts DEF Executing
  <2> HIDE DEF OrderInv
  <2>4. Service!Finish
    BY <1>1, <2>2, <2>3 DEF Service!Finish, Executing, Answered
  <2> QED BY <2>4 DEF Service!Next
<1> QED BY <1>2, <1>3

(* A bad connection is retried, which nobody sees, or answered.             *)
LEMMA RetryServes ==
  ASSUME OrderInv, pc # "idle", UNCHANGED m_requests, RetryOrAnswer
  PROVE  Service!Next \/ UNCHANGED Service!vars
<1>1. CASE attempts = 1
  BY <1>1, Invisible DEF RetryOrAnswer, Executing, Answered
<1>2. CASE attempts # 1
  BY <1>2, AnswerServes DEF RetryOrAnswer, Final, Answer
<1> QED BY <1>1, <1>2

(* What transaction objects and their callers do.                           *)
LEMMA CallerServes ==
  ASSUME OrderInv,
         \/ \E t \in Txn : OwnerStep(t)
         \/ \E s \in Stmt : CallerStep(s)
  PROVE  Service!Next \/ UNCHANGED Service!vars
<1> USE DEF OrderInv
<1>0. ASSUME NEW r \in Request, answer[r] = "unsent", Send(r), item' = item
      PROVE  Service!Next
  BY <1>0, SendServes DEF Service!Next
<1>1. ASSUME NEW t \in Txn, CreateTransaction(t) PROVE Service!Next
  <2>1. <<"begin", t>> \in Request /\ answer[<<"begin", t>>] = "unsent"
    BY <1>1, RequestFacts DEF CreateTransaction, SendsOnce
  <2> QED BY <1>0, <1>1, <2>1 DEF CreateTransaction, workerVars
<1>2. ASSUME NEW t \in Txn, FinishSends(t) PROVE Service!Next
  <2>1. m_state[t] \in {"commit", "rollback"} /\ answer[<<m_state[t], t>>] = "unsent"
    BY <1>2 DEF FinishSends, SendsOnce, Unfinished, TypeOK
  <2>2. <<m_state[t], t>> \in Request
    BY <2>1, RequestFacts
  <2> QED BY <1>0, <1>2, <2>1, <2>2 DEF FinishSends, workerVars
<1>3. ASSUME NEW s \in Stmt, NEW t \in Txn, ExecuteSends(s, t) PROVE Service!Next
  <2>1. Run(s) \in Request /\ answer[Run(s)] = "unsent"
    BY <1>3, RequestFacts, SessionAssumption DEF ExecuteSends, SendsOnce
  <2> QED BY <1>0, <1>3, <2>1 DEF ExecuteSends, workerVars
<1>4. ASSUME NEW s \in Stmt, ExecutePlain(s) PROVE Service!Next
  BY <1>0, <1>4, RequestFacts DEF ExecutePlain, workerVars
<1>5. ASSUME NEW s \in Stmt, NEW t \in Txn, ExecuteLocks(s, t) PROVE UNCHANGED Service!vars
  <2>1. UNCHANGED <<m_requests, item>>
    BY <1>5 DEF ExecuteLocks, workerVars
  <2>2. Answered' = Answered
    <3>1. CASE m_state[t] = "active"
      BY <1>5, <3>1 DEF ExecuteLocks, Answered
    <3>2. CASE m_state[t] # "active"
      BY <1>5, <3>2, RequestFacts DEF ExecuteLocks, Answered, Final, TypeOK
    <3> QED BY <3>1, <3>2
  <2> QED BY <2>1, <2>2, Invisible DEF Executing
<1>6. ASSUME NEW t \in Txn, \/ BeginAnswered(t) \/ Drop(t) \/ FinishAnswered(t)
                            \/ \E state \in {"commit", "rollback"} : Finish(t, state)
      PROVE  UNCHANGED Service!vars
  <2>1. UNCHANGED <<m_requests, item, answer>>
    BY <1>6 DEF BeginAnswered, Drop, FinishAnswered, Finish, workerVars
  <2> QED BY <2>1, Invisible DEF Executing, Answered
<1> QED BY <1>1, <1>2, <1>3, <1>4, <1>5, <1>6 DEF OwnerStep, CallerStep

(* What the worker does, with whatever the server and the link do to it.    *)
LEMMA WorkerServes ==
  ASSUME OrderInv, WorkerStep \/ TakeBeat
  PROVE  Service!Next \/ UNCHANGED Service!vars
<1>1. CASE Take
  <2>1. item = None /\ m_requests # <<>> /\ item' = Head(m_requests)
        /\ m_requests' = Tail(m_requests) /\ answer' = answer
    BY <1>1 DEF Take, OrderInv, WorkerHands
  <2>2. Head(m_requests) \in Request
    BY <2>1, QueueFacts DEF OrderInv, TypeOK
  <2>3. /\ Executing = None /\ Executing' = Head(m_requests)
        /\ Answered' = Answered
    BY <2>1, <2>2, RequestFacts DEF Executing, Answered
  <2>4. Service!Begin
    BY <2>1, <2>3 DEF Service!Begin, Executing, Answered
  <2> QED BY <2>4 DEF Service!Next
<1>2. CASE TakeBeat
  <2>1. item = None /\ item' = Beat /\ UNCHANGED <<m_requests, answer>>
    BY <1>2 DEF TakeBeat, OrderInv, WorkerHands
  <2>2. Executing = None /\ Executing' = None /\ Answered' = Answered
    BY <2>1 DEF Executing, Answered
  <2> QED BY <2>1, <2>2, Invisible
<1>3. CASE CheckConnected \/ ResetSucceeds \/ SendAccepted
  <2>1. UNCHANGED <<m_requests, item, answer>>
    BY <1>3 DEF CheckConnected, ResetSucceeds, SendAccepted
  <2> QED BY <2>1, Invisible DEF Executing, Answered
<1>4. CASE ResetFails
  BY <1>4, AnswerServes DEF ResetFails, Reset, Final, Answer
<1>5. CASE PollFails
  BY <1>5, AnswerServes DEF PollFails, Final, Answer
<1>6. CASE Consume
  <2>1. PICK a \in {"ok", "QueryFailed"} : AnswerItem(a)
    BY <1>6 DEF Consume
  <2> QED BY <1>6, <2>1, AnswerServes DEF Consume, Final, Answer
<1>7. CASE SendRefused
  BY <1>7, RetryServes DEF SendRefused
<1>8. CASE LossSeen
  BY <1>8, RetryServes DEF LossSeen
<1>9. CASE NoSocket
  BY <1>9, AnswerServes DEF NoSocket, Final, Answer
<1>10. CASE ConsumeLoses
  BY <1>10, AnswerServes DEF ConsumeLoses, Final, Answer
<1> QED BY <1>1, <1>2, <1>3, <1>4, <1>5, <1>6, <1>7, <1>8, <1>9, <1>10 DEF WorkerStep

(* Each step of the session is a step of the service or invisible.          *)
LEMMA StepServes ==
  ASSUME OrderInv, [Next]_vars
  PROVE  [Service!Next]_Service!vars
<1>1. CASE ServerStep \/ Lose
  <2>1. UNCHANGED <<m_requests, item, answer>>
    BY <1>1 DEF ServerStep, ServerBegins, ServerRuns, ServerRejects, ServerEnds,
     ServerRefusesCommit, ServerPings,
       Replies, Lose, workerVars
  <2> QED BY <2>1, Invisible DEF Executing, Answered
<1>2. CASE UNCHANGED vars
  BY <1>2, Invisible DEF vars, workerVars, Executing, Answered
<1> QED BY <1>1, <1>2, CallerServes, WorkerServes DEF Next

(* The client serves its callers in order, one request at a time, and       *)
(* answers each once, through any retries, timeouts and broken links.       *)
THEOREM Serves == Spec => ServesInOrder
<1>1. Init => Service!Init
  BY RequestFacts DEF Init, Service!Init, Final
<1>2. OrderInv /\ [Next]_vars => [Service!Next]_Service!vars
  BY StepServes
<1> QED BY <1>1, <1>2, Invariance, PTL DEF Spec, ServesInOrder, Service!Spec

=============================================================================
