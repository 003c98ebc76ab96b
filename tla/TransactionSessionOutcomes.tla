---------------------- MODULE TransactionSessionOutcomes ----------------------
(* Proofs of what becomes of a statement and of the server's transaction:   *)
(* how often a statement is executed, whether its answer is true, and that  *)
(* no transaction is left behind, whatever breaks, times out or is retried. *)
(* In the second half, that transactions which do not share their client    *)
(* are atomic while nothing breaks and nothing times out, for any number of *)
(* transactions and statements, whichever statements the server rejects and *)
(* with heartbeats in between.                                              *)
EXTENDS TransactionSessionProofs

-----------------------------------------------------------------------------
(* What steps do                                                            *)

(* Answers that the worker gives.                                           *)
Given == Final \ {"TransactionRolledBack"}

(* Requests of different names are different.                               *)
LEMMA RunFacts ==
  /\ \A s \in Stmt : Run(s)[1] = "stmt" /\ Run(s)[2] = s
  /\ \A s \in Stmt, u \in Stmt : Run(s) = Run(u) => s = u
  /\ \A r \in Request : r[1] = "stmt" => r = Run(r[2]) /\ r[2] \in Stmt
  /\ \A r \in Request : r[1] \in {"begin", "commit", "rollback"} => r[2] \in Txn /\ r = <<r[1], r[2]>>
  /\ \A r \in Request : r[1] \in {"begin", "commit", "rollback", "stmt"}
  /\ Beat[1] = "beat"
BY DEF Run, Request, Control, Beat

(* A step of the application sends something for the first time, refuses a  *)
(* statement or leaves the requests alone.                                  *)
LEMMA CallerKinds ==
  ASSUME OrderInv,
         \/ \E t \in Txn : OwnerStep(t)
         \/ \E s \in Stmt : CallerStep(s)
  PROVE  /\ UNCHANGED <<workerVars, linkVars, serverVars, bounds>>
         /\ \/ \E r \in Request : answer[r] = "unsent" /\ Send(r)
            \/ /\ UNCHANGED m_requests
               /\ \E s \in Stmt : /\ answer[Run(s)] = "unsent"
                                  /\ answer' = [answer EXCEPT ![Run(s)] = "TransactionRolledBack"]
            \/ UNCHANGED <<m_requests, answer>>
<1> DEFINE Sends == \E r \in Request : answer[r] = "unsent" /\ Send(r)
           Same  == UNCHANGED <<workerVars, linkVars, serverVars, bounds>>
<1> USE DEF OrderInv
<1>1. ASSUME NEW t \in Txn, CreateTransaction(t) PROVE Same /\ Sends
  <2>1. <<"begin", t>> \in Request /\ answer[<<"begin", t>>] = "unsent"
    BY <1>1, RequestFacts DEF CreateTransaction, SendsOnce
  <2> QED BY <1>1, <2>1 DEF CreateTransaction
<1>2. ASSUME NEW t \in Txn, FinishSends(t) PROVE Same /\ Sends
  <2>1. m_state[t] \in {"commit", "rollback"} /\ answer[<<m_state[t], t>>] = "unsent"
    BY <1>2 DEF FinishSends, SendsOnce, Unfinished, TypeOK
  <2>2. <<m_state[t], t>> \in Request
    BY <2>1, RequestFacts
  <2> QED BY <1>2, <2>1, <2>2 DEF FinishSends
<1>3. ASSUME NEW s \in Stmt, NEW t \in Txn, ExecuteSends(s, t) PROVE Same /\ Sends
  <2>1. Run(s) \in Request /\ answer[Run(s)] = "unsent"
    BY <1>3, RequestFacts, SessionAssumption DEF ExecuteSends, SendsOnce
  <2> QED BY <1>3, <2>1 DEF ExecuteSends
<1>4. ASSUME NEW s \in Stmt, ExecutePlain(s) PROVE Same /\ Sends
  BY <1>4, RequestFacts DEF ExecutePlain
<1>5. ASSUME NEW s \in Stmt, NEW t \in Txn, ExecuteLocks(s, t)
      PROVE  /\ Same /\ UNCHANGED m_requests
             /\ \/ /\ answer[Run(s)] = "unsent"
                   /\ answer' = [answer EXCEPT ![Run(s)] = "TransactionRolledBack"]
                \/ UNCHANGED answer
  <2>1. CASE m_state[t] = "active"
    BY <1>5, <2>1 DEF ExecuteLocks
  <2>2. CASE m_state[t] # "active"
    BY <1>5, <2>2 DEF ExecuteLocks
  <2> QED BY <2>1, <2>2
<1>6. ASSUME NEW t \in Txn, \/ BeginAnswered(t) \/ Drop(t) \/ FinishAnswered(t)
                            \/ \E state \in {"commit", "rollback"} : Finish(t, state)
      PROVE  Same /\ UNCHANGED <<m_requests, answer>>
  BY <1>6 DEF BeginAnswered, Drop, FinishAnswered, Finish
<1> HIDE DEF OrderInv
<1> QED BY <1>1, <1>2, <1>3, <1>4, <1>5, <1>6 DEF OwnerStep, CallerStep

(* An answer of the worker changes that of its request and no other.        *)
LEMMA AnswerEffect ==
  ASSUME TypeOK, NEW a \in Given, AnswerItem(a)
  PROVE  /\ item' = None /\ pc' = "idle" /\ attempts' = 1
         /\ \A r \in Request : answer'[r] = IF r = item THEN a ELSE answer[r]
<1>0. item' = None /\ pc' = "idle" /\ attempts' = 1
  BY DEF AnswerItem
<1>1. CASE item = Beat
  <2>1. answer' = answer /\ item \notin Request
    BY <1>1, RequestFacts DEF AnswerItem
  <2> QED BY <1>0, <2>1
<1>2. CASE item # Beat
  <2>1. answer' = [answer EXCEPT ![item] = a]
    BY <1>2 DEF AnswerItem
  <2> QED BY <1>0, <2>1 DEF TypeOK
<1> QED BY <1>1, <1>2

(* A bad connection is answered on the second attempt.                      *)
LEMMA RetryEffect ==
  ASSUME TypeOK, RetryOrAnswer
  PROVE  \/ /\ attempts = 1 /\ attempts' = 2 /\ pc' = "reset"
            /\ UNCHANGED <<item, answer>>
         \/ \E a \in Given : AnswerItem(a) /\ attempts = 2
<1>1. CASE attempts = 1
  BY <1>1 DEF RetryOrAnswer
<1>2. CASE attempts # 1
  <2>1. AnswerItem("BadConnection") /\ attempts = 2
    BY <1>2 DEF RetryOrAnswer, TypeOK
  <2>2. "BadConnection" \in Given
    BY DEF Given, Final, Answer
  <2> QED BY <2>1, <2>2
<1> QED BY <1>1, <1>2

(* A step of the worker, the server or the link answers the request in hand *)
(* or no request.                                                           *)
LEMMA WorkerKinds ==
  ASSUME TypeOK, WorkerStep \/ TakeBeat \/ ServerStep \/ Lose
  PROVE  /\ UNCHANGED txnVars
         /\ \/ (Take \/ TakeBeat) /\ UNCHANGED answer
            \/ UNCHANGED <<m_requests, item, answer>>
            \/ UNCHANGED m_requests /\ \E a \in Given : AnswerItem(a)
<1>1. CASE Take \/ TakeBeat
  BY <1>1 DEF Take, TakeBeat
<1>2. CASE CheckConnected \/ ResetSucceeds \/ SendAccepted
  BY <1>2 DEF CheckConnected, ResetSucceeds, SendAccepted
<1>3. CASE ServerStep \/ Lose
  BY <1>3 DEF ServerStep, ServerBegins, ServerRuns, ServerRejects, ServerEnds, ServerRefusesCommit,
     ServerPings, Replies, Lose, workerVars
<1>4. CASE ResetFails
  BY <1>4 DEF ResetFails, Given, Final, Answer
<1>5. CASE PollFails
  BY <1>5 DEF PollFails, Given, Final, Answer
<1>6. CASE Consume
  BY <1>6 DEF Consume, Given, Final, Answer
<1>7. CASE SendRefused
  BY <1>7, RetryEffect DEF SendRefused
<1>8. CASE LossSeen
  BY <1>8, RetryEffect DEF LossSeen
<1>9. CASE NoSocket
  BY <1>9 DEF NoSocket, Given, Final, Answer
<1>10. CASE ConsumeLoses
  BY <1>10 DEF ConsumeLoses, Given, Final, Answer
<1> QED BY <1>1, <1>2, <1>3, <1>4, <1>5, <1>6, <1>7, <1>8, <1>9, <1>10 DEF WorkerStep

-----------------------------------------------------------------------------
(* The queue                                                                *)

(* A request is queued once: what is sent was not, and what is taken leaves.*)
LEMMA QueuedOnceStep ==
  ASSUME OrderInv, QueuedOnce, [Next]_vars
  PROVE  QueuedOnce'
<1>0. TypeOK /\ Len(m_requests) \in Nat /\ \A i \in 1..Len(m_requests) : m_requests[i] \in Request
  BY QueueFacts DEF OrderInv, TypeOK
<1>1. ASSUME NEW r \in Request, answer[r] = "unsent", Send(r), UNCHANGED item
      PROVE  QueuedOnce'
  <2>1. /\ Len(m_requests') = Len(m_requests) + 1
        /\ \A i \in 1..Len(m_requests) : m_requests'[i] = m_requests[i]
        /\ m_requests'[Len(m_requests) + 1] = r
    BY <1>0, <1>1, QueueFacts DEF Send, TypeOK
  <2>2. \A q \in Request : answer'[q] = IF q = r THEN "queued" ELSE answer[q]
    BY <1>0, <1>1 DEF Send, TypeOK
  <2>3. r # item /\ \A i \in 1..Len(m_requests) : m_requests[i] # r
    BY <1>0, <1>1 DEF QueuedOnce
  <2>4. ASSUME NEW i \in 1..Len(m_requests')
        PROVE  i \in 1..Len(m_requests) \/ i = Len(m_requests) + 1
    BY <1>0, <2>1
  <2>5. \A i \in 1..Len(m_requests') : answer'[m_requests'[i]] = "queued" /\ m_requests'[i] # item'
    BY <1>0, <1>1, <2>1, <2>2, <2>3, <2>4 DEF QueuedOnce
  <2>6. \A i, j \in 1..Len(m_requests') : m_requests'[i] = m_requests'[j] => i = j
    BY <2>1, <2>3, <2>4 DEF QueuedOnce
  <2>7. item' \in Request => answer'[item'] = "queued"
    BY <1>1, <2>2 DEF QueuedOnce
  <2> QED BY <2>5, <2>6, <2>7 DEF QueuedOnce
<1>2. ASSUME UNCHANGED m_requests, item' \in {item, None, Beat},
             \A q \in Request : answer[q] = "queued" /\ (q = item => item' = item) => answer'[q] = "queued"
      PROVE  QueuedOnce'
  <2>1. \A i \in 1..Len(m_requests) : answer'[m_requests[i]] = "queued" /\ m_requests[i] # item'
    BY <1>0, <1>2, RequestFacts DEF QueuedOnce
  <2>2. item' \in Request => answer'[item'] = "queued"
    BY <1>2, RequestFacts DEF QueuedOnce
  <2> QED BY <1>2, <2>1, <2>2 DEF QueuedOnce
<1>3. CASE (\E t \in Txn : OwnerStep(t)) \/ (\E s \in Stmt : CallerStep(s))
  <2>1. UNCHANGED item
    BY <1>3, CallerKinds DEF workerVars
  <2>2. ASSUME NEW s \in Stmt, UNCHANGED m_requests, answer[Run(s)] = "unsent",
               answer' = [answer EXCEPT ![Run(s)] = "TransactionRolledBack"]
        PROVE  QueuedOnce'
    <3>1. \A q \in Request : answer[q] = "queued" => answer'[q] = "queued"
      BY <1>0, <2>2 DEF TypeOK
    <3> QED BY <1>2, <2>1, <2>2, <3>1
  <2>3. CASE UNCHANGED <<m_requests, answer>>
    BY <1>2, <2>1, <2>3
  <2> QED BY <1>1, <1>3, <2>1, <2>2, <2>3, CallerKinds
<1>4. CASE WorkerStep \/ TakeBeat \/ ServerStep \/ Lose
  <2>1. CASE Take
    <3>1. /\ item' = m_requests[1] /\ 1 \in 1..Len(m_requests) /\ item' \in Request
          /\ Len(m_requests') = Len(m_requests) - 1
          /\ \A i \in 1..Len(m_requests') : m_requests'[i] = m_requests[i + 1]
          /\ answer' = answer
      BY <1>0, <2>1, QueueFacts DEF Take, TypeOK
    <3>2. \A i \in 1..Len(m_requests') : i + 1 \in 1..Len(m_requests) /\ i + 1 # 1
      BY <1>0, <3>1
    <3>3. \A i \in 1..Len(m_requests') : answer'[m_requests'[i]] = "queued" /\ m_requests'[i] # item'
      BY <3>1, <3>2 DEF QueuedOnce
    <3>4. \A i, j \in 1..Len(m_requests') : m_requests'[i] = m_requests'[j] => i = j
      <4>1. ASSUME NEW i \in 1..Len(m_requests'), NEW j \in 1..Len(m_requests'),
                   m_requests'[i] = m_requests'[j]
            PROVE  i = j
        <5>1. i + 1 = j + 1
          BY <3>1, <3>2, <4>1 DEF QueuedOnce
        <5> QED BY <5>1
      <4> QED BY <4>1
    <3>5. answer'[item'] = "queued"
      BY <3>1 DEF QueuedOnce
    <3> QED BY <3>3, <3>4, <3>5 DEF QueuedOnce
  <2>2. CASE TakeBeat
    <3>1. item' = Beat /\ item = None /\ UNCHANGED <<m_requests, answer>>
      BY <2>2 DEF TakeBeat, OrderInv, WorkerHands
    <3> QED BY <1>2, <3>1, RequestFacts
  <2>3. CASE UNCHANGED <<m_requests, item, answer>>
    BY <1>2, <2>3
  <2>4. ASSUME NEW a \in Given, UNCHANGED m_requests, AnswerItem(a) PROVE QueuedOnce'
    <3>1. item' = None /\ \A r \in Request : answer'[r] = IF r = item THEN a ELSE answer[r]
      BY <1>0, <2>4, AnswerEffect
    <3> QED BY <1>2, <2>4, <3>1, RequestFacts
  <2> QED BY <1>0, <1>4, <2>1, <2>2, <2>3, <2>4, WorkerKinds
<1>5. CASE UNCHANGED vars
  BY <1>2, <1>5 DEF vars, workerVars
<1> QED BY <1>3, <1>4, <1>5 DEF Next

-----------------------------------------------------------------------------
(* The link and the attempts                                                *)

(* A broken link has been counted and carries nothing; the second attempt   *)
(* follows a reset.                                                         *)
LEMMA LinksStep ==
  ASSUME OrderInv, Links, [Next]_vars
  PROVE  Links'
<1> USE DEF Links
<1>0. TypeOK /\ InFlight
  BY DEF OrderInv
<1>1. ASSUME UNCHANGED <<workerVars, linkVars, session, losses>> PROVE Links'
  BY <1>1 DEF workerVars, linkVars
<1>2. CASE (\E t \in Txn : OwnerStep(t)) \/ (\E s \in Stmt : CallerStep(s))
  BY <1>1, <1>2, CallerKinds DEF serverVars, bounds
<1>3. ASSUME NEW a \in Given, AnswerItem(a),
             UNCHANGED <<session, losses>>, inbox' \in {inbox, None}
      PROVE  Links'
  <2>1. pc' = "idle"
    BY <1>3 DEF AnswerItem
  <2> QED BY <1>3, <2>1
<1>4. CASE Take \/ TakeBeat
  BY <1>4 DEF Take, TakeBeat, linkVars, serverVars, bounds
<1>5. CASE CheckConnected
  BY <1>5 DEF CheckConnected, linkVars, serverVars, bounds
<1>6. CASE ResetSucceeds
  BY <1>6 DEF ResetSucceeds, Reset, bounds
<1>7. CASE ResetFails
  <2>1. pc' = "idle" /\ losses' = losses + 1 /\ inbox' = None
    BY <1>7 DEF ResetFails, Reset, AnswerItem
  <2> QED BY <1>0, <2>1 DEF TypeOK
<1>8. CASE SendAccepted
  BY <1>8 DEF SendAccepted, serverVars, bounds
<1>9. CASE SendRefused \/ LossSeen
  <2>1. pc' \in {"idle", "reset"}
    BY <1>9 DEF SendRefused, LossSeen, RetryOrAnswer, AnswerItem
  <2>2. UNCHANGED <<busy, inbox, session, losses>>
    BY <1>9 DEF SendRefused, LossSeen, linkVars, serverVars, bounds
  <2> QED BY <2>1, <2>2
<1>10. CASE PollFails
  <2>1. pc' = "idle" /\ inbox' \in {inbox, None} /\ UNCHANGED <<session, losses>>
    BY <1>10 DEF PollFails, AnswerItem, serverVars
  <2> QED BY <2>1
<1>11. CASE Consume
  <2>1. pc' = "idle" /\ UNCHANGED <<inbox, session, losses>>
    BY <1>11 DEF Consume, AnswerItem, serverVars, bounds
  <2> QED BY <2>1
<1>12. CASE ServerStep
  <2>1. /\ session # "gone" /\ inbox # None /\ inbox' = None
        /\ UNCHANGED <<pc, attempts, busy, losses>>
    BY <1>12 DEF ServerStep, ServerBegins, ServerRuns, ServerRejects, ServerEnds,
       ServerRefusesCommit, ServerPings, Arrives, Replies, workerVars, bounds
  <2>2. session' \in {"idle", "open", "failed"}
    BY <1>0, <1>12, <2>1 DEF ServerStep, ServerBegins, ServerRuns, ServerRejects, ServerEnds,
       ServerRefusesCommit, ServerPings, serverVars, TypeOK
  <2> QED BY <2>1, <2>2
<1>13. CASE Lose
  BY <1>0, <1>13 DEF Lose, TypeOK, workerVars
<1>14. CASE UNCHANGED vars
  BY <1>1, <1>14 DEF vars, serverVars, bounds
<1>15. CASE NoSocket
  <2>1. pc' = "idle" /\ UNCHANGED <<inbox, session, losses>>
    BY <1>15 DEF NoSocket, AnswerItem, linkVars, serverVars, bounds
  <2> QED BY <2>1
<1>16. CASE ConsumeLoses
  <2>1. pc' = "idle" /\ inbox' = None /\ UNCHANGED <<session, losses>>
    BY <1>16 DEF ConsumeLoses, AnswerItem, serverVars, bounds
  <2> QED BY <2>1
<1> QED BY <1>2, <1>4, <1>5, <1>6, <1>7, <1>8, <1>9, <1>10, <1>11, <1>12, <1>13, <1>14, <1>15, <1>16
    DEF Next, WorkerStep

-----------------------------------------------------------------------------
(* The number of executions                                                 *)

(* What the server runs is the statement that was on its way.               *)
LEMMA RunsInbox ==
  ASSUME TypeOK, ServerRuns
  PROVE  \E s \in Stmt : /\ inbox = Run(s) /\ inbox' = None
                         /\ session # "failed" /\ s \notin Failing
                         /\ ran' = [ran EXCEPT ![s] = ran[s] + 1]
                         /\ reply' = [to |-> Run(s), ok |-> TRUE]
                         /\ UNCHANGED <<workerVars, answer, losses, session>>
<1>1. inbox \in Request \cup {Beat} /\ inbox[1] = "stmt"
  BY DEF ServerRuns, Arrives, TypeOK
<1>2. inbox \in Request
  BY <1>1, RunFacts
<1>3. inbox = Run(inbox[2]) /\ inbox[2] \in Stmt
  BY <1>1, <1>2, RunFacts
<1>4. /\ inbox' = None /\ session # "failed" /\ inbox[2] \notin Failing
      /\ ran' = [ran EXCEPT ![inbox[2]] = ran[inbox[2]] + 1]
      /\ reply' = [to |-> inbox, ok |-> TRUE]
      /\ UNCHANGED <<workerVars, answer, losses, session>>
  BY DEF ServerRuns, Replies, bounds
<1> QED BY <1>3, <1>4

(* The other steps of the server execute nothing.                           *)
LEMMA ServerKeeps ==
  ASSUME ServerBegins \/ ServerRejects \/ ServerEnds \/ ServerRefusesCommit \/ ServerPings
  PROVE  /\ inbox # None /\ inbox' = None /\ session # "gone"
         /\ UNCHANGED <<ran, workerVars, answer, losses>>
BY DEF ServerBegins, ServerRejects, ServerEnds, ServerRefusesCommit, ServerPings, Arrives, Replies,
   serverVars, bounds

(* Each attempt of a statement adds at most one execution, and a second one *)
(* is added only after the link was lost.                                   *)
LEMMA CountsStep ==
  ASSUME OrderInv, QueuedOnce, Links, Counts, [Next]_vars
  PROVE  Counts'
<1>0. /\ TypeOK /\ InFlight /\ WorkerHands
      /\ \A s \in Stmt : Run(s) \in Request /\ Run(s) # None /\ ran[s] \in Nat
  BY RequestFacts DEF OrderInv, TypeOK
<1> DEFINE Fewer(s) == ran'[s] = ran[s] /\ (inbox' = Run(s) => inbox = Run(s))
<1>a. ASSUME NEW s \in Stmt, Fewer(s)
      PROVE  Executions(s)' <= Executions(s) /\ Executions(s)' \in Nat /\ Executions(s) \in Nat
  BY <1>0, <1>a DEF Executions
<1>1. ASSUME UNCHANGED <<item, pc, attempts>>, losses' \in {losses, losses + 1},
             \A s \in Stmt : Fewer(s),
             \A s \in Stmt : answer'[Run(s)] = answer[Run(s)]
                             \/ (answer[Run(s)] = "unsent" /\ item # Run(s))
      PROVE  Counts'
  <2> SUFFICES ASSUME NEW s \in Stmt
               PROVE  /\ (Untried(s) => Executions(s) = 0)'
                      /\ (Executions(s) <= 2 /\ (Executions(s) = 2 => losses > 0))'
                      /\ (item = Run(s) /\ attempts = 1 => Executions(s) <= 1)'
                      /\ (item = Run(s) /\ attempts = 2 =>
                             /\ pc # "await" => Executions(s) <= 1
                             /\ Executions(s) > 0 /\ pc # "await" => losses > 0)'
    BY DEF Counts
  <2>1. Executions(s)' <= Executions(s) /\ Executions(s)' \in Nat /\ Executions(s) \in Nat
    BY <1>1, <1>a
  <2>2. Untried(s)' => Untried(s)
    BY <1>1 DEF Untried
  <2>3. losses \in Nat /\ losses' \in Nat /\ losses' >= losses
    BY <1>0, <1>1 DEF TypeOK
  <2>4. /\ Untried(s) => Executions(s) = 0
        /\ Executions(s) <= 2 /\ (Executions(s) = 2 => losses > 0)
        /\ item = Run(s) /\ attempts = 1 => Executions(s) <= 1
        /\ item = Run(s) /\ attempts = 2 =>
             /\ pc # "await" => Executions(s) <= 1
             /\ Executions(s) > 0 /\ pc # "await" => losses > 0
    BY DEF Counts
  <2>5. (Untried(s) => Executions(s) = 0)'
    BY <2>1, <2>2, <2>4
  <2>6. (Executions(s) <= 2 /\ (Executions(s) = 2 => losses > 0))'
    BY <2>1, <2>3, <2>4
  <2>7. (item = Run(s) /\ attempts = 1 => Executions(s) <= 1)'
    BY <1>1, <2>1, <2>4
  <2>8. (item = Run(s) /\ attempts = 2 =>
             /\ pc # "await" => Executions(s) <= 1
             /\ Executions(s) > 0 /\ pc # "await" => losses > 0)'
    BY <1>1, <2>1, <2>3, <2>4
  <2> QED BY <2>5, <2>6, <2>7, <2>8
<1>2. CASE (\E t \in Txn : OwnerStep(t)) \/ (\E s \in Stmt : CallerStep(s))
  <2>1. UNCHANGED <<item, pc, attempts, losses, ran, inbox>>
    BY <1>2, CallerKinds DEF workerVars, linkVars, serverVars, bounds
  <2>2. ASSUME NEW s \in Stmt, answer'[Run(s)] # answer[Run(s)]
        PROVE  answer[Run(s)] = "unsent" /\ item # Run(s)
    <3>1. answer[Run(s)] = "unsent"
      <4>1. ASSUME NEW r \in Request, NEW a, answer[r] = "unsent", answer' = [answer EXCEPT ![r] = a]
            PROVE  answer[Run(s)] = "unsent"
        BY <1>0, <2>2, <4>1 DEF TypeOK
      <4> QED BY <1>0, <1>2, <2>2, <4>1, CallerKinds DEF Send
    <3> QED BY <1>0, <3>1 DEF QueuedOnce
  <2>3. losses' \in {losses, losses + 1}
    BY <1>0, <2>1 DEF TypeOK
  <2> QED BY <1>1, <2>1, <2>2, <2>3
<1>3. CASE Take \/ TakeBeat
  <2>1. /\ item = None /\ pc' = "check" /\ attempts' = 1
        /\ UNCHANGED <<answer, ran, inbox, losses>>
        /\ item' \in Request => answer[item'] = "queued"
    <3>1. CASE Take
      <4>1. item' = m_requests[1] /\ 1 \in 1..Len(m_requests)
        BY <1>0, <3>1, QueueFacts DEF Take, TypeOK
      <4> QED BY <1>0, <3>1, <4>1 DEF Take, WorkerHands, QueuedOnce, linkVars, serverVars, bounds
    <3>2. CASE TakeBeat
      BY <1>0, <3>2, RequestFacts DEF TakeBeat, WorkerHands, linkVars, serverVars
    <3> QED BY <1>3, <3>1, <3>2
  <2>2. ASSUME NEW s \in Stmt
        PROVE  Executions(s)' = Executions(s) /\ (Untried(s)' => Untried(s))
    BY <1>0, <2>1 DEF Executions, Untried
  <2>3. ASSUME NEW s \in Stmt, item' = Run(s)
        PROVE  Untried(s)
    BY <1>0, <2>1, <2>3 DEF Untried
  <2>4. attempts' # 2 /\ losses' = losses
    BY <2>1
  <2> QED BY <2>2, <2>3, <2>4 DEF Counts
<1>4. CASE CheckConnected
  <2>1. /\ pc # "await" /\ pc' # "await"
        /\ UNCHANGED <<item, attempts, answer, ran, inbox, losses>>
    BY <1>4 DEF CheckConnected, linkVars, serverVars, bounds
  <2>2. ASSUME NEW s \in Stmt
        PROVE  Executions(s)' = Executions(s) /\ (Untried(s)' <=> Untried(s))
    BY <2>1 DEF Executions, Untried
  <2> QED BY <2>1, <2>2 DEF Counts
<1>5. CASE ResetSucceeds
  <2>1. /\ pc = "reset" /\ pc' = "send" /\ inbox' = None
        /\ UNCHANGED <<item, attempts, answer, ran, losses>>
    BY <1>5 DEF ResetSucceeds, Reset, bounds
  <2>2. ASSUME NEW s \in Stmt
        PROVE  /\ Executions(s)' <= Executions(s) /\ Executions(s)' \in Nat /\ Executions(s) \in Nat
               /\ Untried(s)' <=> Untried(s)
    BY <1>0, <1>a, <2>1 DEF Untried
  <2> QED BY <2>1, <2>2 DEF Counts
<1>6. ASSUME NEW a \in Given, AnswerItem(a), item # None, ran' = ran, inbox' \in {inbox, None},
             losses' \in {losses, losses + 1}
      PROVE  Counts'
  <2>1. item' = None /\ \A r \in Request : answer'[r] = IF r = item THEN a ELSE answer[r]
    BY <1>0, <1>6, AnswerEffect
  <2>2. ASSUME NEW s \in Stmt
        PROVE  /\ Executions(s)' <= Executions(s) /\ Executions(s)' \in Nat /\ Executions(s) \in Nat
               /\ Untried(s)' => Untried(s)
               /\ item' # Run(s)
    <3>1. Fewer(s)
      BY <1>0, <1>6
    <3>2. Untried(s)' => Untried(s)
      BY <1>0, <2>1 DEF Untried, Given, Final
    <3> QED BY <1>0, <1>a, <2>1, <3>1, <3>2
  <2>3. losses \in Nat /\ losses' \in Nat /\ losses' >= losses
    BY <1>0, <1>6 DEF TypeOK
  <2>4. ASSUME NEW s \in Stmt
        PROVE  /\ Untried(s)' => Executions(s)' = 0
               /\ Executions(s)' <= 2 /\ (Executions(s)' = 2 => losses' > 0)
    <3>1. /\ Untried(s) => Executions(s) = 0
          /\ Executions(s) <= 2 /\ (Executions(s) = 2 => losses > 0)
      BY DEF Counts
    <3> QED BY <2>2, <2>3, <3>1
  <2> QED BY <2>2, <2>4 DEF Counts
<1>7. CASE ResetFails
  <2>1. /\ AnswerItem("FailedToReconnect") /\ pc = "reset" /\ ran' = ran /\ inbox' = None
        /\ losses' = losses + 1
    BY <1>7 DEF ResetFails, Reset
  <2>2. item # None /\ losses' \in {losses, losses + 1} /\ "FailedToReconnect" \in Given
    BY <1>0, <2>1 DEF WorkerHands, TypeOK, Given, Final, Answer
  <2> QED BY <1>6, <2>1, <2>2
<1>8. CASE PollFails
  <2>1. /\ AnswerItem("SocketFailed") /\ pc = "await" /\ ran' = ran /\ inbox' \in {inbox, None}
        /\ losses' = losses
    BY <1>8 DEF PollFails, serverVars
  <2>2. item # None /\ losses' \in {losses, losses + 1} /\ "SocketFailed" \in Given
    BY <1>0, <2>1 DEF WorkerHands, TypeOK, Given, Final, Answer
  <2> QED BY <1>6, <2>1, <2>2
<1>9. CASE Consume
  <2>1. PICK a \in {"ok", "QueryFailed"} : AnswerItem(a)
    BY <1>9 DEF Consume
  <2>2. pc = "await" /\ ran' = ran /\ inbox' = inbox /\ losses' = losses
    BY <1>9 DEF Consume, serverVars, bounds
  <2>3. item # None /\ losses' \in {losses, losses + 1} /\ a \in Given
    BY <1>0, <2>2 DEF WorkerHands, TypeOK, Given, Final, Answer
  <2> QED BY <1>6, <2>1, <2>2, <2>3
<1>10. CASE SendRefused \/ LossSeen
  <2>1. /\ UNCHANGED <<ran, inbox, losses>> /\ RetryOrAnswer /\ pc \in {"send", "await"}
        /\ pc = "await" => session = "gone"
    BY <1>10 DEF SendRefused, LossSeen, linkVars, serverVars, bounds
  <2>2. item # None /\ losses \in Nat /\ losses' \in {losses, losses + 1}
    BY <1>0, <2>1 DEF WorkerHands, TypeOK
  <2>3. CASE /\ attempts = 1 /\ attempts' = 2 /\ pc' = "reset"
             /\ UNCHANGED <<item, answer>>
    <3>1. ASSUME NEW s \in Stmt
          PROVE  /\ Executions(s)' = Executions(s) /\ Executions(s) \in Nat
                 /\ Untried(s)' => Untried(s)
      BY <1>0, <2>1, <2>3 DEF Executions, Untried
    <3>2. ASSUME NEW s \in Stmt, item = Run(s)
          PROVE  Executions(s) <= 1 /\ (Executions(s) > 0 => losses > 0)
      <4>1. CASE pc = "send"
        BY <2>3, <3>1, <3>2, <4>1 DEF Counts, Untried
      <4>2. CASE pc = "await"
        BY <2>1, <2>3, <3>2, <4>2 DEF Counts, Links
      <4> QED BY <2>1, <4>1, <4>2
    <3> QED BY <2>1, <2>3, <3>1, <3>2 DEF Counts
  <2>4. ASSUME NEW a \in Given, AnswerItem(a) PROVE Counts'
    BY <1>6, <2>1, <2>2, <2>4
  <2> QED BY <1>0, <2>1, <2>3, <2>4, RetryEffect
<1>11. CASE SendAccepted
  <2>1. /\ pc = "send" /\ pc' = "await" /\ inbox = None /\ inbox' \in {None, item}
        /\ UNCHANGED <<item, attempts, answer, ran, losses>>
    BY <1>0, <1>11 DEF SendAccepted, InFlight, serverVars, bounds
  <2>2. ASSUME NEW s \in Stmt, item # Run(s)
        PROVE  Executions(s)' = Executions(s) /\ (Untried(s)' <=> Untried(s))
    BY <1>0, <2>1, <2>2 DEF Executions, Untried
  <2>3. ASSUME NEW s \in Stmt, item = Run(s)
        PROVE  /\ Executions(s)' <= Executions(s) + 1
               /\ Executions(s)' \in Nat /\ Executions(s) \in Nat /\ ~Untried(s)'
               /\ attempts = 1 => Untried(s)
    BY <1>0, <2>1, <2>3 DEF Executions, Untried
  <2>4. attempts \in {1, 2} /\ losses' = losses /\ pc' = "await" /\ pc # "await"
        /\ attempts' = attempts /\ item' = item
    BY <1>0, <2>1 DEF TypeOK
  <2>5. ASSUME NEW s \in Stmt, item = Run(s)
        PROVE  /\ Executions(s)' <= 2 /\ (Executions(s)' = 2 => losses > 0)
               /\ attempts = 1 => Executions(s)' <= 1
    BY <2>3, <2>4, <2>5 DEF Counts
  <2> QED BY <2>2, <2>3, <2>4, <2>5 DEF Counts
<1>12. CASE ServerRuns
  <2>1. PICK u \in Stmt : /\ inbox = Run(u) /\ inbox' = None
                          /\ ran' = [ran EXCEPT ![u] = ran[u] + 1]
                          /\ UNCHANGED <<workerVars, answer, losses>>
    BY <1>0, <1>12, RunsInbox
  <2>2. ASSUME NEW s \in Stmt
        PROVE  Executions(s)' = Executions(s) /\ (Untried(s)' <=> Untried(s))
    <3>1. CASE s = u
      BY <1>0, <2>1, <3>1 DEF Executions, Untried, workerVars, TypeOK
    <3>2. CASE s # u
      BY <1>0, <2>1, <3>2, RunFacts DEF Executions, Untried, workerVars, TypeOK
    <3> QED BY <3>1, <3>2
  <2> QED BY <2>1, <2>2 DEF Counts, workerVars
<1>13. CASE ServerBegins \/ ServerRejects \/ ServerEnds \/ ServerRefusesCommit \/ ServerPings
  <2>1. inbox' = None /\ UNCHANGED <<ran, workerVars, answer, losses>>
    BY <1>13, ServerKeeps
  <2>2. losses' \in {losses, losses + 1}
    BY <1>0, <2>1 DEF TypeOK
  <2> QED BY <1>0, <1>1, <2>1, <2>2 DEF workerVars
<1>14. CASE Lose
  <2>1. inbox' = None /\ losses' = losses + 1 /\ UNCHANGED <<ran, item, pc, attempts, answer>>
    BY <1>14 DEF Lose, workerVars
  <2>2. losses' \in {losses, losses + 1}
    BY <1>0, <2>1 DEF TypeOK
  <2> QED BY <1>0, <1>1, <2>1, <2>2
<1>15. CASE UNCHANGED vars
  <2>1. losses' \in {losses, losses + 1} /\ UNCHANGED <<ran, inbox, item, pc, attempts, answer>>
    BY <1>0, <1>15 DEF TypeOK, vars, workerVars, linkVars, serverVars, bounds
  <2> QED BY <1>1, <2>1
<1>16. CASE NoSocket
  <2>1. /\ AnswerItem("SocketFailed") /\ pc = "send" /\ ran' = ran /\ inbox' = inbox
        /\ losses' = losses
    BY <1>16 DEF NoSocket, linkVars, serverVars, bounds
  <2>2. item # None /\ losses' \in {losses, losses + 1} /\ "SocketFailed" \in Given
    BY <1>0, <2>1 DEF WorkerHands, TypeOK, Given, Final, Answer
  <2> QED BY <1>6, <2>1, <2>2
<1>17. CASE ConsumeLoses
  <2>1. /\ AnswerItem("QueryFailed") /\ pc = "await" /\ ran' = ran /\ inbox' = None
        /\ losses' = losses
    BY <1>17 DEF ConsumeLoses, serverVars, bounds
  <2>2. item # None /\ losses' \in {losses, losses + 1} /\ "QueryFailed" \in Given
    BY <1>0, <2>1 DEF WorkerHands, TypeOK, Given, Final, Answer
  <2> QED BY <1>6, <2>1, <2>2
<1> QED BY <1>2, <1>3, <1>4, <1>5, <1>7, <1>8, <1>9, <1>10, <1>11, <1>12, <1>13, <1>14, <1>15,
           <1>16, <1>17
    DEF Next, WorkerStep, ServerStep

-----------------------------------------------------------------------------
(* The truth of answers                                                     *)

(* Results and answers tell whether the server executed the statement, as   *)
(* far as they can: one that was executed is rejected, or read as rejected, *)
(* only after a loss.                                                       *)
LEMMA ToldStep ==
  ASSUME OrderInv, QueuedOnce, Links, Counts, Told, [Next]_vars
  PROVE  Told'
<1>0. /\ TypeOK /\ InFlight /\ WorkerHands /\ NoStaleResult
      /\ \A s \in Stmt : Run(s) \in Request /\ Run(s) # None /\ ran[s] \in Nat
  BY RequestFacts DEF OrderInv, TypeOK
<1>1. ASSUME UNCHANGED ran, inbox' \in {inbox, None}, reply' \in {reply, None},
             losses > 0 => losses' > 0,
             session' = session \/ inbox' = None,
             \A s \in Stmt : answer'[Run(s)] \in {"ok", "QueryFailed"} => answer'[Run(s)] = answer[Run(s)]
      PROVE  Told'
  <2>1. ASSUME NEW s \in Stmt
        PROVE  /\ s \in Failing => ran'[s] = 0
               /\ inbox' = Run(s) /\ ran'[s] > 0 => session' = "idle"
               /\ reply' # None /\ reply'.to = Run(s) =>
                    /\ ran'[s] = 0 => ~reply'.ok
                    /\ ran'[s] > 0 => reply'.ok \/ losses' > 0
    BY <1>0, <1>1 DEF Told
  <2>2. ASSUME NEW s \in Stmt
        PROVE  /\ answer'[Run(s)] = "ok" => ran'[s] > 0
               /\ answer'[Run(s)] = "QueryFailed" =>
                    inbox' # Run(s) /\ (ran'[s] > 0 => losses' > 0)
    BY <1>0, <1>1 DEF Told
  <2> QED BY <2>1, <2>2 DEF Told
<1>2. CASE (\E t \in Txn : OwnerStep(t)) \/ (\E s \in Stmt : CallerStep(s))
  <2>1. UNCHANGED <<ran, inbox, reply, session, losses>>
    BY <1>2, CallerKinds DEF linkVars, serverVars, bounds
  <2>2. ASSUME NEW s \in Stmt, answer'[Run(s)] \in {"ok", "QueryFailed"}
        PROVE  answer'[Run(s)] = answer[Run(s)]
    <3>1. ASSUME NEW r \in Request, NEW a \in {"queued", "TransactionRolledBack"},
                 answer' = [answer EXCEPT ![r] = a]
          PROVE  answer'[Run(s)] = answer[Run(s)]
      BY <1>0, <2>2, <3>1 DEF TypeOK
    <3> QED BY <1>0, <1>2, <2>2, <3>1, CallerKinds DEF Send
  <2> QED BY <1>1, <2>1, <2>2
<1>3. CASE Take \/ TakeBeat \/ CheckConnected
  BY <1>1, <1>3 DEF Take, TakeBeat, CheckConnected, linkVars, serverVars, bounds
<1>4. CASE ResetSucceeds
  BY <1>1, <1>4 DEF ResetSucceeds, Reset, bounds
<1>5. ASSUME NEW a \in Given \ {"ok", "QueryFailed"}, AnswerItem(a)
      PROVE  \A s \in Stmt : answer'[Run(s)] \in {"ok", "QueryFailed"} => answer'[Run(s)] = answer[Run(s)]
  BY <1>0, <1>5, AnswerEffect
<1>6. CASE ResetFails
  <2>1. "FailedToReconnect" \in Given \ {"ok", "QueryFailed"}
    BY DEF Given, Final, Answer
  <2>2. losses > 0 => losses' > 0
    BY <1>0, <1>6 DEF ResetFails, TypeOK
  <2> QED BY <1>1, <1>5, <1>6, <2>1, <2>2 DEF ResetFails, Reset
<1>7. CASE PollFails
  <2>1. "SocketFailed" \in Given \ {"ok", "QueryFailed"}
    BY DEF Given, Final, Answer
  <2> QED BY <1>1, <1>5, <1>7, <2>1 DEF PollFails, serverVars
<1>8. CASE SendRefused \/ LossSeen
  <2>1. RetryOrAnswer /\ UNCHANGED <<ran, inbox, reply, session, losses>>
    BY <1>8 DEF SendRefused, LossSeen, linkVars, serverVars, bounds
  <2>2. CASE UNCHANGED answer
    BY <1>1, <2>1, <2>2
  <2>3. CASE AnswerItem("BadConnection")
    <3>1. "BadConnection" \in Given \ {"ok", "QueryFailed"}
      BY DEF Given, Final, Answer
    <3> QED BY <1>1, <1>5, <2>1, <2>3, <3>1
  <2> QED BY <2>1, <2>2, <2>3 DEF RetryOrAnswer
<1>9. CASE Consume
  <2>1. /\ pc = "await" /\ reply # None /\ reply' = None
        /\ AnswerItem(IF reply.ok THEN "ok" ELSE "QueryFailed")
        /\ UNCHANGED <<ran, inbox, session, losses>>
    BY <1>9 DEF Consume, serverVars, bounds
  <2>2. inbox = None /\ reply.to = item
    BY <1>0, <2>1 DEF InFlight, NoStaleResult
  <2>3. PICK a \in {"ok", "QueryFailed"} : AnswerItem(a) /\ (a = "ok" <=> reply.ok)
    BY <2>1
  <2>4. a \in Given
    BY DEF Given, Final, Answer
  <2>5. \A s \in Stmt : answer'[Run(s)] = IF Run(s) = item THEN a ELSE answer[Run(s)]
    BY <1>0, <2>3, <2>4, AnswerEffect
  <2>6. ASSUME NEW s \in Stmt
        PROVE  /\ answer'[Run(s)] = "ok" => ran[s] > 0
               /\ answer'[Run(s)] = "QueryFailed" /\ ran[s] > 0 => losses > 0
    <3>1. CASE Run(s) = item
      <4>1. /\ ran[s] = 0 => ~reply.ok
            /\ ran[s] > 0 => reply.ok \/ losses > 0
        BY <2>1, <2>2, <3>1 DEF Told
      <4> QED BY <1>0, <2>3, <2>5, <3>1, <4>1
    <3>2. CASE Run(s) # item
      BY <2>5, <3>2 DEF Told
    <3> QED BY <3>1, <3>2
  <2>7. \A s \in Stmt : (s \in Failing => ran[s] = 0) /\ inbox' # Run(s)
    BY <1>0, <2>1, <2>2 DEF Told
  <2> QED BY <2>1, <2>6, <2>7 DEF Told
<1>10. CASE SendAccepted
  <2>1. /\ pc = "send" /\ inbox = None /\ inbox' = (IF session = "gone" THEN None ELSE item)
        /\ UNCHANGED <<answer, reply, ran, session, losses>>
    BY <1>0, <1>10 DEF SendAccepted, InFlight, serverVars, bounds
  <2>2. ASSUME NEW s \in Stmt, inbox' = Run(s)
        PROVE  answer[Run(s)] = "queued" /\ (ran[s] > 0 => session = "idle")
    <3>1. item = Run(s) /\ session # "gone"
      BY <1>0, <2>1, <2>2
    <3>2. CASE attempts = 1
      <4>1. Executions(s) = 0
        BY <2>1, <3>1, <3>2 DEF Counts, Untried
      <4>2. ran[s] = 0
        BY <1>0, <2>1, <4>1 DEF Executions
      <4> QED BY <1>0, <3>1, <4>2 DEF QueuedOnce
    <3>3. CASE attempts = 2
      BY <1>0, <2>1, <3>1, <3>3 DEF Links, QueuedOnce
    <3> QED BY <1>0, <3>2, <3>3 DEF TypeOK
  <2>3. ASSUME NEW s \in Stmt
        PROVE  /\ s \in Failing => ran[s] = 0
               /\ reply # None /\ reply.to = Run(s) =>
                    /\ ran[s] = 0 => ~reply.ok
                    /\ ran[s] > 0 => reply.ok \/ losses > 0
               /\ answer[Run(s)] = "ok" => ran[s] > 0
               /\ answer[Run(s)] = "QueryFailed" /\ ran[s] > 0 => losses > 0
    BY DEF Told
  <2> QED BY <2>1, <2>2, <2>3 DEF Told
<1>11. CASE ServerRuns
  <2>1. PICK u \in Stmt : /\ inbox = Run(u) /\ inbox' = None /\ u \notin Failing
                          /\ ran' = [ran EXCEPT ![u] = ran[u] + 1]
                          /\ reply' = [to |-> Run(u), ok |-> TRUE]
                          /\ UNCHANGED <<answer, losses>>
    BY <1>0, <1>11, RunsInbox
  <2>2. ASSUME NEW s \in Stmt
        PROVE  ran'[s] = IF s = u THEN ran[s] + 1 ELSE ran[s]
    BY <1>0, <2>1 DEF TypeOK
  <2>3. ASSUME NEW s \in Stmt
        PROVE  /\ s \in Failing => ran'[s] = 0
               /\ inbox' # Run(s)
               /\ reply'.to = Run(s) => reply'.ok /\ ran'[s] > 0
    BY <1>0, <2>1, <2>2, RunFacts DEF Told
  <2>4. ASSUME NEW s \in Stmt
        PROVE  /\ answer'[Run(s)] = "ok" => ran'[s] > 0
               /\ answer'[Run(s)] = "QueryFailed" /\ ran'[s] > 0 => losses' > 0
    <3>1. s = u => answer[Run(s)] # "QueryFailed"
      BY <2>1 DEF Told
    <3> QED BY <1>0, <2>1, <2>2, <3>1 DEF Told
  <2> QED BY <2>3, <2>4 DEF Told
<1>12. CASE ServerRejects
  <2>1. /\ inbox # None /\ inbox' = None /\ UNCHANGED <<ran, answer, losses>>
        /\ reply' = [to |-> inbox, ok |-> FALSE]
    BY <1>12 DEF ServerRejects, Arrives, Replies, bounds
  <2>2. ASSUME NEW s \in Stmt, inbox = Run(s), ran[s] > 0 PROVE losses > 0
    <3>1. Executions(s) = ran[s] + 1 /\ Executions(s) <= 2 /\ (Executions(s) = 2 => losses > 0)
      BY <2>2 DEF Executions, Counts
    <3> QED BY <1>0, <2>2, <3>1
  <2>3. ASSUME NEW s \in Stmt
        PROVE  /\ s \in Failing => ran[s] = 0
               /\ answer[Run(s)] = "ok" => ran[s] > 0
               /\ answer[Run(s)] = "QueryFailed" /\ ran[s] > 0 => losses > 0
    BY DEF Told
  <2>4. ASSUME NEW s \in Stmt, reply'.to = Run(s)
        PROVE  ~reply'.ok /\ (ran[s] > 0 => losses > 0)
    BY <2>1, <2>2, <2>4
  <2> QED BY <1>0, <2>1, <2>3, <2>4 DEF Told
<1>13. CASE ServerBegins \/ ServerEnds \/ ServerRefusesCommit \/ ServerPings
  <2>1. /\ inbox[1] \in {"begin", "commit", "rollback", "beat"} /\ inbox' = None
        /\ reply'.to = inbox /\ UNCHANGED <<ran, answer, losses>>
    BY <1>13 DEF ServerBegins, ServerEnds, ServerRefusesCommit, ServerPings, Arrives, Replies,
       serverVars, bounds
  <2>2. \A s \in Stmt : reply'.to # Run(s) /\ inbox' # Run(s)
    BY <1>0, <2>1, RunFacts
  <2> QED BY <2>1, <2>2 DEF Told
<1>14. CASE Lose
  <2>1. losses > 0 => losses' > 0
    BY <1>0, <1>14 DEF Lose, TypeOK
  <2> QED BY <1>1, <1>14, <2>1 DEF Lose
<1>15. CASE UNCHANGED vars
  BY <1>1, <1>15 DEF vars, linkVars, serverVars, bounds
<1>16. CASE NoSocket
  <2>1. "SocketFailed" \in Given \ {"ok", "QueryFailed"}
    BY DEF Given, Final, Answer
  <2> QED BY <1>1, <1>5, <1>16, <2>1 DEF NoSocket, linkVars, serverVars, bounds
<1>17. CASE ConsumeLoses
  <2>1. /\ session = "gone" /\ inbox' = None /\ reply' = None /\ UNCHANGED <<ran, session, losses>>
        /\ AnswerItem("QueryFailed")
    BY <1>17 DEF ConsumeLoses, serverVars, bounds
  <2>2. losses > 0 /\ "QueryFailed" \in Given
    BY <2>1 DEF Links, Given, Final, Answer
  <2>3. \A s \in Stmt : answer'[Run(s)] \in {answer[Run(s)], "QueryFailed"}
    BY <1>0, <2>1, <2>2, AnswerEffect
  <2> QED BY <1>0, <2>1, <2>2, <2>3 DEF Told
<1> QED BY <1>2, <1>3, <1>4, <1>6, <1>7, <1>8, <1>9, <1>10, <1>11, <1>12, <1>13, <1>14, <1>15,
           <1>16, <1>17
    DEF Next, WorkerStep, ServerStep

-----------------------------------------------------------------------------
(* The server's open transaction                                            *)

Ends(t) == {<<"commit", t>>, <<"rollback", t>>}

(* A transaction that is used stays so until its COMMIT or ROLLBACK is      *)
(* answered; until its BEGIN is answered it sends neither.                  *)
LEMMA CallerOwns ==
  ASSUME OrderInv, OpenOwned,
         \/ \E t \in Txn : OwnerStep(t)
         \/ \E s \in Stmt : CallerStep(s)
  PROVE  \A t \in Txn : /\ EndsAhead(t) => EndsAhead(t)'
                        /\ (answer[<<"begin", t>>] = "queued" => call[t] = "beginning")'
                        /\ (call[t] \in {"none", "beginning"} => Unfinished(t))'
<1> TAKE t \in Txn
<1>0. /\ TypeOK /\ call[t] \in CallState
      /\ <<"begin", t>> \in Request /\ <<"commit", t>> \in Request /\ <<"rollback", t>> \in Request
      /\ \A s \in Stmt : Run(s) \in Request /\ Run(s) # <<"begin", t>>
                         /\ Run(s) # <<"commit", t>> /\ Run(s) # <<"rollback", t>>
  BY RequestFacts DEF OrderInv, TypeOK
<1>1. ASSUME NEW r \in Request, Send(r), r \notin Ends(t) \cup {<<"begin", t>>}, call'[t] = call[t]
      PROVE  /\ EndsAhead(t) => EndsAhead(t)'
             /\ (answer[<<"begin", t>>] = "queued" => call[t] = "beginning")'
             /\ (call[t] \in {"none", "beginning"} => Unfinished(t))'
  <2>1. \A q \in Ends(t) \cup {<<"begin", t>>} : answer'[q] = answer[q]
    BY <1>0, <1>1 DEF Send, TypeOK, Ends
  <2> QED BY <1>1, <2>1 DEF EndsAhead, Using, OpenOwned, Unfinished, Ends
<1>2. ASSUME NEW s \in Stmt, \/ \E u \in Txn : ExecuteSends(s, u)
                             \/ ExecutePlain(s)
      PROVE  Send(Run(s)) /\ call' = call
  BY <1>2 DEF ExecuteSends, ExecutePlain, txnVars
<1>3. ASSUME NEW u \in Txn, CreateTransaction(u), u # t
      PROVE  Send(<<"begin", u>>) /\ call'[t] = call[t]
  BY <1>0, <1>3 DEF CreateTransaction, TypeOK
<1>4. CASE CreateTransaction(t)
  <2>1. /\ call[t] = "none" /\ call'[t] = "beginning"
        /\ \A q \in Ends(t) : answer'[q] = answer[q]
    BY <1>0, <1>4 DEF CreateTransaction, Send, TypeOK, Ends
  <2> QED BY <2>1 DEF EndsAhead, Using, OpenOwned, Unfinished, Ends
<1>5. ASSUME NEW u \in Txn, FinishSends(u), u # t
      PROVE  Send(<<m_state[u], u>>) /\ <<m_state[u], u>> \in Request /\ call'[t] = call[t]
  <2>1. m_state[u] \in {"commit", "rollback"}
    BY <1>0, <1>5 DEF FinishSends, OrderInv, SendsOnce, TypeOK
  <2>2. <<m_state[u], u>> \in Request
    BY <2>1, RequestFacts
  <2> QED BY <1>0, <1>5, <2>2 DEF FinishSends, TypeOK
<1>6. CASE FinishSends(t)
  <2>1. m_state[t] \in {"commit", "rollback"} /\ Unfinished(t)
    BY <1>0, <1>6 DEF FinishSends, OrderInv, SendsOnce, TypeOK
  <2>2. <<m_state[t], t>> \in Ends(t)
    BY <2>1 DEF Ends
  <2>3. call[t] = "finishing" /\ call'[t] = "waiting" /\ answer'[<<"begin", t>>] = answer[<<"begin", t>>]
    BY <1>0, <1>6, <2>1 DEF FinishSends, Send, TypeOK
  <2>4. \A q \in Ends(t) : answer'[q] \in {answer[q], "queued"}
    BY <1>0, <1>6, <2>2 DEF FinishSends, Send, TypeOK, Ends
  <2>5. \A q \in Ends(t) : answer[q] \notin Final => answer'[q] \notin Final
    BY <2>4 DEF Final
  <2> QED BY <2>3, <2>5 DEF EndsAhead, Using, OpenOwned, Ends
<1>7. ASSUME NEW s \in Stmt, NEW u \in Txn, ExecuteLocks(s, u)
      PROVE  call' = call /\ \A q \in Ends(t) \cup {<<"begin", t>>} : answer'[q] = answer[q]
  <2>1. CASE m_state[u] = "active"
    BY <1>7, <2>1 DEF ExecuteLocks
  <2>2. CASE m_state[u] # "active"
    BY <1>0, <1>7, <2>2 DEF ExecuteLocks, TypeOK, Ends
  <2> QED BY <2>1, <2>2
<1>8. ASSUME call' = call, \A q \in Ends(t) \cup {<<"begin", t>>} : answer'[q] = answer[q]
      PROVE  /\ EndsAhead(t) => EndsAhead(t)'
             /\ (answer[<<"begin", t>>] = "queued" => call[t] = "beginning")'
             /\ (call[t] \in {"none", "beginning"} => Unfinished(t))'
  BY <1>8 DEF EndsAhead, Using, OpenOwned, Unfinished, Ends
<1>9. ASSUME NEW u \in Txn,
             \/ BeginAnswered(u) \/ Drop(u) \/ FinishAnswered(u)
             \/ \E state \in {"commit", "rollback"} : Finish(u, state)
      PROVE  /\ EndsAhead(t) => EndsAhead(t)'
             /\ (answer[<<"begin", t>>] = "queued" => call[t] = "beginning")'
             /\ (call[t] \in {"none", "beginning"} => Unfinished(t))'
  <2>1. answer' = answer
    BY <1>9 DEF BeginAnswered, Drop, FinishAnswered, Finish
  <2>2. CASE call'[t] = call[t]
    BY <2>1, <2>2 DEF EndsAhead, Using, OpenOwned, Unfinished
  <2>3. CASE BeginAnswered(t)
    <3>1. call'[t] = "open" /\ answer[<<"begin", t>>] # "queued"
      BY <1>0, <2>3 DEF BeginAnswered, TypeOK, Final
    <3> QED BY <2>1, <3>1 DEF EndsAhead, Using
  <2>4. CASE FinishAnswered(t)
    <3>1. call[t] = "waiting" /\ call'[t] = "done" /\ answer[<<m_state[t], t>>] \in Final
      BY <1>0, <2>4 DEF FinishAnswered, TypeOK
    <3>2. m_state[t] \in {"commit", "rollback"}
      BY <1>0, <3>1 DEF OrderInv, LockedActive, TypeOK
    <3> QED BY <2>1, <3>1, <3>2 DEF EndsAhead, OpenOwned
  <2>5. ASSUME NEW state \in {"commit", "rollback"}, Finish(t, state)
        PROVE  call[t] = "open" /\ call'[t] = "finishing"
    BY <1>0, <2>5 DEF Finish, TypeOK
  <2>6. CASE call[t] = "open" /\ call'[t] = "finishing"
    BY <2>1, <2>6 DEF EndsAhead, Using, OpenOwned
  <2>7. CASE u # t
    <3>1. call'[t] = call[t]
      BY <1>0, <1>9, <2>7 DEF BeginAnswered, Drop, FinishAnswered, Finish, TypeOK
    <3> QED BY <2>2, <3>1
  <2>8. CASE Drop(t)
    BY <2>2, <2>8 DEF Drop
  <2> QED BY <1>9, <2>3, <2>4, <2>5, <2>6, <2>7, <2>8
<1>10. ASSUME NEW u \in Txn, OwnerStep(u)
       PROVE  /\ EndsAhead(t) => EndsAhead(t)'
              /\ (answer[<<"begin", t>>] = "queued" => call[t] = "beginning")'
              /\ (call[t] \in {"none", "beginning"} => Unfinished(t))'
  <2>1. CASE CreateTransaction(u) /\ u # t
    <3>1. <<"begin", u>> \in Request /\ <<"begin", u>> \notin Ends(t) \cup {<<"begin", t>>}
      BY <2>1, RequestFacts DEF Ends
    <3> QED BY <1>1, <1>3, <2>1, <3>1
  <2>2. CASE FinishSends(u) /\ u # t
    <3>1. <<m_state[u], u>> \notin Ends(t) \cup {<<"begin", t>>}
      BY <2>2 DEF Ends
    <3> QED BY <1>1, <1>5, <2>2, <3>1
  <2> QED BY <1>4, <1>6, <1>9, <1>10, <2>1, <2>2 DEF OwnerStep
<1>11. ASSUME NEW s \in Stmt, CallerStep(s)
       PROVE  /\ EndsAhead(t) => EndsAhead(t)'
              /\ (answer[<<"begin", t>>] = "queued" => call[t] = "beginning")'
              /\ (call[t] \in {"none", "beginning"} => Unfinished(t))'
  <2>1. Run(s) \notin Ends(t) \cup {<<"begin", t>>}
    BY <1>0 DEF Ends
  <2> QED BY <1>0, <1>1, <1>2, <1>7, <1>8, <1>11, <2>1 DEF CallerStep
<1> QED BY <1>10, <1>11

(* The server's open transaction belongs to one that is still to end it,    *)
(* unless the connection waits for a result and will be reset.              *)
LEMMA OwnedStep ==
  ASSUME OrderInv, QueuedOnce, Links, OpenOwned, [Next]_vars
  PROVE  OpenOwned'
<1>0. TypeOK /\ InFlight /\ WorkerHands /\ NoStaleResult
  BY DEF OrderInv
<1> DEFINE Owned == session \in {"open", "failed"} =>
                      (busy /\ pc # "await") \/ \E t \in Txn : EndsAhead(t)
           Over  == reply # None /\ reply.to[1] \in {"commit", "rollback"} => session \in {"idle", "gone"}
           First == \A t \in Txn : /\ answer[<<"begin", t>>] = "queued" => call[t] = "beginning"
                                   /\ call[t] \in {"none", "beginning"} => Unfinished(t)
<1>1. Owned /\ Over /\ First
  BY DEF OpenOwned
<1>2. CASE (\E t \in Txn : OwnerStep(t)) \/ (\E s \in Stmt : CallerStep(s))
  <2>1. UNCHANGED <<session, busy, pc, reply>>
    BY <1>2, CallerKinds DEF workerVars, linkVars, serverVars
  <2>2. Owned' /\ First'
    BY <1>1, <1>2, <2>1, CallerOwns
  <2>3. Over'
    BY <1>1, <2>1
  <2> QED BY <2>2, <2>3 DEF OpenOwned
<1>3. ASSUME WorkerStep \/ TakeBeat \/ ServerStep \/ Lose
      PROVE  First'
  <2>1. call' = call
    BY <1>0, <1>3, WorkerKinds DEF txnVars
  <2>2. ASSUME NEW r \in Request
        PROVE  /\ answer'[r] = "queued" => answer[r] = "queued"
               /\ answer[r] = "unsent" => answer'[r] = "unsent"
    <3>1. CASE UNCHANGED answer
      BY <3>1
    <3>2. ASSUME NEW a \in Given, AnswerItem(a)
          PROVE  /\ answer'[r] = "queued" => answer[r] = "queued"
                 /\ answer[r] = "unsent" => answer'[r] = "unsent"
      <4>1. answer'[r] = IF r = item THEN a ELSE answer[r]
        BY <1>0, <3>2, AnswerEffect
      <4> QED BY <4>1 DEF Given, Final, QueuedOnce
    <3> QED BY <1>0, <1>3, <3>1, <3>2, WorkerKinds
  <2> QED BY <1>1, <2>1, <2>2, RequestFacts DEF Unfinished
<1>4. ASSUME UNCHANGED <<call, answer>>
      PROVE  \A t \in Txn : EndsAhead(t)' <=> EndsAhead(t)
  BY <1>4 DEF EndsAhead, Using
<1>5. CASE Take \/ TakeBeat \/ CheckConnected
  <2>1. pc # "await" /\ pc' # "await" /\ UNCHANGED <<session, busy, reply, call, answer>>
    BY <1>5 DEF Take, TakeBeat, CheckConnected, txnVars, linkVars, serverVars
  <2>2. Owned' /\ Over'
    BY <1>1, <1>4, <2>1
  <2> QED BY <1>3, <1>5, <2>2 DEF OpenOwned, WorkerStep
<1>6. CASE ResetSucceeds \/ ResetFails
  <2>1. session' \in {"idle", "gone"}
    BY <1>6 DEF ResetSucceeds, ResetFails
  <2> QED BY <1>3, <1>6, <2>1 DEF OpenOwned, WorkerStep
<1>7. CASE SendRefused \/ LossSeen
  <2>1. /\ UNCHANGED <<session, busy, reply>> /\ pc' # "await"
        /\ busy \/ session = "gone"
    BY <1>7 DEF SendRefused, LossSeen, RetryOrAnswer, AnswerItem, linkVars, serverVars
  <2>2. Owned' /\ Over'
    BY <1>0, <1>1, <2>1 DEF TypeOK
  <2> QED BY <1>3, <1>7, <2>2 DEF OpenOwned, WorkerStep
<1>8. CASE SendAccepted
  <2>1. ~busy /\ UNCHANGED <<session, reply, call, answer>>
    BY <1>8 DEF SendAccepted, txnVars, serverVars
  <2>2. Owned' /\ Over'
    BY <1>1, <1>4, <2>1
  <2> QED BY <1>3, <1>8, <2>2 DEF OpenOwned, WorkerStep
<1>9. CASE PollFails
  <2>1. pc = "await" /\ pc' = "idle" /\ UNCHANGED <<session, busy, reply>>
    BY <1>9 DEF PollFails, AnswerItem, serverVars
  <2>2. busy'
    BY <2>1 DEF Links
  <2>3. Owned' /\ Over'
    BY <1>1, <2>1, <2>2
  <2> QED BY <1>3, <1>9, <2>3 DEF OpenOwned, WorkerStep
<1>10. CASE Consume
  <2>1. /\ pc = "await" /\ reply # None /\ reply' = None /\ UNCHANGED <<session, call>>
        /\ \E a \in {"ok", "QueryFailed"} : AnswerItem(a)
    BY <1>10 DEF Consume, serverVars, txnVars
  <2>2. reply.to = item
    BY <1>0, <2>1 DEF NoStaleResult
  <2>3. ASSUME session \in {"open", "failed"} PROVE \E t \in Txn : EndsAhead(t)'
    <3>1. PICK t \in Txn : EndsAhead(t)
      BY <1>1, <2>1, <2>3
    <3>2. item # <<"commit", t>> /\ item # <<"rollback", t>>
      BY <1>1, <2>1, <2>2, <2>3
    <3>3. PICK a \in {"ok", "QueryFailed"} : AnswerItem(a)
      BY <2>1
    <3>4. a \in Given /\ <<"commit", t>> \in Request /\ <<"rollback", t>> \in Request
      BY RequestFacts DEF Given, Final, Answer
    <3>5. answer'[<<"commit", t>>] = answer[<<"commit", t>>]
          /\ answer'[<<"rollback", t>>] = answer[<<"rollback", t>>]
      BY <1>0, <3>2, <3>3, <3>4, AnswerEffect
    <3> QED BY <2>1, <3>1, <3>5 DEF EndsAhead, Using
  <2>4. Owned' /\ Over'
    BY <2>1, <2>3
  <2> QED BY <1>3, <1>10, <2>4 DEF OpenOwned, WorkerStep
<1>14. CASE NoSocket \/ ConsumeLoses
  <2>1. session = "gone" /\ session' = session
    BY <1>14 DEF NoSocket, ConsumeLoses, serverVars
  <2> QED BY <1>3, <1>14, <2>1 DEF OpenOwned, WorkerStep
<1>11. CASE ServerStep
  <2>1. /\ inbox # None /\ reply'.to = inbox
        /\ UNCHANGED <<call, answer, busy, pc>>
    BY <1>11 DEF ServerStep, ServerBegins, ServerRuns, ServerRejects, ServerEnds,
       ServerRefusesCommit, ServerPings, Arrives, Replies, txnVars, workerVars
  <2>2. busy
    BY <1>0, <2>1 DEF InFlight
  <2>3. CASE ServerBegins
    <3>1. inbox[1] = "begin"
      BY <2>3 DEF ServerBegins, Arrives
    <3>2. Over'
      BY <2>1, <3>1
    <3>3. ASSUME pc = "await" PROVE \E t \in Txn : EndsAhead(t)
      <4>1. item = inbox /\ item \in Request
        BY <1>0, <2>1, <3>1, <3>3, RunFacts DEF NoStaleResult, TypeOK
      <4>2. PICK t \in Txn : item = <<"begin", t>>
        BY <3>1, <4>1, RunFacts
      <4>3. answer[<<"begin", t>>] = "queued"
        BY <4>1, <4>2 DEF QueuedOnce
      <4>4. call[t] = "beginning" /\ Unfinished(t)
        BY <1>1, <4>3
      <4> QED BY <4>4 DEF EndsAhead, Using, Unfinished, Final
    <3>4. Owned'
      BY <1>4, <2>1, <2>2, <3>3
    <3> QED BY <1>3, <1>11, <3>2, <3>4 DEF OpenOwned
  <2>4. CASE ServerEnds \/ ServerRefusesCommit
    <3>1. session' = "idle"
      BY <2>4 DEF ServerEnds, ServerRefusesCommit
    <3> QED BY <1>3, <1>11, <3>1 DEF OpenOwned
  <2>5. CASE ServerRuns \/ ServerRejects \/ ServerPings
    <3>1. inbox[1] \in {"stmt", "beat"}
      BY <2>5 DEF ServerRuns, ServerRejects, ServerPings, Arrives
    <3>2. session' \in {"open", "failed"} => session \in {"open", "failed"}
      BY <2>5 DEF ServerRuns, ServerRejects, ServerPings, serverVars
    <3>3. Owned' /\ Over'
      BY <1>1, <1>4, <2>1, <3>1, <3>2
    <3> QED BY <1>3, <1>11, <3>3 DEF OpenOwned
  <2> QED BY <1>11, <2>3, <2>4, <2>5 DEF ServerStep
<1>12. CASE Lose
  <2>1. session' = "gone"
    BY <1>12 DEF Lose
  <2> QED BY <1>3, <1>12, <2>1 DEF OpenOwned
<1>13. CASE UNCHANGED vars
  <2>1. UNCHANGED <<session, busy, pc, reply, call, answer>>
    BY <1>13 DEF vars, txnVars, workerVars, linkVars, serverVars
  <2>2. Owned' /\ Over'
    BY <1>1, <1>4, <2>1
  <2>3. First'
    BY <1>1, <2>1 DEF Unfinished
  <2> QED BY <2>2, <2>3 DEF OpenOwned
<1> QED BY <1>2, <1>5, <1>6, <1>7, <1>8, <1>9, <1>10, <1>11, <1>12, <1>13, <1>14
    DEF Next, WorkerStep

-----------------------------------------------------------------------------
(* The theorems                                                             *)

(* Nothing was sent yet.                                                    *)
LEMMA InitOutcome == Init => OutcomeInv
<1> SUFFICES ASSUME Init PROVE OutcomeInv
  OBVIOUS
<1>0. /\ \A s \in Stmt : Run(s) \in Request /\ Run(s) # None
      /\ \A t \in Txn : <<"begin", t>> \in Request /\ <<"commit", t>> \in Request
                        /\ <<"rollback", t>> \in Request
  BY RequestFacts
<1>1. QueuedOnce
  BY <1>0, RequestFacts, EmptySeq DEF Init, QueuedOnce
<1>2. Links
  BY DEF Init, Links
<1>3. \A s \in Stmt : Executions(s) = 0
  BY <1>0 DEF Init, Executions
<1>4. Counts
  BY <1>3 DEF Counts
<1>5. Told
  BY <1>0 DEF Init, Told
<1>6. OpenOwned
  BY <1>0 DEF Init, OpenOwned, Unfinished
<1> QED BY <1>1, <1>2, <1>4, <1>5, <1>6 DEF OutcomeInv

(* The whole invariant: of the order of requests and of what becomes of     *)
(* them.                                                                    *)
THEOREM OutcomeInvariance == Spec => []IInv
<1>1. Init => OutcomeInv
  BY InitOutcome
<1>2. OrderInv /\ OutcomeInv /\ [Next]_vars => OutcomeInv'
  BY QueuedOnceStep, LinksStep, CountsStep, ToldStep, OwnedStep DEF OutcomeInv
<1>3. Spec => []OutcomeInv
  BY <1>1, <1>2, Invariance, PTL DEF Spec
<1>4. OrderInv /\ OutcomeInv => IInv
  BY DEF IInv
<1> QED BY <1>3, <1>4, Invariance, PTL

(* execute() never reports a statement done that the server did not execute,*)
(* never refuses one that it did, and reports one rejected that was         *)
(* executed only if a link broke, over all retries of ExecuteWithRetry.     *)
THEOREM AnswersTrueCorrect == Spec => []AnswersTrue
<1>1. IInv => AnswersTrue
  <2> SUFFICES ASSUME IInv, NEW s \in Stmt
               PROVE  /\ answer[Run(s)] = "ok" => ran[s] > 0
                      /\ answer[Run(s)] = "TransactionRolledBack" => ran[s] = 0
                      /\ answer[Run(s)] = "QueryFailed" /\ ran[s] > 0 => losses > 0
    BY DEF AnswersTrue
  <2>1. Run(s) \in Request /\ Run(s) # None /\ ran[s] \in Nat
    BY RequestFacts DEF IInv, OrderInv, TypeOK
  <2>2. answer[Run(s)] = "TransactionRolledBack" => Untried(s)
    BY <2>1 DEF IInv, OutcomeInv, QueuedOnce, Untried
  <2>3. Untried(s) => Executions(s) = 0
    BY DEF IInv, OutcomeInv, Counts
  <2>4. Executions(s) = 0 => ran[s] = 0
    BY <2>1 DEF Executions
  <2>5. /\ answer[Run(s)] = "ok" => ran[s] > 0
        /\ answer[Run(s)] = "QueryFailed" /\ ran[s] > 0 => losses > 0
    BY DEF IInv, OutcomeInv, Told
  <2> QED BY <2>2, <2>3, <2>4, <2>5
<1> QED BY <1>1, OutcomeInvariance, PTL

(* ExecuteWithRetry executes a statement at most twice, and twice only when *)
(* the link broke.                                                          *)
THEOREM RetryOnlyAfterLossCorrect == Spec => []RetryOnlyAfterLoss
<1>1. IInv => RetryOnlyAfterLoss
  <2> SUFFICES ASSUME IInv, NEW s \in Stmt
               PROVE  ran[s] <= 2 /\ (ran[s] = 2 => losses > 0)
    BY DEF RetryOnlyAfterLoss
  <2>1. ran[s] \in Nat
    BY DEF IInv, OrderInv, TypeOK
  <2>2. Executions(s) \in Nat /\ ran[s] <= Executions(s)
    BY <2>1 DEF Executions
  <2>3. Executions(s) <= 2 /\ (Executions(s) = 2 => losses > 0)
    BY DEF IInv, OutcomeInv, Counts
  <2> QED BY <2>1, <2>2, <2>3
<1> QED BY <1>1, OutcomeInvariance, PTL

(* Between transactions the server has none open, except on a connection    *)
(* that the next statement resets: each object that goes sends ROLLBACK,    *)
(* also when its BEGIN seemed to have failed.                               *)
THEOREM SessionLeftCleanCorrect == Spec => []SessionLeftClean
<1>1. IInv => SessionLeftClean
  BY DEF IInv, OrderInv, TypeOK, OutcomeInv, OpenOwned, EndsAhead, SessionLeftClean
<1> QED BY <1>1, OutcomeInvariance, PTL

-----------------------------------------------------------------------------
(* What is queued                                                           *)

(* The worker, the server and the link answer only what is queued.          *)
LEMMA AnswersQueued ==
  ASSUME TypeOK, QueuedOnce, WorkerStep \/ TakeBeat \/ ServerStep \/ Lose
  PROVE  /\ UNCHANGED txnVars
         /\ \A r \in Request : \/ answer'[r] = answer[r]
                               \/ answer[r] = "queued" /\ answer'[r] \in Given
<1>1. CASE answer' = answer
  BY <1>1, WorkerKinds
<1>2. ASSUME NEW a \in Given, AnswerItem(a)
      PROVE  \A r \in Request : \/ answer'[r] = answer[r]
                                \/ answer[r] = "queued" /\ answer'[r] \in Given
  BY <1>2, AnswerEffect DEF QueuedOnce
<1> QED BY <1>1, <1>2, WorkerKinds

(* What is sent goes to the queue, what leaves it is in hand, and what is   *)
(* no longer in hand is answered.                                           *)
LEMMA WaitsStep ==
  ASSUME OrderInv, Waits, [Next]_vars
  PROVE  Waits'
<1>1. /\ TypeOK /\ WorkerHands /\ m_requests \in Seq(Request)
      /\ \A r \in Request : answer[r] = "queued" =>
           r = item \/ \E i \in 1..Len(m_requests) : m_requests[i] = r
      /\ answer \in [Request -> Answer]
  BY DEF OrderInv, Waits, TypeOK
<1>2. ASSUME NEW r \in Request, Send(r), UNCHANGED workerVars PROVE Waits'
  <2>1. /\ m_requests' = Append(m_requests, r) /\ item' = item
        /\ answer' = [answer EXCEPT ![r] = "queued"]
    BY <1>2 DEF Send, workerVars
  <2>2. /\ Len(m_requests) \in Nat /\ Len(m_requests') = Len(m_requests) + 1
        /\ \A i \in 1..Len(m_requests) : m_requests'[i] = m_requests[i]
        /\ m_requests'[Len(m_requests) + 1] = r
    BY <1>1, <2>1, QueueFacts
  <2>3. ASSUME NEW q \in Request, answer'[q] = "queued"
        PROVE  q = item' \/ \E i \in 1..Len(m_requests') : m_requests'[i] = q
    <3>1. CASE q = r
      BY <2>2, <3>1
    <3>2. CASE q # r
      <4>1. answer[q] = "queued"
        BY <1>1, <2>1, <2>3, <3>2
      <4>2. CASE q = item
        BY <2>1, <4>2
      <4>3. ASSUME NEW i \in 1..Len(m_requests), m_requests[i] = q
            PROVE  \E j \in 1..Len(m_requests') : m_requests'[j] = q
        <5>1. i \in 1..Len(m_requests') /\ m_requests'[i] = q
          BY <2>2, <4>3
        <5> QED BY <5>1
      <4> QED BY <1>1, <4>1, <4>2, <4>3
    <3> QED BY <3>1, <3>2
  <2> QED BY <2>3 DEF Waits
<1>3. ASSUME NEW s \in Stmt, UNCHANGED <<m_requests, workerVars>>,
             answer' = [answer EXCEPT ![Run(s)] = "TransactionRolledBack"]
      PROVE  Waits'
  <2>1. \A q \in Request : answer'[q] = "queued" => answer[q] = "queued"
    BY <1>1, <1>3
  <2> QED BY <1>1, <1>3, <2>1 DEF Waits, workerVars
<1>4. CASE Take
  <2>1. /\ pc = "idle" /\ m_requests # <<>> /\ item' = Head(m_requests)
        /\ m_requests' = Tail(m_requests) /\ answer' = answer
    BY <1>4 DEF Take
  <2>2. /\ Len(m_requests) \in Nat /\ Len(m_requests') = Len(m_requests) - 1
        /\ \A i \in 1..Len(m_requests') : m_requests'[i] = m_requests[i + 1]
        /\ item' = m_requests[1]
    BY <1>1, <2>1, QueueFacts
  <2>3. ASSUME NEW q \in Request, answer'[q] = "queued"
        PROVE  q = item' \/ \E i \in 1..Len(m_requests') : m_requests'[i] = q
    <3>1. q # item
      BY <1>1, <2>1, RequestFacts DEF WorkerHands
    <3>2. PICK i \in 1..Len(m_requests) : m_requests[i] = q
      BY <1>1, <2>1, <2>3, <3>1
    <3>3. CASE i = 1
      BY <2>2, <3>2, <3>3
    <3>4. CASE i # 1
      <4>1. i - 1 \in 1..Len(m_requests') /\ m_requests'[i - 1] = m_requests[(i - 1) + 1]
        BY <2>2, <3>4
      <4>2. (i - 1) + 1 = i
        OBVIOUS
      <4> QED BY <3>2, <4>1, <4>2
    <3> QED BY <3>3, <3>4
  <2> QED BY <2>3 DEF Waits
<1>5. CASE TakeBeat
  <2>1. pc = "idle" /\ UNCHANGED <<m_requests, answer>>
    BY <1>5 DEF TakeBeat
  <2>2. \A q \in Request : q # item
    BY <1>1, <2>1, RequestFacts DEF WorkerHands
  <2> QED BY <1>1, <2>1, <2>2 DEF Waits
<1>6. ASSUME NEW a \in Given, AnswerItem(a), UNCHANGED m_requests PROVE Waits'
  <2>1. /\ item' = None
        /\ \A r \in Request : answer'[r] = IF r = item THEN a ELSE answer[r]
    BY <1>1, <1>6, AnswerEffect
  <2>2. a # "queued"
    BY DEF Given, Final
  <2> QED BY <1>1, <1>6, <2>1, <2>2 DEF Waits
<1>7. ASSUME UNCHANGED <<m_requests, item, answer>> PROVE Waits'
  BY <1>1, <1>7 DEF Waits
<1>8. CASE \/ \E t \in Txn : OwnerStep(t)
           \/ \E s \in Stmt : CallerStep(s)
  BY <1>2, <1>3, <1>7, <1>8, CallerKinds DEF workerVars
<1>9. CASE WorkerStep \/ TakeBeat \/ ServerStep \/ Lose
  BY <1>1, <1>4, <1>5, <1>6, <1>7, <1>9, WorkerKinds
<1>10. CASE UNCHANGED vars
  BY <1>7, <1>10 DEF vars, workerVars
<1> QED BY <1>8, <1>9, <1>10 DEF Next

-----------------------------------------------------------------------------
(* The course of a transaction                                              *)

(* The requests of a transaction.                                           *)
Own(t) == {<<"begin", t>>, <<"commit", t>>, <<"rollback", t>>} \cup {Run(s) : s \in Of(t)}

(* They are those of no other.                                              *)
LEMMA OwnFacts ==
  ASSUME NEW t \in Txn
  PROVE  /\ \A k \in {"begin", "commit", "rollback"} : <<k, t>> \in Own(t)
         /\ \A s \in Of(t) : Run(s) \in Own(t) /\ s \in Stmt /\ StmtTxn[s] = t
         /\ Own(t) \subseteq Request
         /\ \A u \in Txn, k \in {"begin", "commit", "rollback"} : u # t => <<k, u>> \notin Own(t)
         /\ \A s \in Stmt : StmtTxn[s] # t => Run(s) \notin Own(t)
<1>1. Own(t) \subseteq Request /\ \A s \in Of(t) : Run(s) \in Own(t) /\ s \in Stmt /\ StmtTxn[s] = t
  BY RequestFacts DEF Own, Of
<1>2. ASSUME NEW u \in Txn, NEW k \in {"begin", "commit", "rollback"}, u # t
      PROVE  <<k, u>> \notin Own(t)
  BY <1>2, RequestFacts DEF Own, Of
<1>3. ASSUME NEW s \in Stmt, StmtTxn[s] # t PROVE Run(s) \notin Own(t)
  BY <1>3, RequestFacts, RunFacts DEF Own, Of
<1>4. \A k \in {"begin", "commit", "rollback"} : <<k, t>> \in Own(t)
  BY DEF Own
<1> QED BY <1>1, <1>2, <1>3, <1>4

(* Answers to what is queued do not change how far a transaction is.        *)
LEMMA CourseKept ==
  ASSUME OrderInv, NEW t \in Txn, Course(t), UNCHANGED <<m_state[t], holder[t], call[t]>>,
         \A r \in Own(t) : \/ answer'[r] = answer[r]
                           \/ answer[r] = "queued" /\ answer'[r] \in Given
  PROVE  Course(t)'
<1>1. \A r \in Own(t) : /\ answer'[r] # "unsent" => answer[r] # "unsent"
                        /\ answer'[r] = "queued" => answer[r] = "queued"
                        /\ answer[r] \in Final => answer'[r] \in Final
  BY DEF Given, Final, Answer
<1>2. \A s \in Of(t) : Run(s) \in Own(t)
  BY OwnFacts
<1>3. call[t] = "done" => m_state[t] \in {"commit", "rollback"}
  BY DEF OrderInv, TypeOK, LockedActive
<1>4. call[t] = "done" => <<m_state[t], t>> \in Own(t)
  BY <1>3, OwnFacts
<1>5. (call[t] \notin {"none", "beginning"} => answer[<<"begin", t>>] \in Final)'
  BY <1>1, OwnFacts DEF Course
<1>6. \A k \in {"commit", "rollback"} :
        (answer[<<k, t>>] # "unsent" => k = m_state[t] /\ call[t] \in {"waiting", "done"})'
  BY <1>1, OwnFacts DEF Course
<1>7. (call[t] = "done" => answer[<<m_state[t], t>>] \in Final)'
  BY <1>1, <1>4 DEF Course
<1>8. \A s \in Of(t) : /\ answer'[Run(s)] # "unsent" => call'[t] \notin {"none", "beginning"}
                       /\ answer'[Run(s)] = "queued" => call'[t] # "done"
  BY <1>1, <1>2 DEF Course
<1>9. (holder[t] # None => call[t] = "open")'
  BY DEF Course
<1> QED BY <1>5, <1>6, <1>7, <1>8, <1>9 DEF Course, Of

(* While the answer to COMMIT or ROLLBACK is in, no statement of the        *)
(* transaction is queued.                                                   *)
LEMMA FinishedQuiet ==
  ASSUME OrderInv, QueuedOnce, Waits, NEW t \in Txn, NEW k \in {"commit", "rollback"},
         answer[<<k, t>>] \in Final, NEW s \in Of(t)
  PROVE  answer[Run(s)] # "queued"
<1>1. InFront(s, <<k, t>>)
  BY DEF OrderInv, FinishIsLast, Final
<1>2. \A i \in 1..Len(m_requests) : m_requests[i] # <<k, t>>
  BY DEF QueuedOnce, Final
<1>3. s \in Stmt /\ Run(s) \in Request
  BY RequestFacts DEF Of
<1>4. Len(m_requests) \in Nat
  BY QueueFacts DEF OrderInv, TypeOK
<1>5. item # Run(s)
  BY <1>1, <1>2 DEF InFront
<1>6. ASSUME NEW i \in 1..Len(m_requests), m_requests[i] = Run(s) PROVE FALSE
  <2>1. PICK j \in i+1..Len(m_requests) : m_requests[j] = <<k, t>>
    BY <1>1, <1>6 DEF InFront
  <2>2. j \in 1..Len(m_requests)
    BY <1>4, <2>1
  <2> QED BY <1>2, <2>1, <2>2
<1> QED BY <1>3, <1>5, <1>6 DEF Waits

(* Each step of the application leaves a transaction's course as it is or   *)
(* takes it one further.                                                    *)
LEMMA CallerCourse ==
  ASSUME OrderInv, QueuedOnce, Waits, OpenOwned, NEW t \in Txn, Course(t),
         \/ \E u \in Txn : OwnerStep(u)
         \/ \E s \in Stmt : CallerStep(s)
  PROVE  Course(t)'
<1>0. /\ TypeOK /\ LockedActive /\ SendsOnce
      /\ m_state \in [Txn -> {"active", "commit", "rollback"}] /\ holder \in [Txn -> Stmt \cup {None}]
      /\ call \in [Txn -> CallState] /\ answer \in [Request -> Answer]
  BY DEF OrderInv, TypeOK
<1>1. ASSUME UNCHANGED <<m_state[t], holder[t], call[t]>>,
             \A r \in Own(t) : answer'[r] = answer[r]
      PROVE  Course(t)'
  BY <1>1, CourseKept
<1>2. ASSUME NEW u \in Txn, OwnerStep(u), u # t PROVE Course(t)'
  <2>1. UNCHANGED <<m_state[t], holder[t], call[t]>>
    BY <1>0, <1>2 DEF OwnerStep, CreateTransaction, BeginAnswered, Drop, Finish, FinishSends, FinishAnswered
  <2>2. CASE UNCHANGED answer
    BY <1>1, <2>1, <2>2
  <2>3. CASE CreateTransaction(u)
    <3>1. answer' = [answer EXCEPT ![<<"begin", u>>] = "queued"] /\ <<"begin", u>> \notin Own(t)
      BY <1>2, <2>3, OwnFacts DEF CreateTransaction, Send
    <3> QED BY <1>0, <1>1, <2>1, <3>1, OwnFacts
  <2>4. CASE FinishSends(u)
    <3>1. m_state[u] \in {"commit", "rollback"}
      BY <1>0, <2>4 DEF FinishSends, SendsOnce
    <3>2. answer' = [answer EXCEPT ![<<m_state[u], u>>] = "queued"] /\ <<m_state[u], u>> \notin Own(t)
      BY <1>2, <2>4, <3>1, OwnFacts DEF FinishSends, Send
    <3> QED BY <1>0, <1>1, <2>1, <3>2, OwnFacts
  <2> QED BY <1>2, <2>2, <2>3, <2>4 DEF OwnerStep, BeginAnswered, Drop, Finish, FinishAnswered
<1>3. CASE CreateTransaction(t)
  <2>1. /\ call[t] = "none" /\ call'[t] = "beginning" /\ UNCHANGED <<m_state, holder>>
        /\ answer' = [answer EXCEPT ![<<"begin", t>>] = "queued"]
    BY <1>0, <1>3 DEF CreateTransaction, Send
  <2>2. \A r \in Own(t) : r # <<"begin", t>> => answer'[r] = answer[r]
    BY <1>0, <2>1, OwnFacts
  <2>3. \A k \in {"commit", "rollback"} : answer'[<<k, t>>] = "unsent"
    BY <2>1, <2>2, OwnFacts DEF Course
  <2>4. \A s \in Of(t) : answer'[Run(s)] = "unsent"
    BY <2>1, <2>2, OwnFacts, RequestFacts DEF Course
  <2>5. (holder[t] # None => call[t] = "open")'
    BY <2>1 DEF Course
  <2> QED BY <2>1, <2>3, <2>4, <2>5 DEF Course, Of
<1>4. CASE UNCHANGED answer /\ holder'[t] = holder[t] /\ UNCHANGED m_state
           /\ (BeginAnswered(t) \/ Drop(t))
  BY <1>0, <1>4 DEF Course, Of, BeginAnswered, Drop
<1>5. ASSUME NEW state \in {"commit", "rollback"}, Finish(t, state) PROVE Course(t)'
  <2>1. /\ call[t] = "open" /\ call'[t] = "finishing" /\ holder[t] = None /\ holder' = holder
        /\ m_state'[t] = state /\ answer' = answer
    BY <1>0, <1>5 DEF Finish
  <2> QED BY <2>1 DEF Course, Of
<1>6. CASE FinishSends(t)
  <2>1. /\ call[t] = "finishing" /\ call'[t] = "waiting" /\ UNCHANGED <<m_state, holder>>
        /\ m_state[t] \in {"commit", "rollback"}
        /\ answer' = [answer EXCEPT ![<<m_state[t], t>>] = "queued"]
    BY <1>0, <1>6 DEF FinishSends, Send, SendsOnce
  <2>2. \A r \in Own(t) : r # <<m_state[t], t>> => answer'[r] = answer[r]
    BY <1>0, <2>1, OwnFacts
  <2>3. \A k \in {"commit", "rollback"} :
          answer'[<<k, t>>] # "unsent" => k = m_state[t]
    BY <2>1, <2>2, OwnFacts DEF Course
  <2>4. answer'[<<"begin", t>>] = answer[<<"begin", t>>]
    BY <2>1, <2>2, OwnFacts
  <2> QED BY <2>1, <2>3, <2>4 DEF Course, Of
<1>7. CASE FinishAnswered(t)
  <2>1. /\ call[t] = "waiting" /\ call'[t] = "done" /\ UNCHANGED <<m_state, holder, answer>>
        /\ answer[<<m_state[t], t>>] \in Final /\ m_state[t] \in {"commit", "rollback"}
    BY <1>0, <1>7 DEF FinishAnswered, LockedActive
  <2>2. \A s \in Of(t) : answer[Run(s)] # "queued"
    BY <2>1, FinishedQuiet
  <2>3. holder'[t] = None
    BY <2>1 DEF Course
  <2> QED BY <2>1, <2>2, <2>3 DEF Course, Of
<1>8. ASSUME NEW s \in Stmt, NEW u \in Txn, ExecuteLocks(s, u) PROVE Course(t)'
  <2>0. UNCHANGED <<m_state, call>>
    BY <1>8 DEF ExecuteLocks
  <2>1. CASE m_state[u] = "active"
    <3>1. answer' = answer /\ holder' = [holder EXCEPT ![u] = s] /\ call[u] = "open"
      BY <1>0, <1>8, <2>1 DEF ExecuteLocks, LockedActive
    <3>2. (holder[t] # None => call[t] = "open")'
      BY <1>0, <2>0, <3>1 DEF Course
    <3> QED BY <2>0, <3>1, <3>2 DEF Course, Of
  <2>2. CASE m_state[u] # "active"
    <3>1. /\ holder' = holder /\ answer' = [answer EXCEPT ![Run(s)] = "TransactionRolledBack"]
          /\ StmtTxn[s] = u /\ call[u] \notin {"none", "beginning"}
      BY <1>8, <2>2 DEF ExecuteLocks
    <3>2. CASE u # t
      <4>1. Run(s) \notin Own(t)
        BY <3>1, <3>2, OwnFacts
      <4>2. \A r \in Own(t) : answer'[r] = answer[r]
        BY <1>0, <3>1, <4>1, OwnFacts
      <4> QED BY <1>1, <2>0, <3>1, <4>2
    <3>3. CASE u = t
      <4>1. \A k \in {"begin", "commit", "rollback"} : answer'[<<k, t>>] = answer[<<k, t>>]
        BY <1>0, <3>1, RequestFacts
      <4>2. call[t] = "done" => m_state[t] \in {"commit", "rollback"}
        BY <1>0 DEF LockedActive
      <4>3. \A q \in Of(t) : answer'[Run(q)] = "queued" => call[t] # "done"
        BY <1>0, <3>1, OwnFacts DEF Course
      <4> QED BY <2>0, <3>1, <3>3, <4>1, <4>2, <4>3 DEF Course, Of
    <3> QED BY <3>2, <3>3
  <2> QED BY <2>1, <2>2
<1>9. ASSUME NEW s \in Stmt, NEW u \in Txn, ExecuteSends(s, u) PROVE Course(t)'
  <2>1. /\ UNCHANGED <<m_state, call>> /\ holder[u] = s /\ holder' = [holder EXCEPT ![u] = None]
        /\ answer' = [answer EXCEPT ![Run(s)] = "queued"]
    BY <1>9 DEF ExecuteSends, Send
  <2>2. s # None
    BY SessionAssumption
  <2>3. StmtTxn[s] = u
    BY <1>0, <2>1, <2>2 DEF LockedActive
  <2>4. CASE u # t
    <3>1. Run(s) \notin Own(t)
      BY <2>3, <2>4, OwnFacts
    <3>2. \A r \in Own(t) : answer'[r] = answer[r]
      BY <1>0, <2>1, <3>1, OwnFacts
    <3> QED BY <1>0, <1>1, <2>1, <2>4, <3>2
  <2>5. CASE u = t
    <3>1. call[t] = "open"
      BY <2>1, <2>2, <2>5 DEF Course
    <3>2. \A k \in {"begin", "commit", "rollback"} : answer'[<<k, t>>] = answer[<<k, t>>]
      BY <1>0, <2>1, RequestFacts
    <3>3. holder'[t] = None
      BY <1>0, <2>1, <2>5
    <3> QED BY <2>1, <3>1, <3>2, <3>3 DEF Course, Of
  <2> QED BY <2>4, <2>5
<1>10. ASSUME NEW s \in Stmt, ExecutePlain(s) PROVE Course(t)'
  <2>1. /\ UNCHANGED <<m_state, call, holder>> /\ StmtTxn[s] # t
        /\ answer' = [answer EXCEPT ![Run(s)] = "queued"]
    BY <1>10, SessionAssumption DEF ExecutePlain, Send, txnVars
  <2>2. \A r \in Own(t) : answer'[r] = answer[r]
    BY <1>0, <2>1, OwnFacts
  <2> QED BY <1>1, <2>1, <2>2
<1>11. CASE BeginAnswered(t) \/ Drop(t)
  BY <1>4, <1>11 DEF BeginAnswered, Drop
<1> QED BY <1>2, <1>3, <1>5, <1>6, <1>7, <1>8, <1>9, <1>10, <1>11 DEF OwnerStep, CallerStep

(* Every step keeps the course of every transaction.                        *)
LEMMA CoursesStep ==
  ASSUME OrderInv, QueuedOnce, Waits, OpenOwned, Courses, [Next]_vars
  PROVE  Courses'
<1> SUFFICES ASSUME NEW t \in Txn PROVE Course(t)'
  BY DEF Courses
<1>1. Course(t) /\ TypeOK
  BY DEF Courses, OrderInv
<1>2. CASE \/ \E u \in Txn : OwnerStep(u)
           \/ \E s \in Stmt : CallerStep(s)
  BY <1>1, <1>2, CallerCourse
<1>3. CASE WorkerStep \/ TakeBeat \/ ServerStep \/ Lose
  <2>1. UNCHANGED <<m_state[t], holder[t], call[t]>>
    BY <1>1, <1>3, AnswersQueued DEF txnVars
  <2> QED BY <1>1, <1>3, <2>1, AnswersQueued, OwnFacts, CourseKept
<1>4. CASE UNCHANGED vars
  BY <1>1, <1>4, CourseKept DEF vars, txnVars
<1> QED BY <1>2, <1>3, <1>4 DEF Next

-----------------------------------------------------------------------------
(* Whose turn it is                                                         *)

(* A transaction begins when none is in use and nothing is queued, and what *)
(* is queued meanwhile is sent through it.                                  *)
LEMMA TurnsStep ==
  ASSUME OrderInv, QueuedOnce, Courses, Turns, [Next]_vars
  PROVE  Turns'
<1> SUFFICES ASSUME Exclusive, NEW t \in Txn, Using(t)'
             PROVE  /\ \A u \in Txn : Using(u)' => u = t
                    /\ \A s \in Stmt : answer'[Run(s)] = "queued" => StmtTxn[s] = t
  BY DEF Turns
<1>0. /\ TypeOK /\ LockedActive /\ SendsOnce
      /\ call \in [Txn -> CallState] /\ answer \in [Request -> Answer]
      /\ \A v \in Txn : Using(v) => /\ \A u \in Txn : Using(u) => u = v
                                    /\ \A s \in Stmt : answer[Run(s)] = "queued" => StmtTxn[s] = v
  BY DEF OrderInv, TypeOK, Turns
<1>1. ASSUME \A u \in Txn : Using(u)' => Using(u),
             \A s \in Stmt : answer'[Run(s)] = "queued" => answer[Run(s)] = "queued" \/ StmtTxn[s] = t
      PROVE  /\ \A u \in Txn : Using(u)' => u = t
             /\ \A s \in Stmt : answer'[Run(s)] = "queued" => StmtTxn[s] = t
  BY <1>0, <1>1
<1>2. ASSUME NEW v \in Txn, CreateTransaction(v)
      PROVE  /\ \A u \in Txn : Using(u)' => u = t
             /\ \A s \in Stmt : answer'[Run(s)] = "queued" => StmtTxn[s] = t
  <2>1. /\ \A u \in Txn : ~Using(u) /\ \A s \in Stmt : answer[Run(s)] # "queued"
        /\ call' = [call EXCEPT ![v] = "beginning"]
        /\ answer' = [answer EXCEPT ![<<"begin", v>>] = "queued"]
    BY <1>2 DEF CreateTransaction, Send
  <2>2. \A u \in Txn : Using(u)' => u = v
    BY <1>0, <2>1 DEF Using
  <2>3. \A s \in Stmt : answer'[Run(s)] # "queued"
    BY <1>0, <2>1, RequestFacts
  <2> QED BY <2>2, <2>3
<1>3. ASSUME NEW v \in Txn, \/ BeginAnswered(v) \/ Drop(v) \/ FinishSends(v) \/ FinishAnswered(v)
                            \/ \E state \in {"commit", "rollback"} : Finish(v, state)
      PROVE  /\ \A u \in Txn : Using(u)' => Using(u)
             /\ \A s \in Stmt : answer'[Run(s)] = answer[Run(s)]
  <2>1. \A u \in Txn : Using(u)' => Using(u)
    BY <1>0, <1>3 DEF Using, BeginAnswered, Drop, FinishSends, FinishAnswered, Finish
  <2>2. CASE FinishSends(v)
    <3>1. m_state[v] \in {"commit", "rollback"} /\ answer' = [answer EXCEPT ![<<m_state[v], v>>] = "queued"]
      BY <1>0, <2>2 DEF FinishSends, Send, SendsOnce, TypeOK
    <3>2. \A s \in Stmt : answer'[Run(s)] = answer[Run(s)]
      BY <1>0, <3>1, RequestFacts
    <3> QED BY <2>1, <3>2
  <2> QED BY <1>3, <2>1, <2>2 DEF BeginAnswered, Drop, FinishAnswered, Finish
<1>4. ASSUME NEW s \in Stmt, NEW u \in Txn, ExecuteLocks(s, u)
      PROVE  UNCHANGED call /\ \A q \in Stmt : answer'[Run(q)] = "queued" => answer[Run(q)] = "queued"
  <2>1. CASE m_state[u] = "active"
    BY <1>4, <2>1 DEF ExecuteLocks
  <2>2. CASE m_state[u] # "active"
    BY <1>0, <1>4, <2>2, RequestFacts DEF ExecuteLocks
  <2> QED BY <2>1, <2>2
<1>5. ASSUME NEW s \in Stmt, NEW u \in Txn, ExecuteSends(s, u)
      PROVE  /\ UNCHANGED call
             /\ \A q \in Stmt : answer'[Run(q)] = "queued" => answer[Run(q)] = "queued" \/ StmtTxn[q] = t
  <2>1. /\ UNCHANGED call /\ holder[u] = s /\ s # None
        /\ answer' = [answer EXCEPT ![Run(s)] = "queued"]
    BY <1>5, SessionAssumption DEF ExecuteSends, Send
  <2>2. StmtTxn[s] = u /\ call[u] = "open"
    BY <2>1 DEF OrderInv, LockedActive, Courses, Course
  <2>3. Using(t) /\ Using(u)
    BY <2>1, <2>2 DEF Using
  <2>4. StmtTxn[s] = t
    BY <1>0, <2>2, <2>3
  <2>5. \A q \in Stmt : q # s => answer'[Run(q)] = answer[Run(q)]
    BY <1>0, <2>1, RequestFacts, RunFacts
  <2> QED BY <2>1, <2>4, <2>5
<1>6. ASSUME NEW s \in Stmt, ExecutePlain(s) PROVE FALSE
  BY <1>6 DEF ExecutePlain, Using, txnVars
<1>7. CASE \/ \E u \in Txn : OwnerStep(u)
           \/ \E s \in Stmt : CallerStep(s)
  BY <1>1, <1>2, <1>3, <1>4, <1>5, <1>6, <1>7 DEF OwnerStep, CallerStep, Using
<1>8. CASE WorkerStep \/ TakeBeat \/ ServerStep \/ Lose
  <2>1. /\ call' = call
        /\ \A r \in Request : answer'[r] = "queued" => answer[r] = "queued"
    BY <1>0, <1>8, AnswersQueued DEF txnVars
  <2> QED BY <1>1, <2>1, RequestFacts DEF Using
<1>9. CASE UNCHANGED vars
  BY <1>1, <1>9 DEF vars, txnVars, Using
<1> QED BY <1>7, <1>8, <1>9 DEF Next

-----------------------------------------------------------------------------
(* Without failures                                                         *)

(* The failures that are counted are not forgotten.                         *)
LEMMA FailuresGrow ==
  ASSUME TypeOK, [Next]_vars, losses' = 0, timeouts' = 0
  PROVE  losses = 0 /\ timeouts = 0
<1>1. losses \in Nat /\ timeouts \in Nat
  BY DEF TypeOK
<1>2. losses' = losses \/ losses' = losses + 1
  BY DEF Next, OwnerStep, CallerStep, WorkerStep, ServerStep, vars, bounds, CreateTransaction,
     BeginAnswered, Drop, Finish, FinishSends, FinishAnswered, ExecuteLocks, ExecuteSends,
     ExecutePlain, Take, TakeBeat, CheckConnected, ResetSucceeds, ResetFails, SendRefused,
     NoSocket, SendAccepted, PollFails, LossSeen, Consume, ConsumeLoses, ServerBegins,
     ServerRuns, ServerRejects, ServerEnds, ServerRefusesCommit, ServerPings, Replies, Lose
<1>3. timeouts' = timeouts \/ timeouts' = timeouts + 1
  BY DEF Next, OwnerStep, CallerStep, WorkerStep, ServerStep, vars, bounds, CreateTransaction,
     BeginAnswered, Drop, Finish, FinishSends, FinishAnswered, ExecuteLocks, ExecuteSends,
     ExecutePlain, Take, TakeBeat, CheckConnected, ResetSucceeds, ResetFails, SendRefused,
     NoSocket, SendAccepted, PollFails, LossSeen, Consume, ConsumeLoses, ServerBegins,
     ServerRuns, ServerRejects, ServerEnds, ServerRefusesCommit, ServerPings, Replies, Lose
<1> QED BY <1>1, <1>2, <1>3

(* While nothing is lost and nothing times out, these steps are not taken.  *)
LEMMA CalmSteps ==
  ASSUME TypeOK, Calm, [Next]_vars, losses' = 0, timeouts' = 0
  PROVE  /\ losses = 0 /\ timeouts = 0
         /\ ~ResetSucceeds /\ ~ResetFails /\ ~SendRefused /\ ~PollFails /\ ~LossSeen /\ ~Lose
         /\ ~NoSocket /\ ~ConsumeLoses
<1>1. losses = 0 /\ timeouts = 0
  BY FailuresGrow
<1>2. /\ status = "ok" /\ session # "gone" /\ attempts = 1 /\ pc # "reset"
      /\ busy <=> pc = "await"
  BY <1>1 DEF Calm
<1>3. ~ResetSucceeds /\ ~ResetFails
  BY <1>2 DEF ResetSucceeds, ResetFails, Reset
<1>4. ~SendRefused /\ ~LossSeen /\ ~NoSocket /\ ~ConsumeLoses
  BY <1>2 DEF SendRefused, LossSeen, NoSocket, ConsumeLoses
<1>5. ~PollFails /\ ~Lose
  BY <1>1 DEF PollFails, Lose
<1> QED BY <1>1, <1>3, <1>4, <1>5

(* A healthy connection stays so until something is lost or times out.      *)
LEMMA CalmStep ==
  ASSUME OrderInv, Calm, [Next]_vars
  PROVE  Calm'
<1> SUFFICES ASSUME losses' = 0, timeouts' = 0
             PROVE  /\ status' = "ok" /\ session' # "gone"
                    /\ attempts' = 1 /\ pc' # "reset"
                    /\ busy' <=> pc' = "await"
  BY DEF Calm
<1>0. TypeOK
  BY DEF OrderInv
<1>1. /\ status = "ok" /\ session # "gone" /\ attempts = 1 /\ pc # "reset"
      /\ busy <=> pc = "await"
      /\ ~ResetSucceeds /\ ~ResetFails /\ ~SendRefused /\ ~PollFails /\ ~LossSeen /\ ~Lose
      /\ ~NoSocket /\ ~ConsumeLoses
  BY <1>0, CalmSteps DEF Calm
<1>2. CASE \/ \E t \in Txn : OwnerStep(t)
           \/ \E s \in Stmt : CallerStep(s)
  <2>1. UNCHANGED <<workerVars, linkVars, serverVars>>
    BY <1>2, CallerKinds
  <2> QED BY <1>1, <2>1 DEF workerVars, linkVars, serverVars
<1>3. CASE Take \/ TakeBeat \/ CheckConnected
  BY <1>1, <1>3 DEF Take, TakeBeat, CheckConnected, linkVars, serverVars
<1>4. CASE SendAccepted
  BY <1>1, <1>4 DEF SendAccepted, serverVars
<1>5. CASE Consume
  BY <1>1, <1>5 DEF Consume, AnswerItem, serverVars
<1>6. CASE ServerStep
  BY <1>1, <1>6 DEF ServerStep, ServerBegins, ServerRuns, ServerRejects, ServerEnds,
     ServerRefusesCommit, ServerPings, Replies, serverVars, workerVars
<1>7. CASE UNCHANGED vars
  BY <1>1, <1>7 DEF vars, workerVars, linkVars, serverVars
<1> QED BY <1>1, <1>2, <1>3, <1>4, <1>5, <1>6, <1>7 DEF Next, WorkerStep

(* What is on its way is the request in hand.                               *)
LEMMA InHand ==
  ASSUME OrderInv, QueuedOnce, Calm, losses = 0, timeouts = 0
  PROVE  /\ reply # None => reply.to = item /\ inbox = None
         /\ inbox # None => inbox = item /\ reply = None /\ (item \in Request => answer[item] = "queued")
<1>1. reply # None \/ inbox # None => pc = "await"
  BY DEF OrderInv, InFlight, Calm
<1> QED BY <1>1 DEF OrderInv, InFlight, NoStaleResult, QueuedOnce

-----------------------------------------------------------------------------
(* What the server has done                                                 *)

(* Nothing fails and transactions take turns.                               *)
Orderly == Exclusive /\ losses = 0 /\ timeouts = 0

(* What the tally says of one transaction.                                  *)
Account(t) ==
  /\ Begun(t) => /\ Using(t)
                 /\ session = IF \E s \in Of(t) : Rejected(s) THEN "failed" ELSE "open"
                 /\ session = "open" => pending = {s \in Of(t) : Succeeded(s)}
  /\ \A s \in Of(t) :
       durable[s] = IF /\ Committed(t) /\ Succeeded(s)
                       /\ \A r \in Of(t) : ~Rejected(r)
                      THEN 1 ELSE 0

(* A step that neither executes nor answers anything new, seen from both    *)
(* ends of the connection.                                                  *)
LEMMA TallyKept ==
  ASSUME Tally, Orderly, UNCHANGED <<session, pending, durable>>,
         \A r \in Control : Executed(r)' <=> Executed(r),
         \A t \in Txn : Committed(t)' <=> Committed(t),
         \A s \in Stmt : (Succeeded(s)' <=> Succeeded(s)) /\ (Rejected(s)' <=> Rejected(s)),
         \A t \in Txn : Begun(t) /\ Using(t) => Using(t)'
  PROVE  Tally'
<1>1. \A t \in Txn, k \in {"begin", "commit", "rollback"} : <<k, t>> \in Control
  BY DEF Control
<1>2. \A t \in Txn : Begun(t)' <=> Begun(t)
  BY <1>1 DEF Begun
<1>3. \A t \in Txn : Of(t) \subseteq Stmt /\ Of(t)' = Of(t)
  BY DEF Of
<1>4. session # "open" => pending = {}
  BY DEF Tally, Orderly
<1>5. session # "idle" => \E t \in Txn : Begun(t)'
  BY <1>2 DEF Tally, Orderly
<1>6. ASSUME NEW t \in Txn PROVE Account(t)'
  <2>1. Account(t)
    BY DEF Tally, Orderly, Account
  <2>2. Committed(t)' <=> Committed(t)
    OBVIOUS
  <2>3. (\E s \in Of(t) : Rejected(s)') <=> (\E s \in Of(t) : Rejected(s))
    BY <1>3
  <2>4. {s \in Of(t) : Succeeded(s)'} = {s \in Of(t) : Succeeded(s)}
    BY <1>3
  <2>5. Begun(t)' => /\ Using(t)'
                     /\ session = IF \E s \in Of(t) : Rejected(s)' THEN "failed" ELSE "open"
                     /\ session = "open" => pending = {s \in Of(t) : Succeeded(s)'}
    BY <1>2, <2>1, <2>3, <2>4 DEF Account
  <2>6. \A s \in Of(t) :
          durable[s] = IF /\ Committed(t)' /\ Succeeded(s)'
                          /\ \A r \in Of(t) : ~Rejected(r)'
                         THEN 1 ELSE 0
    <3> SUFFICES ASSUME NEW s \in Of(t)
                 PROVE  durable[s] = IF /\ Committed(t)' /\ Succeeded(s)'
                                        /\ \A r \in Of(t) : ~Rejected(r)'
                                       THEN 1 ELSE 0
      OBVIOUS
    <3>1. Succeeded(s)' <=> Succeeded(s)
      BY <1>3
    <3>2. durable[s] = IF /\ Committed(t) /\ Succeeded(s)
                          /\ \A r \in Of(t) : ~Rejected(r)
                         THEN 1 ELSE 0
      BY <2>1 DEF Account
    <3> QED BY <2>2, <2>3, <3>1, <3>2
  <2> QED BY <1>3, <2>5, <2>6 DEF Account
<1> QED BY <1>3, <1>4, <1>5, <1>6 DEF Tally, Account

(* The application sends and refuses; nothing is executed or answered by    *)
(* the server, and a transaction is not left before its end is answered.    *)
LEMMA CallerTally ==
  ASSUME OrderInv, Courses, Tally, Orderly,
         \/ \E t \in Txn : OwnerStep(t)
         \/ \E s \in Stmt : CallerStep(s)
  PROVE  Tally'
<1>0. TypeOK /\ LockedActive /\ call \in [Txn -> CallState] /\ answer \in [Request -> Answer]
  BY DEF OrderInv, TypeOK
<1>1. UNCHANGED <<session, pending, durable, reply>>
  BY CallerKinds DEF serverVars, linkVars
<1>2. ASSUME NEW r \in Request
      PROVE  \/ answer'[r] = answer[r]
             \/ answer[r] = "unsent" /\ answer'[r] = "queued"
             \/ \E s \in Stmt : r = Run(s) /\ answer[r] = "unsent" /\ answer'[r] = "TransactionRolledBack"
  <2>1. ASSUME NEW q \in Request, answer[q] = "unsent", Send(q)
        PROVE  answer'[r] = answer[r] \/ (answer[r] = "unsent" /\ answer'[r] = "queued")
    BY <1>0, <2>1 DEF Send
  <2>2. ASSUME NEW s \in Stmt, answer[Run(s)] = "unsent",
               answer' = [answer EXCEPT ![Run(s)] = "TransactionRolledBack"]
        PROVE  answer'[r] = answer[r]
               \/ (r = Run(s) /\ answer[r] = "unsent" /\ answer'[r] = "TransactionRolledBack")
    BY <1>0, <2>2
  <2> QED BY <2>1, <2>2, CallerKinds
<1>3. ASSUME NEW r \in Control PROVE Executed(r)' <=> Executed(r)
  <2>1. r \in Request /\ \A s \in Stmt : r # Run(s)
    BY RequestFacts DEF Request, Control, Run
  <2>2. answer'[r] = answer[r] \/ (answer[r] = "unsent" /\ answer'[r] = "queued")
    BY <1>2, <2>1
  <2> QED BY <1>1, <2>2 DEF Executed, Came, Final
<1>4. ASSUME NEW s \in Stmt PROVE (Succeeded(s)' <=> Succeeded(s)) /\ (Rejected(s)' <=> Rejected(s))
  BY <1>1, <1>2, RequestFacts DEF Succeeded, Rejected, Came
<1>6. ASSUME NEW t \in Txn PROVE Committed(t)' <=> Committed(t)
  <2>1. <<"commit", t>> \in Request /\ \A s \in Stmt : <<"commit", t>> # Run(s)
    BY RequestFacts
  <2>2. answer'[<<"commit", t>>] = "ok" <=> answer[<<"commit", t>>] = "ok"
    BY <1>2, <2>1
  <2> QED BY <1>1, <2>2 DEF Committed, Came
<1>5. ASSUME NEW t \in Txn, Begun(t), Using(t) PROVE Using(t)'
  <2>1. ASSUME NEW u \in Txn, FinishAnswered(u) PROVE u # t
    <3>1. call[u] = "waiting" /\ answer[<<m_state[u], u>>] \in Final /\ m_state[u] \in {"commit", "rollback"}
      BY <1>0, <2>1 DEF FinishAnswered, LockedActive, TypeOK
    <3> QED BY <1>5, <3>1 DEF Begun, Executed
  <2>2. ASSUME NEW u \in Txn, FinishAnswered(u) PROVE call'[t] = call[t]
    BY <1>0, <2>1, <2>2 DEF FinishAnswered
  <2>3. ASSUME NEW u \in Txn, \/ CreateTransaction(u) \/ BeginAnswered(u) \/ Drop(u) \/ FinishSends(u)
                              \/ \E state \in {"commit", "rollback"} : Finish(u, state)
        PROVE  call'[t] \in {call[t], "beginning", "open", "finishing", "waiting"}
    BY <1>0, <2>3 DEF CreateTransaction, BeginAnswered, Drop, FinishSends, Finish
  <2>4. ASSUME NEW s \in Stmt, CallerStep(s) PROVE call' = call
    BY <2>4 DEF CallerStep, ExecuteLocks, ExecuteSends, ExecutePlain, txnVars
  <2> QED BY <1>5, <2>2, <2>3, <2>4 DEF OwnerStep, Using
<1> QED BY <1>1, <1>3, <1>4, <1>5, <1>6, TallyKept

(* A result becomes the answer, which says the same.                        *)
LEMMA ConsumeTally ==
  ASSUME OrderInv, QueuedOnce, Calm, Tally, Orderly, Consume
  PROVE  Tally'
<1>0. TypeOK /\ losses = 0 /\ timeouts = 0
  BY DEF OrderInv, Orderly
<1>1. /\ reply # None /\ reply.to = item /\ reply' = None /\ reply.ok \in BOOLEAN
      /\ UNCHANGED <<session, pending, durable, call>>
      /\ AnswerItem(IF reply.ok THEN "ok" ELSE "QueryFailed")
  BY <1>0, InHand DEF Consume, TypeOK, serverVars, txnVars
<1>2. (IF reply.ok THEN "ok" ELSE "QueryFailed") \in Given
  BY DEF Given, Final, Answer
<1>3. \A r \in Request : answer'[r] = IF r = item THEN (IF reply.ok THEN "ok" ELSE "QueryFailed")
                                                  ELSE answer[r]
  BY <1>0, <1>1, <1>2, AnswerEffect
<1>4. item \in Request => answer[item] = "queued"
  BY DEF QueuedOnce
<1>5. ASSUME NEW r \in Request PROVE Executed(r)' <=> Executed(r)
  BY <1>1, <1>2, <1>3, <1>5 DEF Executed, Came, Given
<1>6. ASSUME NEW s \in Stmt PROVE (Succeeded(s)' <=> Succeeded(s)) /\ (Rejected(s)' <=> Rejected(s))
  BY <1>1, <1>3, <1>4, RequestFacts DEF Succeeded, Rejected, Came
<1>7. Control \subseteq Request
  BY DEF Request
<1>8. ASSUME NEW t \in Txn PROVE Committed(t)' <=> Committed(t)
  <2>1. <<"commit", t>> \in Request
    BY RequestFacts
  <2> QED BY <1>1, <1>3, <1>4, <2>1 DEF Committed, Came
<1> QED BY <1>1, <1>5, <1>6, <1>7, <1>8, TallyKept DEF Using

-----------------------------------------------------------------------------
(* The server's part                                                        *)

(* What the server does with a request: from then on it counts as executed, *)
(* with the outcome that the result tells, and nothing else changes.        *)
LEMMA ReplyEffect ==
  ASSUME OrderInv, QueuedOnce, Calm, Orderly, NEW ok \in BOOLEAN, inbox # None, Replies(ok)
  PROVE  /\ inbox = item /\ reply = None /\ (item \in Request => answer[item] = "queued")
         /\ UNCHANGED <<call, answer>>
         /\ item \in Request => ~Executed(item)
         /\ \A r \in Request : Executed(r)' <=> (Executed(r) \/ r = item)
         /\ \A t \in Txn : Committed(t)' <=> (Committed(t) \/ (item = <<"commit", t>> /\ ok))
         /\ \A s \in Stmt : /\ Succeeded(s)' <=> (Succeeded(s) \/ (item = Run(s) /\ ok))
                            /\ Rejected(s)' <=> (Rejected(s) \/ (item = Run(s) /\ ~ok))
<1>1. /\ inbox = item /\ reply = None /\ (item \in Request => answer[item] = "queued")
      /\ UNCHANGED <<call, answer>>
  BY InHand DEF Orderly, Replies, txnVars
<1>2. reply' = [to |-> item, ok |-> ok]
  BY <1>1 DEF Replies
<1>3. item \in Request \cup {Beat}
  BY <1>1 DEF OrderInv, TypeOK
<1>4. reply' \in [to : Request \cup {Beat}, ok : BOOLEAN] /\ reply'.to = item /\ reply'.ok = ok
  BY <1>2, <1>3
<1>5. reply' # None
  BY <1>4, SessionAssumption
<1>6. item \in Request => ~Executed(item)
  BY <1>1 DEF Executed, Came, Final
<1>7. ASSUME NEW r \in Request PROVE Executed(r)' <=> (Executed(r) \/ r = item)
  BY <1>1, <1>4, <1>5 DEF Executed, Came
<1>8. ASSUME NEW s \in Stmt
      PROVE  /\ Succeeded(s)' <=> (Succeeded(s) \/ (item = Run(s) /\ ok))
             /\ Rejected(s)' <=> (Rejected(s) \/ (item = Run(s) /\ ~ok))
  BY <1>1, <1>4, <1>5 DEF Succeeded, Rejected, Came
<1>9. ASSUME NEW t \in Txn PROVE Committed(t)' <=> (Committed(t) \/ (item = <<"commit", t>> /\ ok))
  BY <1>1, <1>4, <1>5 DEF Committed, Came
<1> QED BY <1>1, <1>6, <1>7, <1>8, <1>9

(* The server has begun no other transaction than the one whose turn it is. *)
LEMMA OneBegun ==
  ASSUME Turns, Tally, Orderly, NEW t \in Txn, Using(t), NEW u \in Txn, Begun(u)
  PROVE  u = t
BY DEF Turns, Tally, Orderly

(* A heartbeat is no statement of the application.                          *)
LEMMA PingTally ==
  ASSUME OrderInv, QueuedOnce, Calm, Tally, Orderly, ServerPings
  PROVE  Tally'
<1>1. inbox # None /\ inbox[1] = "beat" /\ Replies(session # "failed") /\ UNCHANGED serverVars
  BY DEF ServerPings, Arrives
<1>2. /\ inbox = item /\ UNCHANGED <<call, answer>>
      /\ \A r \in Request : Executed(r)' <=> (Executed(r) \/ r = item)
      /\ \A t \in Txn : Committed(t)' <=> (Committed(t) \/ (item = <<"commit", t>> /\ session # "failed"))
      /\ \A s \in Stmt : /\ Succeeded(s)' <=> (Succeeded(s) \/ (item = Run(s) /\ session # "failed"))
                         /\ Rejected(s)' <=> (Rejected(s) \/ (item = Run(s) /\ ~(session # "failed")))
  BY <1>1, ReplyEffect
<1>3. item \notin Request
  BY <1>1, <1>2, RunFacts
<1>4. /\ \A r \in Request : Executed(r)' <=> Executed(r)
      /\ \A t \in Txn : Committed(t)' <=> Committed(t)
      /\ \A s \in Stmt : (Succeeded(s)' <=> Succeeded(s)) /\ (Rejected(s)' <=> Rejected(s))
  BY <1>2, <1>3, RequestFacts
<1>5. Control \subseteq Request
  BY DEF Request
<1> QED BY <1>1, <1>2, <1>4, <1>5, TallyKept DEF serverVars, Using

(* BEGIN finds no transaction open and no statement of its own executed.    *)
LEMMA BeginTally ==
  ASSUME OrderInv, QueuedOnce, OpenOwned, Courses, Turns, Calm, Tally, Orderly, ServerBegins
  PROVE  Tally'
<1>1. inbox # None /\ inbox[1] = "begin" /\ Replies(session # "failed") /\ UNCHANGED <<pending, durable>>
  BY DEF ServerBegins, Arrives
<1>2. /\ inbox = item /\ (item \in Request => answer[item] = "queued") /\ UNCHANGED <<call, answer>>
      /\ item \in Request => ~Executed(item)
      /\ \A r \in Request : Executed(r)' <=> (Executed(r) \/ r = item)
      /\ \A t \in Txn : Committed(t)' <=> (Committed(t) \/ (item = <<"commit", t>> /\ session # "failed"))
      /\ \A s \in Stmt : /\ Succeeded(s)' <=> (Succeeded(s) \/ (item = Run(s) /\ session # "failed"))
                         /\ Rejected(s)' <=> (Rejected(s) \/ (item = Run(s) /\ ~(session # "failed")))
  BY <1>1, ReplyEffect
<1>3. item \in Request
  BY <1>1, <1>2, RunFacts DEF OrderInv, TypeOK
<1>4. PICK t \in Txn : item = <<"begin", t>>
  BY <1>1, <1>2, <1>3, RunFacts
<1>5. call[t] = "beginning" /\ Using(t) /\ Unfinished(t)
  BY <1>2, <1>3, <1>4 DEF OpenOwned, Using
<1>6. ASSUME NEW u \in Txn, Begun(u) PROVE FALSE
  <2>1. u = t
    BY <1>5, <1>6, OneBegun
  <2> QED BY <1>2, <1>3, <1>4, <1>6, <2>1 DEF Begun
<1>7. session = "idle" /\ pending = {} /\ session' = "open"
  BY <1>6 DEF Tally, Orderly, ServerBegins
<1>8. \A s \in Stmt : (Succeeded(s)' <=> Succeeded(s)) /\ (Rejected(s)' <=> Rejected(s))
  BY <1>2, <1>4, RequestFacts
<1>9. /\ \A u \in Txn, k \in {"commit", "rollback"} : Executed(<<k, u>>)' <=> Executed(<<k, u>>)
      /\ \A u \in Txn : Committed(u)' <=> Committed(u)
  BY <1>2, <1>4, RequestFacts
<1>10. \A u \in Txn : Executed(<<"begin", u>>)' <=> (Executed(<<"begin", u>>) \/ u = t)
  BY <1>2, <1>4, RequestFacts
<1>11. \A u \in Txn : Begun(u)' => u = t
  BY <1>6, <1>9, <1>10 DEF Begun
<1>12. Begun(t)'
  <2>1. ~Executed(<<"commit", t>>) /\ ~Executed(<<"rollback", t>>)
    <3>1. answer[<<"commit", t>>] = "unsent" /\ answer[<<"rollback", t>>] = "unsent"
      BY <1>5 DEF Unfinished
    <3>2. reply = None
      BY <1>1, InHand DEF Orderly
    <3> QED BY <3>1, <3>2 DEF Executed, Came, Final
  <2> QED BY <1>9, <1>10, <2>1 DEF Begun
<1>13. \A s \in Of(t) : ~Succeeded(s)' /\ ~Rejected(s)'
  <2> SUFFICES ASSUME NEW s \in Of(t) PROVE ~Succeeded(s) /\ ~Rejected(s)
    BY <1>8 DEF Of
  <2>1. answer[Run(s)] = "unsent"
    BY <1>5 DEF Courses, Course
  <2>2. reply = None
    BY <1>1, InHand DEF Orderly
  <2> QED BY <2>1, <2>2 DEF Succeeded, Rejected, Came
<1>14. ASSUME NEW u \in Txn PROVE Account(u)'
  <2>1. Begun(u)' => /\ u = t /\ Using(u)'
                     /\ session' = IF \E s \in Of(u) : Rejected(s)' THEN "failed" ELSE "open"
                     /\ pending' = {s \in Of(u) : Succeeded(s)'}
    BY <1>1, <1>2, <1>5, <1>7, <1>11, <1>13 DEF Using
  <2>2. ASSUME NEW s \in Of(u)
        PROVE  durable'[s] = IF /\ Committed(u)' /\ Succeeded(s)'
                                /\ \A r \in Of(u) : ~Rejected(r)'
                               THEN 1 ELSE 0
    <3>1. durable[s] = IF /\ Committed(u) /\ Succeeded(s)
                          /\ \A r \in Of(u) : ~Rejected(r)
                         THEN 1 ELSE 0
      BY DEF Tally, Orderly
    <3>2. (Succeeded(s)' <=> Succeeded(s)) /\ \A r \in Of(u) : Rejected(r)' <=> Rejected(r)
      BY <1>8 DEF Of
    <3> QED BY <1>1, <1>9, <3>1, <3>2
  <2> QED BY <2>1, <2>2 DEF Account, Of
<1>15. session' # "open" => pending' = {}
  BY <1>7
<1> QED BY <1>12, <1>14, <1>15 DEF Tally, Account

(* A statement that arrives finds its own transaction begun and not ended,  *)
(* or is on its own and finds none.                                         *)
LEMMA StatementTurn ==
  ASSUME OrderInv, QueuedOnce, Waits, Courses, Turns, Tally, Orderly,
         NEW s \in Stmt, answer[Run(s)] = "queued", reply = None
  PROVE  /\ \A t \in Txn : StmtTxn[s] = t => Begun(t)
         /\ \A u \in Txn : Begun(u) => StmtTxn[s] = u
         /\ ~Succeeded(s) /\ ~Rejected(s)
<1>1. ASSUME NEW t \in Txn, StmtTxn[s] = t PROVE Begun(t)
  <2>1. s \in Of(t)
    BY <1>1 DEF Of
  <2>2. Executed(<<"begin", t>>)
    BY <2>1 DEF Courses, Course, Executed
  <2>3. ASSUME NEW k \in {"commit", "rollback"}, Executed(<<k, t>>) PROVE FALSE
    <3>1. answer[<<k, t>>] \in Final
      BY <2>3 DEF Executed, Came
    <3> QED BY <2>1, <3>1, FinishedQuiet
  <2> QED BY <2>2, <2>3 DEF Begun
<1>2. ASSUME NEW u \in Txn, Begun(u) PROVE StmtTxn[s] = u
  BY <1>2 DEF Tally, Turns, Orderly
<1>3. ~Succeeded(s) /\ ~Rejected(s)
  BY DEF Succeeded, Rejected, Came
<1> QED BY <1>1, <1>2, <1>3

(* What the server does with a statement, whether it runs or rejects it.    *)
LEMMA StatementTally ==
  ASSUME OrderInv, QueuedOnce, Waits, Courses, Turns, Calm, Tally, Orderly,
         inbox # None, inbox[1] = "stmt", NEW ok \in BOOLEAN, Replies(ok),
         \A s \in Stmt : inbox = Run(s) =>
           IF ok THEN /\ session # "failed" /\ session' = session
                      /\ IF session = "open"
                           THEN pending' = pending \cup {s} /\ durable' = durable
                           ELSE durable' = [durable EXCEPT ![s] = @ + 1] /\ pending' = pending
                 ELSE /\ session' = IF session = "open" THEN "failed" ELSE session
                      /\ pending' = {} /\ durable' = durable
  PROVE  Tally'
<1>1. /\ inbox = item /\ reply = None /\ (item \in Request => answer[item] = "queued")
      /\ UNCHANGED <<call, answer>>
      /\ \A r \in Request : Executed(r)' <=> (Executed(r) \/ r = item)
      /\ \A t \in Txn : Committed(t)' <=> (Committed(t) \/ (item = <<"commit", t>> /\ ok))
      /\ \A s \in Stmt : /\ Succeeded(s)' <=> (Succeeded(s) \/ (item = Run(s) /\ ok))
                         /\ Rejected(s)' <=> (Rejected(s) \/ (item = Run(s) /\ ~ok))
  BY ReplyEffect
<1>2. item \in Request
  BY <1>1, RunFacts DEF OrderInv, TypeOK
<1>3. PICK s \in Stmt : item = Run(s)
  BY <1>1, <1>2, RunFacts
<1>4. /\ \A t \in Txn : StmtTxn[s] = t => Begun(t)
      /\ \A u \in Txn : Begun(u) => StmtTxn[s] = u
      /\ ~Succeeded(s) /\ ~Rejected(s)
  BY <1>1, <1>2, <1>3, StatementTurn
<1>5. /\ \A u \in Txn, k \in {"begin", "commit", "rollback"} : Executed(<<k, u>>)' <=> Executed(<<k, u>>)
      /\ \A u \in Txn : Committed(u)' <=> Committed(u)
  BY <1>1, <1>3, RequestFacts
<1>6. \A u \in Txn : (Begun(u)' <=> Begun(u)) /\ (Using(u)' <=> Using(u))
  BY <1>1, <1>5 DEF Begun, Using
<1>7. \A r \in Stmt : r # s => (Succeeded(r)' <=> Succeeded(r)) /\ (Rejected(r)' <=> Rejected(r))
  BY <1>1, <1>3, RunFacts
<1>8. (Succeeded(s)' <=> ok) /\ (Rejected(s)' <=> ~ok)
  BY <1>1, <1>3, <1>4
<1>9. /\ session # "open" => pending = {}
      /\ session # "idle" => \E t \in Txn : Begun(t)
      /\ \A t \in Txn : Account(t)
      /\ durable \in [Stmt -> Nat] /\ session \in {"idle", "open", "failed", "gone"}
  BY DEF Tally, Orderly, OrderInv, TypeOK, Account
<1>10. IF ok THEN /\ session # "failed" /\ session' = session
                  /\ IF session = "open"
                       THEN pending' = pending \cup {s} /\ durable' = durable
                       ELSE durable' = [durable EXCEPT ![s] = @ + 1] /\ pending' = pending
             ELSE /\ session' = IF session = "open" THEN "failed" ELSE session
                  /\ pending' = {} /\ durable' = durable
  BY <1>1, <1>3
<1>11. ASSUME NEW t \in Txn, StmtTxn[s] = t
       PROVE  Account(t)'
  <2>1. Begun(t) /\ Begun(t)' /\ Using(t)' /\ s \in Of(t) /\ Of(t)' = Of(t) /\ Of(t) \subseteq Stmt
    BY <1>4, <1>6, <1>9, <1>11 DEF Of, Account
  <2>2. /\ session = IF \E r \in Of(t) : Rejected(r) THEN "failed" ELSE "open"
        /\ session = "open" => pending = {r \in Of(t) : Succeeded(r)}
    BY <1>9, <2>1 DEF Account
  <2>3. ~Committed(t)'
    <3>1. ~Executed(<<"commit", t>>)'
      BY <2>1 DEF Begun
    <3> QED BY <3>1 DEF Committed, Executed, Final, Answer
  <2>4. \A r \in Of(t) : durable[r] = 0
    BY <1>5, <1>9, <2>3 DEF Account
  <2>5. durable' = durable
    BY <1>10, <2>2
  <2>6. session' = IF \E r \in Of(t) : Rejected(r)' THEN "failed" ELSE "open"
    <3>1. CASE ok
      BY <1>7, <1>8, <1>10, <2>1, <2>2, <3>1
    <3>2. CASE ~ok
      BY <1>8, <1>10, <2>1, <2>2, <3>2
    <3> QED BY <3>1, <3>2
  <2>7. ASSUME session' = "open" PROVE pending' = {r \in Of(t) : Succeeded(r)'}
    <3>1. ok /\ session = "open"
      BY <1>8, <2>1, <2>6, <2>7, <1>10
    <3>2. pending' = {r \in Of(t) : Succeeded(r)} \cup {s}
      BY <1>10, <2>2, <3>1
    <3> QED BY <1>7, <1>8, <2>1, <3>1, <3>2
  <2> QED BY <2>1, <2>3, <2>4, <2>5, <2>6, <2>7 DEF Account
<1>12. ASSUME NEW u \in Txn, StmtTxn[s] # u PROVE Account(u)'
  <2>1. ~Begun(u)' /\ Of(u)' = Of(u) /\ \A r \in Of(u) : r \in Stmt /\ r # s
    BY <1>4, <1>6, <1>12 DEF Of
  <2>2. \A r \in Of(u) : durable'[r] = durable[r]
    BY <1>9, <1>10, <2>1
  <2>3. ASSUME NEW r \in Of(u)
        PROVE  durable'[r] = IF /\ Committed(u)' /\ Succeeded(r)'
                                /\ \A q \in Of(u) : ~Rejected(q)'
                               THEN 1 ELSE 0
    <3>1. durable[r] = IF /\ Committed(u) /\ Succeeded(r)
                          /\ \A q \in Of(u) : ~Rejected(q)
                         THEN 1 ELSE 0
      BY <1>9 DEF Account
    <3>2. (Succeeded(r)' <=> Succeeded(r)) /\ \A q \in Of(u) : Rejected(q)' <=> Rejected(q)
      BY <1>7, <2>1
    <3> QED BY <1>5, <2>2, <3>1, <3>2
  <2> QED BY <2>1, <2>3 DEF Account
<1>13. session' # "open" => pending' = {}
  BY <1>9, <1>10
<1>14. session' # "idle" => \E t \in Txn : Begun(t)'
  BY <1>6, <1>9, <1>10
<1> QED BY <1>11, <1>12, <1>13, <1>14 DEF Tally, Account

(* COMMIT and ROLLBACK come from the transaction that was begun, and after  *)
(* them, whatever the server says, none is.                                 *)
LEMMA EndTurn ==
  ASSUME OrderInv, QueuedOnce, Courses, Turns, Calm, Tally, Orderly,
         inbox # None, inbox[1] \in {"commit", "rollback"}, NEW ok \in BOOLEAN, Replies(ok)
  PROVE  \E t \in Txn, k \in {"commit", "rollback"} :
           /\ inbox[1] = k /\ Begun(t)
           /\ \A u \in Txn : ~Begun(u)'
           /\ \A u \in Txn : Committed(u)' <=> (Committed(u) \/ (k = "commit" /\ u = t /\ ok))
           /\ \A s \in Stmt : (Succeeded(s)' <=> Succeeded(s)) /\ (Rejected(s)' <=> Rejected(s))
<1>1. /\ inbox = item /\ reply = None /\ (item \in Request => answer[item] = "queued")
      /\ \A r \in Request : Executed(r)' <=> (Executed(r) \/ r = item)
      /\ \A u \in Txn : Committed(u)' <=> (Committed(u) \/ (item = <<"commit", u>> /\ ok))
      /\ \A s \in Stmt : /\ Succeeded(s)' <=> (Succeeded(s) \/ (item = Run(s) /\ ok))
                         /\ Rejected(s)' <=> (Rejected(s) \/ (item = Run(s) /\ ~ok))
  BY ReplyEffect
<1>2. item \in Request
  BY <1>1, RunFacts DEF OrderInv, TypeOK
<1>3. PICK t \in Txn : item = <<item[1], t>>
  BY <1>1, <1>2, RunFacts
<1>4. PICK k \in {"commit", "rollback"} : item = <<k, t>> /\ inbox[1] = k
  BY <1>1, <1>3
<1>5. answer[<<k, t>>] = "queued"
  BY <1>1, <1>2, <1>4
<1>6. k = m_state[t] /\ call[t] = "waiting"
  BY <1>5 DEF Courses, Course, Final
<1>7. Using(t) /\ answer[<<"begin", t>>] \in Final
  BY <1>6 DEF Using, Courses, Course
<1>8. Begun(t)
  <2>1. \A e \in {"commit", "rollback"} : answer[<<e, t>>] \notin Final
    BY <1>5, <1>6 DEF Courses, Course, Final
  <2> QED BY <1>1, <1>7, <2>1 DEF Begun, Executed, Came
<1>9. \A u \in Txn : Begun(u) => u = t
  BY <1>7, OneBegun
<1>10. \A s \in Stmt : (Succeeded(s)' <=> Succeeded(s)) /\ (Rejected(s)' <=> Rejected(s))
  BY <1>1, <1>4, RequestFacts
<1>11. \A u \in Txn, e \in {"begin", "commit", "rollback"} :
         Executed(<<e, u>>)' <=> (Executed(<<e, u>>) \/ (e = k /\ u = t))
  BY <1>1, <1>4, RequestFacts
<1>12. \A u \in Txn : ~Begun(u)'
  BY <1>8, <1>9, <1>11 DEF Begun
<1>13. \A u \in Txn : Committed(u)' <=> (Committed(u) \/ (k = "commit" /\ u = t /\ ok))
  BY <1>1, <1>4
<1> QED BY <1>4, <1>8, <1>10, <1>12, <1>13

(* COMMIT and ROLLBACK end the transaction that was begun: what it executed *)
(* becomes durable, unless one of its statements was rejected.              *)
LEMMA EndTally ==
  ASSUME OrderInv, QueuedOnce, Courses, Turns, Calm, Tally, Orderly, ServerEnds
  PROVE  Tally'
<1>1. /\ inbox # None /\ inbox[1] \in {"commit", "rollback"} /\ Replies(TRUE)
      /\ session' = "idle" /\ pending' = {}
      /\ durable' = [s \in Stmt |-> durable[s] + IF inbox[1] = "commit" /\ s \in pending THEN 1 ELSE 0]
  BY DEF ServerEnds, Arrives
<1>2. PICK t \in Txn, k \in {"commit", "rollback"} :
           /\ inbox[1] = k /\ Begun(t)
           /\ \A u \in Txn : ~Begun(u)'
           /\ \A u \in Txn : Committed(u)' <=> (Committed(u) \/ (k = "commit" /\ u = t /\ TRUE))
           /\ \A s \in Stmt : (Succeeded(s)' <=> Succeeded(s)) /\ (Rejected(s)' <=> Rejected(s))
  BY <1>1, EndTurn
<1>3. /\ \A u \in Txn : Account(u) /\ Of(u)' = Of(u) /\ Of(u) \subseteq Stmt
      /\ session # "open" => pending = {}
      /\ durable \in [Stmt -> Nat]
  BY DEF Tally, Orderly, Account, Of, OrderInv, TypeOK
<1>4. /\ session = IF \E s \in Of(t) : Rejected(s) THEN "failed" ELSE "open"
      /\ session = "open" => pending = {s \in Of(t) : Succeeded(s)}
  BY <1>2, <1>3 DEF Account
<1>5. \A s \in Of(t) : s \in pending <=> Succeeded(s) /\ \A r \in Of(t) : ~Rejected(r)
  BY <1>3, <1>4
<1>6. \A s \in pending : s \in Of(t)
  BY <1>3, <1>4
<1>7. ASSUME NEW u \in Txn, NEW s \in Of(u)
      PROVE  durable'[s] = IF /\ Committed(u)' /\ Succeeded(s)'
                              /\ \A r \in Of(u) : ~Rejected(r)'
                             THEN 1 ELSE 0
  <2>1. s \in Stmt /\ StmtTxn[s] = u /\ durable[s] \in Nat
    BY <1>3 DEF Of
  <2>2. durable'[s] = durable[s] + IF k = "commit" /\ s \in pending THEN 1 ELSE 0
    BY <1>1, <1>2, <2>1
  <2>3. durable[s] = IF /\ Committed(u) /\ Succeeded(s)
                        /\ \A r \in Of(u) : ~Rejected(r)
                       THEN 1 ELSE 0
    BY <1>3 DEF Account
  <2>4. (Succeeded(s)' <=> Succeeded(s)) /\ \A r \in Of(u) : Rejected(r)' <=> Rejected(r)
    BY <1>2, <2>1 DEF Of
  <2>5. CASE u # t
    <3>1. s \notin pending
      BY <1>6, <2>1, <2>5 DEF Of
    <3>2. Committed(u)' <=> Committed(u)
      BY <1>2, <2>5
    <3>3. durable'[s] = durable[s]
      BY <2>1, <2>2, <3>1
    <3> QED BY <2>3, <2>4, <3>2, <3>3
  <2>6. CASE u = t
    <3>1. ~Committed(t)
      BY <1>2 DEF Begun, Committed, Executed, Final, Answer
    <3>2. durable[s] = 0
      BY <2>3, <2>6, <3>1
    <3>3. Committed(t)' <=> k = "commit"
      BY <1>2, <3>1
    <3>4. durable'[s] = IF k = "commit" /\ s \in pending THEN 1 ELSE 0
      BY <2>2, <3>2
    <3>5. s \in pending <=> Succeeded(s) /\ \A r \in Of(u) : ~Rejected(r)
      BY <1>5, <2>6
    <3> QED BY <2>4, <2>6, <3>3, <3>4, <3>5
  <2> QED BY <2>5, <2>6
<1>8. \A u \in Txn : Account(u)'
  BY <1>2, <1>3, <1>7 DEF Account
<1> QED BY <1>1, <1>8 DEF Tally, Account

(* A COMMIT that is refused ends it too, and nothing becomes durable.       *)
LEMMA RefusalTally ==
  ASSUME OrderInv, QueuedOnce, Courses, Turns, Calm, Tally, Orderly, ServerRefusesCommit
  PROVE  Tally'
<1>1. /\ inbox # None /\ inbox[1] \in {"commit", "rollback"} /\ Replies(FALSE)
      /\ session' = "idle" /\ pending' = {} /\ durable' = durable
  BY DEF ServerRefusesCommit, Arrives
<1>2. /\ \A u \in Txn : ~Begun(u)'
      /\ \A u \in Txn : Committed(u)' <=> Committed(u)
      /\ \A s \in Stmt : (Succeeded(s)' <=> Succeeded(s)) /\ (Rejected(s)' <=> Rejected(s))
  BY <1>1, EndTurn
<1>3. \A u \in Txn : Account(u) /\ Of(u)' = Of(u) /\ Of(u) \subseteq Stmt
  BY DEF Tally, Orderly, Account, Of
<1>4. ASSUME NEW u \in Txn, NEW s \in Of(u)
      PROVE  durable'[s] = IF /\ Committed(u)' /\ Succeeded(s)'
                              /\ \A r \in Of(u) : ~Rejected(r)'
                             THEN 1 ELSE 0
  <2>1. durable[s] = IF /\ Committed(u) /\ Succeeded(s)
                        /\ \A r \in Of(u) : ~Rejected(r)
                       THEN 1 ELSE 0
    BY <1>3 DEF Account
  <2>2. (Succeeded(s)' <=> Succeeded(s)) /\ \A r \in Of(u) : Rejected(r)' <=> Rejected(r)
    BY <1>2, <1>3
  <2> QED BY <1>1, <1>2, <2>1, <2>2
<1>5. \A u \in Txn : Account(u)'
  BY <1>2, <1>3, <1>4 DEF Account
<1> QED BY <1>1, <1>5 DEF Tally, Account

(* Every step keeps the tally.                                              *)
LEMMA TallyStep ==
  ASSUME OrderInv, QueuedOnce, OpenOwned, Waits, Courses, Turns, Calm, Tally, [Next]_vars
  PROVE  Tally'
<1> SUFFICES ASSUME Exclusive, losses' = 0, timeouts' = 0 PROVE Tally'
  BY DEF Tally
<1>1. /\ Orderly
      /\ ~ResetSucceeds /\ ~ResetFails /\ ~SendRefused /\ ~PollFails /\ ~LossSeen /\ ~Lose
      /\ ~NoSocket /\ ~ConsumeLoses
  BY CalmSteps DEF Orderly, OrderInv
<1>2. ASSUME UNCHANGED <<session, pending, durable, reply, answer, call>> PROVE Tally'
  <2>1. /\ \A r \in Control : Executed(r)' <=> Executed(r)
        /\ \A t \in Txn : Committed(t)' <=> Committed(t)
        /\ \A s \in Stmt : (Succeeded(s)' <=> Succeeded(s)) /\ (Rejected(s)' <=> Rejected(s))
        /\ \A t \in Txn : Begun(t) /\ Using(t) => Using(t)'
    BY <1>2 DEF Executed, Committed, Succeeded, Rejected, Came, Using
  <2> QED BY <1>1, <1>2, <2>1, TallyKept
<1>3. CASE Take \/ TakeBeat \/ CheckConnected \/ SendAccepted
  <2>1. UNCHANGED <<session, pending, durable, reply, answer, call>>
    BY <1>3 DEF Take, TakeBeat, CheckConnected, SendAccepted, txnVars, linkVars, serverVars
  <2> QED BY <1>2, <2>1
<1>4. CASE UNCHANGED vars
  BY <1>2, <1>4 DEF vars, txnVars, linkVars, serverVars
<1>5. CASE ServerRuns
  <2>1. /\ inbox # None /\ inbox[1] = "stmt" /\ Replies(TRUE)
        /\ \A s \in Stmt : inbox = Run(s) =>
             /\ session # "failed" /\ session' = session
             /\ IF session = "open"
                  THEN pending' = pending \cup {s} /\ durable' = durable
                  ELSE durable' = [durable EXCEPT ![s] = @ + 1] /\ pending' = pending
    <3>1. /\ session # "failed" /\ session' = session
          /\ IF session = "open"
               THEN pending' = pending \cup {inbox[2]} /\ durable' = durable
               ELSE durable' = [durable EXCEPT ![inbox[2]] = @ + 1] /\ pending' = pending
      BY <1>5 DEF ServerRuns
    <3>2. \A s \in Stmt : inbox = Run(s) => inbox[2] = s
      BY RunFacts
    <3>3. inbox # None /\ inbox[1] = "stmt" /\ Replies(TRUE)
      BY <1>5 DEF ServerRuns, Arrives
    <3> QED BY <3>1, <3>2, <3>3
  <2> QED BY <1>1, <2>1, StatementTally
<1>6. CASE ServerRejects
  <2>1. /\ inbox # None /\ inbox[1] = "stmt" /\ Replies(FALSE)
        /\ session' = IF session = "open" THEN "failed" ELSE session
        /\ pending' = {} /\ durable' = durable
    BY <1>6 DEF ServerRejects, Arrives
  <2> QED BY <1>1, <2>1, StatementTally
<1>7. CASE ServerStep
  BY <1>1, <1>5, <1>6, <1>7, BeginTally, EndTally, RefusalTally, PingTally DEF ServerStep
<1>8. CASE WorkerStep
  BY <1>1, <1>3, <1>8, ConsumeTally DEF WorkerStep
<1>9. CASE \/ \E t \in Txn : OwnerStep(t)
           \/ \E s \in Stmt : CallerStep(s)
  BY <1>1, <1>9, CallerTally
<1> QED BY <1>1, <1>3, <1>4, <1>7, <1>8, <1>9 DEF Next

-----------------------------------------------------------------------------
(* The theorems                                                             *)

(* Nothing was sent, executed or answered yet.                              *)
LEMMA InitAtomic == Init => AtomicInv
<1> SUFFICES ASSUME Init PROVE AtomicInv
  OBVIOUS
<1>0. /\ \A s \in Stmt : Run(s) \in Request
      /\ \A t \in Txn, k \in {"begin", "commit", "rollback"} : <<k, t>> \in Request
  BY RequestFacts
<1>1. /\ \A r \in Request : answer[r] = "unsent"
      /\ \A t \in Txn : call[t] = "none" /\ holder[t] = None
      /\ \A s \in Stmt : durable[s] = 0
      /\ session = "idle" /\ pending = {} /\ reply = None /\ ~busy /\ pc = "idle" /\ attempts = 1
      /\ status = "ok"
  BY DEF Init
<1>2. Waits
  BY <1>1 DEF Waits
<1>3. Courses
  BY <1>0, <1>1 DEF Courses, Course, Of
<1>4. Turns
  BY <1>1 DEF Turns, Using
<1>5. Calm
  BY <1>1 DEF Calm
<1>6. /\ \A r \in Request : ~Executed(r)
      /\ \A t \in Txn : ~Committed(t)
  BY <1>0, <1>1 DEF Executed, Committed, Came, Final
<1>7. Tally
  BY <1>0, <1>1, <1>6 DEF Tally, Begun, Of
<1> QED BY <1>2, <1>3, <1>4, <1>5, <1>7 DEF AtomicInv

(* In every reachable state the server's transaction is that of the         *)
(* transaction object in use, as long as objects do not share the client    *)
(* and nothing fails.                                                       *)
THEOREM AtomicInvariance == Spec => []AtomicInv
<1>1. Init => AtomicInv
  BY InitAtomic
<1>2. IInv /\ AtomicInv /\ [Next]_vars => AtomicInv'
  BY WaitsStep, CoursesStep, TurnsStep, CalmStep, TallyStep DEF IInv, OutcomeInv, AtomicInv
<1>3. Spec => []AtomicInv
  BY <1>1, <1>2, OutcomeInvariance, PTL DEF Spec
<1> QED BY <1>3

(* commit() makes all of a transaction durable or, when the server rejected *)
(* COMMIT or one of the statements, nothing; rollback(), the destructor and a         *)
(* transaction that was not ended leave nothing: as long as transactions do *)
(* not share the client and nothing fails.                                  *)
THEOREM AtomicCorrect == Spec => []Atomic
<1>1. IInv /\ AtomicInv => Atomic
  <2> SUFFICES ASSUME IInv, AtomicInv, Orderly, NEW t \in Txn
               PROVE  /\ m_state[t] # "commit" => \A s \in Of(t) : durable[s] = 0
                      /\ m_state[t] = "commit" /\ call[t] = "done" =>
                           \A s \in Of(t) :
                               durable[s] = IF /\ answer[<<"commit", t>>] = "ok"
                                               /\ answer[Run(s)] = "ok"
                                               /\ \A r \in Of(t) : answer[Run(r)] # "QueryFailed"
                                              THEN 1 ELSE 0
    BY DEF Atomic, Orderly
  <2>1. \A r \in Request : Came(r) => answer[r] = "queued"
    BY InHand DEF IInv, OutcomeInv, AtomicInv, Orderly, Came, QueuedOnce
  <2>2. /\ Course(t) /\ <<"commit", t>> \in Request /\ \A s \in Of(t) : Run(s) \in Request
        /\ \A s \in Of(t) : durable[s] = IF /\ Committed(t) /\ Succeeded(s)
                                            /\ \A r \in Of(t) : ~Rejected(r)
                                           THEN 1 ELSE 0
    BY RequestFacts DEF AtomicInv, Courses, Tally, Orderly, Of
  <2>3. ASSUME m_state[t] # "commit" PROVE \A s \in Of(t) : durable[s] = 0
    <3>1. ~Committed(t)
      BY <2>1, <2>2, <2>3 DEF Course, Committed
    <3> QED BY <2>2, <3>1
  <2>4. ASSUME m_state[t] = "commit", call[t] = "done", NEW s \in Of(t)
        PROVE  durable[s] = IF /\ answer[<<"commit", t>>] = "ok"
                               /\ answer[Run(s)] = "ok"
                               /\ \A r \in Of(t) : answer[Run(r)] # "QueryFailed"
                              THEN 1 ELSE 0
    <3>1. Committed(t) <=> answer[<<"commit", t>>] = "ok"
      BY <2>1, <2>2, <2>4 DEF Course, Committed, Final
    <3>2. \A r \in Of(t) : ~Came(Run(r))
      BY <2>1, <2>2, <2>4 DEF Course
    <3>3. (Succeeded(s) <=> answer[Run(s)] = "ok")
          /\ \A r \in Of(t) : Rejected(r) <=> answer[Run(r)] = "QueryFailed"
      BY <3>2 DEF Succeeded, Rejected
    <3> QED BY <2>2, <3>1, <3>3
  <2> QED BY <2>3, <2>4
<1> QED BY <1>1, OutcomeInvariance, AtomicInvariance, PTL

=============================================================================
