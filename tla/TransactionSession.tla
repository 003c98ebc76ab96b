-------------------------- MODULE TransactionSession --------------------------
(***************************************************************************)
(* What a statement and a transaction go through between the application   *)
(* and the server: transaction objects with their m_mutex and m_state, the *)
(* FIFO m_requests, the worker's ExecuteWithRetry with its reconnection    *)
(* and its polls, and the one session that all of them share.              *)
(*                                                                         *)
(* The threads that wait in m_requests and call back are the subject of    *)
(* ClientRuntime; here a request is queued, executed and answered.  libpq  *)
(* and the server are external: libpq refuses a statement while an earlier *)
(* one is unanswered, the server answers in order, the link can break at   *)
(* any moment and an answer can come too late.                             *)
(***************************************************************************)
EXTENDS Integers, Sequences, FiniteSets

CONSTANTS
    Txn,          \* transaction objects
    Stmt,         \* statements that the application executes
    StmtTxn,      \* the transaction a statement is executed through, or None
    Failing,      \* statements the server rejects
    None,
    Exclusive,    \* the application uses one transaction at a time and nothing else meanwhile
    MaxLosses,    \* bound on broken links and failed reconnections
    MaxTimeouts,  \* bound on polls that time out or fail
    MaxBeats      \* bound on heartbeats

(* The statements of the library itself and those of the application        *)
Control == {"begin", "commit", "rollback"} \X Txn
Request == Control \cup ({"stmt"} \X Stmt)
Beat    == <<"beat", None>>
Run(s)  == <<"stmt", s>>

ASSUME SessionAssumption ==
    /\ StmtTxn \in [Stmt -> Txn \cup {None}]
    /\ Failing \subseteq Stmt
    /\ None \notin Txn \cup Stmt \cup Request \cup {Beat}
    /\ None \notin [to : Request \cup {Beat}, ok : BOOLEAN]
    /\ Exclusive \in BOOLEAN
    /\ MaxLosses \in Nat /\ MaxTimeouts \in Nat /\ MaxBeats \in Nat

VARIABLES
    m_state,      \* of each transaction
    holder,       \* the statement whose caller holds the transaction's m_mutex
    call,         \* what the owner of each transaction object does
    destroyed,    \* objects whose destructor has begun
    m_requests,   \* the queue of the worker
    answer,       \* what the future or the callback of a request got
    pc,           \* the worker in ExecuteWithRetry
    item,         \* its request
    attempts,
    status,       \* PQstatus as is_connected() sees it
    busy,         \* libpq waits for the result of a statement
    inbox,        \* the statement on its way to the server
    reply,        \* the result on its way back
    session,      \* the server's side of the connection
    pending,      \* statements done in the server's open transaction
    durable,      \* how often the effects of each statement were committed
    ran,          \* how often the server executed each statement
    losses, timeouts, beats

txnVars    == <<m_state, holder, call, destroyed>>
workerVars == <<pc, item, attempts>>
linkVars   == <<status, busy, inbox, reply>>
serverVars == <<session, pending, durable, ran>>
bounds     == <<losses, timeouts, beats>>
vars == <<txnVars, m_requests, answer, workerVars, linkVars, serverVars, bounds>>

CallState == {"none", "beginning", "open", "finishing", "waiting", "done"}
Answer == {"unsent", "queued", "ok", "QueryFailed", "BadConnection", "SocketFailed",
           "FailedToReconnect", "TransactionRolledBack"}
Final  == Answer \ {"unsent", "queued"}

Init ==
    /\ m_state = [t \in Txn |-> "active"]
    /\ holder = [t \in Txn |-> None]
    /\ call = [t \in Txn |-> "none"]
    /\ destroyed = {}
    /\ m_requests = <<>>
    /\ answer = [r \in Request |-> "unsent"]
    /\ pc = "idle" /\ item = None /\ attempts = 1
    /\ status = "ok" /\ busy = FALSE /\ inbox = None /\ reply = None
    /\ session = "idle" /\ pending = {}
    /\ durable = [s \in Stmt |-> 0]
    /\ ran = [s \in Stmt |-> 0]
    /\ losses = 0 /\ timeouts = 0 /\ beats = 0

-----------------------------------------------------------------------------
(* The application's side: transaction objects                              *)

Send(r) == /\ m_requests' = Append(m_requests, r)
           /\ answer' = [answer EXCEPT ![r] = "queued"]

Using(t) == call[t] \notin {"none", "done"}

CreateTransaction(t) ==
    /\ call[t] = "none"
    /\ Exclusive => /\ \A u \in Txn : ~Using(u)
                    /\ \A s \in Stmt : answer[Run(s)] # "queued"
    /\ Send(<<"begin", t>>)
    /\ call' = [call EXCEPT ![t] = "beginning"]
    /\ UNCHANGED <<m_state, holder, destroyed, workerVars, linkVars, serverVars, bounds>>

(* Without the BEGIN the caller gets nullptr and the object is destroyed    *)
BeginAnswered(t) ==
    /\ call[t] = "beginning"
    /\ answer[<<"begin", t>>] \in Final
    /\ call' = [call EXCEPT ![t] = "open"]
    /\ destroyed' = IF answer[<<"begin", t>>] = "ok" THEN destroyed ELSE destroyed \cup {t}
    /\ UNCHANGED <<m_state, holder, m_requests, answer, workerVars, linkVars, serverVars, bounds>>

(* execute and execute_async: m_mutex is held until the statement is queued *)
ExecuteLocks(s, t) ==
    /\ StmtTxn[s] = t /\ answer[Run(s)] = "unsent"
    /\ call[t] \in {"open", "finishing", "waiting", "done"} /\ t \notin destroyed
    /\ holder[t] = None
    /\ IF m_state[t] = "active"
         THEN holder' = [holder EXCEPT ![t] = s] /\ UNCHANGED answer
         ELSE answer' = [answer EXCEPT ![Run(s)] = "TransactionRolledBack"] /\ UNCHANGED holder
    /\ UNCHANGED <<m_state, call, destroyed, m_requests, workerVars, linkVars, serverVars, bounds>>

ExecuteSends(s, t) ==
    /\ holder[t] = s
    /\ Send(Run(s))
    /\ holder' = [holder EXCEPT ![t] = None]
    /\ UNCHANGED <<m_state, call, destroyed, workerVars, linkVars, serverVars, bounds>>

(* postgres_client::execute, past any transaction                           *)
ExecutePlain(s) ==
    /\ StmtTxn[s] = None /\ answer[Run(s)] = "unsent"
    /\ Exclusive => \A t \in Txn : ~Using(t)
    /\ Send(Run(s))
    /\ UNCHANGED <<txnVars, workerVars, linkVars, serverVars, bounds>>

(* The last pointer to the object goes, outside any call                    *)
Drop(t) ==
    /\ call[t] = "open" /\ holder[t] = None
    /\ destroyed' = destroyed \cup {t}
    /\ UNCHANGED <<m_state, holder, call, m_requests, answer, workerVars, linkVars, serverVars, bounds>>

(* Seeded fault: m_state is set without m_mutex                             *)
FinishUnlocked(t, state) ==
    /\ call[t] = "open" /\ (t \in destroyed => state = "rollback")
    /\ m_state[t] = "active"
    /\ m_state' = [m_state EXCEPT ![t] = state]
    /\ call' = [call EXCEPT ![t] = "finishing"]
    /\ UNCHANGED <<holder, destroyed, m_requests, answer, workerVars, linkVars, serverVars, bounds>>

(* Seeded fault: the destructor only marks the transaction rolled back      *)
FinishForgetsRollback(t, state) ==
    /\ call[t] = "open" /\ (t \in destroyed => state = "rollback")
    /\ holder[t] = None /\ m_state[t] = "active"
    /\ m_state' = [m_state EXCEPT ![t] = state]
    /\ call' = [call EXCEPT ![t] = IF t \in destroyed THEN "done" ELSE "finishing"]
    /\ UNCHANGED <<holder, destroyed, m_requests, answer, workerVars, linkVars, serverVars, bounds>>

(* commit, rollback and the destructor mark the transaction under m_mutex   *)
Finish(t, state) ==
    /\ call[t] = "open" /\ (t \in destroyed => state = "rollback")
    /\ holder[t] = None /\ m_state[t] = "active"
    /\ m_state' = [m_state EXCEPT ![t] = state]
    /\ call' = [call EXCEPT ![t] = "finishing"]
    /\ UNCHANGED <<holder, destroyed, m_requests, answer, workerVars, linkVars, serverVars, bounds>>

(* ... and send COMMIT or ROLLBACK after they have unlocked it              *)
FinishSends(t) ==
    /\ call[t] = "finishing"
    /\ Send(<<m_state[t], t>>)
    /\ call' = [call EXCEPT ![t] = "waiting"]
    /\ UNCHANGED <<m_state, holder, destroyed, workerVars, linkVars, serverVars, bounds>>

(* Whatever the answer is, it is only printed                               *)
FinishAnswered(t) ==
    /\ call[t] = "waiting"
    /\ answer[<<m_state[t], t>>] \in Final
    /\ call' = [call EXCEPT ![t] = "done"]
    /\ UNCHANGED <<m_state, holder, destroyed, m_requests, answer, workerVars, linkVars, serverVars, bounds>>

-----------------------------------------------------------------------------
(* The worker: ExecuteWithRetry                                             *)

Take ==
    /\ pc = "idle" /\ m_requests # <<>>
    /\ item' = Head(m_requests)
    /\ m_requests' = Tail(m_requests)
    /\ attempts' = 1 /\ pc' = "check"
    /\ UNCHANGED <<txnVars, answer, linkVars, serverVars, bounds>>

(* The heartbeat executes SELECT 1 in the same session                      *)
TakeBeat ==
    /\ pc = "idle" /\ beats < MaxBeats
    /\ beats' = beats + 1
    /\ item' = Beat
    /\ attempts' = 1 /\ pc' = "check"
    /\ UNCHANGED <<txnVars, m_requests, answer, linkVars, serverVars, losses, timeouts>>

AnswerItem(a) ==
    /\ answer' = IF item = Beat THEN answer ELSE [answer EXCEPT ![item] = a]
    /\ pc' = "idle" /\ item' = None /\ attempts' = 1

CheckConnected ==
    /\ pc = "check"
    /\ pc' = IF status = "ok" THEN "send" ELSE "reset"
    /\ UNCHANGED <<txnVars, m_requests, answer, item, attempts, linkVars, serverVars, bounds>>

(* PQresetStart closes the connection, and with it the server's session     *)
Reset ==
    /\ pc = "reset"
    /\ busy' = FALSE /\ inbox' = None /\ reply' = None
    /\ pending' = {}
    /\ UNCHANGED <<durable, ran>>

ResetSucceeds ==
    /\ Reset
    /\ status' = "ok" /\ session' = "idle"
    /\ pc' = "send"
    /\ UNCHANGED <<txnVars, m_requests, answer, item, attempts, bounds>>

(* Seeded fault: the loop goes on after a failed reconnection               *)
ResetFailsSilently ==
    /\ losses < MaxLosses /\ losses' = losses + 1
    /\ Reset
    /\ status' = "bad" /\ session' = "gone"
    /\ pc' = "idle" /\ item' = None /\ attempts' = 1
    /\ UNCHANGED <<txnVars, m_requests, answer, timeouts, beats>>

(* The connection is bad, or good but cannot be made nonblocking            *)
ResetFails ==
    /\ losses < MaxLosses /\ losses' = losses + 1
    /\ Reset
    /\ \/ status' = "bad" /\ session' = "gone"
       \/ status' = "ok" /\ session' = "idle"
    /\ AnswerItem("FailedToReconnect")
    /\ UNCHANGED <<txnVars, m_requests, timeouts, beats>>

(* Seeded fault: BadConnection is retried on every attempt                  *)
RetryAlways ==
    /\ attempts' = attempts + 1 /\ pc' = "reset"
    /\ UNCHANGED <<item, answer>>

(* A bad connection on the first attempt is reset and the request retried   *)
RetryOrAnswer ==
    IF attempts = 1
      THEN attempts' = 2 /\ pc' = "reset" /\ UNCHANGED <<item, answer>>
      ELSE AnswerItem("BadConnection")

(* PQsendQueryParams fails: an earlier statement is unanswered, or the link *)
(* is found broken                                                          *)
SendRefused ==
    /\ pc = "send"
    /\ busy \/ session = "gone"
    /\ RetryOrAnswer
    /\ UNCHANGED <<txnVars, m_requests, linkVars, serverVars, bounds>>

(* PQsocket has none to give                                                *)
NoSocket ==
    /\ pc = "send" /\ session = "gone"
    /\ AnswerItem("SocketFailed")
    /\ UNCHANGED <<txnVars, m_requests, linkVars, serverVars, bounds>>

(* Seeded fault: the result of PQsendQueryParams is not checked             *)
SendUnchecked ==
    /\ pc = "send"
    /\ inbox' = IF session = "gone" \/ busy THEN inbox ELSE item
    /\ busy' = TRUE /\ pc' = "await"
    /\ UNCHANGED <<txnVars, m_requests, answer, item, attempts, status, reply, serverVars, bounds>>

SendAccepted ==
    /\ pc = "send" /\ ~busy
    /\ inbox' = IF session = "gone" THEN None ELSE item
    /\ busy' = TRUE /\ pc' = "await"
    /\ UNCHANGED <<txnVars, m_requests, answer, item, attempts, status, reply, serverVars, bounds>>

(* Seeded fault: a poll that fails is retried like a bad connection         *)
PollFailsRetried ==
    /\ pc = "await" /\ timeouts < MaxTimeouts
    /\ timeouts' = timeouts + 1
    /\ inbox' \in {inbox, None}
    /\ RetryOrAnswer
    /\ UNCHANGED <<txnVars, m_requests, status, busy, reply, serverVars, losses, beats>>

(* CheckForPollOut or CheckForPollIn times out or fails: the request is     *)
(* answered while the statement may still reach the server                  *)
PollFails ==
    /\ pc = "await" /\ timeouts < MaxTimeouts
    /\ timeouts' = timeouts + 1
    /\ inbox' \in {inbox, None}
    /\ AnswerItem("SocketFailed")
    /\ UNCHANGED <<txnVars, m_requests, status, busy, reply, serverVars, losses, beats>>

(* PQconsumeInput finds the connection closed                               *)
LossSeen ==
    /\ pc = "await" /\ session = "gone" /\ reply = None
    /\ status' = "bad"
    /\ RetryOrAnswer
    /\ UNCHANGED <<txnVars, m_requests, busy, inbox, reply, serverVars, bounds>>

(* Seeded fault: the status of the result is not looked at                  *)
ConsumeUnchecked ==
    /\ pc = "await" /\ reply # None
    /\ AnswerItem("ok")
    /\ busy' = FALSE /\ reply' = None
    /\ UNCHANGED <<txnVars, m_requests, status, inbox, serverVars, bounds>>

(* ConsumeResult: every result is read, an error makes it QueryFailed       *)
Consume ==
    /\ pc = "await" /\ reply # None
    /\ AnswerItem(IF reply.ok THEN "ok" ELSE "QueryFailed")
    /\ busy' = FALSE /\ reply' = None
    /\ UNCHANGED <<txnVars, m_requests, status, inbox, serverVars, bounds>>

(* The link breaks while PQgetResult is called for the results, or a FATAL  *)
(* message is one of them: QueryFailed and no retry, whatever was read and  *)
(* whatever the server has done                                             *)
ConsumeLoses ==
    /\ pc = "await" /\ session = "gone"
    /\ AnswerItem("QueryFailed")
    /\ status' = "bad" /\ busy' = FALSE /\ inbox' = None /\ reply' = None
    /\ UNCHANGED <<txnVars, m_requests, serverVars, bounds>>

-----------------------------------------------------------------------------
(* The server and the link                                                  *)

(* The statement arrives; what the server does with it is in the disjuncts  *)
Arrives(kind) == session # "gone" /\ inbox # None /\ inbox[1] = kind

Replies(ok) == /\ reply' = [to |-> inbox, ok |-> ok]
               /\ inbox' = None
               /\ UNCHANGED <<txnVars, m_requests, answer, workerVars, status, busy, bounds>>

(* BEGIN in an open transaction is a warning                                *)
ServerBegins ==
    /\ Arrives("begin")
    /\ session' = IF session = "failed" THEN "failed" ELSE "open"
    /\ Replies(session # "failed")
    /\ UNCHANGED <<pending, durable, ran>>

(* Outside a transaction a statement commits by itself                      *)
ServerRuns ==
    /\ Arrives("stmt")
    /\ LET s == inbox[2] IN
         /\ session # "failed" /\ s \notin Failing
         /\ ran' = [ran EXCEPT ![s] = @ + 1]
         /\ IF session = "open"
              THEN pending' = pending \cup {s} /\ UNCHANGED durable
              ELSE durable' = [durable EXCEPT ![s] = @ + 1] /\ UNCHANGED pending
    /\ Replies(TRUE)
    /\ UNCHANGED session

(* An error aborts the open transaction, and with it every later statement. *)
(* What was executed before may be rejected when it comes again (a key that *)
(* is there already)                                                        *)
ServerRejects ==
    /\ Arrives("stmt")
    /\ session = "failed" \/ inbox[2] \in Failing \/ ran[inbox[2]] > 0
    /\ session' = IF session = "open" THEN "failed" ELSE session
    /\ pending' = {}
    /\ Replies(FALSE)
    /\ UNCHANGED <<durable, ran>>

(* COMMIT of an aborted transaction rolls it back and reports no error      *)
ServerEnds ==
    /\ Arrives("commit") \/ Arrives("rollback")
    /\ durable' = [s \in Stmt |->
                     durable[s] + IF inbox[1] = "commit" /\ s \in pending THEN 1 ELSE 0]
    /\ session' = "idle" /\ pending' = {}
    /\ Replies(TRUE)
    /\ UNCHANGED ran

(* A constraint that is checked at the end rolls the transaction back       *)
ServerRefusesCommit ==
    /\ Arrives("commit") /\ session = "open" /\ pending # {}
    /\ session' = "idle" /\ pending' = {}
    /\ Replies(FALSE)
    /\ UNCHANGED <<durable, ran>>

ServerPings ==
    /\ Arrives("beat")
    /\ Replies(session # "failed")
    /\ UNCHANGED serverVars

(* The link breaks; the server aborts the session                           *)
Lose ==
    /\ session # "gone" /\ losses < MaxLosses
    /\ losses' = losses + 1
    /\ session' = "gone" /\ pending' = {}
    /\ inbox' = None /\ reply' \in {reply, None}
    /\ UNCHANGED <<txnVars, m_requests, answer, workerVars, status, busy, durable, ran,
                   timeouts, beats>>

-----------------------------------------------------------------------------
OwnerStep(t) ==
    \/ CreateTransaction(t) \/ BeginAnswered(t) \/ Drop(t)
    \/ \E state \in {"commit", "rollback"} : Finish(t, state)
    \/ FinishSends(t) \/ FinishAnswered(t)

CallerStep(s) ==
    \/ \E t \in Txn : ExecuteLocks(s, t) \/ ExecuteSends(s, t)
    \/ ExecutePlain(s)

WorkerStep ==
    \/ Take \/ CheckConnected \/ ResetSucceeds \/ ResetFails
    \/ SendRefused \/ NoSocket \/ SendAccepted \/ PollFails \/ LossSeen
    \/ Consume \/ ConsumeLoses

ServerStep == \/ ServerBegins \/ ServerRuns \/ ServerRejects
              \/ ServerEnds \/ ServerRefusesCommit \/ ServerPings

Next == \/ \E t \in Txn : OwnerStep(t)
        \/ \E s \in Stmt : CallerStep(s)
        \/ WorkerStep \/ TakeBeat
        \/ ServerStep \/ Lose

Spec == Init /\ [][Next]_vars

(* The worker runs and the server answers what reaches it                   *)
FairSpec == Spec /\ WF_vars(WorkerStep) /\ WF_vars(ServerStep)

-----------------------------------------------------------------------------
(* Properties                                                               *)

(* Every variable keeps its type; no request is tried a third time.         *)
TypeOK ==
    /\ m_state \in [Txn -> {"active", "commit", "rollback"}]
    /\ holder \in [Txn -> Stmt \cup {None}]
    /\ call \in [Txn -> CallState]
    /\ destroyed \subseteq Txn
    /\ m_requests \in Seq(Request)
    /\ answer \in [Request -> Answer]
    /\ pc \in {"idle", "check", "reset", "send", "await"}
    /\ item \in Request \cup {Beat, None}
    /\ attempts \in 1..2
    /\ status \in {"ok", "bad"} /\ busy \in BOOLEAN
    /\ inbox \in Request \cup {Beat, None}
    /\ reply = None \/ reply \in [to : Request \cup {Beat}, ok : BOOLEAN]
    /\ session \in {"idle", "open", "failed", "gone"}
    /\ pending \subseteq Stmt
    /\ durable \in [Stmt -> Nat] /\ ran \in [Stmt -> Nat]
    /\ losses \in Nat /\ timeouts \in Nat /\ beats \in Nat

Of(t) == {s \in Stmt : StmtTxn[s] = t}

(* The statement, queued or being executed, is followed by the request      *)
InFront(s, f) ==
    /\ item = Run(s) => \E j \in 1..Len(m_requests) : m_requests[j] = f
    /\ \A i \in 1..Len(m_requests) : m_requests[i] = Run(s) =>
         \E j \in i+1..Len(m_requests) : m_requests[j] = f

(* execute() races commit(), rollback() and the destructor: once COMMIT or  *)
(* ROLLBACK is queued every statement that was accepted is in front of it,  *)
(* and none follows, where it would commit by itself.                       *)
FinishIsLast ==
    \A t \in Txn, k \in {"commit", "rollback"} :
        answer[<<k, t>>] # "unsent" =>
            \A s \in Of(t) : holder[t] # s /\ InFront(s, <<k, t>>)

(* A result that comes after its request was answered with a timeout is     *)
(* never taken for the result of a later one.                               *)
NoStaleResult ==
    pc = "await" => /\ inbox # None => inbox = item
                    /\ reply # None => reply.to = item

(* The client seen by its callers.  An answer that execute() of a           *)
(* transaction gives without the client is none of the service.             *)
Service == INSTANCE RequestService WITH
    state <- "open",
    Async <- {},
    backlog <- m_requests,
    executing <- IF item = Beat THEN None ELSE item,
    delivering <- {},
    answered <- {r \in Request : answer[r] \in Final \ {"TransactionRolledBack"}}

(* Over retries, reconnections, timeouts and late results, and whatever the *)
(* transaction objects send, the session serves requests in order, one at a *)
(* time, and answers each once: no path of ExecuteWithRetry drops its       *)
(* request, and no transaction sends a request twice.                       *)
ServesInOrder == Service!Spec

(* The answer is as true as it can be, over every retry, reconnection and   *)
(* timeout: a statement that is reported done was executed; one that its    *)
(* transaction refused never was; and one that is reported rejected was     *)
(* executed all the same only if a link broke, between the results or in    *)
(* front of a retry that was rejected.                                      *)
AnswersTrue ==
    \A s \in Stmt :
        /\ answer[Run(s)] = "ok" => ran[s] > 0
        /\ answer[Run(s)] = "TransactionRolledBack" => ran[s] = 0
        /\ answer[Run(s)] = "QueryFailed" /\ ran[s] > 0 => losses > 0

(* A statement is executed twice only if the link broke, never because a    *)
(* poll timed out; and never three times.                                   *)
RetryOnlyAfterLoss ==
    \A s \in Stmt : ran[s] <= 2 /\ (ran[s] = 2 => losses > 0)

(* When every transaction object has done its part the server has no open   *)
(* transaction left for the next user of the connection, except on one that *)
(* the next statement resets.                                               *)
SessionLeftClean ==
    (pc = "idle" /\ m_requests = <<>> /\ \A t \in Txn : ~Using(t))
        => session \in {"idle", "gone"} \/ busy \/ status = "bad"

(* Without failures, transactions that do not share the client are atomic:  *)
(* nothing durable before COMMIT or after ROLLBACK; after COMMIT all of it, *)
(* or nothing when COMMIT or one of the statements was rejected.            *)
Atomic ==
    Exclusive /\ losses = 0 /\ timeouts = 0 =>
        \A t \in Txn :
            /\ m_state[t] # "commit" => \A s \in Of(t) : durable[s] = 0
            /\ m_state[t] = "commit" /\ call[t] = "done" =>
                 \A s \in Of(t) :
                     durable[s] = IF /\ answer[<<"commit", t>>] = "ok"
                                     /\ answer[Run(s)] = "ok"
                                     /\ \A r \in Of(t) : answer[Run(r)] # "QueryFailed"
                                    THEN 1 ELSE 0

(* Every request that is sent is answered, through failing reconnections,   *)
(* timeouts and broken links.                                               *)
EverySentAnswered ==
    \A r \in Request : answer[r] = "queued" ~> answer[r] \in Final

(* "Verify no rows were inserted (ROLLBACK worked)"                         *)
(* (postgres_transaction_test.cpp:81): a transaction that was rolled back,  *)
(* with the server's confirmation, leaves nothing.                          *)
RollbackUndoes ==
    \A t \in Txn : answer[<<"rollback", t>>] = "ok" => \A s \in Of(t) : durable[s] = 0

-----------------------------------------------------------------------------
(* The inductive invariant behind the safety properties                     *)

(* Neither COMMIT nor ROLLBACK was sent for the transaction                 *)
Unfinished(t) == answer[<<"commit", t>>] = "unsent" /\ answer[<<"rollback", t>>] = "unsent"

(* m_mutex keeps m_state active while a statement is being queued           *)
LockedActive ==
    \A t \in Txn :
        /\ holder[t] # None => m_state[t] = "active" /\ StmtTxn[holder[t]] = t
        /\ m_state[t] = "active" => call[t] \in {"none", "beginning", "open"} /\ Unfinished(t)

(* What the worker has or will have was sent                                *)
SentBefore ==
    /\ item \in Request => answer[item] # "unsent"
    /\ \A i \in 1..Len(m_requests) : answer[m_requests[i]] # "unsent"

(* The worker has a request in hand exactly while it executes               *)
WorkerHands == pc = "idle" <=> item = None

(* What a transaction is about to send it has not sent before               *)
SendsOnce ==
    \A t \in Txn :
        /\ call[t] = "none" => answer[<<"begin", t>>] = "unsent"
        /\ call[t] = "finishing" => Unfinished(t) /\ m_state[t] # "active"
        /\ holder[t] # None => answer[Run(holder[t])] = "unsent"

(* libpq is busy while anything is on its way, and one thing is at a time   *)
InFlight ==
    /\ inbox # None => busy /\ reply = None
    /\ reply # None => busy

OrderInv == TypeOK /\ FinishIsLast /\ NoStaleResult /\ LockedActive /\ SentBefore /\ SendsOnce
            /\ WorkerHands /\ InFlight

(* A request that is queued or in hand is so once, and is not answered      *)
QueuedOnce ==
    /\ \A i \in 1..Len(m_requests) : answer[m_requests[i]] = "queued" /\ m_requests[i] # item
    /\ \A i, j \in 1..Len(m_requests) : m_requests[i] = m_requests[j] => i = j
    /\ item \in Request => answer[item] = "queued"

(* Nothing is on its way over a broken link; the second attempt begins in a *)
(* new session, where nothing is on its way either                          *)
Links ==
    /\ session = "gone" => inbox = None /\ losses > 0
    /\ pc = "await" => busy
    /\ pc = "check" => attempts = 1
    /\ pc = "send" /\ attempts = 2 => session \in {"idle", "gone"} /\ inbox = None

(* Executions of a statement, the one that is on its way included           *)
Executions(s) == ran[s] + IF inbox = Run(s) THEN 1 ELSE 0
Untried(s) ==
    IF item = Run(s) THEN attempts = 1 /\ pc # "await"
    ELSE answer[Run(s)] \in {"unsent", "queued", "TransactionRolledBack"}

(* Each attempt adds one, and a second attempt of what was sent follows a   *)
(* loss                                                                     *)
Counts ==
    \A s \in Stmt :
        /\ Untried(s) => Executions(s) = 0
        /\ Executions(s) <= 2 /\ (Executions(s) = 2 => losses > 0)
        /\ item = Run(s) /\ attempts = 1 => Executions(s) <= 1
        /\ item = Run(s) /\ attempts = 2 =>
             /\ pc # "await" => Executions(s) <= 1
             /\ Executions(s) > 0 /\ pc # "await" => losses > 0

(* A result tells what the server did, now and once it has become an answer *)
Told ==
    \A s \in Stmt :
        /\ s \in Failing => ran[s] = 0
        /\ inbox = Run(s) /\ ran[s] > 0 => session = "idle"
        /\ reply # None /\ reply.to = Run(s) =>
             /\ ran[s] = 0 => ~reply.ok
             /\ ran[s] > 0 => reply.ok \/ losses > 0
        /\ answer[Run(s)] = "ok" => ran[s] > 0
        /\ answer[Run(s)] = "QueryFailed" => inbox # Run(s) /\ (ran[s] > 0 => losses > 0)

(* An open transaction of the server has one of the application that is     *)
(* still to end it, or the connection waits for a result nobody collects    *)
EndsAhead(t) == /\ Using(t)
                /\ answer[<<"commit", t>>] \notin Final /\ answer[<<"rollback", t>>] \notin Final
OpenOwned ==
    /\ session \in {"open", "failed"} => (busy /\ pc # "await") \/ \E t \in Txn : EndsAhead(t)
    /\ reply # None /\ reply.to[1] \in {"commit", "rollback"} => session \in {"idle", "gone"}
    /\ \A t \in Txn : /\ answer[<<"begin", t>>] = "queued" => call[t] = "beginning"
                      /\ call[t] \in {"none", "beginning"} => Unfinished(t)

OutcomeInv == QueuedOnce /\ Links /\ Counts /\ Told /\ OpenOwned

IInv == OrderInv /\ OutcomeInv

-----------------------------------------------------------------------------
(* The inductive invariant behind Atomic                                    *)

(* A request that was sent is queued or in hand until it is answered        *)
Waits ==
    \A r \in Request : answer[r] = "queued" =>
        r = item \/ \E i \in 1..Len(m_requests) : m_requests[i] = r

(* How far a transaction object is tells what it has sent and what of that  *)
(* was answered                                                             *)
Course(t) ==
    /\ call[t] \notin {"none", "beginning"} => answer[<<"begin", t>>] \in Final
    /\ \A k \in {"commit", "rollback"} :
         answer[<<k, t>>] # "unsent" => k = m_state[t] /\ call[t] \in {"waiting", "done"}
    /\ call[t] = "done" => answer[<<m_state[t], t>>] \in Final
    /\ holder[t] # None => call[t] = "open"
    /\ \A s \in Of(t) : /\ answer[Run(s)] # "unsent" => call[t] \notin {"none", "beginning"}
                        /\ answer[Run(s)] = "queued" => call[t] # "done"
Courses == \A t \in Txn : Course(t)

(* Transactions take turns, and what is queued belongs to the one whose     *)
(* turn it is                                                               *)
Turns ==
    Exclusive => \A t \in Txn : Using(t) =>
        /\ \A u \in Txn : Using(u) => u = t
        /\ \A s \in Stmt : answer[Run(s)] = "queued" => StmtTxn[s] = t

(* Without failures there is one attempt, and libpq waits with the worker   *)
Calm ==
    losses = 0 /\ timeouts = 0 =>
        /\ status = "ok" /\ session # "gone"
        /\ attempts = 1 /\ pc # "reset"
        /\ busy <=> pc = "await"

(* What the server has done, whether the answer has come back or not        *)
Came(r)     == reply # None /\ reply.to = r
Executed(r) == answer[r] \in Final \/ Came(r)
Succeeded(s) == answer[Run(s)] = "ok" \/ (Came(Run(s)) /\ reply.ok)
Rejected(s)  == answer[Run(s)] = "QueryFailed" \/ (Came(Run(s)) /\ ~reply.ok)
Committed(t) == answer[<<"commit", t>>] = "ok" \/ (Came(<<"commit", t>>) /\ reply.ok)
Begun(t) == Executed(<<"begin", t>>) /\ ~Executed(<<"commit", t>>) /\ ~Executed(<<"rollback", t>>)

(* The server's transaction is that of the application, with the statements *)
(* that it has executed, and COMMIT makes those durable or none             *)
Tally ==
    Exclusive /\ losses = 0 /\ timeouts = 0 =>
        /\ session # "open" => pending = {}
        /\ session # "idle" => \E t \in Txn : Begun(t)
        /\ \A t \in Txn :
             /\ Begun(t) => /\ Using(t)
                            /\ session = IF \E s \in Of(t) : Rejected(s) THEN "failed" ELSE "open"
                            /\ session = "open" => pending = {s \in Of(t) : Succeeded(s)}
             /\ \A s \in Of(t) :
                  durable[s] = IF /\ Committed(t) /\ Succeeded(s)
                                  /\ \A r \in Of(t) : ~Rejected(r)
                                 THEN 1 ELSE 0

AtomicInv == Waits /\ Courses /\ Turns /\ Calm /\ Tally

=============================================================================
