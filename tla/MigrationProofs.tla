--------------------------- MODULE MigrationProofs ---------------------------
(* Proofs that Migrate neither skips a statement nor reports a success that *)
(* it did not have, for any file, however the parser splits it, and for any *)
(* server; that the parser stays within the file, whatever it holds; and    *)
(* that the statements are the code and the literals of the file, complete, *)
(* in order, and in the shape that they are to have.                        *)
EXTENDS Migration, Induction, SequenceTheorems

(* Whatever the parser's statements are, they are a sequence                *)
Splits == \E S : statements \in Seq(S)

(* Nothing reaches the server before Migrate executes                       *)
Fresh ==
    step \in {"open", "parse", "acquire"} =>
      /\ next = 1 /\ error = "none" /\ ~lent /\ kinds = <<>>
      /\ session = "idle" /\ server = "rest"
      /\ pending = {} /\ durable = {} /\ undone = {}

(* Migrate goes on only while nothing failed, with one statement at a time  *)
(* at the server, and comes to the end only with all of them                *)
Stages ==
    /\ kinds \in Seq(Kinds) /\ attempts \in 1..2 /\ losses \in Nat
    /\ step \in {"send", "await", "reset"} =>
         Len(kinds) = next /\ next <= Len(statements) /\ error = "none"
    /\ step = "execute" => Len(kinds) = next - 1 /\ error = "none"
    /\ step \in {"execute", "send", "reset"} => server = "rest"
    /\ step \in {"return", "done"} /\ error = "none" => next > Len(statements)
    /\ server # "rest" =>
         step \in {"await", "return", "done"} /\ Len(kinds) = next /\ next <= Len(statements)
    /\ step = "done" => ~lent

(* Whatever was done is in front of the next statement or is this one; a    *)
(* broken link brings the server nothing, and a transaction that has failed *)
(* is not used again                                                        *)
Reached ==
    /\ next \in 1..Len(statements) + 1
    /\ pending \cup durable \cup undone \subseteq 1..next
    /\ pending \cup durable \cup undone \subseteq 1..Len(statements)
    /\ 1..next-1 \subseteq pending \cup durable \cup undone
    /\ server = "ok" => next \in pending \cup durable \cup undone
    /\ server = "has" => session \notin {"failed", "gone"}
    /\ session = "failed" /\ error = "none" => server = "error"

(* Without transactions of the file's own every statement lasts; with them, *)
(* what is undone was rolled back, lost with the link, or rejected          *)
Lasting ==
    /\ ~Begins => session \in {"idle", "gone"} /\ pending = {} /\ undone = {}
    /\ losses = 0 /\ ~RollsBack /\ error = "none" /\ server # "error" => undone = {}

MInv == Splits /\ Fresh /\ Stages /\ Reached /\ Lasting

(* The number of statements is a number.                                    *)
LEMMA SplitsLength ==
  ASSUME Splits
  PROVE  Len(statements) \in Nat
<1>1. PICK S : statements \in Seq(S)
  BY DEF Splits
<1> QED BY <1>1, LenProperties

(* The parser appends statements and does nothing else to them.             *)
LEMMA FlushSplits ==
  ASSUME Splits, Flush
  PROVE  Splits'
<1>1. PICK S : statements \in Seq(S)
  BY DEF Splits
<1>2. PICK x : statements' = statements \/ statements' = Append(statements, x)
  BY DEF Flush
<1>3. statements \in Seq(S \cup {x})
  <2>1. statements \in [1..Len(statements) -> S] /\ Len(statements) \in Nat
    BY <1>1, LenProperties
  <2>2. statements \in [1..Len(statements) -> S \cup {x}]
    BY <2>1
  <2> QED BY <2>1, <2>2, SeqDef
<1>4. Append(statements, x) \in Seq(S \cup {x})
  BY <1>3, AppendProperties
<1> QED BY <1>2, <1>3, <1>4 DEF Splits

(* A step of the parser.                                                    *)
LEMMA ParserStep ==
  ASSUME MInv, ParseStep \/ ParseEnd
  PROVE  MInv'
<1>1. Splits'
  <2>1. CASE UNCHANGED statements
    BY <2>1 DEF MInv, Splits
  <2>2. CASE Flush
    BY <2>2, FlushSplits DEF MInv
  <2> QED BY <2>1, <2>2 DEF ParseStep, ParseEnd, LineComment, BlockComment, Literal, Whitespace,
         CloseParen, Separator, Other
<1>2. /\ step = "parse" /\ step' \in {"parse", "acquire"}
      /\ UNCHANGED <<next, error, lent, callVars, serverVars>>
  BY DEF ParseStep, ParseEnd
<1>3. /\ UNCHANGED <<kinds, attempts, session, server, losses>>
      /\ UNCHANGED <<pending, durable, undone>>
  BY <1>2 DEF callVars, serverVars, effects
<1>4. /\ next = 1 /\ error = "none" /\ ~lent /\ kinds = <<>>
      /\ session = "idle" /\ server = "rest"
      /\ pending = {} /\ durable = {} /\ undone = {}
  BY <1>2 DEF MInv, Fresh
<1>5. Len(statements') \in Nat
  BY <1>1, SplitsLength DEF Splits
<1>6. Fresh'
  BY <1>2, <1>3, <1>4 DEF Fresh
<1>7. Stages'
  BY <1>2, <1>3, <1>4 DEF MInv, Stages
<1>8. Reached'
  BY <1>2, <1>3, <1>4, <1>5 DEF Reached
<1>9. Lasting'
  BY <1>2, <1>3, <1>4 DEF Lasting
<1> QED BY <1>1, <1>6, <1>7, <1>8, <1>9 DEF MInv

(* What the invariant says of numbers.                                      *)
LEMMA Numbers ==
  ASSUME MInv
  PROVE  /\ Len(statements) \in Nat /\ Len(kinds) \in Nat /\ next \in Nat \ {0}
         /\ next <= Len(statements) + 1
BY SplitsLength, LenProperties DEF MInv, Stages, Reached

(* A statement of the file begins a transaction only if it says so.         *)
LEMMA BeginsHere ==
  ASSUME MInv, server = "has"
  PROVE  /\ step \in {"await", "return", "done"} /\ next <= Len(statements)
         /\ session \notin {"failed", "gone"}
         /\ kinds[next] = "begin" => Begins
         /\ kinds[next] = "rollback" => RollsBack
<1>1. Len(kinds) = next /\ step \in {"await", "return", "done"} /\ next <= Len(statements)
  BY DEF MInv, Stages
<1>2. next \in DOMAIN kinds
  BY <1>1, Numbers, LenProperties DEF MInv, Stages
<1> QED BY <1>1, <1>2 DEF Begins, RollsBack, MInv, Reached

(* A step of Migrate between two statements.                                *)
LEMMA FrameStep ==
  ASSUME MInv, OpenFile \/ Acquire \/ AllExecuted \/ Return
  PROVE  MInv'
<1>1. /\ UNCHANGED <<statements, next, kinds, attempts, server, losses>>
      /\ UNCHANGED <<pending, durable, undone>>
  BY DEF OpenFile, Acquire, AllExecuted, Return, parserVars, callVars, serverVars, effects
<1>2. Splits'
  BY <1>1 DEF MInv, Splits
<1>3. Fresh'
  BY DEF MInv, Fresh, OpenFile, Acquire, AllExecuted, Return, parserVars, callVars, serverVars,
         effects
<1>4. Stages'
  <2>1. CASE OpenFile
    BY <1>1, <2>1 DEF MInv, Fresh, Stages, OpenFile
  <2>2. CASE Acquire
    BY <1>1, <2>2, LenProperties DEF MInv, Fresh, Stages, Acquire
  <2>3. CASE AllExecuted
    BY <1>1, <2>3, Numbers DEF MInv, Stages, AllExecuted
  <2>4. CASE Return
    BY <1>1, <2>4, Numbers DEF MInv, Stages, Return
  <2> QED BY <2>1, <2>2, <2>3, <2>4
<1>5. error' = "none" => error = "none"
  BY DEF OpenFile, Acquire, AllExecuted, Return
<1>6. session' = session \/ (session = "idle" /\ session' = "gone" /\ server = "rest")
  BY DEF OpenFile, Acquire, AllExecuted, Return, serverVars, MInv, Fresh
<1>7. Reached'
  BY <1>1, <1>5, <1>6 DEF MInv, Reached
<1>8. Lasting'
  BY <1>1, <1>5, <1>6 DEF MInv, Lasting, Begins, RollsBack
<1> QED BY <1>2, <1>3, <1>4, <1>7, <1>8 DEF MInv

(* Migrate takes the next statement.                                        *)
LEMMA ExecuteHolds ==
  ASSUME MInv, Execute
  PROVE  MInv'
<1>1. /\ UNCHANGED <<statements, next, error, lent, session, server, losses>>
      /\ UNCHANGED <<pending, durable, undone>>
      /\ step = "execute" /\ next <= Len(statements) /\ step' \in {"send", "reset"}
      /\ attempts' = 1
  BY DEF Execute, parserVars, serverVars, effects
<1>2. PICK kind \in Kinds : kinds' = Append(kinds, kind)
  BY DEF Execute
<1>3. kinds \in Seq(Kinds) /\ Len(kinds) = next - 1 /\ error = "none" /\ server = "rest"
  BY <1>1 DEF MInv, Stages
<1>4. kinds' \in Seq(Kinds) /\ Len(kinds') = Len(kinds) + 1
  BY <1>2, <1>3, AppendProperties
<1>5. \A a \in DOMAIN kinds : a \in DOMAIN kinds' /\ kinds'[a] = kinds[a]
  BY <1>2, <1>3, <1>4, AppendProperties, LenProperties
<1>6. (Begins => Begins') /\ (RollsBack => RollsBack')
  BY <1>5 DEF Begins, RollsBack
<1>7. Splits' /\ Fresh'
  BY <1>1 DEF MInv, Splits, Fresh
<1>8. Stages'
  BY <1>1, <1>3, <1>4, Numbers DEF MInv, Stages
<1>9. Reached'
  BY <1>1 DEF MInv, Reached
<1>10. Lasting'
  <2>1. ~Begins' => ~Begins
    BY <1>6
  <2>2. ~RollsBack' => ~RollsBack
    BY <1>6
  <2> QED BY <1>1, <2>1, <2>2 DEF MInv, Lasting
<1> QED BY <1>7, <1>8, <1>9, <1>10 DEF MInv

(* A statement that succeeds was done.                                      *)
LEMMA ReadsResultHolds ==
  ASSUME MInv, ReadsResult
  PROVE  MInv'
<1>1. /\ UNCHANGED <<statements, lent, kinds, attempts, session, losses>>
      /\ UNCHANGED <<pending, durable, undone>>
      /\ step = "await" /\ server' = "rest"
  BY DEF ReadsResult, Succeeds, FailsWith, parserVars, callVars, effects
<1>2. Len(kinds) = next /\ next <= Len(statements) /\ error = "none"
  BY <1>1 DEF MInv, Stages
<1>3. \/ server = "ok" /\ step' = "execute" /\ next' = next + 1 /\ error' = error
      \/ server = "error" /\ step' = "return" /\ next' = next /\ error' = "QueryFailed"
  BY DEF ReadsResult, Succeeds, FailsWith
<1>4. Splits' /\ Fresh'
  BY <1>1, <1>3 DEF MInv, Splits, Fresh
<1>5. Stages'
  BY <1>1, <1>2, <1>3, Numbers DEF MInv, Stages
<1>6. Reached'
  <2>1. next' \in 1..Len(statements') + 1 /\ 1..next \subseteq 1..next'
    BY <1>1, <1>2, <1>3, Numbers
  <2>2. (1..next'-1 \subseteq pending \cup durable \cup undone)
    <3>1. CASE server = "ok"
      <4>1. 1..next'-1 = (1..next-1) \cup {next}
        BY <1>3, <3>1, Numbers
      <4> QED BY <3>1, <4>1 DEF MInv, Reached
    <3>2. CASE server # "ok"
      BY <1>3, <3>2 DEF MInv, Reached
    <3> QED BY <3>1, <3>2
  <2>3. session' = "failed" => error' # "none"
    BY <1>1, <1>2, <1>3 DEF MInv, Reached
  <2> QED BY <1>1, <2>1, <2>2, <2>3 DEF MInv, Reached
<1>7. Lasting'
  BY <1>1, <1>2, <1>3 DEF MInv, Lasting, Begins, RollsBack
<1> QED BY <1>4, <1>5, <1>6, <1>7 DEF MInv

(* The steps of execute() that bring nothing about: the statement is sent,  *)
(* or the link is found broken and made again, or the call gives up.        *)
LEMMA AttemptHolds ==
  ASSUME MInv,
         \/ Send \/ SeesLoss \/ Reconnects \/ ReconnectFails \/ SocketFails
         \/ LosesResult \/ BeatReconnects
  PROVE  MInv'
<1>1. /\ UNCHANGED <<statements, next, lent, kinds, losses>>
      /\ UNCHANGED <<pending, durable, undone>>
      /\ step \in {"execute", "send", "await", "reset"}
  BY DEF Send, SeesLoss, Retries, Reconnects, ReconnectFails, SocketFails, LosesResult,
         BeatReconnects, FailsWith, parserVars, callVars, serverVars, effects
<1>2. /\ error = "none"
      /\ session' = session \/ session' \in {"idle", "gone"}
      /\ server' = server \/ server' = "rest" \/ (session' # "gone" /\ server' = "has")
  BY DEF Send, SeesLoss, Retries, Reconnects, ReconnectFails, SocketFails, LosesResult,
         BeatReconnects, FailsWith, parserVars, callVars, serverVars, effects, MInv, Stages
<1>3. Splits' /\ Fresh'
  BY <1>1 DEF MInv, Splits, Fresh, Send, SeesLoss, Retries, Reconnects, ReconnectFails, SocketFails,
         LosesResult, BeatReconnects, FailsWith
<1>4. Stages'
  <2> USE DEF MInv, Stages
  <2>1. CASE Send
    BY <1>1, <2>1, Numbers DEF Send, callVars, serverVars
  <2>2. CASE SeesLoss
    BY <1>1, <2>2, Numbers DEF SeesLoss, Retries, FailsWith, callVars, serverVars
  <2>3. CASE Reconnects \/ ReconnectFails
    BY <1>1, <2>3, Numbers DEF Reconnects, ReconnectFails, FailsWith, callVars, serverVars
  <2>4. CASE SocketFails
    BY <1>1, <2>4, Numbers DEF SocketFails, FailsWith, callVars, serverVars
  <2>5. CASE LosesResult
    BY <1>1, <2>5, Numbers DEF LosesResult, FailsWith, callVars, serverVars
  <2>6. CASE BeatReconnects
    BY <1>1, <2>6, Numbers DEF BeatReconnects, callVars, serverVars
  <2> QED BY <2>1, <2>2, <2>3, <2>4, <2>5, <2>6
<1>5. server' = "ok" => server = "ok"
  BY <1>2
<1>6. /\ session' = "failed" /\ error' = "none" => server' = "error"
      /\ server' = "has" => session' \notin {"failed", "gone"}
  <2>1. session' = "failed" => session = "failed"
    BY <1>2
  <2>2. session = "failed" => server = "error"
    BY <1>2 DEF MInv, Reached
  <2>3. server' = server \/ error' # "none" \/ server # "error"
    BY <1>2 DEF MInv, Stages, Send, SeesLoss, Reconnects, ReconnectFails, SocketFails,
           LosesResult, BeatReconnects, FailsWith, serverVars
  <2>4. CASE server' = server
    <3>1. server = "has" => session' = session
      BY DEF MInv, Stages, Send, SeesLoss, Reconnects, ReconnectFails, SocketFails,
             LosesResult, BeatReconnects, serverVars
    <3> QED BY <2>1, <2>2, <2>4, <3>1 DEF MInv, Reached
  <2>5. CASE server' # server
    <3>1. (step = "send" /\ session' = session) \/ server' = "rest"
      BY <1>2, <2>5 DEF Send, SeesLoss, Reconnects, ReconnectFails, SocketFails, LosesResult,
             BeatReconnects, serverVars
    <3>2. step = "send" => server = "rest"
      BY DEF MInv, Stages
    <3> QED BY <1>2, <2>1, <2>2, <2>3, <3>1, <3>2
  <2> QED BY <2>4, <2>5
<1>7. Reached'
  BY <1>1, <1>5, <1>6 DEF MInv, Reached
<1>8. error' = "none" /\ server' # "error" => server # "error"
  BY <1>2 DEF MInv, Stages, Send, SeesLoss, Reconnects, ReconnectFails, SocketFails,
         LosesResult, BeatReconnects, FailsWith, serverVars
<1>9. Lasting'
  BY <1>1, <1>2, <1>8 DEF MInv, Lasting, Begins, RollsBack
<1> QED BY <1>3, <1>4, <1>7, <1>9 DEF MInv

(* The server has done the statement, or has not.                           *)
LEMMA ServedHolds ==
  ASSUME MInv, ServerRuns \/ ServerEnds \/ ServerRejects
  PROVE  MInv'
<1>1. /\ UNCHANGED <<step, statements, next, error, lent, kinds, attempts, losses>>
      /\ server = "has" /\ server' \in {"ok", "error"}
  BY DEF ServerRuns, ServerEnds, ServerRejects, Serves, parserVars, callVars
<1>2. /\ step \in {"await", "return", "done"} /\ next <= Len(statements)
      /\ session \notin {"failed", "gone"}
      /\ kinds[next] = "begin" => Begins
      /\ kinds[next] = "rollback" => RollsBack
  BY <1>1, BeginsHere
<1>3. Splits' /\ Fresh'
  BY <1>1, <1>2 DEF MInv, Splits, Fresh
<1>4. Stages'
  BY <1>1, <1>2 DEF MInv, Stages
<1>5. /\ server' = "ok" =>
           pending' \cup durable' \cup undone' = pending \cup durable \cup undone \cup {next}
      /\ server' = "error" =>
           pending' \cup durable' \cup undone' = pending \cup durable \cup undone
  BY <1>1 DEF ServerRuns, ServerEnds, ServerRejects, Serves
<1>6. /\ next \in 1..next /\ next \in 1..Len(statements)
      /\ session' = "failed" => server' = "error"
  BY <1>1, <1>2, Numbers DEF ServerRuns, ServerEnds, ServerRejects, Serves
<1>7. Reached'
  <2>1. pending' \cup durable' \cup undone' \in
          {pending \cup durable \cup undone, pending \cup durable \cup undone \cup {next}}
    BY <1>1, <1>5
  <2>2. server' = "ok" => next \in pending' \cup durable' \cup undone'
    BY <1>5
  <2> QED BY <1>1, <1>6, <2>1, <2>2 DEF MInv, Reached
<1>8. Begins' = Begins /\ RollsBack' = RollsBack
  BY <1>1 DEF Begins, RollsBack
<1>9. ~Begins => session' \in {"idle", "gone"} /\ pending' = {} /\ undone' = {}
  <2> SUFFICES ASSUME ~Begins PROVE session' \in {"idle", "gone"} /\ pending' = {} /\ undone' = {}
    OBVIOUS
  <2>1. session \in {"idle", "gone"} /\ pending = {} /\ undone = {} /\ kinds[next] # "begin"
    BY <1>2 DEF MInv, Lasting
  <2>2. CASE ServerRuns
    BY <2>1, <2>2 DEF ServerRuns
  <2>3. CASE ServerEnds
    BY <2>1, <2>3 DEF ServerEnds
  <2>4. CASE ServerRejects
    <3>1. session = "idle"
      BY <1>1, <2>1, BeginsHere
    <3> QED BY <2>1, <2>4, <3>1 DEF ServerRejects
  <2> QED BY <2>2, <2>3, <2>4
<1>10. server' # "error" /\ ~RollsBack => undone' = undone
  BY <1>2 DEF ServerRuns, ServerEnds, ServerRejects, Serves
<1>11. Lasting'
  BY <1>1, <1>8, <1>9, <1>10 DEF MInv, Lasting
<1> QED BY <1>3, <1>4, <1>7, <1>11 DEF MInv

(* The link breaks.                                                         *)
LEMMA LoseHolds ==
  ASSUME MInv, Lose
  PROVE  MInv'
<1>1. /\ UNCHANGED <<step, statements, next, error, lent, kinds, attempts>>
      /\ lent /\ UNCHANGED durable /\ losses' = losses + 1 /\ session' = "gone"
      /\ pending' = {} /\ undone' = undone \cup pending
      /\ server' = "rest" \/ (server' = server /\ server # "has")
  BY DEF Lose, parserVars, callVars
<1>2. Splits' /\ Fresh'
  BY <1>1 DEF MInv, Splits, Fresh
<1>3. Stages'
  BY <1>1 DEF MInv, Stages
<1>4. pending' \cup durable' \cup undone' = pending \cup durable \cup undone
  BY <1>1
<1>5. Reached'
  BY <1>1, <1>4 DEF MInv, Reached
<1>6. losses' # 0
  BY <1>1 DEF MInv, Stages
<1>7. Lasting'
  BY <1>1, <1>6 DEF MInv, Lasting, Begins, RollsBack
<1> QED BY <1>2, <1>3, <1>5, <1>7 DEF MInv

(* The invariant holds of every migration: of any file, whatever its        *)
(* statements do with transactions, at any server, over any number of       *)
(* broken links.                                                            *)
THEOREM MigrationInvariance == FileSpec => []MInv
<1>1. FileInit => MInv
  <2> SUFFICES ASSUME FileInit PROVE MInv
    OBVIOUS
  <2>1. statements \in Seq({}) /\ Len(statements) = 0 /\ kinds \in Seq(Kinds)
    BY EmptySeq DEF FileInit
  <2>2. Splits
    BY <2>1 DEF Splits
  <2>3. Fresh /\ Stages
    BY <2>1 DEF FileInit, Fresh, Stages
  <2>4. Reached /\ Lasting
    BY <2>1 DEF FileInit, Reached, Lasting
  <2> QED BY <2>2, <2>3, <2>4 DEF MInv
<1>2. MInv /\ [FileNext]_fileVars => MInv'
  <2> SUFFICES ASSUME MInv, [FileNext]_fileVars PROVE MInv'
    OBVIOUS
  <2>1. CASE UNCHANGED fileVars
    BY <2>1 DEF fileVars, parserVars, callVars, serverVars, effects, MInv, Splits, Fresh, Stages,
                Reached, Lasting, Begins, RollsBack
  <2> QED BY <2>1, ParserStep, FrameStep, ExecuteHolds, ReadsResultHolds, AttemptHolds, ServedHolds,
             LoseHolds DEF FileNext, ExecuteStep, ServerStep
<1> QED BY <1>1, <1>2, PTL DEF FileSpec

(* Migrate executes the statements in order, over broken links, retries and *)
(* rejections: nothing behind the next one was done, all in front of it     *)
(* was, and it lasts in a file without transactions of its own.             *)
THEOREM NeverSkipsCorrect == FileSpec => []NeverSkips
<1>1. MInv => NeverSkips
  BY DEF MInv, Reached, Lasting, NeverSkips
<1> QED BY <1>1, MigrationInvariance, PTL

(* Success means the whole file: all of it lasts without transactions of    *)
(* the file's own, whatever broke, and with them if the file rolls nothing  *)
(* back and no link broke.  On every way out the connection is given back.  *)
THEOREM CompleteOrErrorCorrect == FileSpec => []CompleteOrError
<1>1. MInv => CompleteOrError
  <2> SUFFICES ASSUME MInv, step = "done" PROVE CompleteOrError
    BY DEF CompleteOrError
  <2>1. ~lent
    BY DEF MInv, Stages
  <2>2. ASSUME error = "none"
        PROVE  /\ next = Len(statements) + 1
               /\ ~Begins => durable = 1..Len(statements)
               /\ losses = 0 /\ ~RollsBack => durable \cup pending = 1..Len(statements)
    <3>1. next = Len(statements) + 1 /\ next - 1 = Len(statements)
      BY <2>2, Numbers DEF MInv, Stages
    <3>2. server = "rest"
      BY <3>1, Numbers DEF MInv, Stages
    <3>3. pending \cup durable \cup undone = 1..Len(statements)
      BY <3>1 DEF MInv, Reached
    <3>4. ~Begins => pending = {} /\ undone = {}
      BY DEF MInv, Lasting
    <3>5. losses = 0 /\ ~RollsBack => undone = {}
      BY <2>2, <3>2 DEF MInv, Lasting
    <3> QED BY <3>1, <3>3, <3>4, <3>5
  <2> QED BY <2>1, <2>2 DEF CompleteOrError
<1> QED BY <1>1, MigrationInvariance, PTL

-----------------------------------------------------------------------------
(* What the parser writes                                                   *)

(* The smallest and the greatest of a set of positions.                     *)
LEMMA Extremes ==
  ASSUME NEW m \in Nat, NEW S \in SUBSET (1..m), S # {}
  PROVE  /\ Min(S) \in S /\ \A x \in S : Min(S) <= x
         /\ Max(S) \in S /\ \A x \in S : Max(S) >= x
<1>1. \E x \in S : \A y \in S : x <= y
  <2>1. S \in SUBSET Nat /\ S # {}
    OBVIOUS
  <2> QED BY <2>1, Least
<1>2. \E x \in S : \A y \in S : x >= y
  <2> DEFINE R == {j \in Nat : \E x \in S : j = m - x}
  <2>1. R \in SUBSET Nat /\ R # {}
    <3>1. PICK x \in S : TRUE
      OBVIOUS
    <3>2. m - x \in Nat
      OBVIOUS
    <3> QED BY <3>2
  <2>2. PICK j \in R : \A l \in R : j <= l
    <3> HIDE DEF R
    <3> QED BY <2>1, Least
  <2>3. PICK x \in S : j = m - x
    BY <2>2
  <2>4. ASSUME NEW y \in S PROVE x >= y
    <3>1. m - y \in R
      OBVIOUS
    <3>2. j <= m - y
      BY <2>2, <3>1
    <3> QED BY <2>3, <3>2
  <2> QED BY <2>4
<1>3. Min(S) \in S /\ \A x \in S : Min(S) <= x
  BY <1>1 DEF Min
<1>4. Max(S) \in S /\ \A x \in S : Max(S) >= x
  BY <1>2 DEF Max
<1> QED BY <1>3, <1>4

(* The recursion of LiteralEnd, from a position to the end of the text.     *)
Closings(m) ==
  {f \in [m..n+2 -> Nat] :
     \A k \in m..n+2 :
       f[k] = IF k > n THEN n
              ELSE IF sql[k] # "'" THEN f[k + 1]
              ELSE IF k < n /\ sql[k + 1] = "'" THEN f[k + 2] ELSE k}

(* The recursion has a value at every position, from the end of the text    *)
(* down.                                                                    *)
LEMMA ClosingsExist ==
  ASSUME n \in Nat
  PROVE  Closings(1) # {}
<1> DEFINE T == {l \in Nat : l <= n + 1 => Closings(n + 2 - l) # {}}
           Step(f, k) == IF k > n THEN n
                         ELSE IF sql[k] # "'" THEN f[k + 1]
                         ELSE IF k < n /\ sql[k + 1] = "'" THEN f[k + 2] ELSE k
<1>1. 0 \in T
  <2> DEFINE f == [k \in n + 2..n + 2 |-> n]
  <2>1. f \in [n + 2..n + 2 -> Nat] /\ \A k \in n + 2..n + 2 : f[k] = n /\ k > n
    OBVIOUS
  <2> HIDE DEF f
  <2>2. f \in Closings(n + 2)
    BY <2>1 DEF Closings
  <2> QED BY <2>2
<1>2. ASSUME NEW l \in Nat, l \in T PROVE l + 1 \in T
  <2> SUFFICES ASSUME l + 1 <= n + 1 PROVE Closings(n + 2 - (l + 1)) # {}
    OBVIOUS
  <2> DEFINE m == n + 2 - l
             p == n + 2 - (l + 1)
  <2>1. m \in Nat /\ p \in 1..n + 1 /\ p + 1 = m /\ m..n + 2 \subseteq p..n + 2
        /\ \A k \in p..n + 2 : k = p \/ k \in m..n + 2
    OBVIOUS
  <2>2. PICK f : f \in Closings(m)
    BY <1>2
  <2> HIDE DEF m, p
  <2>3. f \in [m..n + 2 -> Nat] /\ \A k \in m..n + 2 : f[k] = Step(f, k)
    BY <2>2 DEF Closings
  <2> DEFINE g == [k \in p..n + 2 |-> IF k = p THEN Step(f, p) ELSE f[k]]
  <2>4. Step(f, p) \in Nat
    <3>1. p <= n => p + 1 \in m..n + 2 /\ p + 2 \in m..n + 2
      BY <2>1
    <3>2. p > n => Step(f, p) = n
      OBVIOUS
    <3>3. ASSUME p <= n PROVE Step(f, p) \in Nat
      BY <2>1, <2>3, <3>1, <3>3
    <3> QED BY <2>1, <3>2, <3>3
  <2>5. g \in [p..n + 2 -> Nat] /\ g[p] = Step(f, p) /\ \A k \in m..n + 2 : g[k] = f[k]
    BY <2>1, <2>3, <2>4
  <2> HIDE DEF g
  <2>6. ASSUME NEW k \in p..n + 2 PROVE g[k] = Step(g, k)
    <3>1. k <= n => k + 1 \in m..n + 2 /\ k + 2 \in m..n + 2
      BY <2>1
    <3>2. k \in Nat
      BY <2>1
    <3>3. Step(g, k) = Step(f, k)
      BY <2>5, <3>1, <3>2
    <3>4. g[k] = Step(f, k)
      BY <2>1, <2>3, <2>5
    <3> QED BY <3>3, <3>4
  <2>7. g \in Closings(p)
    BY <2>5, <2>6 DEF Closings
  <2> QED BY <2>7 DEF p
<1>3. Nat \subseteq T
  <2> HIDE DEF T
  <2> QED BY <1>1, <1>2, Induct
<1>4. n + 1 \in T /\ n + 2 - (n + 1) = 1
  BY <1>3
<1> QED BY <1>4

(* The recursion of LiteralEnd has values.                                  *)
LEMMA LiteralEndUnfold ==
  ASSUME n \in Nat
  PROVE  \E u : /\ LiteralEnd = u[i + 1]
                /\ \A k \in 1..n+2 : u[k] = IF k > n THEN n
                                              ELSE IF sql[k] # "'" THEN u[k + 1]
                                              ELSE IF k < n /\ sql[k + 1] = "'" THEN u[k + 2] ELSE k
<1> DEFINE u == CHOOSE u : u = [k \in 1..n+2 |-> IF k > n THEN n
                                   ELSE IF sql[k] # "'" THEN u[k + 1]
                                   ELSE IF k < n /\ sql[k + 1] = "'" THEN u[k + 2] ELSE k]
<1>1. PICK f : f \in Closings(1)
  BY ClosingsExist
<1>2. f = [k \in 1..n+2 |-> IF k > n THEN n
                            ELSE IF sql[k] # "'" THEN f[k + 1]
                            ELSE IF k < n /\ sql[k + 1] = "'" THEN f[k + 2] ELSE k]
  BY <1>1 DEF Closings
<1>3. u = [k \in 1..n+2 |-> IF k > n THEN n
                            ELSE IF sql[k] # "'" THEN u[k + 1]
                            ELSE IF k < n /\ sql[k + 1] = "'" THEN u[k + 2] ELSE k]
  BY <1>2
<1>4. LiteralEnd = u[i + 1]
  BY DEF LiteralEnd
<1> HIDE DEF u
<1>5. \A k \in 1..n+2 : u[k] = IF k > n THEN n
                               ELSE IF sql[k] # "'" THEN u[k + 1]
                               ELSE IF k < n /\ sql[k + 1] = "'" THEN u[k + 2] ELSE k
  BY <1>3
<1> QED BY <1>4, <1>5

(* A literal ends behind its opening quote and within the text.             *)
LEMMA LiteralEnds ==
  ASSUME n \in Nat, i \in 1..n
  PROVE  LiteralEnd \in i..n
<1>1. PICK u : /\ LiteralEnd = u[i + 1]
               /\ \A k \in 1..n+2 : u[k] = IF k > n THEN n
                                             ELSE IF sql[k] # "'" THEN u[k + 1]
                                             ELSE IF k < n /\ sql[k + 1] = "'" THEN u[k + 2] ELSE k
  BY LiteralEndUnfold
<1> DEFINE T == {l \in Nat : \A k \in 1..n+2 : k + l >= n + 1 => u[k] \in 0..n /\ (k <= n + 1 => u[k] >= k - 1)}
<1>2. 0 \in T
  <2>1. ASSUME NEW k \in 1..n+2, k + 0 >= n + 1
        PROVE  u[k] \in 0..n /\ (k <= n + 1 => u[k] >= k - 1)
    <3>1. k > n
      BY <2>1
    <3>2. u[k] = n
      BY <1>1, <3>1
    <3> QED BY <3>2
  <2> QED BY <2>1
<1>3. ASSUME NEW l \in Nat, l \in T PROVE l + 1 \in T
  <2>1. ASSUME NEW k \in 1..n+2, k + (l + 1) >= n + 1
        PROVE  u[k] \in 0..n /\ (k <= n + 1 => u[k] >= k - 1)
    <3>1. CASE k > n
      <4>1. u[k] = n
        BY <1>1, <3>1
      <4> QED BY <4>1
    <3>2. CASE k <= n
      <4>1. /\ k + 1 \in 1..n+2 /\ (k + 1) + l >= n + 1
            /\ k + 2 \in 1..n+2 /\ (k + 2) + l >= n + 1
        BY <2>1, <3>2
      <4>2. /\ u[k + 1] \in 0..n /\ (k + 1 <= n + 1 => u[k + 1] >= (k + 1) - 1)
            /\ u[k + 2] \in 0..n /\ (k + 2 <= n + 1 => u[k + 2] >= (k + 2) - 1)
        BY <1>3, <4>1
      <4>3. \/ u[k] = u[k + 1]
            \/ k < n /\ u[k] = u[k + 2]
            \/ u[k] = k
        <5>1. ~(k > n)
          BY <3>2
        <5> QED BY <1>1, <5>1
      <4> QED BY <3>2, <4>2, <4>3
    <3> QED BY <3>1, <3>2
  <2> HIDE DEF T
  <2>2. \A k \in 1..n+2 : k + (l + 1) >= n + 1 => u[k] \in 0..n /\ (k <= n + 1 => u[k] >= k - 1)
    BY <2>1
  <2> QED BY <2>2 DEF T
<1>4. Nat \subseteq T
  <2> HIDE DEF T
  <2> QED BY <1>2, <1>3, Induct
<1>5. n \in T
  <2> HIDE DEF T
  <2> QED BY <1>4
<1>6. i + 1 \in 1..n+2 /\ (i + 1) + n >= n + 1 /\ i + 1 <= n + 1
  OBVIOUS
<1>7. u[i + 1] \in 0..n /\ u[i + 1] >= (i + 1) - 1
  BY <1>5, <1>6
<1> QED BY <1>1, <1>7

(* The types that FileTypeOK gives the parser's variables, and what else    *)
(* Migrate keeps of its own.                                                *)
ParserTyped ==
    /\ sql \in Seq(STRING)
    /\ i \in 1..n+1
    /\ current \in Seq(0..n)
    /\ statements \in Seq(Seq(0..n))

Typed ==
    /\ ParserTyped
    /\ step \in {"open", "parse", "acquire", "execute", "send", "await", "reset", "return", "done"}
    /\ error \in {"none", "SqlFileError", "ConnectionError", "QueryFailed", "BadConnection",
                  "SocketFailed", "FailedToReconnect"}
    /\ lent \in BOOLEAN
    /\ session \in {"idle", "open", "failed", "gone"}
    /\ server \in {"rest", "has", "ok", "error"}

(* Every branch of the parser moves on within the text, at most one behind  *)
(* its end, and writes positions of the text into the statement.            *)
Wrote == i' \in 1..n+1 /\ current' \in Seq(0..n) /\ statements' \in Seq(Seq(0..n))

(* A line comment ends at its newline or behind the end of the text.        *)
LEMMA LineCommentWrites ==
  ASSUME ParserTyped, LineComment
  PROVE  Wrote
<1>1. n \in Nat /\ i \in 1..n+1
  BY LenProperties DEF ParserTyped, n
<1> DEFINE ends == {k \in i..n : sql[k] = "\n"} \cup {n + 1}
           m == n + 1
<1>2. m \in Nat /\ ends \in SUBSET (1..m) /\ ends # {}
  BY <1>1
<1>3. i' = Min(ends)
  BY DEF LineComment
<1>4. Min(ends) \in ends
  <2> HIDE DEF ends, m
  <2> QED BY <1>2, Extremes
<1>5. Min(ends) \in 1..m
  <2> HIDE DEF ends
  <2> QED BY <1>2, <1>4
<1>6. current' = current /\ statements' = statements
  BY DEF LineComment
<1> QED BY <1>3, <1>5, <1>6 DEF Wrote, ParserTyped

(* A block comment ends behind its closing or near the end of the text.     *)
LEMMA BlockCommentWrites ==
  ASSUME ParserTyped, BlockComment
  PROVE  Wrote
<1>1. n \in Nat /\ i \in 1..n+1 /\ i < n
  BY LenProperties DEF ParserTyped, n, BlockComment, AtPair
<1> DEFINE ends == {k \in i+2..n-1 : sql[k] = "*" /\ sql[k + 1] = "/"}
           pair == {i + 2, n}
           m == n + 1
<1>2. i' = IF ends # {} THEN Min(ends) + 2 ELSE Max(pair)
  BY DEF BlockComment
<1>3. m \in Nat /\ ends \in SUBSET (1..m) /\ pair \in SUBSET (1..m) /\ pair # {}
      /\ \A x \in ends : x \in Nat /\ x + 2 \in 1..m
  BY <1>1
<1>4. ends # {} => Min(ends) \in ends
  <2> HIDE DEF ends, m
  <2> QED BY <1>3, Extremes
<1>5. Max(pair) \in pair
  <2> HIDE DEF pair, m
  <2> QED BY <1>3, Extremes
<1>6. i' \in 1..m
  <2> HIDE DEF ends, pair, m
  <2> QED BY <1>2, <1>3, <1>4, <1>5
<1>7. current' = current /\ statements' = statements
  BY DEF BlockComment
<1> QED BY <1>6, <1>7 DEF Wrote, ParserTyped

(* A literal writes the positions from its opening to its closing quote.    *)
LEMMA LiteralWrites ==
  ASSUME ParserTyped, Literal
  PROVE  Wrote
<1>1. n \in Nat /\ i \in 1..n
  BY LenProperties DEF ParserTyped, n, Literal, At
<1>2. LiteralEnd \in i..n
  BY <1>1, LiteralEnds
<1> DEFINE last == LiteralEnd
           more == [k \in 1..last - i + 1 |-> i + k - 1]
<1>3. current' = current \o more /\ i' = last + 1 /\ statements' = statements
  BY DEF Literal
<1>4. last \in i..n
  BY <1>2
<1> HIDE DEF last
<1>5. last - i + 1 \in Nat /\ \A k \in 1..last - i + 1 : i + k - 1 \in 0..n
  BY <1>1, <1>4
<1>6. more \in [1..last - i + 1 -> 0..n]
  BY <1>5
<1>7. more \in Seq(0..n)
  <2> HIDE DEF more
  <2> QED BY <1>5, <1>6, SeqDef
<1>8. current \o more \in Seq(0..n)
  <2> HIDE DEF more
  <2> QED BY <1>7, ConcatProperties DEF ParserTyped
<1>9. i' \in 1..n+1
  BY <1>1, <1>3, <1>4
<1> QED BY <1>3, <1>8, <1>9 DEF Wrote, ParserTyped

(* A single character writes its own position, or a blank, or takes one     *)
(* away.                                                                    *)
LEMMA CharacterWrites ==
  ASSUME ParserTyped, Whitespace \/ CloseParen \/ Other
  PROVE  Wrote
<1>1. n \in Nat /\ i \in 1..n+1 /\ i <= n /\ i' = i + 1 /\ statements' = statements
  BY LenProperties DEF ParserTyped, n, Whitespace, CloseParen, Other, At
<1>2. i' \in 1..n+1 /\ i \in 0..n /\ 0 \in 0..n
  BY <1>1
<1>3. current \in Seq(0..n) /\ statements \in Seq(Seq(0..n))
  BY DEF ParserTyped
<1>4. Append(current, 0) \in Seq(0..n) /\ Append(current, i) \in Seq(0..n)
  BY <1>2, <1>3, AppendProperties
<1>5. CASE Whitespace
  BY <1>1, <1>2, <1>3, <1>4, <1>5 DEF Wrote, Whitespace
<1>6. CASE Other
  BY <1>1, <1>2, <1>3, <1>4, <1>6 DEF Wrote, Other
<1>7. CASE CloseParen
  <2> DEFINE front == IF current # <<>> /\ Char(Last(current)) = " " THEN Front(current)
                      ELSE current
  <2>1. current' = Append(front, i)
    BY <1>7 DEF CloseParen
  <2>2. Len(current) \in Nat /\ \A k \in 1..Len(current) - 1 : current[k] \in 0..n
    <3>1. Len(current) \in Nat
      BY <1>3, LenProperties
    <3>2. \A k \in 1..Len(current) : current[k] \in 0..n
      BY <1>3, ElementOfSeq
    <3> QED BY <3>1, <3>2
  <2>3. SubSeq(current, 1, Len(current) - 1) \in Seq(0..n)
    <3> DEFINE l == Len(current) - 1
    <3>1. l \in Int /\ \A k \in 1..l : current[k] \in 0..n
      BY <2>2
    <3> HIDE DEF l
    <3>2. SubSeq(current, 1, l) \in Seq(0..n)
      BY <3>1, SubSeqProperties
    <3> QED BY <3>2 DEF l
  <2>4. front \in Seq(0..n)
    BY <1>3, <2>3 DEF Front
  <2>5. Append(front, i) \in Seq(0..n)
    <3> HIDE DEF front
    <3> QED BY <1>2, <2>4, AppendProperties
  <2> QED BY <1>1, <1>2, <1>3, <2>1, <2>5 DEF Wrote
<1> QED BY <1>5, <1>6, <1>7

(* What a flush appends is a piece of the statement.                        *)
LEMMA FlushWrites ==
  ASSUME ParserTyped, Flush
  PROVE  current' \in Seq(0..n) /\ statements' \in Seq(Seq(0..n))
<1>1. current \in Seq(0..n) /\ statements \in Seq(Seq(0..n))
  BY DEF ParserTyped
<1> DEFINE solid == {k \in DOMAIN current : Char(current[k]) \notin Blank}
<1>2. current' = <<>>
      /\ statements' = IF solid = {} THEN statements
                       ELSE Append(statements, SubSeq(current, Min(solid), Max(solid)))
  BY DEF Flush
<1>3. current' \in Seq(0..n)
  BY <1>2, EmptySeq
<1>4. CASE solid = {}
  BY <1>1, <1>2, <1>3, <1>4
<1>5. CASE solid # {}
  <2> DEFINE len == Len(current)
             first == Min(solid)
             last == Max(solid)
  <2>1. len \in Nat /\ DOMAIN current = 1..len /\ \A k \in 1..len : current[k] \in 0..n
    BY <1>1, LenProperties
  <2>2. solid \in SUBSET (1..len)
    BY <2>1
  <2>3. first \in solid /\ last \in solid
    <3> HIDE DEF solid, len
    <3> QED BY <1>5, <2>1, <2>2, Extremes
  <2>4. first \in 1..len /\ last \in 1..len
    <3> HIDE DEF solid, len, first, last
    <3> QED BY <2>2, <2>3
  <2> HIDE DEF len, first, last
  <2>5. first \in Int /\ last \in Int /\ \A k \in first..last : current[k] \in 0..n
    BY <2>1, <2>4
  <2>6. SubSeq(current, first, last) \in Seq(0..n)
    BY <2>5, SubSeqProperties
  <2>7. Append(statements, SubSeq(current, first, last)) \in Seq(Seq(0..n))
    BY <1>1, <2>6, AppendProperties
  <2> QED BY <1>2, <1>3, <1>5, <2>7 DEF first, last
<1> QED BY <1>4, <1>5

(* A step of the parser, whichever branch it takes, stays within the text.  *)
LEMMA ParserWrites ==
  ASSUME Typed, ParseStep \/ ParseEnd
  PROVE  Typed'
<1>1. ParserTyped /\ sql' = sql
  BY DEF Typed, ParseStep, ParseEnd
<1>2. Wrote
  <2>1. CASE LineComment
    BY <1>1, <2>1, LineCommentWrites
  <2>2. CASE BlockComment
    BY <1>1, <2>2, BlockCommentWrites
  <2>3. CASE Literal
    BY <1>1, <2>3, LiteralWrites
  <2>4. CASE Whitespace \/ CloseParen \/ Other
    BY <1>1, <2>4, CharacterWrites
  <2>5. CASE Separator
    <3>1. n \in Nat /\ i \in 1..n+1 /\ i <= n /\ i' = i + 1 /\ Flush
      BY <1>1, <2>5, LenProperties DEF ParserTyped, n, Separator, At
    <3>2. i' \in 1..n+1
      BY <3>1
    <3> QED BY <1>1, <3>1, <3>2, FlushWrites DEF Wrote
  <2>6. CASE ParseEnd
    <3>1. Flush /\ i' = i
      BY <2>6 DEF ParseEnd
    <3> QED BY <1>1, <3>1, FlushWrites DEF Wrote, ParserTyped
  <2> QED BY <2>1, <2>2, <2>3, <2>4, <2>5, <2>6 DEF ParseStep
<1>3. ParserTyped'
  <2>1. n' = n
    BY <1>1 DEF n
  <2> QED BY <1>1, <1>2, <2>1 DEF ParserTyped, Wrote
<1>4. step' \in {"parse", "acquire"} /\ UNCHANGED <<error, lent, session, server>>
  BY DEF ParseStep, ParseEnd, serverVars
<1> QED BY <1>3, <1>4 DEF Typed

(* The steps that are not the parser's.                                     *)
BehindParser ==
    \/ OpenFile \/ Acquire \/ Execute \/ AllExecuted \/ Return
    \/ ExecuteStep \/ ServerStep \/ UNCHANGED fileVars

(* They leave the parser's variables alone.                                 *)
LEMMA ParserRests ==
  ASSUME BehindParser
  PROVE  UNCHANGED parserVars
<1>1. CASE OpenFile \/ Acquire \/ Execute \/ AllExecuted \/ Return
  BY <1>1 DEF OpenFile, Acquire, Execute, AllExecuted, Return
<1>2. CASE ExecuteStep
  BY <1>2 DEF ExecuteStep, Send, SeesLoss, Retries, Reconnects, ReconnectFails, SocketFails,
              ReadsResult, Succeeds, LosesResult, FailsWith, BeatReconnects
<1>3. CASE ServerStep
  BY <1>3 DEF ServerStep, ServerRuns, ServerEnds, ServerRejects, Serves, Lose
<1>4. CASE UNCHANGED fileVars
  BY <1>4 DEF fileVars
<1> QED BY <1>1, <1>2, <1>3, <1>4 DEF BehindParser

(* The other variables keep their types in them.                            *)
LEMMA MigrateTyped ==
  ASSUME Typed, BehindParser
  PROVE  /\ step' \in {"open", "parse", "acquire", "execute", "send", "await", "reset", "return",
                       "done"}
         /\ error' \in {"none", "SqlFileError", "ConnectionError", "QueryFailed", "BadConnection",
                         "SocketFailed", "FailedToReconnect"}
         /\ lent' \in BOOLEAN
         /\ session' \in {"idle", "open", "failed", "gone"}
         /\ server' \in {"rest", "has", "ok", "error"}
<1> USE DEF Typed, serverVars
<1>1. CASE OpenFile \/ Acquire \/ Execute \/ AllExecuted \/ Return
  BY <1>1 DEF OpenFile, Acquire, Execute, AllExecuted, Return
<1>2. CASE Send \/ SeesLoss \/ Reconnects \/ ReconnectFails
  BY <1>2 DEF Send, SeesLoss, Retries, Reconnects, ReconnectFails, FailsWith
<1>3. CASE SocketFails \/ ReadsResult \/ LosesResult \/ BeatReconnects
  BY <1>3 DEF SocketFails, ReadsResult, Succeeds, LosesResult, FailsWith, BeatReconnects
<1>4. CASE ServerStep
  BY <1>4 DEF ServerStep, ServerRuns, ServerEnds, ServerRejects, Serves, Lose
<1>5. CASE UNCHANGED fileVars
  BY <1>5 DEF fileVars
<1> QED BY <1>1, <1>2, <1>3, <1>4, <1>5 DEF BehindParser, ExecuteStep

(* Only before the parser does the file fail to open; the parser is not     *)
(* come back to.                                                            *)
LEMMA MigrateGoesOn ==
  ASSUME MInv, BehindParser
  PROVE  /\ step' \in {"open", "parse"} => step \in {"open", "parse"}
         /\ step' \notin {"open", "parse"} /\ error' # "SqlFileError" =>
              step \notin {"open", "parse"} /\ error # "SqlFileError"
<1> USE DEF MInv, Fresh, Stages
<1>1. CASE OpenFile \/ Acquire \/ Execute \/ AllExecuted \/ Return
  BY <1>1 DEF OpenFile, Acquire, Execute, AllExecuted, Return
<1>2. CASE Send \/ SeesLoss \/ Reconnects \/ ReconnectFails
  BY <1>2 DEF Send, SeesLoss, Retries, Reconnects, ReconnectFails, FailsWith
<1>3. CASE SocketFails \/ ReadsResult \/ LosesResult \/ BeatReconnects
  BY <1>3 DEF SocketFails, ReadsResult, Succeeds, LosesResult, FailsWith, BeatReconnects
<1>4. CASE ServerStep
  BY <1>4 DEF ServerStep, ServerRuns, ServerEnds, ServerRejects, Serves, Lose
<1>5. CASE UNCHANGED fileVars
  BY <1>5 DEF fileVars
<1> QED BY <1>1, <1>2, <1>3, <1>4, <1>5 DEF BehindParser, ExecuteStep

(* The types that the parser keeps hold throughout, for any file.           *)
THEOREM TypedInvariance == FileSpec => []Typed
<1>1. FileInit => Typed
  <2> SUFFICES ASSUME FileInit PROVE Typed
    OBVIOUS
  <2>1. sql \in Seq(STRING)
    BY TextsAssumption DEF FileInit
  <2>2. n \in Nat
    BY <2>1, LenProperties DEF n
  <2>3. i \in 1..n+1
    BY <2>2 DEF FileInit
  <2>4. current \in Seq(0..n) /\ statements \in Seq(Seq(0..n))
    BY EmptySeq DEF FileInit
  <2> QED BY <2>1, <2>3, <2>4 DEF FileInit, Typed, ParserTyped
<1>2. Typed /\ [FileNext]_fileVars => Typed'
  <2> SUFFICES ASSUME Typed, [FileNext]_fileVars PROVE Typed'
    OBVIOUS
  <2>1. CASE ParseStep \/ ParseEnd
    BY <2>1, ParserWrites
  <2>2. CASE BehindParser
    <3>1. ParserTyped'
      BY <2>2, ParserRests DEF Typed, ParserTyped, parserVars, n
    <3> QED BY <2>2, <3>1, MigrateTyped DEF Typed
  <2> QED BY <2>1, <2>2 DEF FileNext, BehindParser
<1> QED BY <1>1, <1>2, PTL DEF FileSpec

(* Every variable keeps its type, for any file.                             *)
THEOREM FileTypeCorrect == FileSpec => []FileTypeOK
<1>1. Typed /\ MInv => FileTypeOK
  BY DEF Typed, ParserTyped, MInv, Stages, Reached, FileTypeOK
<1> QED BY <1>1, TypedInvariance, MigrationInvariance, PTL

-----------------------------------------------------------------------------
(* What the characters are read as                                          *)

Reading == {"code", "line", "opening", "block", "closing", "literal", "escaped"}

(* ReadIn begins with code and goes from character to character by Follows. *)
LEMMA ReadInSteps ==
  ASSUME n \in Nat, n # 0
  PROVE  /\ ReadIn[1] = "code"
         /\ \A k \in 2..n : ReadIn[k] = Follows(ReadIn[k - 1], sql[k - 1], sql[k])
<1> DEFINE m == n - 1
           G == [p \in (1..m) \X Reading |-> Follows(p[2], sql[p[1]], sql[p[1] + 1])]
           u == CHOOSE u : u = [k \in 1..n |-> IF k = 1 THEN "code"
                                              ELSE Follows(u[k - 1], sql[k - 1], sql[k])]
<1>1. G \in [(1..m) \X Reading -> Reading]
  <2>1. \A s \in Reading : \A c, d : Follows(s, c, d) \in Reading
    BY DEF Follows, Reading
  <2> QED BY <2>1
<1>2. PICK f \in [0..m -> Reading] : f[0] = "code" /\ \A j \in 1..m : f[j] = G[<<j, f[j - 1]>>]
  <2>1. m \in Nat /\ "code" \in Reading
    BY DEF Reading
  <2>2. Recursion(Reading, "code", m, G) # {}
    <3> HIDE DEF m, G
    <3> QED BY <1>1, <2>1, RecursionExists
  <2> HIDE DEF m, G
  <2> QED BY <2>2 DEF Recursion
<1>3. \A j \in 1..m : f[j] = Follows(f[j - 1], sql[j], sql[j + 1])
  <2>1. ASSUME NEW j \in 1..m PROVE f[j] = Follows(f[j - 1], sql[j], sql[j + 1])
    <3>1. f[j - 1] \in Reading
      BY <1>2
    <3>2. <<j, f[j - 1]>> \in (1..m) \X Reading
      BY <3>1
    <3> QED BY <1>2, <3>2
  <2> QED BY <2>1
<1> DEFINE g == [k \in 1..n |-> f[k - 1]]
<1>4. g = [k \in 1..n |-> IF k = 1 THEN "code" ELSE Follows(g[k - 1], sql[k - 1], sql[k])]
  <2>1. ASSUME NEW k \in 1..n
        PROVE  g[k] = IF k = 1 THEN "code" ELSE Follows(g[k - 1], sql[k - 1], sql[k])
    <3>1. CASE k = 1
      BY <1>2, <3>1
    <3>2. CASE k # 1
      <4>1. k - 1 \in 1..m /\ k - 1 \in 1..n /\ (k - 1) + 1 = k
        BY <3>2
      <4>2. f[k - 1] = Follows(f[(k - 1) - 1], sql[k - 1], sql[(k - 1) + 1])
        BY <1>3, <4>1
      <4> QED BY <3>2, <4>1, <4>2
    <3> QED BY <3>1, <3>2
  <2> QED BY <2>1
<1>5. u = [k \in 1..n |-> IF k = 1 THEN "code" ELSE Follows(u[k - 1], sql[k - 1], sql[k])]
  <2> HIDE DEF g
  <2> QED BY <1>4
<1>6. ReadIn = u
  BY DEF ReadIn
<1>7. \A k \in 1..n : u[k] = IF k = 1 THEN "code" ELSE Follows(u[k - 1], sql[k - 1], sql[k])
  <2> HIDE DEF u
  <2> QED BY <1>5
<1>8. 1 \in 1..n /\ \A k \in 2..n : k \in 1..n /\ k # 1
  OBVIOUS
<1> HIDE DEF u
<1> QED BY <1>6, <1>7, <1>8

(* The step from one character to the next.                                 *)
LEMMA ReadsOn ==
  ASSUME n \in Nat, NEW k \in Nat, k >= 1, k < n
  PROVE  ReadIn[k + 1] = Follows(ReadIn[k], sql[k], sql[k + 1])
<1>1. k + 1 \in 2..n /\ (k + 1) - 1 = k /\ n # 0
  OBVIOUS
<1> QED BY <1>1, ReadInSteps

(* A line comment goes to the end of its line.                              *)
LEMMA LineRead ==
  ASSUME n \in Nat, i \in Nat, i >= 1, AtPair("-", "-"), ReadIn[i] = "code",
         NEW e \in Nat, e > i, e <= n + 1, \A k \in i..e-1 : sql[k] # "\n",
         e <= n => sql[e] = "\n"
  PROVE  /\ \A k \in i+1..e-1 : ReadIn[k] = "line"
         /\ e <= n => ReadIn[e] = "code"
<1>1. i < n /\ sql[i] = "-" /\ sql[i + 1] = "-"
  BY DEF AtPair
<1>2. ReadIn[i + 1] = "line"
  BY <1>1, ReadsOn DEF Follows
<1> DEFINE T == {m \in Nat : (i + 1) + m <= e - 1 => ReadIn[(i + 1) + m] = "line"}
<1>3. 0 \in T
  BY <1>2
<1>4. ASSUME NEW m \in Nat, m \in T PROVE m + 1 \in T
  <2> SUFFICES ASSUME (i + 1) + (m + 1) <= e - 1 PROVE ReadIn[(i + 1) + (m + 1)] = "line"
    OBVIOUS
  <2> DEFINE k == (i + 1) + m
  <2>1. k \in Nat /\ k >= 1 /\ k < n /\ k <= e - 1 /\ k + 1 \in i..e-1 /\ (i + 1) + (m + 1) = k + 1
    OBVIOUS
  <2>2. ReadIn[k] = "line"
    BY <1>4, <2>1
  <2> HIDE DEF k
  <2>3. sql[k + 1] # "\n"
    BY <2>1
  <2>4. ReadIn[k + 1] = Follows(ReadIn[k], sql[k], sql[k + 1])
    BY <2>1, ReadsOn
  <2> QED BY <2>1, <2>2, <2>3, <2>4 DEF Follows
<1>5. Nat \subseteq T
  <2> HIDE DEF T
  <2> QED BY <1>3, <1>4, Induct
<1>6. ASSUME NEW k \in i+1..e-1 PROVE ReadIn[k] = "line"
  <2>1. k - (i + 1) \in Nat /\ (i + 1) + (k - (i + 1)) = k /\ k <= e - 1
    OBVIOUS
  <2>2. k - (i + 1) \in T
    <3> HIDE DEF T
    <3> QED BY <1>5, <2>1
  <2> QED BY <2>1, <2>2
<1>7. ASSUME e <= n PROVE ReadIn[e] = "code"
  <2>1. sql[i] # "\n" /\ sql[i + 1] # "\n"
    BY <1>1
  <2>2. e # i + 1
    BY <1>7, <2>1
  <2>3. e - 1 \in i+1..e-1 /\ e - 1 \in Nat /\ e - 1 >= 1 /\ e - 1 < n /\ (e - 1) + 1 = e
    BY <1>7, <2>2
  <2>4. ReadIn[e - 1] = "line"
    BY <1>6, <2>3
  <2>5. ReadIn[(e - 1) + 1] = Follows(ReadIn[e - 1], sql[e - 1], sql[(e - 1) + 1])
    BY <2>3, ReadsOn
  <2> QED BY <1>7, <2>3, <2>4, <2>5 DEF Follows
<1> QED BY <1>6, <1>7

(* Behind its opening a block comment goes on as long as it is not closed,  *)
(* and the code begins again behind the first closing.                      *)
LEMMA BlockRead ==
  ASSUME n \in Nat, i \in Nat, i >= 1, AtPair("/", "*"), ReadIn[i] = "code",
         NEW e \in Nat, e >= i + 1, e <= n,
         \A k \in i+2..e-1 : ~(sql[k] = "*" /\ sql[k + 1] = "/")
  PROVE  /\ ReadIn[i + 1] = "opening"
         /\ \A k \in i+2..e : ReadIn[k] = "block"
         /\ e + 1 <= n /\ e >= i + 2 /\ sql[e] = "*" /\ sql[e + 1] = "/" =>
              ReadIn[e + 1] = "closing" /\ (e + 2 <= n => ReadIn[e + 2] = "code")
<1>1. i < n /\ sql[i] = "/" /\ sql[i + 1] = "*"
  BY DEF AtPair
<1>2. ReadIn[i + 1] = "opening"
  BY <1>1, ReadsOn DEF Follows
<1> DEFINE T == {m \in Nat : (i + 2) + m <= e => ReadIn[(i + 2) + m] = "block"}
<1>3. 0 \in T
  <2>1. ASSUME i + 2 <= n PROVE ReadIn[i + 2] = "block"
    <3>1. i + 1 \in Nat /\ i + 1 >= 1 /\ i + 1 < n /\ (i + 1) + 1 = i + 2
      BY <2>1
    <3>2. ReadIn[(i + 1) + 1] = Follows(ReadIn[i + 1], sql[i + 1], sql[(i + 1) + 1])
      BY <3>1, ReadsOn
    <3> QED BY <1>2, <3>1, <3>2 DEF Follows
  <2> QED BY <2>1
<1>4. ASSUME NEW m \in Nat, m \in T PROVE m + 1 \in T
  <2> SUFFICES ASSUME (i + 2) + (m + 1) <= e PROVE ReadIn[(i + 2) + (m + 1)] = "block"
    OBVIOUS
  <2> DEFINE k == (i + 2) + m
  <2>1. k \in Nat /\ k >= 1 /\ k < n /\ k <= e /\ k \in i+2..e-1 /\ (i + 2) + (m + 1) = k + 1
    OBVIOUS
  <2>2. ReadIn[k] = "block"
    BY <1>4, <2>1
  <2> HIDE DEF k
  <2>3. ~(sql[k] = "*" /\ sql[k + 1] = "/")
    BY <2>1
  <2>4. ReadIn[k + 1] = Follows(ReadIn[k], sql[k], sql[k + 1])
    BY <2>1, ReadsOn
  <2> QED BY <2>1, <2>2, <2>3, <2>4 DEF Follows
<1>5. Nat \subseteq T
  <2> HIDE DEF T
  <2> QED BY <1>3, <1>4, Induct
<1>6. ASSUME NEW k \in i+2..e PROVE ReadIn[k] = "block"
  <2>1. k - (i + 2) \in Nat /\ (i + 2) + (k - (i + 2)) = k /\ k <= e
    OBVIOUS
  <2>2. k - (i + 2) \in T
    <3> HIDE DEF T
    <3> QED BY <1>5, <2>1
  <2> QED BY <2>1, <2>2
<1>7. ASSUME e + 1 <= n, e >= i + 2, sql[e] = "*", sql[e + 1] = "/"
      PROVE  ReadIn[e + 1] = "closing" /\ (e + 2 <= n => ReadIn[e + 2] = "code")
  <2>1. e \in i+2..e /\ e >= 1 /\ e < n
    BY <1>7
  <2>2. ReadIn[e + 1] = Follows(ReadIn[e], sql[e], sql[e + 1])
    BY <2>1, ReadsOn
  <2>3. ReadIn[e + 1] = "closing"
    BY <1>6, <1>7, <2>1, <2>2 DEF Follows
  <2>4. ASSUME e + 2 <= n PROVE ReadIn[e + 2] = "code"
    <3>1. e + 1 \in Nat /\ e + 1 >= 1 /\ e + 1 < n /\ (e + 1) + 1 = e + 2
      BY <2>4
    <3>2. ReadIn[(e + 1) + 1] = Follows(ReadIn[e + 1], sql[e + 1], sql[(e + 1) + 1])
      BY <3>1, ReadsOn
    <3> QED BY <2>3, <3>1, <3>2 DEF Follows
  <2> QED BY <2>3, <2>4
<1> QED BY <1>2, <1>6, <1>7

(* A literal is read as one to its closing quote, where the parser ends it; *)
(* if there is none, both read it to the end of the text.                   *)
LEMMA LiteralRead ==
  ASSUME n \in Nat, i \in 1..n, sql[i] = "'", ReadIn[i] = "code"
  PROVE  /\ \A j \in i+1..LiteralEnd : ReadIn[j] \in {"literal", "escaped"}
         /\ LiteralEnd < n => ReadIn[LiteralEnd + 1] = "code"
         /\ (LiteralEnd > i /\ sql[LiteralEnd] = "'") \/ (LiteralEnd = n /\ OpenLiteral)
<1>1. PICK u : /\ LiteralEnd = u[i + 1]
               /\ \A k \in 1..n+2 : u[k] = IF k > n THEN n
                                             ELSE IF sql[k] # "'" THEN u[k + 1]
                                             ELSE IF k < n /\ sql[k + 1] = "'" THEN u[k + 2] ELSE k
  BY LiteralEndUnfold
<1> DEFINE Inside(k) == (k <= n /\ ReadIn[k] = "literal") \/ (k = n + 1 /\ OpenLiteral)
           Good(k) == /\ u[k] \in k-1..n
                      /\ \A j \in k..u[k] : ReadIn[j] \in {"literal", "escaped"}
                      /\ u[k] < n => ReadIn[u[k] + 1] = "code"
                      /\ (u[k] >= k /\ sql[u[k]] = "'") \/ (u[k] = n /\ OpenLiteral)
           T == {l \in Nat : \A k \in i+1..n+1 : k + l >= n + 1 /\ Inside(k) => Good(k)}
<1>2. ASSUME Inside(n + 1) PROVE Good(n + 1)
  <2>1. n + 1 \in 1..n+2 /\ n + 1 > n
    OBVIOUS
  <2>2. u[n + 1] = n
    BY <1>1, <2>1
  <2>3. OpenLiteral
    BY <1>2
  <2> QED BY <2>2, <2>3
<1>3. 0 \in T
  <2>1. ASSUME NEW k \in i+1..n+1, k + 0 >= n + 1 PROVE k = n + 1
    BY <2>1
  <2> HIDE DEF Inside, Good
  <2> QED BY <1>2, <2>1
<1>4. ASSUME NEW k \in i+1..n, Inside(k), \A j \in k+1..n+1 : Inside(j) => Good(j)
      PROVE  Good(k)
  <2>1. k \in Nat /\ k >= 1 /\ k <= n /\ k \in 1..n+2 /\ ~(k > n) /\ n # 0
    OBVIOUS
  <2>2. ReadIn[k] = "literal"
    BY <1>4, <2>1
  <2>3. k < n => ReadIn[k + 1] = Follows("literal", sql[k], sql[k + 1])
    BY <2>1, <2>2, ReadsOn
  <2>4. CASE sql[k] # "'"
    <3>1. u[k] = u[k + 1]
      BY <1>1, <2>1, <2>4
    <3>2. Inside(k + 1)
      <4>1. CASE k < n
        BY <2>3, <2>4, <4>1 DEF Follows
      <4>2. CASE k = n
        BY <2>1, <2>2, <2>4, <4>2 DEF OpenLiteral
      <4> QED BY <2>1, <4>1, <4>2
    <3>3. Good(k + 1)
      <4>1. k + 1 \in k+1..n+1
        BY <2>1
      <4> HIDE DEF Inside, Good
      <4> QED BY <1>4, <3>2, <4>1
    <3>4. \A j \in k..u[k] : j = k \/ j \in k+1..u[k + 1]
      BY <2>1, <3>1, <3>3
    <3> QED BY <2>1, <2>2, <3>1, <3>3, <3>4
  <2>5. CASE sql[k] = "'" /\ k < n /\ sql[k + 1] = "'"
    <3>1. u[k] = u[k + 2]
      BY <1>1, <2>1, <2>5
    <3>2. ReadIn[k + 1] = "escaped"
      BY <2>3, <2>5 DEF Follows
    <3>3. Inside(k + 2)
      <4>1. CASE k + 1 < n
        <5>1. k + 1 \in Nat /\ k + 1 >= 1 /\ (k + 1) + 1 = k + 2
          BY <2>1
        <5>2. ReadIn[(k + 1) + 1] = Follows(ReadIn[k + 1], sql[k + 1], sql[(k + 1) + 1])
          BY <4>1, <5>1, ReadsOn
        <5> QED BY <3>2, <4>1, <5>1, <5>2 DEF Follows
      <4>2. CASE k + 1 = n
        BY <2>1, <3>2, <4>2 DEF OpenLiteral
      <4> QED BY <2>1, <2>5, <4>1, <4>2
    <3>4. Good(k + 2)
      <4>1. k + 2 \in k+1..n+1
        BY <2>1, <2>5
      <4> HIDE DEF Inside, Good
      <4> QED BY <1>4, <3>3, <4>1
    <3>5. \A j \in k..u[k] : j = k \/ j = k + 1 \/ j \in k+2..u[k + 2]
      BY <2>1, <3>1, <3>4
    <3> QED BY <2>1, <2>2, <3>1, <3>2, <3>4, <3>5
  <2>6. CASE sql[k] = "'" /\ ~(k < n /\ sql[k + 1] = "'")
    <3>1. u[k] = k
      BY <1>1, <2>1, <2>6
    <3>2. k < n => ReadIn[k + 1] = "code"
      BY <2>3, <2>6 DEF Follows
    <3>3. \A j \in k..k : j = k
      BY <2>1
    <3> QED BY <2>1, <2>2, <2>6, <3>1, <3>2, <3>3
  <2> QED BY <2>4, <2>5, <2>6
<1>5. ASSUME NEW l \in Nat, l \in T PROVE l + 1 \in T
  <2>1. ASSUME NEW k \in i+1..n+1, k + (l + 1) >= n + 1, Inside(k) PROVE Good(k)
    <3>1. CASE k = n + 1
      <4> HIDE DEF Inside, Good
      <4> QED BY <1>2, <2>1, <3>1
    <3>2. CASE k <= n
      <4>1. k \in i+1..n /\ \A j \in k+1..n+1 : j \in i+1..n+1 /\ j + l >= n + 1
        BY <2>1, <3>2
      <4>2. \A j \in k+1..n+1 : Inside(j) => Good(j)
        <5> HIDE DEF Inside, Good
        <5> QED BY <1>5, <4>1
      <4> HIDE DEF Inside, Good
      <4> QED BY <1>4, <2>1, <4>1, <4>2
    <3> QED BY <2>1, <3>1, <3>2
  <2> HIDE DEF Inside, Good
  <2> QED BY <2>1
<1>6. n \in T
  <2> HIDE DEF T
  <2> QED BY <1>3, <1>5, Induct
<1>7. Inside(i + 1)
  <2>1. CASE i < n
    <3>1. ReadIn[i + 1] = Follows("code", sql[i], sql[i + 1])
      BY <2>1, ReadsOn
    <3> QED BY <2>1, <3>1 DEF Follows
  <2>2. CASE i = n
    BY <2>2 DEF OpenLiteral
  <2> QED BY <2>1, <2>2
<1>8. Good(i + 1)
  <2>1. i + 1 \in i+1..n+1 /\ (i + 1) + n >= n + 1
    OBVIOUS
  <2> HIDE DEF Inside, Good
  <2> QED BY <1>6, <1>7, <2>1
<1>9. u[i + 1] >= i + 1 => u[i + 1] > i
  BY <1>8
<1> QED BY <1>1, <1>8, <1>9

(* Between two tokens the parser is in the code.  It is at the last         *)
(* character as well when it has given up on the end of a block comment.    *)
Boundary(j) == j <= n => ReadIn[j] = "code" \/ (OpenComment /\ j = n)

(* Nothing of the text from one position to another is to be kept.          *)
Silent(j, e) == \A k \in j..e-1 : k \notin Kept /\ ~Gap(k) /\ ~Split(k)

(* What is read as a comment is not kept.                                   *)
LEMMA CommentSilent ==
  ASSUME NEW k, ReadIn[k] \in {"line", "opening", "block", "closing"}
  PROVE  k \notin Kept /\ ~Gap(k) /\ ~Split(k)
BY DEF Kept, InLiteral, InCode, Gap, Split

(* What is read as a literal is.                                            *)
LEMMA LiteralKept ==
  ASSUME NEW k \in 1..n, ReadIn[k] \in {"literal", "escaped"} \/ (ReadIn[k] = "code" /\ sql[k] = "'")
  PROVE  k \in Kept /\ ~Gap(k) /\ ~Split(k)
BY DEF Kept, InLiteral, InCode, Gap, Split

(* The first character of a comment is not kept either.                     *)
LEMMA OpeningSilent ==
  ASSUME i < n, AtComment, ReadIn[i] = "code"
  PROVE  i \notin Kept /\ ~Gap(i) /\ ~Split(i)
<1>1. OpensComment(i) /\ sql[i] # "'"
  BY DEF AtComment, AtPair, OpensComment, Follows
<1> QED BY <1>1 DEF Kept, InLiteral, InCode, Gap, Split

(* A line comment is silent.                                                *)
LEMMA LineToken ==
  ASSUME ParserTyped, LineComment, ReadIn[i] = "code"
  PROVE  i' > i /\ Silent(i, i') /\ Boundary(i')
<1>1. n \in Nat /\ i \in 1..n+1 /\ i < n /\ AtPair("-", "-")
  BY LenProperties DEF ParserTyped, n, LineComment, AtPair
<1> DEFINE ends == {k \in i..n : sql[k] = "\n"} \cup {n + 1}
           m == n + 1
           e == Min(ends)
<1>2. m \in Nat /\ ends \in SUBSET (1..m) /\ ends # {}
  BY <1>1
<1>3. i' = e
  BY DEF LineComment
<1>4. e \in ends /\ \A x \in ends : e <= x
  <2> HIDE DEF ends, m
  <2> QED BY <1>2, Extremes
<1> HIDE DEF e
<1>5. e \in i..n+1 /\ (e <= n => sql[e] = "\n")
  BY <1>1, <1>4
<1>6. \A k \in i..e-1 : sql[k] # "\n"
  <2>1. ASSUME NEW k \in i..e-1, sql[k] = "\n" PROVE FALSE
    <3>1. k \in ends
      BY <1>1, <1>5, <2>1
    <3> HIDE DEF ends
    <3>2. e <= k
      BY <1>4, <3>1
    <3> QED BY <1>1, <1>5, <3>2
  <2> QED BY <2>1
<1>7. e > i
  <2>1. sql[i] # "\n"
    BY <1>1 DEF AtPair
  <2>2. e # i
    BY <1>1, <1>5, <2>1
  <2> QED BY <1>1, <1>5, <2>2
<1>8. /\ \A k \in i+1..e-1 : ReadIn[k] = "line"
      /\ e <= n => ReadIn[e] = "code"
  <2>1. i \in Nat /\ i >= 1 /\ e \in Nat /\ e <= n + 1
    BY <1>1, <1>5
  <2> QED BY <1>1, <1>5, <1>6, <1>7, <2>1, LineRead
<1>9. Silent(i, e)
  <2>1. ASSUME NEW k \in i..e-1 PROVE k \notin Kept /\ ~Gap(k) /\ ~Split(k)
    <3>1. CASE k = i
      BY <1>1, <3>1, OpeningSilent DEF AtComment
    <3>2. CASE k # i
      <4>1. ReadIn[k] = "line"
        BY <1>1, <1>5, <1>8, <3>2
      <4> QED BY <4>1, CommentSilent
    <3> QED BY <3>1, <3>2
  <2> QED BY <2>1 DEF Silent
<1> QED BY <1>3, <1>7, <1>8, <1>9 DEF Boundary

(* A block comment is silent up to its end; the last character of one that  *)
(* has no end is left to the next round.                                    *)
LEMMA BlockToken ==
  ASSUME ParserTyped, BlockComment, ReadIn[i] = "code"
  PROVE  i' > i /\ Silent(i, i') /\ Boundary(i')
<1>1. n \in Nat /\ i \in 1..n+1 /\ i < n /\ AtPair("/", "*") /\ i \in Nat /\ i >= 1
  BY LenProperties DEF ParserTyped, n, BlockComment, AtPair
<1> DEFINE ends == {k \in i+2..n-1 : sql[k] = "*" /\ sql[k + 1] = "/"}
           pair == {i + 2, n}
           m == n + 1
           e == IF ends # {} THEN Min(ends) ELSE n
<1>2. i' = IF ends # {} THEN Min(ends) + 2 ELSE Max(pair)
  BY DEF BlockComment
<1>3. m \in Nat /\ ends \in SUBSET (1..m) /\ pair \in SUBSET (1..m) /\ pair # {}
  BY <1>1
<1>4. ends # {} => Min(ends) \in ends /\ \A x \in ends : Min(ends) <= x
  <2> HIDE DEF ends, m
  <2> QED BY <1>3, Extremes
<1>5. Max(pair) \in pair /\ \A x \in pair : Max(pair) >= x
  <2> HIDE DEF pair, m
  <2> QED BY <1>3, Extremes
<1>6. /\ e \in Nat /\ e >= i + 1 /\ e <= n
      /\ ends # {} => e \in i+2..n-1 /\ sql[e] = "*" /\ sql[e + 1] = "/" /\ i' = e + 2
      /\ ends = {} => e = n
  <2>1. CASE ends # {}
    BY <1>1, <1>2, <1>4, <2>1
  <2>2. CASE ends = {}
    BY <1>1, <2>2
  <2> QED BY <2>1, <2>2
<1>7. \A k \in i+2..e-1 : ~(sql[k] = "*" /\ sql[k + 1] = "/")
  <2>1. ASSUME NEW k \in i+2..e-1, sql[k] = "*", sql[k + 1] = "/" PROVE FALSE
    <3>1. k \in i+2..n-1 /\ k < e
      BY <1>1, <1>6, <2>1
    <3>2. k \in ends
      BY <2>1, <3>1
    <3>3. ends # {} /\ e <= k
      BY <1>4, <3>2
    <3> QED BY <1>6, <3>1, <3>3
  <2> QED BY <2>1
<1> HIDE DEF e
<1>8. /\ ReadIn[i + 1] = "opening"
      /\ \A k \in i+2..e : ReadIn[k] = "block"
      /\ e + 1 <= n /\ e >= i + 2 /\ sql[e] = "*" /\ sql[e + 1] = "/" =>
           ReadIn[e + 1] = "closing" /\ (e + 2 <= n => ReadIn[e + 2] = "code")
  BY <1>1, <1>6, <1>7, BlockRead
<1>9. /\ i \notin Kept /\ ~Gap(i) /\ ~Split(i)
      /\ \A k \in i+1..e : k \notin Kept /\ ~Gap(k) /\ ~Split(k)
  <2>1. ASSUME NEW k \in i+1..e PROVE ReadIn[k] \in {"opening", "block"}
    <3>1. k = i + 1 \/ k \in i+2..e
      BY <1>1, <1>6
    <3> QED BY <1>8, <3>1
  <2>2. i \notin Kept /\ ~Gap(i) /\ ~Split(i)
    BY <1>1, OpeningSilent DEF AtComment
  <2> QED BY <2>1, <2>2, CommentSilent
<1>10. CASE ends # {}
  <2>1. /\ e + 1 <= n /\ e >= i + 2 /\ e \in Nat
        /\ i' = e + 2 /\ i' > i /\ \A k \in i..i'-1 : k = i \/ k \in i+1..e \/ k = e + 1
    BY <1>1, <1>6, <1>10
  <2>2. ReadIn[e + 1] = "closing" /\ (e + 2 <= n => ReadIn[e + 2] = "code")
    BY <1>6, <1>8, <1>10, <2>1
  <2>3. Silent(i, i')
    BY <1>9, <2>1, <2>2, CommentSilent DEF Silent
  <2> QED BY <2>1, <2>2, <2>3 DEF Boundary
<1>11. CASE ends = {}
  <2>1. e = n /\ i' \in {i + 2, n} /\ i' >= i + 2 /\ i' >= n
    BY <1>2, <1>5, <1>6, <1>11
  <2>2. i' > i /\ i' <= n + 1 /\ \A k \in i..i'-1 : k = i \/ k \in i+1..e
    <3>1. i \in Nat /\ n \in Nat /\ i < n
      BY <1>1
    <3>2. i' \in Nat /\ i' > i /\ i' <= n + 1
      BY <2>1, <3>1
    <3>3. ASSUME NEW k \in i..i'-1 PROVE k = i \/ k \in i+1..n
      <4> DEFINE j == i'
      <4>1. j \in Nat /\ j <= n + 1 /\ k \in i..j-1
        BY <3>2, <3>3
      <4> HIDE DEF j
      <4>2. k \in Int /\ k >= i /\ k <= n
        BY <3>1, <4>1
      <4> QED BY <3>1, <4>2
    <3> QED BY <2>1, <3>2, <3>3
  <2>3. Silent(i, i')
    BY <1>9, <2>2 DEF Silent
  <2>4. ASSUME i' <= n PROVE OpenComment /\ i' = n
    <3>1. i' = n /\ n \in i+2..e /\ n > 0
      BY <1>1, <2>1, <2>4
    <3> QED BY <1>8, <3>1 DEF OpenComment
  <2> QED BY <2>2, <2>3, <2>4 DEF Boundary
<1> QED BY <1>10, <1>11

(* All of a literal is kept.                                                *)
LEMMA LiteralToken ==
  ASSUME n \in Nat, i \in 1..n, sql[i] = "'", ReadIn[i] = "code"
  PROVE  /\ \A k \in i..LiteralEnd : k \in Kept /\ ~Gap(k) /\ ~Split(k)
         /\ Boundary(LiteralEnd + 1)
<1>1. LiteralEnd \in i..n
  BY LiteralEnds
<1>2. /\ \A k \in i+1..LiteralEnd : ReadIn[k] \in {"literal", "escaped"}
      /\ LiteralEnd < n => ReadIn[LiteralEnd + 1] = "code"
  BY LiteralRead
<1>3. ASSUME NEW k \in i..LiteralEnd PROVE k \in Kept /\ ~Gap(k) /\ ~Split(k)
  <2>1. k \in 1..n /\ (k = i \/ k \in i+1..LiteralEnd)
    BY <1>1
  <2> QED BY <1>2, <2>1, LiteralKept
<1>4. LiteralEnd + 1 <= n => LiteralEnd < n
  BY <1>1
<1> QED BY <1>2, <1>3, <1>4 DEF Boundary

(* A character of the code that opens neither a comment nor a literal.      *)
LEMMA CharacterToken ==
  ASSUME n \in Nat, i \in 1..n, sql[i] # "'", ~AtComment, ReadIn[i] = "code"
  PROVE  /\ i \in Kept <=> sql[i] \notin Blank /\ sql[i] # ";"
         /\ Gap(i) <=> sql[i] \in Blank
         /\ Split(i) <=> sql[i] = ";"
         /\ Boundary(i + 1)
<1>1. i < n => Follows("code", sql[i], sql[i + 1]) = "code"
  BY DEF AtComment, AtPair, Follows
<1>2. InCode(i)
  BY <1>1 DEF InCode, OpensComment
<1>3. i < n => ReadIn[i + 1] = "code"
  BY <1>1, ReadsOn
<1>4. i + 1 <= n => i < n
  OBVIOUS
<1> QED BY <1>2, <1>3, <1>4 DEF Boundary, Kept, Gap, Split, InLiteral

-----------------------------------------------------------------------------
(* Nothing is lost: the statements and the one that is being built hold     *)
(* what is kept of the text in front of the parser, in its order            *)

Solid(p) == p # 0 /\ sql[p] \notin Blank

Ordered(ss, c, j) ==
    /\ InOrder(ss) /\ Ascends(c)
    /\ Before(AllPositions(ss), Positions(c))
    /\ Before(AllPositions(ss) \cup Positions(c), {j})

(* What the parser has in hand when it stands at j; the last character of   *)
(* an open comment comes on top                                             *)
Whole(ss, c, j) ==
    LET found == AllPositions(ss) \cup Positions(c)
        read == {k \in Kept : k < j}
    IN \/ found = read
       \/ OpenComment /\ j = n + 1 /\ found = read \cup {n}

(* A blank that is not the parser's own stands between characters of its    *)
(* literal, so trimming does not reach it                                   *)
Padded(c, j) ==
    \A x \in DOMAIN c : c[x] # 0 /\ ~Solid(c[x]) =>
        /\ \E y \in DOMAIN c : y < x /\ Solid(c[y])
        /\ \/ OpenLiteral /\ j = n + 1
           \/ \E y \in DOMAIN c : x < y /\ Solid(c[y])

Holding(ss, c, j) == Ordered(ss, c, j) /\ Whole(ss, c, j) /\ Padded(c, j)

(* The positions in a sequence are its elements but 0.                      *)
LEMMA PositionsOf ==
  ASSUME NEW s, NEW p
  PROVE  p \in Positions(s) <=> p # 0 /\ \E x \in DOMAIN s : s[x] = p
BY DEF Positions, Range

(* Sequences of positions hold positions of the text.                       *)
LEMMA PositionsTyped ==
  ASSUME n \in Nat, NEW s \in Seq(0..n)
  PROVE  /\ Positions(s) \subseteq 1..n
         /\ Len(s) \in Nat /\ DOMAIN s = 1..Len(s) /\ \A x \in 1..Len(s) : s[x] \in 0..n
<1>1. Len(s) \in Nat /\ DOMAIN s = 1..Len(s)
  BY LenProperties
<1>2. \A x \in 1..Len(s) : s[x] \in 0..n
  BY ElementOfSeq
<1>3. ASSUME NEW p \in Positions(s) PROVE p \in 1..n
  <2>1. p # 0 /\ p \in 0..n
    BY <1>1, <1>2, PositionsOf
  <2> QED BY <2>1
<1> QED BY <1>1, <1>2, <1>3

(* So do sequences of them.                                                 *)
LEMMA AllPositionsTyped ==
  ASSUME n \in Nat, NEW ss \in Seq(Seq(0..n))
  PROVE  AllPositions(ss) \subseteq 1..n
<1>1. ASSUME NEW a \in DOMAIN ss PROVE Positions(ss[a]) \subseteq 1..n
  <2>1. ss[a] \in Seq(0..n)
    BY LenProperties, ElementOfSeq
  <2> QED BY <2>1, PositionsTyped
<1> QED BY <1>1 DEF AllPositions

(* Text that is not kept may be passed over.                                *)
LEMMA HoldingQuiet ==
  ASSUME n \in Nat, NEW ss, NEW c, NEW j \in 1..n, NEW e \in 1..n+1, e > j,
         \A k \in j..e-1 : k \notin Kept, AllPositions(ss) \subseteq Nat, Positions(c) \subseteq Nat,
         Holding(ss, c, j)
  PROVE  Holding(ss, c, e)
<1>1. Ordered(ss, c, e)
  <2>1. ASSUME NEW p \in AllPositions(ss) \cup Positions(c) PROVE p < e
    <3>1. p < j /\ p \in Nat
      BY DEF Holding, Ordered, Before
    <3> QED BY <3>1
  <2> QED BY <2>1 DEF Holding, Ordered, Before
<1>2. {k \in Kept : k < e} = {k \in Kept : k < j}
  <2>1. ASSUME NEW k \in Kept, k < e PROVE k < j
    <3>1. k \in 1..n
      BY DEF Kept
    <3>2. ~(k \in j..e-1)
      OBVIOUS
    <3> QED BY <2>1, <3>1, <3>2
  <2>2. ASSUME NEW k \in Kept, k < j PROVE k < e
    <3>1. k \in 1..n
      BY DEF Kept
    <3> QED BY <2>2, <3>1
  <2> QED BY <2>1, <2>2
<1>3. j # n + 1
  OBVIOUS
<1>4. Whole(ss, c, e)
  BY <1>2, <1>3 DEF Holding, Whole
<1>5. Padded(c, e)
  BY <1>3 DEF Holding, Padded
<1> QED BY <1>1, <1>4, <1>5 DEF Holding

(* d is b with a space behind it                                            *)
Blanked(b, d) ==
    /\ Len(b) \in Nat /\ DOMAIN b = 1..Len(b) /\ DOMAIN d = 1..Len(d)
    /\ Len(d) = Len(b) + 1
    /\ \A x \in 1..Len(b) : d[x] = b[x]
    /\ d[Len(d)] = 0

(* The parser's own space is of no weight.                                  *)
LEMMA BlankedSame ==
  ASSUME NEW b, NEW d, Blanked(b, d)
  PROVE  /\ Positions(d) = Positions(b)
         /\ Ascends(b) <=> Ascends(d)
         /\ \A j : Padded(b, j) <=> Padded(d, j)
<1>1. /\ DOMAIN b \subseteq DOMAIN d /\ \A x \in DOMAIN b : d[x] = b[x]
      /\ \A x \in DOMAIN d : x \in DOMAIN b \/ d[x] = 0
  <2>1. \A x \in 1..Len(d) : x \in 1..Len(b) \/ x = Len(d)
    BY DEF Blanked
  <2>2. 1..Len(b) \subseteq 1..Len(d)
    BY DEF Blanked
  <2> QED BY <2>1, <2>2 DEF Blanked
<1>2. Positions(d) = Positions(b)
  <2>1. ASSUME NEW p \in Positions(d) PROVE p \in Positions(b)
    <3>1. PICK x \in DOMAIN d : d[x] = p /\ p # 0
      BY PositionsOf
    <3> QED BY <1>1, <3>1, PositionsOf
  <2>2. ASSUME NEW p \in Positions(b) PROVE p \in Positions(d)
    <3>1. PICK x \in DOMAIN b : b[x] = p /\ p # 0
      BY PositionsOf
    <3> QED BY <1>1, <3>1, PositionsOf
  <2> QED BY <2>1, <2>2
<1>3. Ascends(b) <=> Ascends(d)
  BY <1>1 DEF Ascends
<1>4. \A x \in DOMAIN d : Solid(d[x]) \/ d[x] # 0 => x \in DOMAIN b
  BY <1>1 DEF Solid
<1>5. ASSUME NEW j, Padded(b, j) PROVE Padded(d, j)
  BY <1>1, <1>4, <1>5 DEF Padded
<1>6. ASSUME NEW j, Padded(d, j) PROVE Padded(b, j)
  <2> SUFFICES ASSUME NEW x \in DOMAIN b, b[x] # 0, ~Solid(b[x])
               PROVE  /\ \E y \in DOMAIN b : y < x /\ Solid(b[y])
                      /\ \/ OpenLiteral /\ j = n + 1
                         \/ \E y \in DOMAIN b : x < y /\ Solid(b[y])
    BY DEF Padded
  <2>1. x \in DOMAIN d /\ d[x] # 0 /\ ~Solid(d[x])
    BY <1>1
  <2>2. PICK y \in DOMAIN d : y < x /\ Solid(d[y])
    BY <1>6, <2>1 DEF Padded
  <2>3. y \in DOMAIN b /\ Solid(b[y])
    BY <1>1, <1>4, <2>2
  <2>4. CASE OpenLiteral /\ j = n + 1
    BY <2>2, <2>3, <2>4
  <2>5. CASE \E z \in DOMAIN d : x < z /\ Solid(d[z])
    BY <1>1, <1>4, <2>2, <2>3, <2>5
  <2> QED BY <1>6, <2>1, <2>4, <2>5 DEF Padded
<1> QED BY <1>2, <1>3, <1>5, <1>6

(* So it may be added and taken away.                                       *)
LEMMA HoldingBlanked ==
  ASSUME NEW b, NEW d, Blanked(b, d), NEW ss, NEW j
  PROVE  Holding(ss, b, j) <=> Holding(ss, d, j)
<1>1. /\ Positions(d) = Positions(b)
      /\ Ascends(b) <=> Ascends(d)
      /\ Padded(b, j) <=> Padded(d, j)
  BY BlankedSame
<1> QED BY <1>1 DEF Holding, Ordered, Whole

(* d is b with the text from j to e behind it                               *)
Grown(b, d, j, e) ==
    /\ Len(b) \in Nat /\ DOMAIN b = 1..Len(b) /\ \A x \in 1..Len(b) : b[x] \in Nat
    /\ DOMAIN d = 1..Len(d) /\ Len(d) = Len(b) + (e - j + 1)
    /\ \A x \in 1..Len(b) : d[x] = b[x]
    /\ \A x \in Len(b)+1..Len(d) : d[x] = j + (x - Len(b)) - 1

(* It holds the positions of both.                                          *)
LEMMA GrownPositions ==
  ASSUME NEW b, NEW d, NEW j \in Nat \ {0}, NEW e \in Nat, e >= j, Grown(b, d, j, e)
  PROVE  Positions(d) = Positions(b) \cup j..e
<1> DEFINE l == Len(b)
           m == Len(d)
<1>1. l \in Nat /\ m = l + (e - j + 1) /\ DOMAIN b = 1..l /\ DOMAIN d = 1..m
      /\ (\A x \in 1..l : d[x] = b[x]) /\ (\A x \in l+1..m : d[x] = j + (x - l) - 1)
  BY DEF Grown
<1> HIDE DEF l, m
<1>2. \A x \in 1..m : x \in 1..l \/ (x \in l+1..m /\ j + (x - l) - 1 \in j..e)
  BY <1>1
<1>3. 1..l \subseteq 1..m /\ l+1..m \subseteq 1..m
  BY <1>1
<1>4. \A p \in j..e : /\ l + (p - j + 1) \in l+1..m /\ p # 0
                      /\ j + ((l + (p - j + 1)) - l) - 1 = p
  BY <1>1
<1>5. ASSUME NEW p \in Positions(d) PROVE p \in Positions(b) \cup j..e
  <2>1. PICK x \in 1..m : d[x] = p /\ p # 0
    BY <1>1, PositionsOf
  <2>2. CASE x \in 1..l
    BY <1>1, <2>1, <2>2, PositionsOf
  <2>3. CASE x \in l+1..m /\ j + (x - l) - 1 \in j..e
    BY <1>1, <2>1, <2>3
  <2> QED BY <1>2, <2>1, <2>2, <2>3
<1>6. ASSUME NEW p \in Positions(b) PROVE p \in Positions(d)
  <2>1. PICK x \in 1..l : b[x] = p /\ p # 0
    BY <1>1, PositionsOf
  <2> QED BY <1>1, <1>3, <2>1, PositionsOf
<1>7. ASSUME NEW p \in j..e PROVE p \in Positions(d)
  <2> DEFINE x == l + (p - j + 1)
  <2>1. x \in l+1..m /\ j + (x - l) - 1 = p /\ p # 0
    BY <1>4
  <2> HIDE DEF x
  <2>2. d[x] = p /\ x \in 1..m
    BY <1>1, <1>3, <2>1
  <2> QED BY <1>1, <2>1, <2>2, PositionsOf
<1> QED BY <1>5, <1>6, <1>7

(* It is in order if they are.                                              *)
LEMMA GrownAscends ==
  ASSUME NEW b, NEW d, NEW j \in Nat \ {0}, NEW e \in Nat, e >= j, Grown(b, d, j, e),
         Ascends(b), Before(Positions(b), {j})
  PROVE  Ascends(d)
<1> DEFINE l == Len(b)
           m == Len(d)
<1>1. l \in Nat /\ m = l + (e - j + 1) /\ DOMAIN b = 1..l /\ DOMAIN d = 1..m
      /\ (\A x \in 1..l : d[x] = b[x] /\ b[x] \in Nat)
      /\ (\A x \in l+1..m : d[x] = j + (x - l) - 1)
  BY DEF Grown
<1> HIDE DEF l, m
<1>2. ASSUME NEW x \in 1..m, NEW y \in 1..m, x < y, d[x] # 0, d[y] # 0 PROVE d[x] < d[y]
  <2>1. CASE y \in 1..l
    <3>1. x \in 1..l
      BY <1>1, <1>2, <2>1
    <3> QED BY <1>1, <1>2, <2>1, <3>1 DEF Ascends
  <2>2. CASE x \in 1..l /\ y \in l+1..m
    <3>1. d[x] \in Positions(b) /\ d[x] \in Nat
      BY <1>1, <1>2, <2>2, PositionsOf
    <3>2. d[x] < j
      BY <3>1 DEF Before
    <3>3. d[y] = j + (y - l) - 1
      BY <1>1, <2>2
    <3>4. d[y] \in Nat /\ d[y] >= j
      BY <1>1, <2>2, <3>3
    <3> QED BY <3>1, <3>2, <3>4
  <2>3. CASE x \in l+1..m /\ y \in l+1..m
    <3>1. d[x] = j + (x - l) - 1 /\ d[y] = j + (y - l) - 1
      BY <1>1, <2>3
    <3> QED BY <1>1, <1>2, <3>1
  <2>4. (x \in 1..l \/ x \in l+1..m) /\ (y \in 1..l \/ y \in l+1..m)
    BY <1>1
  <2>5. ~(x \in l+1..m /\ y \in 1..l)
    BY <1>1, <1>2
  <2> QED BY <2>1, <2>2, <2>3, <2>4, <2>5
<1> QED BY <1>1, <1>2 DEF Ascends

(* Blanks of a literal are between its quotes, or it has no closing one.    *)
LEMMA GrownPadded ==
  ASSUME NEW b, NEW d, NEW j \in 1..n, NEW e \in Nat, e >= j, Grown(b, d, j, e), n \in Nat,
         Padded(b, j), Solid(j), Solid(e) \/ (OpenLiteral /\ e = n)
  PROVE  Padded(d, e + 1)
<1> DEFINE l == Len(b)
           m == Len(d)
<1>1. l \in Nat /\ m = l + (e - j + 1) /\ DOMAIN b = 1..l /\ DOMAIN d = 1..m
      /\ (\A x \in 1..l : d[x] = b[x])
      /\ (\A x \in l+1..m : d[x] = j + (x - l) - 1)
  BY DEF Grown
<1> HIDE DEF l, m
<1>2. l + 1 \in 1..m /\ l + 1 \in l+1..m /\ m \in 1..m /\ m \in l+1..m /\ 1..l \subseteq 1..m
      /\ j + ((l + 1) - l) - 1 = j /\ j + (m - l) - 1 = e
  BY <1>1
<1>3. d[l + 1] = j /\ d[m] = e
  BY <1>1, <1>2
<1>4. ASSUME NEW x \in 1..m, d[x] # 0, ~Solid(d[x])
      PROVE  /\ \E y \in 1..m : y < x /\ Solid(d[y])
             /\ \/ OpenLiteral /\ e + 1 = n + 1
                \/ \E y \in 1..m : x < y /\ Solid(d[y])
  <2>1. CASE x \in 1..l
    <3>1. x < l + 1 /\ b[x] # 0 /\ ~Solid(b[x])
      BY <1>1, <1>4, <2>1
    <3>2. PICK y \in 1..l : y < x /\ Solid(b[y])
      BY <1>1, <2>1, <3>1 DEF Padded
    <3>3. y \in 1..m /\ Solid(d[y])
      BY <1>1, <1>2, <3>2
    <3> QED BY <1>2, <1>3, <3>1, <3>2, <3>3
  <2>2. CASE x \in l+1..m
    <3>1. x # l + 1
      BY <1>3, <1>4
    <3>2. l + 1 < x
      BY <1>1, <2>2, <3>1
    <3>3. CASE Solid(e)
      <4>1. x # m
        BY <1>3, <1>4, <3>3
      <4>2. x < m
        BY <1>1, <2>2, <4>1
      <4> QED BY <1>2, <1>3, <3>2, <3>3, <4>2
    <3>4. CASE OpenLiteral /\ e = n
      BY <1>2, <1>3, <3>2, <3>4
    <3> QED BY <3>3, <3>4
  <2>3. x \in 1..l \/ x \in l+1..m
    BY <1>1
  <2> QED BY <2>1, <2>2, <2>3
<1> QED BY <1>1, <1>4 DEF Padded

(* A piece of text that is kept may be added, and the last character of an  *)
(* open comment.                                                            *)
LEMMA HoldingGrown ==
  ASSUME n \in Nat, NEW ss, NEW b, NEW d, NEW j \in 1..n, NEW e \in 1..n, e >= j,
         Grown(b, d, j, e), AllPositions(ss) \subseteq Nat, Positions(b) \subseteq Nat,
         Holding(ss, b, j), Solid(j), Solid(e) \/ (OpenLiteral /\ e = n),
         (\A k \in j..e : k \in Kept) \/ (OpenComment /\ j = n)
  PROVE  Holding(ss, d, e + 1)
<1>1. Positions(d) = Positions(b) \cup j..e
  <2>1. j \in Nat \ {0} /\ e \in Nat
    OBVIOUS
  <2> QED BY <2>1, GrownPositions
<1>2. Padded(d, e + 1)
  BY GrownPadded DEF Holding
<1>3. /\ Before(AllPositions(ss), Positions(b)) /\ Before(AllPositions(ss), {j})
      /\ Before(Positions(b), {j}) /\ Ascends(b) /\ InOrder(ss)
  BY DEF Holding, Ordered, Before
<1>4. Ascends(d)
  <2>1. j \in Nat \ {0} /\ e \in Nat
    OBVIOUS
  <2> QED BY <1>3, <2>1, GrownAscends
<1>5. \A p \in AllPositions(ss) \cup Positions(b) : p < j /\ p \in Nat
  BY <1>3 DEF Before
<1>6. Ordered(ss, d, e + 1)
  <2>1. Before(AllPositions(ss), j..e) /\ Before(j..e, {e + 1})
    BY <1>5 DEF Before
  <2>2. Before(AllPositions(ss) \cup Positions(b), {e + 1})
    BY <1>5 DEF Before
  <2>3. Before(AllPositions(ss), Positions(d))
    BY <1>1, <1>3, <2>1 DEF Before
  <2>4. Before(AllPositions(ss) \cup Positions(d), {e + 1})
    BY <1>1, <2>1, <2>2 DEF Before
  <2> QED BY <1>3, <1>4, <2>3, <2>4 DEF Ordered
<1>7. AllPositions(ss) \cup Positions(b) = {k \in Kept : k < j}
  <2>1. j # n + 1
    OBVIOUS
  <2> QED BY <2>1 DEF Holding, Whole
<1>8. Whole(ss, d, e + 1)
  <2>1. \A k \in Kept : k \in 1..n
    BY DEF Kept
  <2>2. CASE \A k \in j..e : k \in Kept
    <3>1. \A k \in 1..n : k < e + 1 <=> k < j \/ k \in j..e
      OBVIOUS
    <3>2. {k \in Kept : k < e + 1} = {k \in Kept : k < j} \cup j..e
      <4>1. \A k \in j..e : k \in 1..n
        OBVIOUS
      <4> QED BY <2>1, <2>2, <3>1, <4>1
    <3>3. AllPositions(ss) \cup Positions(d) = {k \in Kept : k < e + 1}
      BY <1>1, <1>7, <3>2
    <3> QED BY <3>3 DEF Whole
  <2>3. CASE OpenComment /\ j = n
    <3>1. e = n /\ j..e = {n} /\ n > 0
      BY <2>3
    <3>2. n \notin Kept
      <4>1. ReadIn[n] \in {"line", "opening", "block", "closing"}
        BY <2>3 DEF OpenComment
      <4> QED BY <4>1, CommentSilent
    <3>3. {k \in Kept : k < e + 1} = {k \in Kept : k < j}
      <4>1. \A k \in 1..n : k # n => (k < e + 1 <=> k < j)
        BY <2>3, <3>1
      <4> QED BY <2>1, <3>2, <4>1
    <3>4. AllPositions(ss) \cup Positions(d) = {k \in Kept : k < e + 1} \cup {n}
      BY <1>1, <1>7, <3>1, <3>3
    <3> QED BY <2>3, <3>1, <3>4 DEF Whole
  <2> QED BY <2>2, <2>3
<1> QED BY <1>2, <1>6, <1>8 DEF Holding

(* push_space, and its undoing in front of a parenthesis.                   *)
LEMMA AppendBlanks ==
  ASSUME n \in Nat, NEW b \in Seq(0..n)
  PROVE  Append(b, 0) \in Seq(0..n) /\ Blanked(b, Append(b, 0))
<1>1. 0 \in 0..n
  OBVIOUS
<1>2. /\ Append(b, 0) \in Seq(0..n) /\ Len(Append(b, 0)) = Len(b) + 1
      /\ \A x \in 1..Len(b) : Append(b, 0)[x] = b[x]
      /\ Append(b, 0)[Len(b) + 1] = 0
  BY <1>1, AppendProperties
<1>3. Len(b) \in Nat /\ DOMAIN b = 1..Len(b) /\ DOMAIN Append(b, 0) = 1..Len(Append(b, 0))
  BY <1>2, LenProperties
<1> QED BY <1>2, <1>3 DEF Blanked

(* The space at the end is taken away by Front.                             *)
LEMMA FrontBlanked ==
  ASSUME n \in Nat, NEW c \in Seq(0..n), c # <<>>, c[Len(c)] = 0
  PROVE  Front(c) \in Seq(0..n) /\ Blanked(Front(c), c)
<1> DEFINE m == Len(c)
           l == m - 1
<1>1. m \in Nat /\ m # 0 /\ DOMAIN c = 1..m
  BY LenProperties, EmptySeq
<1>2. l \in Int /\ 1 \in Int /\ \A x \in 1..l : c[x] \in 0..n
  <2>1. \A x \in 1..l : x \in 1..m
    BY <1>1
  <2> QED BY <1>1, <2>1, ElementOfSeq
<1>3. /\ SubSeq(c, 1, l) \in Seq(0..n)
      /\ Len(SubSeq(c, 1, l)) = IF 1 <= l THEN l - 1 + 1 ELSE 0
      /\ \A x \in 1..l - 1 + 1 : SubSeq(c, 1, l)[x] = c[1 + x - 1]
  <2> HIDE DEF l
  <2> QED BY <1>2, SubSeqProperties
<1>4. Front(c) = SubSeq(c, 1, l)
  BY DEF Front
<1>5. Len(Front(c)) = l /\ l \in Nat /\ m = l + 1
  <2>1. l \in Nat /\ m = l + 1
    BY <1>1
  <2> HIDE DEF l, m
  <2> QED BY <1>3, <1>4, <2>1
<1>6. \A x \in 1..l : c[x] = Front(c)[x]
  <2>1. \A x \in 1..l : x \in 1..l - 1 + 1 /\ 1 + x - 1 = x
    BY <1>5
  <2> HIDE DEF l
  <2> QED BY <1>3, <1>4, <2>1
<1>7. DOMAIN Front(c) = 1..Len(Front(c))
  BY <1>3, <1>4, LenProperties
<1> QED BY <1>1, <1>3, <1>4, <1>5, <1>6, <1>7 DEF Blanked

(* A character goes behind the statement as a piece of text.                *)
LEMMA AppendGrows ==
  ASSUME n \in Nat, NEW b \in Seq(0..n), NEW j \in 1..n
  PROVE  Append(b, j) \in Seq(0..n) /\ Grown(b, Append(b, j), j, j)
<1>1. j \in 0..n
  OBVIOUS
<1>2. /\ Append(b, j) \in Seq(0..n) /\ Len(Append(b, j)) = Len(b) + 1
      /\ \A x \in 1..Len(b) : Append(b, j)[x] = b[x]
      /\ Append(b, j)[Len(b) + 1] = j
  BY <1>1, AppendProperties
<1>3. /\ Len(b) \in Nat /\ DOMAIN b = 1..Len(b) /\ \A x \in 1..Len(b) : b[x] \in 0..n
      /\ DOMAIN Append(b, j) = 1..Len(Append(b, j))
  BY <1>2, PositionsTyped
<1>4. \A x \in Len(b)+1..Len(b)+1 : x = Len(b) + 1 /\ j + (x - Len(b)) - 1 = j
  BY <1>3
<1>5. Len(b) + 1 = Len(b) + (j - j + 1)
  BY <1>3
<1>6. \A x \in 1..Len(b) : b[x] \in Nat
  BY <1>3
<1> QED BY <1>2, <1>3, <1>4, <1>5, <1>6 DEF Grown

(* A literal goes behind the statement as it stands in the text.            *)
LEMMA LiteralGrows ==
  ASSUME n \in Nat, NEW b \in Seq(0..n), NEW j \in 1..n, NEW e \in j..n
  PROVE  /\ b \o [k \in 1..e - j + 1 |-> j + k - 1] \in Seq(0..n)
         /\ Grown(b, b \o [k \in 1..e - j + 1 |-> j + k - 1], j, e)
<1> DEFINE w == e - j + 1
           more == [k \in 1..w |-> j + k - 1]
           d == b \o more
<1>1. w \in Nat /\ \A k \in 1..w : j + k - 1 \in 0..n
  OBVIOUS
<1> HIDE DEF w
<1>2. more \in [1..w -> 0..n] /\ \A k \in 1..w : more[k] = j + k - 1
  BY <1>1
<1> HIDE DEF more
<1>3. more \in Seq(0..n)
  BY <1>1, <1>2, SeqDef
<1>4. Len(more) = w
  <2>1. DOMAIN more = 1..w /\ DOMAIN more = 1..Len(more) /\ Len(more) \in Nat
    BY <1>2, <1>3, LenProperties
  <2> QED BY <1>1, <2>1
<1>5. /\ d \in Seq(0..n) /\ Len(d) = Len(b) + w
      /\ \A x \in 1..Len(b) + w : d[x] = IF x <= Len(b) THEN b[x] ELSE more[x - Len(b)]
  BY <1>3, <1>4, ConcatProperties
<1> HIDE DEF d
<1>6. /\ Len(b) \in Nat /\ DOMAIN b = 1..Len(b) /\ \A x \in 1..Len(b) : b[x] \in 0..n
      /\ DOMAIN d = 1..Len(d)
  BY <1>5, PositionsTyped
<1>7. \A x \in 1..Len(b) : d[x] = b[x] /\ b[x] \in Nat
  <2>1. \A x \in 1..Len(b) : x \in 1..Len(b) + w /\ x <= Len(b)
    BY <1>1, <1>6
  <2> QED BY <1>5, <1>6, <2>1
<1>8. \A x \in Len(b)+1..Len(d) : d[x] = j + (x - Len(b)) - 1
  <2>1. \A x \in Len(b)+1..Len(d) :
          x \in 1..Len(b) + w /\ ~(x <= Len(b)) /\ x - Len(b) \in 1..w
    BY <1>1, <1>5, <1>6
  <2> QED BY <1>2, <1>5, <2>1
<1>9. Grown(b, d, j, e)
  BY <1>5, <1>6, <1>7, <1>8 DEF Grown, w
<1> QED BY <1>5, <1>9 DEF d, more, w

-----------------------------------------------------------------------------
(* The end of a statement                                                   *)

(* A statement goes to the end of the list.                                 *)
LEMMA AppendStatement ==
  ASSUME NEW S, NEW ss \in Seq(S), NEW t \in S
  PROVE  /\ AllPositions(Append(ss, t)) = AllPositions(ss) \cup Positions(t)
         /\ InOrder(ss) /\ Ascends(t) /\ Before(AllPositions(ss), Positions(t)) =>
              InOrder(Append(ss, t))
<1> DEFINE r == Append(ss, t)
           m == Len(ss)
<1>1. /\ m \in Nat /\ DOMAIN ss = 1..m /\ DOMAIN r = 1..m + 1
      /\ (\A a \in 1..m : r[a] = ss[a]) /\ r[m + 1] = t
  <2>1. r \in Seq(S) /\ Len(r) = m + 1 /\ (\A a \in 1..m : r[a] = ss[a]) /\ r[m + 1] = t
    BY AppendProperties
  <2> HIDE DEF r
  <2> QED BY <2>1, LenProperties
<1> HIDE DEF r, m
<1>2. \A a \in 1..m + 1 : a \in 1..m \/ a = m + 1
  BY <1>1
<1>3. 1..m \subseteq 1..m + 1 /\ m + 1 \in 1..m + 1 /\ \A a \in 1..m : a < m + 1 /\ ~(m + 1 < a)
  BY <1>1
<1>4. AllPositions(r) = AllPositions(ss) \cup Positions(t)
  <2>1. ASSUME NEW p \in AllPositions(r) PROVE p \in AllPositions(ss) \cup Positions(t)
    <3>1. PICK a \in 1..m + 1 : p \in Positions(r[a])
      BY <1>1 DEF AllPositions
    <3> QED BY <1>1, <1>2, <3>1 DEF AllPositions
  <2>2. ASSUME NEW p \in AllPositions(ss) PROVE p \in AllPositions(r)
    <3>1. PICK a \in 1..m : p \in Positions(ss[a])
      BY <1>1 DEF AllPositions
    <3> QED BY <1>1, <1>3, <3>1 DEF AllPositions
  <2>3. ASSUME NEW p \in Positions(t) PROVE p \in AllPositions(r)
    BY <1>1, <1>3 DEF AllPositions
  <2> QED BY <2>1, <2>2, <2>3
<1>5. ASSUME InOrder(ss), Ascends(t), Before(AllPositions(ss), Positions(t)) PROVE InOrder(r)
  <2>1. \A a \in 1..m + 1 : Ascends(r[a])
    BY <1>1, <1>2, <1>5 DEF InOrder
  <2>2. ASSUME NEW a \in 1..m + 1, NEW b \in 1..m + 1, a < b
        PROVE  Before(Positions(r[a]), Positions(r[b]))
    <3>1. a \in 1..m
      BY <1>1, <2>2
    <3>2. CASE b \in 1..m
      BY <1>1, <1>5, <2>2, <3>1, <3>2 DEF InOrder
    <3>3. CASE b = m + 1
      <4>1. Positions(r[a]) \subseteq AllPositions(ss)
        BY <1>1, <3>1 DEF AllPositions
      <4> QED BY <1>1, <1>5, <3>3, <4>1 DEF Before
    <3> QED BY <1>2, <3>2, <3>3
  <2> QED BY <1>1, <2>1, <2>2 DEF InOrder
<1> QED BY <1>4, <1>5 DEF r

(* The characters that flush finds to be no blanks are solid.               *)
LEMMA CharSolid ==
  ASSUME NEW p
  PROVE  Char(p) \notin Blank <=> Solid(p)
BY DEF Char, Solid, Blank

(* Trimming takes nothing away but the blanks behind an open literal.       *)
LEMMA Flushed ==
  ASSUME ParserTyped, Flush, Ordered(statements, current, i), Padded(current, i)
  PROVE  /\ InOrder(statements')
         /\ AllPositions(statements') \subseteq AllPositions(statements) \cup Positions(current)
         /\ \A p \in AllPositions(statements) \cup Positions(current) :
              p \notin AllPositions(statements') =>
                /\ OpenLiteral /\ i = n + 1 /\ sql[p] \in Blank
                /\ Before(AllPositions(statements'), {p})
<1> DEFINE c == current
           ss == statements
           solid == {x \in DOMAIN c : Char(c[x]) \notin Blank}
           len == Len(c)
<1>1. n \in Nat /\ c \in Seq(0..n) /\ ss \in Seq(Seq(0..n))
  BY LenProperties DEF ParserTyped, n
<1>2. len \in Nat /\ DOMAIN c = 1..len /\ \A x \in 1..len : c[x] \in 0..n
  BY <1>1, PositionsTyped
<1>3. solid \in SUBSET (1..len) /\ \A x \in 1..len : x \in solid <=> Solid(c[x])
  BY <1>2, CharSolid
<1>4. statements' = IF solid = {} THEN ss ELSE Append(ss, SubSeq(c, Min(solid), Max(solid)))
  BY DEF Flush
<1>5. CASE solid = {}
  <2>1. Positions(c) = {}
    <3>1. ASSUME NEW x \in DOMAIN c, c[x] # 0 PROVE FALSE
      <4>1. \E y \in DOMAIN c : Solid(c[y])
        BY <3>1 DEF Padded
      <4> QED BY <1>2, <1>3, <1>5, <4>1
    <3> QED BY <3>1, PositionsOf
  <2>2. statements' = ss
    BY <1>4, <1>5
  <2> QED BY <2>1, <2>2 DEF Ordered
<1>6. CASE solid # {}
  <2> DEFINE first == Min(solid)
             last == Max(solid)
             t == SubSeq(c, first, last)
             w == last - first + 1
  <2>1. first \in solid /\ last \in solid /\ \A x \in solid : first <= x /\ x <= last
    <3>1. /\ Min(solid) \in solid /\ \A x \in solid : Min(solid) <= x
          /\ Max(solid) \in solid /\ \A x \in solid : Max(solid) >= x
      <4> HIDE DEF solid, len
      <4> QED BY <1>2, <1>3, <1>6, Extremes
    <3>2. solid \subseteq Nat
      <4>1. 1..len \subseteq Nat
        OBVIOUS
      <4> HIDE DEF solid, len
      <4> QED BY <1>3, <4>1
    <3>3. first \in solid /\ last \in solid
          /\ (\A x \in solid : first <= x) /\ (\A x \in solid : last >= x)
      BY <3>1
    <3> HIDE DEF solid, first, last
    <3>4. last \in Nat
      BY <3>2, <3>3
    <3>5. ASSUME NEW x \in solid PROVE x <= last
      <4>1. x \in Nat /\ last >= x
        BY <3>2, <3>3
      <4> QED BY <3>4, <4>1
    <3> QED BY <3>3, <3>5
  <2>2. statements' = Append(ss, t)
    BY <1>4, <1>6
  <2> HIDE DEF first, last, solid, len
  <2>3. first \in 1..len /\ last \in 1..len /\ first <= last
    BY <1>3, <2>1
  <2>4. first \in Int /\ last \in Int /\ \A x \in first..last : x \in 1..len /\ c[x] \in 0..n
    <3>1. \A x \in first..last : x \in 1..len
      BY <1>2, <2>3
    <3> QED BY <1>2, <2>3, <3>1
  <2>5. /\ t \in Seq(0..n) /\ Len(t) = (IF first <= last THEN w ELSE 0)
        /\ \A x \in 1..w : t[x] = c[first + x - 1]
    BY <2>4, SubSeqProperties
  <2>6. w \in Nat /\ Len(t) = w /\ DOMAIN t = 1..w
    <3>1. w \in Nat /\ Len(t) = w
      BY <1>2, <2>3, <2>5
    <3> QED BY <2>5, <3>1, LenProperties
  <2> HIDE DEF t
  <2>7. \A x \in 1..w : first + x - 1 \in 1..len /\ first + x - 1 \in first..last
    BY <1>2, <2>3
  <2>8. \A y \in first..last : y - first + 1 \in 1..w /\ first + (y - first + 1) - 1 = y
    BY <1>2, <2>3
  <2> HIDE DEF w
  <2>9. Positions(t) \subseteq Positions(c)
    <3>1. ASSUME NEW p \in Positions(t) PROVE p \in Positions(c)
      <4>1. PICK x \in 1..w : t[x] = p /\ p # 0
        BY <2>6, PositionsOf
      <4> QED BY <1>2, <2>5, <2>7, <4>1, PositionsOf
    <3> QED BY <3>1
  <2>10. Ascends(t)
    <3>1. ASSUME NEW x \in 1..w, NEW y \in 1..w, x < y, t[x] # 0, t[y] # 0 PROVE t[x] < t[y]
      <4>1. /\ first + x - 1 \in 1..len /\ first + y - 1 \in 1..len
            /\ t[x] = c[first + x - 1] /\ t[y] = c[first + y - 1]
        BY <2>5, <2>7
      <4>2. first + x - 1 < first + y - 1
        BY <2>3, <3>1
      <4> QED BY <1>2, <3>1, <4>1, <4>2 DEF Ordered, Ascends
    <3> QED BY <2>6, <3>1 DEF Ascends
  <2>11. InOrder(statements') /\ AllPositions(statements') = AllPositions(ss) \cup Positions(t)
    <3>1. InOrder(ss) /\ Before(AllPositions(ss), Positions(t))
      BY <2>9 DEF Ordered, Before
    <3> QED BY <1>1, <2>2, <2>5, <2>10, <3>1, AppendStatement
  <2>12. ASSUME NEW p \in Positions(c), p \notin Positions(t)
         PROVE  /\ OpenLiteral /\ i = n + 1 /\ sql[p] \in Blank
                /\ Before(AllPositions(ss) \cup Positions(t), {p})
    <3>1. PICK x \in 1..len : c[x] = p /\ p # 0
      BY <1>2, <2>12, PositionsOf
    <3>2. ~(x \in first..last)
      <4>1. ASSUME x \in first..last PROVE FALSE
        <5> DEFINE y == x - first + 1
        <5>1. y \in 1..w /\ first + y - 1 = x
          BY <2>8, <4>1
        <5> HIDE DEF y
        <5>2. t[y] = p
          BY <2>5, <3>1, <5>1
        <5> QED BY <2>6, <2>12, <3>1, <5>1, <5>2, PositionsOf
      <4> QED BY <4>1
    <3>3. x < first \/ x > last
      BY <2>3, <3>2
    <3>4. ~Solid(c[x])
      <4>1. ASSUME x \in solid PROVE FALSE
        <5>1. first <= x /\ x <= last
          BY <2>1, <4>1
        <5> QED BY <2>3, <3>3, <5>1
      <4> QED BY <1>3, <4>1
    <3>5. /\ \E y \in 1..len : y < x /\ Solid(c[y])
          /\ \/ OpenLiteral /\ i = n + 1
             \/ \E y \in 1..len : x < y /\ Solid(c[y])
      BY <1>2, <3>1, <3>4 DEF Padded
    <3>6. x > last
      <4>1. PICK y \in 1..len : y < x /\ Solid(c[y])
        BY <3>5
      <4>2. first <= y
        BY <1>3, <2>1, <4>1
      <4> QED BY <2>3, <3>3, <4>1, <4>2
    <3>7. OpenLiteral /\ i = n + 1
      <4>1. ASSUME NEW y \in 1..len, x < y, Solid(c[y]) PROVE FALSE
        <5>1. y <= last
          BY <1>3, <2>1, <4>1
        <5> QED BY <2>3, <3>6, <4>1, <5>1
      <4> QED BY <3>5, <4>1
    <3>8. sql[p] \in Blank
      BY <3>1, <3>4 DEF Solid
    <3>9. Before(AllPositions(ss), {p})
      BY <2>12 DEF Ordered, Before
    <3>10. ASSUME NEW q \in Positions(t) PROVE q < p
      <4>1. PICK y \in 1..w : t[y] = q /\ q # 0
        BY <2>6, PositionsOf
      <4> DEFINE z == first + y - 1
      <4>2. z \in 1..len /\ z \in first..last /\ c[z] = q
        BY <2>5, <2>7, <4>1
      <4>3. z < x
        <5> HIDE DEF z
        <5> QED BY <2>3, <3>6, <4>2
      <4> HIDE DEF z
      <4> QED BY <1>2, <3>1, <4>1, <4>2, <4>3 DEF Ordered, Ascends
    <3> QED BY <3>7, <3>8, <3>9, <3>10 DEF Before
  <2> QED BY <2>9, <2>11, <2>12
<1> QED BY <1>5, <1>6

-----------------------------------------------------------------------------
(* Every branch of the parser holds what it has read                        *)

(* What the parser passes over, and what it adds without looking further    *)
Passed(c) == c \in Blank \cup {";"}
Added(c) == c \notin Blank \cup {"'", ";"}

(* Where the parser stands, with the types that the lemmas above ask for.   *)
LEMMA Standing ==
  ASSUME ParserTyped, Boundary(i), i <= n
  PROVE  /\ n \in Nat /\ i \in 1..n /\ i + 1 \in 1..n+1 /\ i + 1 > i /\ \A k \in i..i+1-1 : k = i
         /\ ReadIn[i] = "code" \/ (ReadIn[i] = "block" /\ OpenComment /\ i = n)
         /\ AllPositions(statements) \subseteq Nat /\ Positions(current) \subseteq Nat
<1>1. n \in Nat /\ i \in 1..n
  BY LenProperties DEF ParserTyped, n
<1>2. i + 1 \in 1..n+1 /\ i + 1 > i /\ \A k \in i..i+1-1 : k = i
  BY <1>1
<1>3. AllPositions(statements) \subseteq 1..n /\ Positions(current) \subseteq 1..n
  BY <1>1, AllPositionsTyped, PositionsTyped DEF ParserTyped
<1>4. 1..n \subseteq Nat
  OBVIOUS
<1> QED BY <1>1, <1>2, <1>3, <1>4 DEF Boundary, OpenComment

(* A comment leaves everything as it is.                                    *)
LEMMA CommentHolds ==
  ASSUME ParserTyped, Boundary(i), Holding(statements, current, i), LineComment \/ BlockComment
  PROVE  Boundary(i') /\ Holding(statements', current', i')
<1>1. i < n /\ UNCHANGED <<current, statements>>
  BY DEF LineComment, BlockComment, AtPair
<1>2. n \in Nat /\ i \in 1..n+1
  BY LenProperties DEF ParserTyped, n
<1>3. i <= n /\ i # n
  BY <1>1, <1>2
<1>4. /\ i \in 1..n /\ ReadIn[i] = "code"
      /\ AllPositions(statements) \subseteq Nat /\ Positions(current) \subseteq Nat
  BY <1>3, Standing
<1>5. i' > i /\ Silent(i, i') /\ Boundary(i') /\ i' \in 1..n+1
  BY <1>4, LineToken, BlockToken, LineCommentWrites, BlockCommentWrites DEF Wrote
<1>6. \A k \in i..i'-1 : k \notin Kept
  BY <1>5 DEF Silent
<1>7. Holding(statements, current, i')
  <2> DEFINE e == i'
  <2>1. e > i /\ e \in 1..n+1 /\ \A k \in i..e-1 : k \notin Kept
    BY <1>5, <1>6
  <2> HIDE DEF e
  <2>2. Holding(statements, current, e)
    BY <1>2, <1>4, <2>1, HoldingQuiet
  <2> QED BY <2>2 DEF e
<1> QED BY <1>1, <1>5, <1>7

(* The parser may stand behind the text.                                    *)
LEMMA LastBoundary ==
  ASSUME ParserTyped, i = n
  PROVE  Boundary(i + 1)
<1>1. n \in Nat
  BY LenProperties DEF ParserTyped, n
<1>2. ~(i + 1 <= n)
  BY <1>1
<1> QED BY <1>2 DEF Boundary

(* Sequences of positions hold numbers.                                     *)
LEMMA NumberedText ==
  ASSUME n \in Nat
  PROVE  /\ \A s \in Seq(0..n) : Positions(s) \subseteq Nat
         /\ \A ss \in Seq(Seq(0..n)) : AllPositions(ss) \subseteq Nat
<1>1. 1..n \subseteq Nat
  OBVIOUS
<1> QED BY <1>1, PositionsTyped, AllPositionsTyped

(* A character that is not to be kept is passed over.                       *)
LEMMA PassCharacter ==
  ASSUME ParserTyped, Boundary(i), i <= n, Passed(sql[i]),
         NEW ss \in Seq(Seq(0..n)), NEW c \in Seq(0..n), Holding(ss, c, i)
  PROVE  Boundary(i + 1) /\ Holding(ss, c, i + 1)
<1>1. /\ n \in Nat /\ i \in 1..n /\ i + 1 \in 1..n+1 /\ i + 1 > i /\ \A k \in i..i+1-1 : k = i
      /\ ReadIn[i] = "code" \/ (ReadIn[i] = "block" /\ OpenComment /\ i = n)
  BY Standing
<1>2. Boundary(i + 1) /\ i \notin Kept
  <2>1. CASE ReadIn[i] = "code"
    <3>1. sql[i] # "'" /\ ~AtComment
      BY DEF Passed, Blank, AtComment, AtPair
    <3> QED BY <1>1, <2>1, <3>1, CharacterToken DEF Passed
  <2>2. CASE ReadIn[i] = "block" /\ i = n
    <3>1. Boundary(i + 1)
      BY <2>2, LastBoundary
    <3> QED BY <2>2, <3>1, CommentSilent
  <2> QED BY <1>1, <2>1, <2>2
<1>3. AllPositions(ss) \subseteq Nat /\ Positions(c) \subseteq Nat
  BY <1>1, NumberedText
<1> DEFINE e == i + 1
<1>4. e \in 1..n+1 /\ e > i /\ \A k \in i..e-1 : k \notin Kept
  BY <1>1, <1>2
<1> HIDE DEF e
<1>5. Holding(ss, c, e)
  BY <1>1, <1>3, <1>4, HoldingQuiet
<1> QED BY <1>2, <1>5 DEF e

(* A blank is the parser's own space or nothing.                            *)
LEMMA WhitespaceHolds ==
  ASSUME ParserTyped, Boundary(i), Holding(statements, current, i), Whitespace
  PROVE  Boundary(i') /\ Holding(statements', current', i')
<1>1. /\ i <= n /\ Passed(sql[i]) /\ i' = i + 1 /\ statements' = statements
      /\ current' = current \/ current' = Append(current, 0)
  BY DEF Whitespace, Passed
<1>2. n \in Nat /\ statements \in Seq(Seq(0..n)) /\ current \in Seq(0..n)
  BY LenProperties DEF ParserTyped, n
<1>3. CASE current' = current
  BY <1>1, <1>2, <1>3, PassCharacter
<1>4. CASE current' = Append(current, 0)
  <2> DEFINE d == Append(current, 0)
  <2>1. d \in Seq(0..n) /\ Blanked(current, d)
    BY <1>2, AppendBlanks
  <2> HIDE DEF d
  <2>2. Holding(statements, d, i)
    BY <2>1, HoldingBlanked
  <2>3. Boundary(i + 1) /\ Holding(statements, d, i + 1)
    BY <1>1, <1>2, <2>1, <2>2, PassCharacter
  <2> QED BY <1>1, <1>4, <2>3 DEF d
<1> QED BY <1>1, <1>3, <1>4

(* Any other character is added.                                            *)
LEMMA AddCharacter ==
  ASSUME ParserTyped, Boundary(i), i <= n, Added(sql[i]), ~AtComment,
         NEW b \in Seq(0..n), Holding(statements, b, i)
  PROVE  Boundary(i + 1) /\ Holding(statements, Append(b, i), i + 1)
<1>1. /\ n \in Nat /\ i \in 1..n /\ i + 1 \in 1..n+1
      /\ ReadIn[i] = "code" \/ (ReadIn[i] = "block" /\ OpenComment /\ i = n)
      /\ AllPositions(statements) \subseteq Nat
  BY Standing
<1>2. Boundary(i + 1) /\ (i \in Kept \/ (OpenComment /\ i = n))
  <2>1. CASE ReadIn[i] = "code"
    BY <1>1, <2>1, CharacterToken DEF Added
  <2>2. CASE ReadIn[i] = "block" /\ OpenComment /\ i = n
    <3>1. Boundary(i + 1)
      BY <2>2, LastBoundary
    <3> QED BY <2>2, <3>1
  <2> QED BY <1>1, <2>1, <2>2
<1>3. Positions(b) \subseteq Nat
  BY <1>1, NumberedText
<1> DEFINE d == Append(b, i)
<1>4. Grown(b, d, i, i)
  BY <1>1, AppendGrows
<1> HIDE DEF d
<1>5. Solid(i) /\ i >= i /\ ((\A k \in i..i : k \in Kept) \/ (OpenComment /\ i = n))
  <2>1. i # 0 /\ i >= i /\ \A k \in i..i : k = i
    BY <1>1
  <2> QED BY <1>2, <2>1 DEF Solid, Added
<1>6. Holding(statements, d, i + 1)
  BY <1>1, <1>3, <1>4, <1>5, HoldingGrown
<1> QED BY <1>2, <1>6 DEF d

(* No character that has been read and is a blank is at the end, so what    *)
(* goes in front of a parenthesis is the parser's own space.                *)
LEMMA LastBlank ==
  ASSUME ParserTyped, i <= n, Padded(current, i), current # <<>>, ~Solid(Last(current))
  PROVE  current[Len(current)] = 0
<1>1. n \in Nat /\ i \in 1..n+1 /\ current \in Seq(0..n)
  BY LenProperties DEF ParserTyped, n
<1>2. i # n + 1
  BY <1>1
<1> DEFINE m == Len(current)
<1>3. m \in Nat /\ m # 0 /\ DOMAIN current = 1..m
  BY <1>1, LenProperties, EmptySeq
<1>4. Last(current) = current[m]
  BY DEF Last
<1> HIDE DEF m
<1>5. m \in 1..m /\ \A y \in 1..m : ~(m < y)
  BY <1>3
<1>6. ~Solid(current[m])
  BY <1>4
<1>7. current[m] = 0
  BY <1>2, <1>3, <1>5, <1>6 DEF Padded
<1> QED BY <1>7 DEF m

(* A closing parenthesis takes a space in front of it away.                 *)
LEMMA ParenHolds ==
  ASSUME ParserTyped, Boundary(i), Holding(statements, current, i), CloseParen
  PROVE  Boundary(i') /\ Holding(statements', current', i')
<1> DEFINE blank == current # <<>> /\ Char(Last(current)) = " "
           b == IF blank THEN Front(current) ELSE current
<1>1. i <= n /\ sql[i] = ")" /\ i' = i + 1 /\ statements' = statements /\ current' = Append(b, i)
  BY DEF CloseParen, At
<1>2. n \in Nat /\ current \in Seq(0..n)
  BY LenProperties DEF ParserTyped, n
<1>3. b \in Seq(0..n) /\ Holding(statements, b, i)
  <2>1. CASE blank
    <3>1. ~Solid(Last(current))
      BY <2>1, CharSolid DEF Blank
    <3>2. current[Len(current)] = 0
      BY <1>1, <2>1, <3>1, LastBlank DEF Holding
    <3>3. Front(current) \in Seq(0..n) /\ Blanked(Front(current), current)
      BY <1>2, <2>1, <3>2, FrontBlanked
    <3>4. Holding(statements, Front(current), i)
      BY <3>3, HoldingBlanked
    <3> QED BY <2>1, <3>3, <3>4
  <2>2. CASE ~blank
    BY <1>2, <2>2
  <2> QED BY <2>1, <2>2
<1> HIDE DEF b
<1>4. Added(sql[i]) /\ ~AtComment
  BY <1>1 DEF Added, Blank, AtComment, AtPair
<1>5. Boundary(i + 1) /\ Holding(statements, Append(b, i), i + 1)
  BY <1>1, <1>3, <1>4, AddCharacter
<1> QED BY <1>1, <1>5

(* What has no meaning to the parser is added.                              *)
LEMMA OtherHolds ==
  ASSUME ParserTyped, Boundary(i), Holding(statements, current, i), Other
  PROVE  Boundary(i') /\ Holding(statements', current', i')
<1>1. /\ i <= n /\ Added(sql[i]) /\ ~AtComment
      /\ i' = i + 1 /\ statements' = statements /\ current' = Append(current, i)
  BY DEF Other, Added
<1>2. current \in Seq(0..n)
  BY DEF ParserTyped
<1>3. Boundary(i + 1) /\ Holding(statements, Append(current, i), i + 1)
  BY <1>1, <1>2, AddCharacter
<1> QED BY <1>1, <1>3

(* A literal is added as a whole.                                           *)
LEMMA LiteralHolds ==
  ASSUME ParserTyped, Boundary(i), Holding(statements, current, i), Literal
  PROVE  Boundary(i') /\ Holding(statements', current', i')
<1> DEFINE e == LiteralEnd
           d == current \o [k \in 1..e - i + 1 |-> i + k - 1]
<1>1. i <= n /\ sql[i] = "'" /\ i' = e + 1 /\ statements' = statements /\ current' = d
  BY DEF Literal, At
<1>2. /\ n \in Nat /\ i \in 1..n
      /\ ReadIn[i] = "code" \/ (ReadIn[i] = "block" /\ OpenComment /\ i = n)
      /\ AllPositions(statements) \subseteq Nat /\ Positions(current) \subseteq Nat
  BY <1>1, Standing
<1>3. e \in i..n
  BY <1>2, LiteralEnds
<1>4. /\ Boundary(e + 1) /\ (Solid(e) \/ (OpenLiteral /\ e = n))
      /\ (\A k \in i..e : k \in Kept) \/ (OpenComment /\ i = n)
  <2>1. CASE ReadIn[i] = "code"
    <3>1. Boundary(e + 1) /\ \A k \in i..e : k \in Kept
      BY <1>1, <1>2, <2>1, LiteralToken
    <3>2. (e > i /\ sql[e] = "'") \/ (e = n /\ OpenLiteral)
      BY <1>1, <1>2, <2>1, LiteralRead
    <3>3. e # 0
      BY <1>2, <1>3
    <3> HIDE DEF e
    <3> QED BY <3>1, <3>2, <3>3 DEF Solid, Blank
  <2>2. CASE OpenComment /\ i = n
    <3> HIDE DEF e
    <3>1. e = n /\ n # 0 /\ ~(e + 1 <= n)
      BY <1>2, <1>3, <2>2
    <3> QED BY <1>1, <2>2, <3>1 DEF Boundary, Solid, Blank
  <2> QED BY <1>2, <2>1, <2>2
<1> HIDE DEF e
<1>5. Grown(current, d, i, e)
  BY <1>2, <1>3, LiteralGrows DEF ParserTyped
<1> HIDE DEF d
<1>6. Solid(i) /\ e \in 1..n /\ e >= i
  BY <1>1, <1>2, <1>3 DEF Solid, Blank
<1>7. Holding(statements, d, e + 1)
  BY <1>2, <1>4, <1>5, <1>6, HoldingGrown
<1> QED BY <1>1, <1>4, <1>7

(* At a separator nothing is trimmed that was read.                         *)
LEMMA SeparatorHolds ==
  ASSUME ParserTyped, Boundary(i), Holding(statements, current, i), Separator
  PROVE  Boundary(i') /\ Holding(statements', current', i')
<1>1. i <= n /\ Passed(sql[i]) /\ i' = i + 1 /\ Flush
  BY DEF Separator, At, Passed
<1>2. n \in Nat /\ i \in 1..n /\ i # n + 1
  <2>1. n \in Nat /\ i \in 1..n
    BY <1>1, Standing
  <2> QED BY <2>1
<1>3. current' \in Seq(0..n) /\ statements' \in Seq(Seq(0..n)) /\ current' = <<>>
  BY <1>1, FlushWrites DEF Flush
<1>4. /\ InOrder(statements')
      /\ AllPositions(statements') = AllPositions(statements) \cup Positions(current)
  <2>1. Ordered(statements, current, i) /\ Padded(current, i)
    BY DEF Holding
  <2> QED BY <1>1, <1>2, <2>1, Flushed
<1> DEFINE ss == statements'
           c == current'
<1>5. Holding(ss, c, i)
  <2>1. DOMAIN c = {}
    <3>1. Len(c) = 0 /\ DOMAIN c = 1..Len(c)
      BY <1>3, EmptySeq, LenProperties
    <3> HIDE DEF c
    <3> QED BY <3>1
  <2>2. ss = statements' /\ c = current'
    OBVIOUS
  <2> HIDE DEF ss, c
  <2>3. Positions(c) = {}
    BY <2>1, PositionsOf
  <2>4. Ordered(ss, c, i)
    <3>1. Before(AllPositions(statements) \cup Positions(current), {i})
      BY DEF Holding, Ordered
    <3> QED BY <1>4, <2>1, <2>2, <2>3, <3>1 DEF Ordered, Ascends, Before
  <2>5. Whole(ss, c, i)
    BY <1>4, <2>2, <2>3 DEF Holding, Whole
  <2> QED BY <2>1, <2>4, <2>5 DEF Holding, Padded
<1>6. Boundary(i + 1) /\ Holding(ss, c, i + 1)
  <2>1. ss \in Seq(Seq(0..n)) /\ c \in Seq(0..n)
    BY <1>3
  <2> HIDE DEF ss, c
  <2> QED BY <1>1, <1>5, <2>1, PassCharacter
<1> QED BY <1>1, <1>6

(* What TextKept says of the statements                                     *)
Settled(ss) ==
    /\ InOrder(ss)
    /\ \/ AllPositions(ss) = Kept
       \/ OpenComment /\ AllPositions(ss) = Kept \cup {n}
       \/ /\ OpenLiteral /\ AllPositions(ss) \subseteq Kept
          /\ Before(AllPositions(ss), Kept \ AllPositions(ss))
          /\ \A k \in Kept \ AllPositions(ss) : sql[k] \in Blank

(* At the end the last statement is added to the others, and they hold all  *)
(* that there is to be kept.                                                *)
LEMMA EndSettles ==
  ASSUME ParserTyped, i > n, Holding(statements, current, i), Flush
  PROVE  Settled(statements')
<1>1. n \in Nat /\ i = n + 1
  <2>1. n \in Nat /\ i \in 1..n+1
    BY LenProperties DEF ParserTyped, n
  <2> QED BY <2>1
<1> DEFINE found == AllPositions(statements) \cup Positions(current)
           kept == AllPositions(statements')
<1>2. /\ InOrder(statements') /\ kept \subseteq found
      /\ \A p \in found : p \notin kept =>
           OpenLiteral /\ sql[p] \in Blank /\ Before(kept, {p})
  <2>1. Ordered(statements, current, i) /\ Padded(current, i)
    BY DEF Holding
  <2> QED BY <2>1, Flushed
<1>3. found = Kept \/ (OpenComment /\ found = Kept \cup {n})
  <2>1. {k \in Kept : k < i} = Kept
    <3>1. \A k \in Kept : k \in 1..n
      BY DEF Kept
    <3>2. \A k \in 1..n : k < i
      BY <1>1
    <3> QED BY <3>1, <3>2
  <2> QED BY <2>1 DEF Holding, Whole
<1>4. ~(OpenComment /\ OpenLiteral)
  BY DEF OpenComment, OpenLiteral
<1> HIDE DEF found
<1>5. CASE kept = found
  BY <1>2, <1>3, <1>5 DEF Settled
<1>6. CASE kept # found
  <2>1. OpenLiteral
    BY <1>2, <1>6
  <2>2. found = Kept
    BY <1>3, <1>4, <2>1
  <2> QED BY <1>2, <2>1, <2>2 DEF Settled, Before
<1> QED BY <1>5, <1>6

(* While it parses, the parser stands between two tokens and holds what it  *)
(* has read; when it has come to the end, the statements do.                *)
Reads ==
    /\ step \in {"open", "parse"} => Boundary(i) /\ Holding(statements, current, i)
    /\ TextKept

(* The parser does not change the text.                                     *)
LEMMA SameText ==
  ASSUME sql' = sql
  PROVE  /\ n' = n /\ ReadIn' = ReadIn /\ Kept' = Kept
         /\ OpenComment' = OpenComment /\ OpenLiteral' = OpenLiteral
<1> DEFINE Read(text) ==
             CHOOSE u : u = [k \in 1..Len(text) |->
                               IF k = 1 THEN "code" ELSE Follows(u[k - 1], text[k - 1], text[k])]
<1>1. n' = n
  BY DEF n
<1>2. ReadIn = Read(sql)
  BY DEF ReadIn, n
<1>3. ReadIn' = Read(sql')
  BY DEF ReadIn, n
<1> HIDE DEF Read
<1>4. ReadIn' = ReadIn
  BY <1>2, <1>3
<1>5. Kept' = Kept
  BY <1>1, <1>4 DEF Kept, InLiteral, InCode, OpensComment, Gap, Split
<1>6. OpenComment' = OpenComment /\ OpenLiteral' = OpenLiteral
  BY <1>1, <1>4 DEF OpenComment, OpenLiteral
<1> QED BY <1>1, <1>4, <1>5, <1>6

(* So what is said of it stays the same.                                    *)
LEMMA SameHolding ==
  ASSUME sql' = sql
  PROVE  /\ (Boundary(i) /\ Holding(statements, current, i))' =
              (Boundary(i') /\ Holding(statements', current', i'))
         /\ Settled(statements)' = Settled(statements')
<1>1. /\ n' = n /\ ReadIn' = ReadIn /\ Kept' = Kept
      /\ OpenComment' = OpenComment /\ OpenLiteral' = OpenLiteral
  BY SameText
<1>2. Boundary(i)' = Boundary(i')
  BY <1>1 DEF Boundary
<1>3. Ordered(statements, current, i)' = Ordered(statements', current', i')
  BY DEF Ordered, InOrder, Ascends, Before, AllPositions, Positions
<1>4. Whole(statements, current, i)' = Whole(statements', current', i')
  BY <1>1 DEF Whole, AllPositions, Positions
<1>5. Padded(current, i)' = Padded(current', i')
  BY <1>1 DEF Padded, Solid
<1>6. Settled(statements)' = Settled(statements')
  BY <1>1 DEF Settled, InOrder, Ascends, Before, AllPositions, Positions
<1> QED BY <1>2, <1>3, <1>4, <1>5, <1>6 DEF Holding

(* The parser begins in the code with nothing in hand.                      *)
LEMMA ReadsAtFirst ==
  ASSUME FileInit, Typed
  PROVE  Reads
<1>1. /\ step = "open" /\ i = 1 /\ current = <<>> /\ statements = <<>>
      /\ n \in Nat
  BY LenProperties DEF FileInit, Typed, ParserTyped, n
<1>2. Boundary(i)
  <2>1. 1 <= n => n # 0
    BY <1>1
  <2> QED BY <1>1, <2>1, ReadInSteps DEF Boundary
<1>3. DOMAIN current = {} /\ DOMAIN statements = {}
  <2>1. <<>> \in Seq({}) /\ Len(<<>>) = 0 /\ DOMAIN <<>> = 1..Len(<<>>)
    BY EmptySeq, LenProperties
  <2>2. 1..0 = {}
    OBVIOUS
  <2> QED BY <1>1, <2>1, <2>2
<1>4. Positions(current) = {} /\ AllPositions(statements) = {}
  BY <1>3, PositionsOf DEF AllPositions
<1>5. {k \in Kept : k < i} = {}
  <2>1. \A k \in Kept : k \in 1..n
    BY DEF Kept
  <2>2. \A k \in 1..n : ~(k < 1)
    BY <1>1
  <2> QED BY <1>1, <2>1, <2>2
<1>6. Holding(statements, current, i)
  BY <1>3, <1>4, <1>5 DEF Holding, Ordered, InOrder, Ascends, Before, Whole, Padded
<1>7. TextKept
  BY <1>1 DEF TextKept, Parsed
<1> QED BY <1>2, <1>6, <1>7 DEF Reads

(* Every branch of the parser holds what it has read, and its end settles   *)
(* it.                                                                      *)
LEMMA ReadsOnParsing ==
  ASSUME Typed, Reads, ParseStep \/ ParseEnd
  PROVE  Reads'
<1>1. /\ sql' = sql /\ step = "parse" /\ ParserTyped
      /\ Boundary(i) /\ Holding(statements, current, i)
  BY DEF ParseStep, ParseEnd, Typed, Reads
<1>2. CASE ParseStep
  <2>1. Boundary(i') /\ Holding(statements', current', i')
    <3>1. CASE LineComment \/ BlockComment
      BY <1>1, <3>1, CommentHolds
    <3>2. CASE Literal
      BY <1>1, <3>2, LiteralHolds
    <3>3. CASE Whitespace
      BY <1>1, <3>3, WhitespaceHolds
    <3>4. CASE CloseParen
      BY <1>1, <3>4, ParenHolds
    <3>5. CASE Separator
      BY <1>1, <3>5, SeparatorHolds
    <3>6. CASE Other
      BY <1>1, <3>6, OtherHolds
    <3> QED BY <1>2, <3>1, <3>2, <3>3, <3>4, <3>5, <3>6 DEF ParseStep
  <2>2. (Boundary(i) /\ Holding(statements, current, i))'
    BY <1>1, <2>1, SameHolding
  <2>3. step' = "parse"
    BY <1>2 DEF ParseStep
  <2> QED BY <2>2, <2>3 DEF Reads, TextKept, Parsed
<1>3. CASE ParseEnd
  <2>1. i > n /\ Flush /\ step' = "acquire"
    BY <1>3 DEF ParseEnd
  <2>2. Settled(statements)'
    BY <1>1, <2>1, EndSettles, SameHolding
  <2> QED BY <2>1, <2>2 DEF Reads, TextKept, Settled
<1> QED BY <1>2, <1>3

(* Behind the parser nothing changes the statements.                        *)
LEMMA ReadsOnExecuting ==
  ASSUME MInv, Reads, BehindParser
  PROVE  Reads'
<1>1. UNCHANGED <<sql, i, current, statements>>
  BY ParserRests DEF parserVars
<1>2. /\ (Boundary(i) /\ Holding(statements, current, i))' =
           (Boundary(i) /\ Holding(statements, current, i))
      /\ Settled(statements)' = Settled(statements)
  BY <1>1, SameHolding
<1>3. /\ step' \in {"open", "parse"} => step \in {"open", "parse"}
      /\ step' \notin {"open", "parse"} /\ error' # "SqlFileError" =>
           step \notin {"open", "parse"} /\ error # "SqlFileError"
  BY MigrateGoesOn
<1>4. TextKept'
  BY <1>2, <1>3 DEF Reads, TextKept, Parsed, Settled
<1> QED BY <1>2, <1>3, <1>4 DEF Reads

(* Whatever the file, the statements hold its code and its literals,        *)
(* complete and in order, and nothing of its comments.                      *)
THEOREM TextKeptCorrect == FileSpec => []TextKept
<1>1. FileInit /\ Typed => Reads
  BY ReadsAtFirst
<1>2. MInv /\ Typed /\ Reads /\ [FileNext]_fileVars => Reads'
  BY ReadsOnParsing, ReadsOnExecuting DEF FileNext, BehindParser
<1>3. Reads => TextKept
  BY DEF Reads
<1> QED BY <1>1, <1>2, <1>3, MigrationInvariance, TypedInvariance, PTL DEF FileSpec

-----------------------------------------------------------------------------
(* The shape of the statements, of a file whose last comment and literal    *)
(* are closed                                                               *)

Balanced == ~OpenComment /\ ~OpenLiteral

(* Every character is linked to the next; a space of the parser's own at    *)
(* the end has no next one yet                                              *)
Chain(s) ==
    s # <<>> =>
      /\ s[1] # 0
      /\ \A x \in 1..Len(s) - 1 : (x + 1 = Len(s) /\ s[x + 1] = 0 /\ s[x] # 0) \/ Link(s, x)

(* The last character of the text in a statement that is being built        *)
End(c) == IF c[Len(c)] = 0 THEN c[Len(c) - 1] ELSE c[Len(c)]

(* Behind it no statement ends, and a blank is there exactly when there is  *)
(* the space, or when it would be on the inner side of a parenthesis        *)
Trail(c, j) ==
    c # <<>> =>
      /\ \A k \in End(c)+1..j-1 : ~Split(k)
      /\ c[Len(c)] = 0 <=> sql[End(c)] # "(" /\ \E k \in End(c)+1..j-1 : Gap(k)

(* Where the next statement begins, or would begin                          *)
Begin(c, j) == IF c = <<>> THEN j - 1 ELSE c[1]

Apart(ss, c, j) ==
    /\ \A a \in DOMAIN ss : Neat(ss[a])
    /\ Separated(ss)
    /\ ss # <<>> => \E p \in Last(Last(ss)) .. Begin(c, j) : Split(p)

Clean(ss, c, j) == Chain(c) /\ Trail(c, j) /\ Apart(ss, c, j)

(* Whether a character of the text may follow a statement                   *)
Joint(b, j) ==
    b # <<>> => IF b[Len(b)] = 0 THEN Spaced(b[Len(b) - 1], j) ELSE Joined(b[Len(b)], j)

(* A piece of the text that may follow makes a longer chain.                *)
LEMMA ChainGrown ==
  ASSUME n \in Nat, NEW b \in Seq(0..n), NEW d, NEW j \in 1..n, NEW e \in j..n,
         Grown(b, d, j, e), Chain(b), Joint(b, j)
  PROVE  /\ Chain(d) /\ Len(d) \in Nat \ {0} /\ d[Len(d)] = e
         /\ d[1] = IF b = <<>> THEN j ELSE b[1]
<1> DEFINE l == Len(b)
           m == Len(d)
<1>1. /\ l \in Nat /\ m = l + (e - j + 1) /\ DOMAIN b = 1..l /\ DOMAIN d = 1..m
      /\ (\A x \in 1..l : d[x] = b[x]) /\ (\A x \in l+1..m : d[x] = j + (x - l) - 1)
  BY DEF Grown
<1>2. l = 0 <=> b = <<>>
  BY EmptySeq
<1>3. b # <<>> => /\ b[1] # 0
                  /\ \A x \in 1..l - 1 : (x + 1 = l /\ b[x + 1] = 0 /\ b[x] # 0) \/ Link(b, x)
                  /\ IF b[l] = 0 THEN Spaced(b[l - 1], j) ELSE Joined(b[l], j)
  BY DEF Chain, Joint
<1> HIDE DEF l, m
<1>4. m \in Nat \ {0} /\ m \in l+1..m /\ l + 1 \in l+1..m /\ j + (m - l) - 1 = e /\ j + (l + 1 - l) - 1 = j
  BY <1>1
<1>5. d[m] = e /\ d[l + 1] = j
  BY <1>1, <1>4
<1>6. d[1] = IF b = <<>> THEN j ELSE b[1]
  <2>1. l # 0 => 1 \in 1..l
    BY <1>1
  <2>2. l = 0 => l + 1 = 1
    BY <1>1
  <2> QED BY <1>1, <1>2, <1>5, <2>1, <2>2
<1>7. d[1] # 0 /\ j # 0
  BY <1>3, <1>6
<1>8. ASSUME NEW x \in 1..m - 1 PROVE Link(d, x)
  <2>1. CASE x + 1 <= l
    <3>1. x \in 1..l - 1 /\ x \in 1..l /\ x + 1 \in 1..l /\ l # 0
          /\ (x + 1 = l => l - 1 = x /\ x + 2 = l + 1) /\ (x + 1 # l => x + 2 \in 1..l)
      BY <1>1, <2>1
    <3>2. d[x] = b[x] /\ d[x + 1] = b[x + 1] /\ (x + 1 # l => d[x + 2] = b[x + 2])
      BY <1>1, <3>1
    <3>3. CASE x + 1 = l /\ b[x + 1] = 0 /\ b[x] # 0
      <4>1. Spaced(b[x], j) /\ d[x + 2] = j
        BY <1>2, <1>3, <1>5, <3>1, <3>3
      <4> QED BY <3>2, <3>3, <4>1 DEF Link
    <3>4. CASE Link(b, x) /\ ~(x + 1 = l /\ b[x + 1] = 0 /\ b[x] # 0)
      <4>1. CASE b[x] = 0 /\ b[x + 1] # 0
        BY <3>2, <4>1 DEF Link
      <4>2. CASE b[x] # 0 /\ b[x + 1] # 0 /\ Joined(b[x], b[x + 1])
        BY <3>2, <4>2 DEF Link
      <4>3. CASE b[x] # 0 /\ b[x + 1] = 0 /\ Spaced(b[x], b[x + 2])
        BY <3>2, <3>4, <4>3 DEF Link
      <4> QED BY <3>4, <4>1, <4>2, <4>3 DEF Link
    <3> QED BY <1>2, <1>3, <3>1, <3>3, <3>4
  <2>2. CASE x = l
    <3>1. l # 0 /\ l \in 1..l
      BY <1>1, <2>2
    <3>2. d[x] = b[l] /\ d[x + 1] = j
      BY <1>1, <1>5, <2>2, <3>1
    <3>3. b[l] # 0 => Joined(b[l], j)
      BY <1>2, <1>3, <3>1
    <3> QED BY <1>7, <3>2, <3>3 DEF Link
  <2>3. CASE x > l
    <3>1. x \in l+1..m /\ x + 1 \in l+1..m
      BY <1>1, <2>3
    <3>2. d[x] = j + (x - l) - 1 /\ d[x + 1] = j + (x + 1 - l) - 1
      BY <1>1, <3>1
    <3>3. j + (x - l) - 1 \in Nat \ {0} /\ j + (x + 1 - l) - 1 \in Nat \ {0}
          /\ \A k \in (j + (x - l) - 1)+1..(j + (x + 1 - l) - 1)-1 : FALSE
      BY <1>1, <3>1
    <3>4. Joined(d[x], d[x + 1])
      BY <3>2, <3>3 DEF Joined
    <3> QED BY <3>2, <3>3, <3>4 DEF Link
  <2>4. x \in Int
    OBVIOUS
  <2> QED BY <1>1, <2>1, <2>2, <2>3, <2>4
<1>9. Chain(d)
  BY <1>7, <1>8 DEF Chain, m
<1> QED BY <1>4, <1>5, <1>6, <1>9 DEF m

(* Without the space at its end a chain is one whose last character is of   *)
(* the text.                                                                *)
LEMMA ChainBlanked ==
  ASSUME NEW b, NEW d, Blanked(b, d), Chain(d), d # <<>>
  PROVE  /\ Chain(b) /\ Len(b) \in Nat \ {0} /\ b[Len(b)] # 0
         /\ b[Len(b)] = d[Len(d) - 1] /\ b[1] = d[1]
<1> DEFINE l == Len(b)
           m == Len(d)
<1>1. l \in Nat /\ m = l + 1 /\ (\A x \in 1..l : d[x] = b[x]) /\ d[m] = 0
  BY DEF Blanked
<1>2. /\ d[1] # 0
      /\ \A x \in 1..m - 1 : (x + 1 = m /\ d[x + 1] = 0 /\ d[x] # 0) \/ Link(d, x)
  BY DEF Chain
<1> HIDE DEF l, m
<1>3. l # 0
  BY <1>1, <1>2
<1>4. 1 \in 1..l /\ l \in 1..l /\ l \in 1..m - 1 /\ l = m - 1 /\ l + 1 = m
  BY <1>1, <1>3
<1>5. b[l] # 0 /\ b[l] = d[m - 1] /\ b[1] = d[1]
  <2>1. d[l] # 0
    BY <1>1, <1>2, <1>4 DEF Link
  <2> QED BY <1>1, <1>4, <2>1
<1>6. ASSUME NEW x \in 1..l - 1 PROVE Link(b, x)
  <2>1. x \in 1..m - 1 /\ x \in 1..l /\ x + 1 \in 1..l /\ x + 1 # m
        /\ (x + 1 # l => x + 2 \in 1..l)
    BY <1>1
  <2>2. d[x] = b[x] /\ d[x + 1] = b[x + 1] /\ (x + 1 # l => d[x + 2] = b[x + 2])
    BY <1>1, <2>1
  <2>3. Link(d, x)
    BY <1>2, <2>1
  <2>4. x + 1 = l => b[x + 1] # 0
    BY <1>5
  <2> QED BY <2>2, <2>3, <2>4 DEF Link
<1>7. Chain(b)
  BY <1>2, <1>5, <1>6 DEF Chain, l
<1> QED BY <1>1, <1>3, <1>5, <1>7 DEF l, m

(* Such a chain is as a statement is to be.                                 *)
LEMMA ChainNeat ==
  ASSUME NEW s, Chain(s), s # <<>>, s[Len(s)] # 0
  PROVE  Neat(s) /\ Head(s) = s[1] /\ Last(s) = s[Len(s)]
<1>1. Head(s) = s[1] /\ Last(s) = s[Len(s)]
  BY DEF Last
<1>2. \A x \in 1..Len(s) - 1 : Link(s, x)
  BY DEF Chain
<1> QED BY <1>1, <1>2 DEF Neat, Chain

(* What the trail of a statement says of the character that comes next.     *)
LEMMA TrailJoint ==
  ASSUME NEW c, NEW j, Trail(c, j), c # <<>>
  PROVE  /\ c[Len(c)] = 0 /\ sql[j] # ")" => Spaced(End(c), j)
         /\ c[Len(c)] # 0 \/ sql[j] = ")" => Joined(End(c), j)
<1>1. /\ \A k \in End(c)+1..j-1 : ~Split(k)
      /\ c[Len(c)] = 0 <=> sql[End(c)] # "(" /\ \E k \in End(c)+1..j-1 : Gap(k)
  BY DEF Trail
<1>2. ASSUME c[Len(c)] = 0, sql[j] # ")" PROVE Spaced(End(c), j)
  BY <1>1, <1>2 DEF Spaced
<1>3. ASSUME c[Len(c)] # 0 \/ sql[j] = ")" PROVE Joined(End(c), j)
  BY <1>1, <1>3 DEF Joined
<1> QED BY <1>2, <1>3

(* The statements end at positions of the text.                             *)
LEMMA LastTyped ==
  ASSUME n \in Nat, NEW ss \in Seq(Seq(0..n)), ss # <<>>, \A a \in DOMAIN ss : Neat(ss[a])
  PROVE  Last(Last(ss)) \in 0..n
<1> DEFINE l == Len(ss)
           s == ss[l]
<1>1. l \in Nat /\ l # 0 /\ DOMAIN ss = 1..l
  BY LenProperties, EmptySeq
<1>2. l \in 1..l
  <2> HIDE DEF l
  <2> QED BY <1>1
<1>3. s \in Seq(0..n) /\ Neat(s)
  BY <1>1, <1>2, ElementOfSeq
<1>4. Last(ss) = s
  BY DEF Last
<1> HIDE DEF s
<1>5. s # <<>>
  BY <1>3 DEF Neat
<1>6. Len(s) \in Nat /\ Len(s) # 0
  BY <1>3, <1>5, LenProperties, EmptySeq
<1>7. Len(s) \in 1..Len(s)
  BY <1>6
<1>8. s[Len(s)] \in 0..n
  BY <1>3, <1>7, ElementOfSeq
<1> QED BY <1>4, <1>8 DEF Last

(* The separator in front of the next statement stays there.                *)
LEMMA ApartLater ==
  ASSUME n \in Nat, NEW ss \in Seq(Seq(0..n)), NEW c, NEW j, NEW d, NEW e, Apart(ss, c, j),
         Begin(c, j) \in Int, Begin(d, e) \in Int, Begin(c, j) <= Begin(d, e)
  PROVE  Apart(ss, d, e)
<1>1. ASSUME ss # <<>> PROVE \E p \in Last(Last(ss)) .. Begin(d, e) : Split(p)
  <2> DEFINE f == Last(Last(ss))
  <2>1. f \in 0..n
    BY <1>1, LastTyped DEF Apart
  <2>2. PICK p \in f..Begin(c, j) : Split(p)
    BY <1>1 DEF Apart
  <2> HIDE DEF f
  <2>3. p \in f..Begin(d, e)
    BY <2>1, <2>2
  <2> QED BY <2>2, <2>3 DEF f
<1> QED BY <1>1 DEF Apart

(* A piece of the text that may follow keeps the shape.                     *)
LEMMA CleanGrown ==
  ASSUME n \in Nat, NEW ss \in Seq(Seq(0..n)), NEW b \in Seq(0..n), NEW d,
         NEW j \in 1..n, NEW e \in j..n,
         Grown(b, d, j, e), Chain(b), Joint(b, j), Apart(ss, b, j)
  PROVE  Clean(ss, d, e + 1)
<1>1. /\ Chain(d) /\ Len(d) \in Nat \ {0} /\ d[Len(d)] = e
      /\ d[1] = IF b = <<>> THEN j ELSE b[1]
  BY ChainGrown
<1>2. e \in Nat /\ e # 0 /\ \A k \in e+1..e+1-1 : FALSE
  OBVIOUS
<1>3. End(d) = e
  BY <1>1, <1>2 DEF End
<1>4. Trail(d, e + 1)
  BY <1>1, <1>2, <1>3 DEF Trail
<1>5. d # <<>>
  BY <1>1, EmptySeq
<1>6. Begin(d, e + 1) = d[1]
  BY <1>5 DEF Begin
<1>7. Begin(b, j) \in Int /\ Begin(d, e + 1) \in Int /\ Begin(b, j) <= Begin(d, e + 1)
  <2>1. CASE b = <<>>
    <3>1. Begin(b, j) = j - 1 /\ Begin(d, e + 1) = j
      BY <1>1, <1>6, <2>1 DEF Begin
    <3> QED BY <3>1
  <2>2. CASE b # <<>>
    <3>1. Begin(b, j) = b[1] /\ Begin(d, e + 1) = b[1]
      BY <1>1, <1>6, <2>2 DEF Begin
    <3>2. b[1] \in 0..n
      <4>1. Len(b) \in Nat /\ Len(b) # 0
        BY <2>2, LenProperties, EmptySeq
      <4>2. 1 \in 1..Len(b)
        BY <4>1
      <4> QED BY <4>2, ElementOfSeq
    <3> QED BY <3>1, <3>2
  <2> QED BY <2>1, <2>2
<1>8. Apart(ss, d, e + 1)
  BY <1>7, ApartLater
<1> QED BY <1>1, <1>4, <1>8 DEF Clean

(* The end of a statement is a position of it.                              *)
LEMMA EndTyped ==
  ASSUME n \in Nat, NEW c \in Seq(0..n), Chain(c), c # <<>>
  PROVE  End(c) \in Positions(c) /\ End(c) \in Nat /\ End(c) # 0
<1> DEFINE m == Len(c)
<1>1. m \in Nat /\ m # 0 /\ DOMAIN c = 1..m /\ \A x \in 1..m : c[x] \in 0..n
  BY PositionsTyped, EmptySeq
<1>2. /\ c[1] # 0
      /\ \A x \in 1..m - 1 : (x + 1 = m /\ c[x + 1] = 0 /\ c[x] # 0) \/ Link(c, x)
  BY DEF Chain
<1>3. End(c) = IF c[m] = 0 THEN c[m - 1] ELSE c[m]
  BY DEF End
<1> HIDE DEF m
<1>4. PICK x \in 1..m : End(c) = c[x] /\ c[x] # 0
  <2>1. CASE c[m] # 0
    <3>1. m \in 1..m
      BY <1>1
    <3> QED BY <1>3, <2>1, <3>1
  <2>2. CASE c[m] = 0
    <3>1. m # 1
      BY <1>2, <2>2
    <3>2. m - 1 \in 1..m - 1 /\ m - 1 \in 1..m /\ (m - 1) + 1 = m
      BY <1>1, <3>1
    <3>3. c[m - 1] # 0
      BY <1>2, <2>2, <3>2 DEF Link
    <3> QED BY <1>3, <2>2, <3>2, <3>3
  <2> QED BY <2>1, <2>2
<1>5. c[x] \in Nat
  BY <1>1
<1> QED BY <1>1, <1>4, <1>5, PositionsOf

(* So does text that has neither code nor separators in it.                 *)
LEMMA CleanQuiet ==
  ASSUME n \in Nat, NEW ss \in Seq(Seq(0..n)), NEW c \in Seq(0..n), NEW j \in 1..n, NEW e \in 1..n+1,
         e > j, Clean(ss, c, j), Before(Positions(c), {j}),
         \A k \in j..e-1 : ~Split(k),
         c # <<>> => (c[Len(c)] = 0 \/ sql[End(c)] = "(" \/ \A k \in j..e-1 : ~Gap(k))
  PROVE  Clean(ss, c, e)
<1>1. Trail(c, e)
  <2> SUFFICES ASSUME c # <<>>
               PROVE  /\ \A k \in End(c)+1..e-1 : ~Split(k)
                      /\ c[Len(c)] = 0 <=> sql[End(c)] # "(" /\ \E k \in End(c)+1..e-1 : Gap(k)
    BY DEF Trail
  <2> DEFINE f == End(c)
  <2>1. /\ \A k \in f+1..j-1 : ~Split(k)
        /\ c[Len(c)] = 0 <=> sql[f] # "(" /\ \E k \in f+1..j-1 : Gap(k)
    BY DEF Clean, Trail
  <2>2. f \in Nat /\ f < j
    <3>1. f \in Nat /\ f \in Positions(c)
      BY EndTyped DEF Clean
    <3> QED BY <3>1 DEF Before
  <2>3. c[Len(c)] = 0 \/ sql[f] = "(" \/ \A k \in j..e-1 : ~Gap(k)
    OBVIOUS
  <2> HIDE DEF f
  <2>4. /\ \A k \in f+1..e-1 : k \in f+1..j-1 \/ k \in j..e-1
        /\ \A k \in f+1..j-1 : k \in f+1..e-1
    BY <2>2
  <2>5. \A k \in f+1..e-1 : ~Split(k)
    BY <2>1, <2>4
  <2>6. c[Len(c)] = 0 <=> sql[f] # "(" /\ \E k \in f+1..e-1 : Gap(k)
    <3>1. CASE c[Len(c)] = 0
      BY <2>1, <2>4, <3>1
    <3>2. CASE sql[f] = "("
      BY <2>1, <3>2
    <3>3. CASE \A k \in j..e-1 : ~Gap(k)
      BY <2>1, <2>4, <3>3
    <3> QED BY <2>3, <3>1, <3>2, <3>3
  <2> QED BY <2>5, <2>6 DEF f
<1>2. Begin(c, j) \in Int /\ Begin(c, e) \in Int /\ Begin(c, j) <= Begin(c, e)
  <2>1. CASE c = <<>>
    <3>1. Begin(c, j) = j - 1 /\ Begin(c, e) = e - 1
      BY <2>1 DEF Begin
    <3> QED BY <3>1
  <2>2. CASE c # <<>>
    <3>1. Begin(c, j) = c[1] /\ Begin(c, e) = c[1]
      BY <2>2 DEF Begin
    <3>2. Len(c) \in Nat /\ Len(c) # 0
      BY <2>2, LenProperties, EmptySeq
    <3>3. 1 \in 1..Len(c)
      BY <3>2
    <3>4. c[1] \in 0..n
      BY <3>3, ElementOfSeq
    <3> QED BY <3>1, <3>4
  <2> QED BY <2>1, <2>2
<1>3. Apart(ss, c, e)
  BY <1>2, ApartLater DEF Clean
<1> QED BY <1>1, <1>3 DEF Clean

(* A space behind a character keeps the shape.                              *)
LEMMA CleanBlanked ==
  ASSUME n \in Nat, NEW ss \in Seq(Seq(0..n)), NEW c \in Seq(0..n), NEW d, NEW j \in 1..n,
         Blanked(c, d), Clean(ss, c, j), Before(Positions(c), {j}), Gap(j), ~Split(j),
         c # <<>>, c[Len(c)] # 0, sql[c[Len(c)]] # "("
  PROVE  Clean(ss, d, j + 1)
<1> DEFINE l == Len(c)
           m == Len(d)
           f == End(c)
<1>1. l \in Nat /\ m = l + 1 /\ (\A x \in 1..l : d[x] = c[x]) /\ d[m] = 0
  BY DEF Blanked
<1>2. /\ c[1] # 0
      /\ \A x \in 1..l - 1 : (x + 1 = l /\ c[x + 1] = 0 /\ c[x] # 0) \/ Link(c, x)
  BY DEF Clean, Chain
<1>3. f \in Positions(c) /\ f \in Nat /\ f = c[l]
  <2>1. f \in Positions(c) /\ f \in Nat
    BY EndTyped DEF Clean
  <2> QED BY <2>1 DEF End
<1>4. f < j
  BY <1>3 DEF Before
<1>5. l # 0
  BY EmptySeq
<1>6. c[l] # 0 /\ sql[f] # "("
  BY <1>3
<1>7. d # <<>>
  <2>1. m # 0
    BY <1>1
  <2> QED BY <2>1, EmptySeq
<1> HIDE DEF l, m
<1>8. 1 \in 1..l /\ l \in 1..l /\ m - 1 = l
  BY <1>1, <1>5
<1>9. ASSUME NEW x \in 1..m - 1
      PROVE  (x + 1 = m /\ d[x + 1] = 0 /\ d[x] # 0) \/ Link(d, x)
  <2>1. CASE x = l
    BY <1>1, <1>6, <1>8, <2>1
  <2>2. CASE x # l
    <3>1. x \in 1..l - 1 /\ x \in 1..l /\ x + 1 \in 1..l /\ (x + 1 # l => x + 2 \in 1..l)
      BY <1>1, <1>5, <2>2
    <3>2. d[x] = c[x] /\ d[x + 1] = c[x + 1] /\ (x + 1 # l => d[x + 2] = c[x + 2])
      BY <1>1, <3>1
    <3>3. x + 1 = l => c[x + 1] # 0
      BY <1>6
    <3>4. Link(c, x)
      BY <1>2, <3>1, <3>3
    <3>5. Link(d, x)
      BY <3>2, <3>3, <3>4 DEF Link
    <3> QED BY <3>5
  <2> QED BY <2>1, <2>2
<1>10. d[1] = c[1]
  BY <1>1, <1>8
<1>11. Chain(d)
  BY <1>2, <1>9, <1>10 DEF Chain, m
<1>12. d[m - 1] = f
  BY <1>1, <1>3, <1>8
<1>13. End(d) = f
  BY <1>1, <1>12 DEF End, m
<1>14. Trail(d, j + 1)
  <2>1. \A k \in f+1..j-1 : ~Split(k)
    BY DEF Clean, Trail
  <2> HIDE DEF f
  <2>2. (\A k \in f+1..j+1-1 : k \in f+1..j-1 \/ k = j) /\ j \in f+1..j+1-1
    BY <1>3, <1>4
  <2>3. \A k \in f+1..j+1-1 : ~Split(k)
    BY <2>1, <2>2
  <2>4. sql[f] # "(" /\ \E k \in f+1..j+1-1 : Gap(k)
    BY <1>6, <2>2
  <2>5. d[Len(d)] = 0
    BY <1>1 DEF m
  <2> QED BY <1>13, <2>3, <2>4, <2>5 DEF Trail
<1>15. Begin(c, j) = c[1] /\ Begin(d, j + 1) = c[1]
  BY <1>7, <1>10 DEF Begin
<1>16. Apart(ss, d, j + 1)
  BY <1>15 DEF Clean, Apart
<1> QED BY <1>11, <1>14, <1>16 DEF Clean

(* What a flush adds is the statement without the space at its end.         *)
LEMMA FlushTrims ==
  ASSUME ParserTyped, Flush, Chain(current), Padded(current, i), ~OpenLiteral
  PROVE  statements' = IF current = <<>> THEN statements
                       ELSE Append(statements, IF current[Len(current)] = 0 THEN Front(current)
                                               ELSE current)
<1> DEFINE c == current
           m == Len(c)
           solid == {x \in DOMAIN c : Char(c[x]) \notin Blank}
<1>1. n \in Nat /\ c \in Seq(0..n)
  BY LenProperties DEF ParserTyped, n
<1>2. m \in Nat /\ DOMAIN c = 1..m
  BY <1>1, LenProperties
<1>3. solid \in SUBSET (1..m) /\ \A x \in 1..m : x \in solid <=> Solid(c[x])
  BY <1>2, CharSolid
<1>4. statements' = IF solid = {} THEN statements
                    ELSE Append(statements, SubSeq(c, Min(solid), Max(solid)))
  BY DEF Flush
<1>5. CASE c = <<>>
  <2>1. m = 0
    BY <1>5, EmptySeq
  <2>2. solid = {}
    <3> HIDE DEF solid, m
    <3> QED BY <1>3, <2>1
  <2> QED BY <1>4, <1>5, <2>2
<1>6. CASE c # <<>>
  <2>1. m # 0
    BY <1>1, <1>6, EmptySeq
  <2>2. /\ c[1] # 0
        /\ \A x \in 1..m - 1 : (x + 1 = m /\ c[x + 1] = 0 /\ c[x] # 0) \/ Link(c, x)
    BY <1>6 DEF Chain
  <2>3. ASSUME NEW x \in 1..m, c[x] # 0, ~Solid(c[x])
        PROVE  (\E y \in 1..m : y < x /\ Solid(c[y])) /\ (\E y \in 1..m : x < y /\ Solid(c[y]))
    BY <1>2, <2>3 DEF Padded
  <2>4. statements' = IF solid = {} THEN statements
                      ELSE Append(statements, SubSeq(c, Min(solid), Max(solid)))
    BY <1>4
  <2> DEFINE last == IF c[m] = 0 THEN m - 1 ELSE m
             sub == SubSeq(c, 1, last)
  <2> HIDE DEF solid, m
  <2>5. 1 \in 1..m /\ m \in 1..m /\ (m # 1 => m - 1 \in 1..m /\ m - 1 \in 1..m - 1 /\ (m - 1) + 1 = m)
    BY <1>2, <2>1
  <2>6. 1 \in solid
    <3>1. \A y \in 1..m : ~(y < 1)
      BY <1>2
    <3> QED BY <1>3, <2>2, <2>3, <2>5, <3>1
  <2>7. last \in solid /\ \A x \in solid : x <= last
    <3>1. CASE c[m] # 0
      <4>1. \A y \in 1..m : ~(m < y) /\ y <= m
        BY <1>2
      <4>2. m \in solid
        BY <1>3, <2>3, <2>5, <3>1, <4>1
      <4> QED BY <1>3, <3>1, <4>1, <4>2
    <3>2. CASE c[m] = 0
      <4>1. m # 1
        BY <2>2, <3>2
      <4>2. c[m - 1] # 0
        BY <2>2, <2>5, <3>2, <4>1 DEF Link
      <4>3. \A y \in 1..m : m - 1 < y => y = m
        BY <1>2
      <4>4. ~Solid(c[m])
        BY <3>2 DEF Solid
      <4>5. m - 1 \in solid
        BY <1>3, <2>3, <2>5, <4>1, <4>2, <4>3, <4>4
      <4>6. \A y \in 1..m : y # m => y <= m - 1
        BY <1>2
      <4>7. \A x \in solid : x \in 1..m /\ x # m
        BY <1>3, <4>4
      <4> QED BY <3>2, <4>5, <4>6, <4>7
    <3> QED BY <3>1, <3>2
  <2> HIDE DEF last
  <2>8. Min(solid) = 1 /\ Max(solid) = last
    <3>1. /\ Min(solid) \in solid /\ \A x \in solid : Min(solid) <= x
          /\ Max(solid) \in solid /\ \A x \in solid : Max(solid) >= x
      BY <1>2, <1>3, <2>6, Extremes
    <3> DEFINE lo == Min(solid)
               hi == Max(solid)
    <3>2. lo \in solid /\ lo <= 1 /\ hi \in solid /\ hi <= last /\ hi >= last
      BY <2>6, <2>7, <3>1
    <3> HIDE DEF lo, hi
    <3>3. lo \in 1..m /\ hi \in 1..m /\ last \in 1..m
      BY <1>3, <2>7, <3>2
    <3>4. lo = 1 /\ hi = last
      BY <1>2, <3>2, <3>3
    <3> QED BY <3>4 DEF lo, hi
  <2>9. statements' = Append(statements, SubSeq(c, 1, last))
    BY <2>4, <2>6, <2>8
  <2>10. CASE c[m] = 0
    <3>1. last = m - 1
      BY <2>10 DEF last
    <3>2. SubSeq(c, 1, last) = Front(c)
      BY <3>1 DEF Front, m
    <3> QED BY <1>6, <2>9, <2>10, <3>2 DEF m
  <2>11. CASE c[m] # 0
    <3>1. last = m
      BY <2>11 DEF last
    <3>2. SubSeq(c, 1, m) = c
      BY <1>1, SubSeqFull DEF m
    <3> QED BY <1>6, <2>9, <2>11, <3>1, <3>2 DEF m
  <2> QED BY <2>10, <2>11
<1> QED BY <1>5, <1>6

(* What a flush adds is in shape, and ends where the statement did.         *)
LEMMA FlushShapes ==
  ASSUME ParserTyped, Flush, Chain(current), Padded(current, i), ~OpenLiteral,
         Apart(statements, current, i)
  PROVE  /\ (\A a \in DOMAIN statements' : Neat(statements'[a])) /\ Separated(statements')
         /\ current = <<>> => statements' = statements
         /\ current # <<>> => Last(Last(statements')) = End(current)
<1> DEFINE c == current
           ss == statements
           t == IF c[Len(c)] = 0 THEN Front(c) ELSE c
           r == Append(ss, t)
           m == Len(ss)
<1>1. n \in Nat /\ c \in Seq(0..n) /\ ss \in Seq(Seq(0..n))
  BY LenProperties DEF ParserTyped, n
<1>2. statements' = IF c = <<>> THEN ss ELSE r
  BY FlushTrims
<1>3. /\ \A a \in DOMAIN ss : Neat(ss[a])
      /\ \A a \in 1..Len(ss) - 1 : \E p \in Last(ss[a]) .. Head(ss[a + 1]) : Split(p)
      /\ ss # <<>> => \E p \in Last(Last(ss)) .. Begin(c, i) : Split(p)
  BY DEF Apart, Separated
<1>4. CASE c = <<>>
  BY <1>2, <1>4 DEF Apart
<1>5. CASE c # <<>>
  <2>1. t \in Seq(0..n) /\ Neat(t) /\ Head(t) = c[1] /\ Last(t) = End(c)
    <3>1. CASE c[Len(c)] = 0
      <4> DEFINE b == Front(c)
      <4>1. b \in Seq(0..n) /\ Blanked(b, c)
        BY <1>1, <1>5, <3>1, FrontBlanked
      <4> HIDE DEF b
      <4>2. /\ Chain(b) /\ Len(b) \in Nat \ {0} /\ b[Len(b)] # 0
            /\ b[Len(b)] = c[Len(c) - 1] /\ b[1] = c[1]
        BY <1>5, <4>1, ChainBlanked
      <4>3. b # <<>>
        BY <4>2, EmptySeq
      <4>4. Neat(b) /\ Head(b) = b[1] /\ Last(b) = b[Len(b)]
        BY <4>2, <4>3, ChainNeat
      <4>5. t = b
        BY <3>1 DEF b
      <4> QED BY <3>1, <4>1, <4>2, <4>4, <4>5 DEF End
    <3>2. CASE c[Len(c)] # 0
      <4>1. Neat(c) /\ Head(c) = c[1] /\ Last(c) = c[Len(c)]
        BY <1>5, <3>2, ChainNeat
      <4> QED BY <1>1, <3>2, <4>1 DEF End
    <3> QED BY <3>1, <3>2
  <2> HIDE DEF t
  <2>2. statements' = r
    BY <1>2, <1>5
  <2>3. /\ m \in Nat /\ DOMAIN ss = 1..m /\ DOMAIN r = 1..m + 1 /\ Len(r) = m + 1
        /\ (\A a \in 1..m : r[a] = ss[a]) /\ r[m + 1] = t
    <3>1. r \in Seq(Seq(0..n)) /\ Len(r) = m + 1 /\ (\A a \in 1..m : r[a] = ss[a]) /\ r[m + 1] = t
      BY <1>1, <2>1, AppendProperties
    <3> HIDE DEF r
    <3> QED BY <1>1, <3>1, LenProperties
  <2>4. m = 0 <=> ss = <<>>
    BY <1>1, EmptySeq
  <2>5. Last(ss) = ss[m]
    BY DEF Last
  <2>6. Begin(c, i) = c[1]
    BY <1>5 DEF Begin
  <2>7. Last(r) = t
    BY <2>3 DEF Last
  <2> HIDE DEF r
  <2>8. \A a \in 1..m - 1 : \E p \in Last(ss[a]) .. Head(ss[a + 1]) : Split(p)
    BY <1>3
  <2> HIDE DEF m
  <2>9. ASSUME NEW a \in DOMAIN r PROVE Neat(r[a])
    <3>1. a \in 1..m \/ a = m + 1
      BY <2>3, <2>9
    <3> QED BY <1>3, <2>1, <2>3, <3>1
  <2>10. ASSUME NEW a \in 1..Len(r) - 1 PROVE \E p \in Last(r[a]) .. Head(r[a + 1]) : Split(p)
    <3>1. a \in 1..m
      BY <2>3
    <3>2. CASE a = m
      <4>1. m # 0
        BY <2>3, <3>1, <3>2
      <4>2. r[a] = Last(ss) /\ Head(r[a + 1]) = Begin(c, i)
        BY <2>1, <2>3, <2>5, <2>6, <3>1, <3>2
      <4> QED BY <1>3, <2>4, <4>1, <4>2
    <3>3. CASE a # m
      <4>1. a \in 1..m - 1 /\ a + 1 \in 1..m
        BY <2>3, <3>1, <3>3
      <4>2. r[a] = ss[a] /\ r[a + 1] = ss[a + 1]
        BY <2>3, <3>1, <4>1
      <4> QED BY <2>8, <4>1, <4>2
    <3> QED BY <3>2, <3>3
  <2> QED BY <1>5, <2>1, <2>2, <2>7, <2>9, <2>10 DEF Separated
<1> QED BY <1>4, <1>5

(* What the branches start from, and where they are in the text: in the     *)
(* code, since no comment is open at the end.                               *)
LEMMA Upright ==
  ASSUME ParserTyped, Balanced, Boundary(i), Holding(statements, current, i), i <= n
  PROVE  /\ n \in Nat /\ i \in 1..n /\ i + 1 \in 1..n+1 /\ i + 1 > i /\ \A k \in i..i+1-1 : k = i
         /\ ReadIn[i] = "code" /\ i # n + 1
         /\ statements \in Seq(Seq(0..n)) /\ current \in Seq(0..n)
         /\ Before(Positions(current), {i}) /\ Padded(current, i)
<1>1. /\ n \in Nat /\ i \in 1..n /\ i + 1 \in 1..n+1 /\ i + 1 > i /\ \A k \in i..i+1-1 : k = i
      /\ ReadIn[i] = "code"
  BY Standing DEF Balanced
<1>2. i # n + 1
  BY <1>1
<1>3. Before(Positions(current), {i}) /\ Padded(current, i)
  BY DEF Holding, Ordered, Before
<1> QED BY <1>1, <1>2, <1>3 DEF ParserTyped

(* A comment leaves the shape as it is.                                     *)
LEMMA CommentShapes ==
  ASSUME ParserTyped, Balanced, Boundary(i), Holding(statements, current, i),
         Clean(statements, current, i), LineComment \/ BlockComment
  PROVE  Clean(statements', current', i')
<1>1. i < n /\ UNCHANGED <<current, statements>>
  BY DEF LineComment, BlockComment, AtPair
<1>2. n \in Nat /\ i \in 1..n+1
  BY LenProperties DEF ParserTyped, n
<1>3. i <= n
  BY <1>1, <1>2
<1>4. /\ n \in Nat /\ i \in 1..n /\ ReadIn[i] = "code"
      /\ statements \in Seq(Seq(0..n)) /\ current \in Seq(0..n)
      /\ Before(Positions(current), {i})
  BY <1>3, Upright
<1> DEFINE e == i'
<1>5. e > i /\ e \in 1..n+1 /\ Silent(i, e)
  BY <1>4, LineToken, BlockToken, LineCommentWrites, BlockCommentWrites DEF Wrote
<1> HIDE DEF e
<1>6. \A k \in i..e-1 : ~Split(k) /\ ~Gap(k)
  BY <1>5 DEF Silent
<1>7. Clean(statements, current, e)
  BY <1>4, <1>5, <1>6, CleanQuiet
<1> QED BY <1>1, <1>7 DEF e

(* A blank makes a space if there is none and if it is not on the inner     *)
(* side of a parenthesis.                                                   *)
LEMMA WhitespaceShapes ==
  ASSUME ParserTyped, Balanced, Boundary(i), Holding(statements, current, i),
         Clean(statements, current, i), Whitespace
  PROVE  Clean(statements', current', i')
<1> DEFINE c == current
           stays == c = <<>> \/ Char(Last(c)) \in {" ", "("}
<1>1. /\ i <= n /\ Passed(sql[i]) /\ i' = i + 1 /\ statements' = statements
      /\ current' = IF stays THEN c ELSE Append(c, 0)
  BY DEF Whitespace, Passed
<1>2. /\ n \in Nat /\ i \in 1..n /\ i + 1 \in 1..n+1 /\ i + 1 > i /\ (\A k \in i..i+1-1 : k = i)
      /\ ReadIn[i] = "code" /\ i # n + 1
      /\ statements \in Seq(Seq(0..n)) /\ c \in Seq(0..n)
      /\ Before(Positions(c), {i}) /\ Padded(c, i)
  BY <1>1, Upright
<1>3. Gap(i) /\ ~Split(i)
  <2>1. sql[i] \in Blank /\ sql[i] # "'" /\ sql[i] # ";" /\ ~AtComment
    BY DEF Whitespace, Blank, AtComment, AtPair
  <2> QED BY <1>2, <2>1, CharacterToken
<1>4. Last(c) = c[Len(c)]
  BY DEF Last
<1>5. CASE stays
  <2>1. c # <<>> => c[Len(c)] = 0 \/ sql[End(c)] = "("
    <3>1. ASSUME c # <<>>, ~Solid(Last(c)) PROVE c[Len(c)] = 0
      BY <1>1, <1>2, <3>1, LastBlank
    <3>2. ASSUME c # <<>>, Solid(Last(c)), c[Len(c)] # 0 PROVE sql[End(c)] = "("
      <4>1. Char(Last(c)) # " "
        BY <3>2, CharSolid DEF Blank
      <4>2. Char(Last(c)) = "("
        BY <1>5, <3>2, <4>1
      <4> QED BY <1>4, <3>2, <4>2 DEF Char, End
    <3> QED BY <3>1, <3>2
  <2> HIDE DEF stays
  <2> DEFINE e == i + 1
  <2>2. e \in 1..n+1 /\ e > i /\ \A k \in i..e-1 : ~Split(k)
    BY <1>2, <1>3
  <2> HIDE DEF e
  <2>3. Clean(statements, c, e)
    BY <1>2, <2>1, <2>2, CleanQuiet
  <2> QED BY <1>1, <1>5, <2>3 DEF e
<1>6. CASE ~stays
  <2>1. c # <<>> /\ c[Len(c)] # 0 /\ sql[c[Len(c)]] # "("
    BY <1>4, <1>6 DEF Char
  <2> HIDE DEF stays
  <2> DEFINE d == Append(c, 0)
  <2>2. Blanked(c, d)
    BY <1>2, AppendBlanks
  <2> HIDE DEF d
  <2>3. Clean(statements, d, i + 1)
    BY <1>2, <1>3, <2>1, <2>2, CleanBlanked
  <2> QED BY <1>1, <1>6, <2>3 DEF d
<1> QED BY <1>5, <1>6

(* A piece of the text may follow if it does not begin with a closing       *)
(* parenthesis.                                                             *)
LEMMA JointAhead ==
  ASSUME NEW ss, NEW c, NEW j, Clean(ss, c, j), sql[j] # ")"
  PROVE  Chain(c) /\ Joint(c, j) /\ Apart(ss, c, j)
<1>1. Joint(c, j)
  BY TrailJoint DEF Clean, Joint, End
<1> QED BY <1>1 DEF Clean

(* What has no meaning to the parser keeps the shape.                       *)
LEMMA OtherShapes ==
  ASSUME ParserTyped, Balanced, Boundary(i), Holding(statements, current, i),
         Clean(statements, current, i), Other
  PROVE  Clean(statements', current', i')
<1>1. /\ i <= n /\ sql[i] # ")"
      /\ i' = i + 1 /\ statements' = statements /\ current' = Append(current, i)
  BY DEF Other
<1>2. n \in Nat /\ i \in 1..n /\ statements \in Seq(Seq(0..n)) /\ current \in Seq(0..n)
  BY <1>1, Upright
<1> DEFINE d == Append(current, i)
<1>3. Grown(current, d, i, i) /\ i \in i..n
  BY <1>2, AppendGrows
<1> HIDE DEF d
<1>4. Chain(current) /\ Joint(current, i) /\ Apart(statements, current, i)
  BY <1>1, JointAhead
<1>5. Clean(statements, d, i + 1)
  BY <1>2, <1>3, <1>4, CleanGrown
<1> QED BY <1>1, <1>5 DEF d

(* So does a literal.                                                       *)
LEMMA LiteralShapes ==
  ASSUME ParserTyped, Balanced, Boundary(i), Holding(statements, current, i),
         Clean(statements, current, i), Literal
  PROVE  Clean(statements', current', i')
<1> DEFINE e == LiteralEnd
           d == current \o [k \in 1..e - i + 1 |-> i + k - 1]
<1>1. /\ i <= n /\ sql[i] # ")"
      /\ i' = e + 1 /\ statements' = statements /\ current' = d
  BY DEF Literal, At
<1>2. n \in Nat /\ i \in 1..n /\ statements \in Seq(Seq(0..n)) /\ current \in Seq(0..n)
  BY <1>1, Upright
<1>3. e \in i..n
  BY <1>2, LiteralEnds
<1> HIDE DEF e
<1>4. Grown(current, d, i, e)
  BY <1>2, <1>3, LiteralGrows
<1> HIDE DEF d
<1>5. Chain(current) /\ Joint(current, i) /\ Apart(statements, current, i)
  BY <1>1, JointAhead
<1>6. Clean(statements, d, e + 1)
  BY <1>2, <1>3, <1>4, <1>5, CleanGrown
<1> QED BY <1>1, <1>6

(* A closing parenthesis takes the space in front of it away.               *)
LEMMA ParenShapes ==
  ASSUME ParserTyped, Balanced, Boundary(i), Holding(statements, current, i),
         Clean(statements, current, i), CloseParen
  PROVE  Clean(statements', current', i')
<1> DEFINE c == current
           blank == c # <<>> /\ Char(Last(c)) = " "
           b == IF blank THEN Front(c) ELSE c
<1>1. i <= n /\ sql[i] = ")" /\ i' = i + 1 /\ statements' = statements /\ current' = Append(b, i)
  BY DEF CloseParen, At
<1>2. /\ n \in Nat /\ i \in 1..n /\ statements \in Seq(Seq(0..n)) /\ c \in Seq(0..n)
      /\ Padded(c, i)
  BY <1>1, Upright
<1>3. Last(c) = c[Len(c)]
  BY DEF Last
<1>4. Chain(c) /\ Apart(statements, c, i) /\ (c # <<>> => Joined(End(c), i))
  BY <1>1, TrailJoint DEF Clean
<1>5. b \in Seq(0..n) /\ Chain(b) /\ Joint(b, i) /\ Apart(statements, b, i)
  <2>1. CASE blank
    <3>1. ~Solid(Last(c))
      BY <2>1, CharSolid DEF Blank
    <3>2. c # <<>> /\ b = Front(c)
      BY <2>1
    <3> HIDE DEF b, blank
    <3>3. c[Len(c)] = 0
      BY <1>1, <1>2, <3>1, <3>2, LastBlank
    <3>4. b \in Seq(0..n) /\ Blanked(b, c)
      BY <1>2, <3>2, <3>3, FrontBlanked
    <3>5. /\ Chain(b) /\ Len(b) \in Nat \ {0} /\ b[Len(b)] # 0
          /\ b[Len(b)] = c[Len(c) - 1] /\ b[1] = c[1]
      BY <1>4, <3>2, <3>4, ChainBlanked
    <3>6. b # <<>>
      BY <3>5, EmptySeq
    <3>7. Joint(b, i)
      BY <1>4, <3>2, <3>3, <3>5 DEF Joint, End
    <3>8. Begin(b, i) = Begin(c, i)
      BY <3>2, <3>5, <3>6 DEF Begin
    <3> QED BY <1>4, <3>4, <3>5, <3>7, <3>8 DEF Apart
  <2>2. CASE ~blank
    <3>1. c # <<>> => c[Len(c)] # 0
      BY <1>3, <2>2 DEF Char
    <3>2. b = c
      BY <2>2
    <3> HIDE DEF b, blank
    <3>3. Joint(c, i)
      BY <1>4, <3>1 DEF Joint, End
    <3> QED BY <1>2, <1>4, <3>2, <3>3
  <2> QED BY <2>1, <2>2
<1> HIDE DEF b
<1> DEFINE d == Append(b, i)
<1>6. Grown(b, d, i, i) /\ i \in i..n
  BY <1>2, <1>5, AppendGrows
<1> HIDE DEF d
<1>7. Clean(statements, d, i + 1)
  BY <1>2, <1>5, <1>6, CleanGrown
<1> QED BY <1>1, <1>7 DEF d

(* A separator stands between the statement that it ends and the next one.  *)
LEMMA SeparatorShapes ==
  ASSUME ParserTyped, Balanced, Boundary(i), Holding(statements, current, i),
         Clean(statements, current, i), Separator
  PROVE  Clean(statements', current', i')
<1>1. i <= n /\ i' = i + 1 /\ Flush /\ sql[i] = ";"
  BY DEF Separator, At
<1>2. /\ n \in Nat /\ i \in 1..n /\ i + 1 \in 1..n+1 /\ ReadIn[i] = "code"
      /\ statements \in Seq(Seq(0..n)) /\ current \in Seq(0..n)
      /\ Before(Positions(current), {i}) /\ Padded(current, i)
  BY <1>1, Upright
<1>3. Split(i)
  <2>1. sql[i] # "'" /\ ~AtComment
    BY <1>1 DEF AtComment, AtPair
  <2> QED BY <1>1, <1>2, <2>1, CharacterToken
<1>4. current' = <<>>
  BY <1>1 DEF Flush
<1>5. /\ (\A a \in DOMAIN statements' : Neat(statements'[a])) /\ Separated(statements')
      /\ current = <<>> => statements' = statements
      /\ current # <<>> => Last(Last(statements')) = End(current)
  BY <1>1, <1>2, FlushShapes DEF Clean, Balanced
<1>6. Begin(current', i + 1) = i + 1 - 1 /\ i + 1 - 1 = i
  BY <1>2, <1>4 DEF Begin
<1>7. Apart(statements', current', i + 1)
  <2>1. CASE current # <<>>
    <3>1. End(current) \in Positions(current) /\ End(current) \in Nat
      BY <1>2, <2>1, EndTyped DEF Clean
    <3>2. End(current) < i
      BY <1>2, <3>1 DEF Before
    <3>3. i \in End(current)..i
      <4> DEFINE f == End(current)
      <4>1. f \in Nat /\ f < i
        BY <3>1, <3>2
      <4> HIDE DEF f
      <4>2. i \in f..i
        BY <1>2, <4>1
      <4> QED BY <4>2 DEF f
    <3> QED BY <1>3, <1>5, <1>6, <2>1, <3>3 DEF Apart
  <2>2. CASE current = <<>>
    <3>1. Begin(current, i) = i - 1
      BY <2>2 DEF Begin
    <3>2. /\ Begin(current, i) \in Int /\ Begin(current', i + 1) \in Int
          /\ Begin(current, i) <= Begin(current', i + 1)
      <4>1. Begin(current, i) = i - 1 /\ Begin(current', i + 1) = i
        BY <1>6, <3>1
      <4> QED BY <1>2, <4>1
    <3> DEFINE d == current'
    <3>3. /\ Begin(current, i) \in Int /\ Begin(d, i + 1) \in Int
          /\ Begin(current, i) <= Begin(d, i + 1)
      BY <3>2
    <3> HIDE DEF d
    <3>4. Apart(statements, d, i + 1)
      BY <1>2, <3>3, ApartLater DEF Clean
    <3> QED BY <1>5, <2>2, <3>4 DEF d
  <2> QED BY <2>1, <2>2
<1> QED BY <1>1, <1>4, <1>7 DEF Clean, Chain, Trail

(* The shape of what the parser has built so far, and of the statements     *)
(* when it has come to the end                                              *)
Shapes ==
    /\ step \in {"open", "parse"} /\ Balanced => Clean(statements, current, i)
    /\ Normalised

(* The parser does not change the text, so the shape stays what it is.      *)
LEMMA SameShapes ==
  ASSUME sql' = sql
  PROVE  /\ Balanced' = Balanced
         /\ Clean(statements, current, i)' = Clean(statements', current', i')
         /\ ((\A a \in DOMAIN statements : Neat(statements[a])) /\ Separated(statements))' =
              ((\A a \in DOMAIN statements' : Neat(statements'[a])) /\ Separated(statements'))
<1>1. /\ n' = n /\ ReadIn' = ReadIn
      /\ OpenComment' = OpenComment /\ OpenLiteral' = OpenLiteral
  BY SameText
<1>2. Chain(current)' = Chain(current')
  BY <1>1 DEF Chain, Link, Joined, Spaced, Gap, Split, InCode, OpensComment
<1>3. Trail(current, i)' = Trail(current', i')
  BY <1>1 DEF Trail, End, Gap, Split, InCode, OpensComment
<1>4. Separated(statements)' = Separated(statements')
  BY <1>1 DEF Separated, Split, InCode, OpensComment
<1>5. (\A a \in DOMAIN statements : Neat(statements[a]))' =
        (\A a \in DOMAIN statements' : Neat(statements'[a]))
  BY <1>1 DEF Neat, Link, Joined, Spaced, Gap, Split, InCode, OpensComment
<1>6. Apart(statements, current, i)' = Apart(statements', current', i')
  BY <1>1, <1>4, <1>5 DEF Apart, Begin, Split, InCode, OpensComment
<1>7. Clean(statements, current, i)' = Clean(statements', current', i')
  BY <1>2, <1>3, <1>6 DEF Clean
<1>8. Balanced' = Balanced
  BY <1>1 DEF Balanced
<1> QED BY <1>4, <1>5, <1>7, <1>8

(* Nothing has a shape before the first character.                          *)
LEMMA ShapesAtFirst ==
  ASSUME FileInit
  PROVE  Shapes
<1>1. step = "open" /\ current = <<>> /\ statements = <<>>
  BY DEF FileInit
<1>2. DOMAIN statements = {} /\ 1..Len(statements) - 1 = {}
  <2>1. <<>> \in Seq({}) /\ Len(<<>>) = 0 /\ DOMAIN <<>> = 1..Len(<<>>)
    BY EmptySeq, LenProperties
  <2>2. 1..0 = {} /\ 1..0 - 1 = {}
    OBVIOUS
  <2> QED BY <1>1, <2>1, <2>2
<1>3. Clean(statements, current, i)
  BY <1>1, <1>2 DEF Clean, Chain, Trail, Apart, Separated
<1> QED BY <1>1, <1>3 DEF Shapes, Normalised, Parsed

(* Every branch of the parser keeps the shape, and its end with it.         *)
LEMMA ShapesOnParsing ==
  ASSUME Typed, Reads, Shapes, ParseStep \/ ParseEnd
  PROVE  Shapes'
<1>1. /\ sql' = sql /\ step = "parse" /\ ParserTyped
      /\ Boundary(i) /\ Holding(statements, current, i)
      /\ Balanced => Clean(statements, current, i)
  BY DEF ParseStep, ParseEnd, Typed, Reads, Shapes
<1>2. CASE ParseStep
  <2>1. ASSUME Balanced PROVE Clean(statements', current', i')
    <3>1. CASE LineComment \/ BlockComment
      BY <1>1, <2>1, <3>1, CommentShapes
    <3>2. CASE Literal
      BY <1>1, <2>1, <3>2, LiteralShapes
    <3>3. CASE Whitespace
      BY <1>1, <2>1, <3>3, WhitespaceShapes
    <3>4. CASE CloseParen
      BY <1>1, <2>1, <3>4, ParenShapes
    <3>5. CASE Separator
      BY <1>1, <2>1, <3>5, SeparatorShapes
    <3>6. CASE Other
      BY <1>1, <2>1, <3>6, OtherShapes
    <3> QED BY <1>2, <3>1, <3>2, <3>3, <3>4, <3>5, <3>6 DEF ParseStep
  <2>2. Balanced' => Clean(statements, current, i)'
    BY <1>1, <2>1, SameShapes
  <2>3. step' = "parse"
    BY <1>2 DEF ParseStep
  <2> QED BY <2>2, <2>3 DEF Shapes, Normalised, Parsed
<1>3. CASE ParseEnd
  <2>1. Flush /\ step' = "acquire"
    BY <1>3 DEF ParseEnd
  <2>2. ASSUME Balanced
        PROVE  (\A a \in DOMAIN statements' : Neat(statements'[a])) /\ Separated(statements')
    BY <1>1, <2>1, <2>2, FlushShapes DEF Balanced, Clean, Holding
  <2>3. Balanced' =>
          ((\A a \in DOMAIN statements : Neat(statements[a])) /\ Separated(statements))'
    BY <1>1, <2>2, SameShapes
  <2> QED BY <2>1, <2>3 DEF Shapes, Normalised, Balanced
<1> QED BY <1>2, <1>3

(* Behind the parser nothing changes the statements.                        *)
LEMMA ShapesOnExecuting ==
  ASSUME MInv, Shapes, BehindParser
  PROVE  Shapes'
<1>1. UNCHANGED <<sql, i, current, statements>>
  BY ParserRests DEF parserVars
<1>2. /\ Balanced' = Balanced
      /\ Clean(statements, current, i)' = Clean(statements, current, i)
      /\ ((\A a \in DOMAIN statements : Neat(statements[a])) /\ Separated(statements))' =
           ((\A a \in DOMAIN statements : Neat(statements[a])) /\ Separated(statements))
  BY <1>1, SameShapes
<1>3. /\ step' \in {"open", "parse"} => step \in {"open", "parse"}
      /\ step' \notin {"open", "parse"} /\ error' # "SqlFileError" =>
           step \notin {"open", "parse"} /\ error # "SqlFileError"
  BY MigrateGoesOn
<1>4. Normalised'
  BY <1>2, <1>3 DEF Shapes, Normalised, Parsed, Balanced
<1> QED BY <1>2, <1>3, <1>4 DEF Shapes

(* Whatever the file, if its last comment and literal are closed, the       *)
(* statements end at its separators and nowhere else, and one space stands  *)
(* where it has blanks.                                                     *)
THEOREM NormalisedCorrect == FileSpec => []Normalised
<1>1. FileInit /\ Typed => Reads /\ Shapes
  BY ReadsAtFirst, ShapesAtFirst
<1>2. MInv /\ Typed /\ Reads /\ Shapes /\ [FileNext]_fileVars => Reads' /\ Shapes'
  BY ReadsOnParsing, ReadsOnExecuting, ShapesOnParsing, ShapesOnExecuting
     DEF FileNext, BehindParser
<1>3. Shapes => Normalised
  BY DEF Shapes
<1> QED BY <1>1, <1>2, <1>3, MigrationInvariance, TypedInvariance, PTL DEF FileSpec

=============================================================================
