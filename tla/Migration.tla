------------------------------ MODULE Migration ------------------------------
(***************************************************************************)
(* Migrate: a file of SQL is split into statements by ParseStatements and  *)
(* executed statement by statement on one connection of the pool, up to    *)
(* the first failure.                                                      *)
(*                                                                         *)
(* A character of a statement is its position in the file; 0 is a space    *)
(* that push_space has put there.  " " stands for tab and CR as well, "x"  *)
(* for every character that the parser passes on.  What a statement does   *)
(* at the server, and whether it is rejected, is external; what execute()  *)
(* makes of it is not: its attempts, its reconnection and the session in   *)
(* which it goes on are those of TransactionSession, seen by one caller.   *)
(***************************************************************************)
EXTENDS Integers, Sequences, FiniteSetsExt, SequencesExt

CONSTANTS
    Texts,        \* what the file may hold
    Kinds,        \* the kinds of statements in it
    MaxLosses     \* bound on broken links

ASSUME TextsAssumption == \A text \in Texts : text \in Seq(STRING)
ASSUME KindsAssumption == /\ Kinds \subseteq {"plain", "begin", "commit", "rollback"}
                          /\ MaxLosses \in Nat

VARIABLES
    step,         \* of Migrate
    sql, i,       \* the text and the position of the parser
    current,      \* the statement that the parser builds
    statements,
    next,         \* the statement to be executed
    error,        \* what Migrate returns
    lent,         \* the connection is out of the pool
    kinds,        \* of the statements, up to the next one
    attempts,     \* of ExecuteWithRetry
    session,      \* the server's side of the connection
    server,       \* it has nothing, the statement, or the result for the client
    pending,      \* statements done in the server's open transaction
    durable,      \* statements that took effect
    undone,       \* statements that were done, with the transaction they were in undone
    losses

parserVars == <<sql, i, current, statements>>
callVars == <<kinds, attempts>>
effects == <<pending, durable, undone>>
serverVars == <<session, server, effects, losses>>
fileVars == <<step, parserVars, next, error, lent, callVars, serverVars>>

FileInit ==
    /\ step = "open"
    /\ sql \in Texts /\ i = 1 /\ current = <<>> /\ statements = <<>>
    /\ next = 1 /\ error = "none" /\ lent = FALSE
    /\ kinds = <<>> /\ attempts = 1
    /\ session = "idle" /\ server = "rest" /\ losses = 0
    /\ pending = {} /\ durable = {} /\ undone = {}

n == Len(sql)
Blank == {" ", "\n"}
Char(p) == IF p = 0 THEN " " ELSE sql[p]

-----------------------------------------------------------------------------
(* ParseStatements: the branches of its loop                                *)

At(c) == i <= n /\ sql[i] = c
AtPair(c, d) == i < n /\ sql[i] = c /\ sql[i + 1] = d
AtComment == AtPair("-", "-") \/ AtPair("/", "*")

(* The newline is left for the next round                                   *)
LineComment ==
    /\ AtPair("-", "-")
    /\ i' = Min({k \in i..n : sql[k] = "\n"} \cup {n + 1})
    /\ UNCHANGED <<current, statements>>

(* Seeded fault: the look-ahead for the end begins inside the opening       *)
BlockCommentOverlaps ==
    /\ AtPair("/", "*")
    /\ LET ends == {k \in i+1..n-1 : sql[k] = "*" /\ sql[k + 1] = "/"} IN
         i' = IF ends # {} THEN Min(ends) + 2 ELSE Max({i + 2, n})
    /\ UNCHANGED <<current, statements>>

(* Without an end the look-ahead stops in front of the last character       *)
BlockComment ==
    /\ AtPair("/", "*")
    /\ LET ends == {k \in i+2..n-1 : sql[k] = "*" /\ sql[k + 1] = "/"} IN
         i' = IF ends # {} THEN Min(ends) + 2 ELSE Max({i + 2, n})
    /\ UNCHANGED <<current, statements>>

(* Seeded fault: an open literal reaches past the end of the text           *)
LiteralEndPast ==
    LET end[k \in 1..n+2] ==
          IF k > n THEN k
          ELSE IF sql[k] # "'" THEN end[k + 1]
          ELSE IF k < n /\ sql[k + 1] = "'" THEN end[k + 2] ELSE k
    IN end[i + 1]

(* The closing quote; two quotes are an escaped one                         *)
LiteralEnd ==
    LET end[k \in 1..n+2] ==
          IF k > n THEN n
          ELSE IF sql[k] # "'" THEN end[k + 1]
          ELSE IF k < n /\ sql[k + 1] = "'" THEN end[k + 2] ELSE k
    IN end[i + 1]

Literal ==
    /\ At("'")
    /\ current' = current \o [k \in 1..LiteralEnd - i + 1 |-> i + k - 1]
    /\ i' = LiteralEnd + 1
    /\ UNCHANGED statements

(* push_space                                                               *)
Whitespace ==
    /\ i <= n /\ sql[i] \in Blank
    /\ current' = IF current = <<>> \/ Char(Last(current)) \in {" ", "("}
                    THEN current ELSE Append(current, 0)
    /\ i' = i + 1
    /\ UNCHANGED statements

CloseParen ==
    /\ At(")")
    /\ LET front == IF current # <<>> /\ Char(Last(current)) = " " THEN Front(current)
                    ELSE current
       IN current' = Append(front, i)
    /\ i' = i + 1
    /\ UNCHANGED statements

(* Seeded fault: the statement is not trimmed                               *)
FlushUntrimmed ==
    /\ statements' = IF \A k \in DOMAIN current : Char(current[k]) \in Blank
                       THEN statements ELSE Append(statements, current)
    /\ current' = <<>>

(* The statement without blanks at its ends, if anything is left            *)
Flush ==
    /\ LET solid == {k \in DOMAIN current : Char(current[k]) \notin Blank} IN
         statements' = IF solid = {} THEN statements
                       ELSE Append(statements, SubSeq(current, Min(solid), Max(solid)))
    /\ current' = <<>>

Separator == At(";") /\ Flush /\ i' = i + 1

Other ==
    /\ i <= n /\ ~AtComment /\ sql[i] \notin Blank \cup {"'", ")", ";"}
    /\ current' = Append(current, i) /\ i' = i + 1
    /\ UNCHANGED statements

ParseStep ==
    /\ step = "parse"
    /\ \/ LineComment \/ BlockComment \/ Literal \/ Whitespace \/ CloseParen \/ Separator \/ Other
    /\ UNCHANGED <<step, sql, next, error, lent, callVars, serverVars>>

(* The last statement needs no separator                                    *)
ParseEnd ==
    /\ step = "parse" /\ i > n
    /\ Flush
    /\ step' = "acquire"
    /\ UNCHANGED <<sql, i, next, error, lent, callVars, serverVars>>

-----------------------------------------------------------------------------
(* Migrate                                                                  *)

OpenFile ==
    /\ step = "open"
    /\ \/ step' = "parse" /\ UNCHANGED error
       \/ step' = "done" /\ error' = "SqlFileError"
    /\ UNCHANGED <<parserVars, next, lent, callVars, serverVars>>

(* The connection from the pool may have broken there                       *)
Acquire ==
    /\ step = "acquire"
    /\ \/ step' = "execute" /\ lent' = TRUE /\ session' \in {"idle", "gone"} /\ UNCHANGED error
       \/ step' = "done" /\ error' = "ConnectionError" /\ UNCHANGED <<lent, session>>
    /\ UNCHANGED <<parserVars, next, callVars, server, effects, losses>>

(* The next statement goes to ExecuteWithRetry.  A connection whose loss    *)
(* libpq has noticed is reset first                                         *)
Execute ==
    /\ step = "execute" /\ next <= Len(statements)
    /\ \E kind \in Kinds : kinds' = Append(kinds, kind)
    /\ attempts' = 1
    /\ step' = "send" \/ (session = "gone" /\ step' = "reset")
    /\ UNCHANGED <<parserVars, next, error, lent, serverVars>>

AllExecuted ==
    /\ step = "execute" /\ next > Len(statements)
    /\ step' = "return"
    /\ UNCHANGED <<parserVars, next, error, lent, callVars, serverVars>>

(* ~ConnectionManager gives the connection back on every way out            *)
Return ==
    /\ step = "return"
    /\ lent' = FALSE /\ step' = "done"
    /\ UNCHANGED <<parserVars, next, error, callVars, serverVars>>

-----------------------------------------------------------------------------
(* ExecuteWithRetry                                                         *)

Succeeds ==
    /\ next' = next + 1 /\ step' = "execute"
    /\ UNCHANGED <<parserVars, error, lent, callVars>>

(* Seeded fault: the result of a statement is not looked at                 *)
FailsUnnoticed(e) ==
    /\ next' = next + 1 /\ step' = "execute"
    /\ UNCHANGED <<parserVars, error, lent, callVars>>

(* The first failure ends the migration                                     *)
FailsWith(e) ==
    /\ error' = e /\ step' = "return"
    /\ UNCHANGED <<parserVars, next, lent, callVars>>

Retries ==
    /\ attempts = 1 /\ attempts' = 2 /\ step' = "reset"
    /\ UNCHANGED <<parserVars, next, error, lent, kinds>>

Send ==
    /\ step = "send"
    /\ server' = IF session = "gone" THEN "rest" ELSE "has"
    /\ step' = "await"
    /\ UNCHANGED <<parserVars, next, error, lent, callVars, session, effects, losses>>

(* BadConnection, on sending or on reading: once, the link is made again    *)
(* and the statement is sent again                                          *)
SeesLoss ==
    /\ step \in {"send", "await"} /\ session = "gone" /\ server = "rest"
    /\ Retries \/ (attempts = 2 /\ FailsWith("BadConnection"))
    /\ UNCHANGED serverVars

(* Seeded fault: the reconnection is taken for the statement's success      *)
ReconnectsOnly ==
    /\ step = "reset"
    /\ session' = "idle" /\ Succeeds
    /\ UNCHANGED <<server, effects, losses>>

(* The session is a new one: no transaction is open in it                   *)
Reconnects ==
    /\ step = "reset"
    /\ session' = "idle" /\ step' = "send"
    /\ UNCHANGED <<parserVars, next, error, lent, callVars, server, effects, losses>>

ReconnectFails ==
    /\ step = "reset"
    /\ session' \in {"idle", "gone"}
    /\ FailsWith("FailedToReconnect")
    /\ UNCHANGED <<server, effects, losses>>

(* A poll fails or times out, and the server may execute the statement all  *)
(* the same, now or later; or PQsocket has no socket                        *)
SocketFails ==
    /\ step = "await" \/ (step = "send" /\ session = "gone")
    /\ FailsWith("SocketFailed")
    /\ UNCHANGED serverVars

ReadsResult ==
    /\ step = "await" /\ server \in {"ok", "error"}
    /\ \/ server = "ok" /\ Succeeds
       \/ server = "error" /\ FailsWith("QueryFailed")
    /\ server' = "rest"
    /\ UNCHANGED <<session, effects, losses>>

(* The link breaks in the loop over the results                             *)
LosesResult ==
    /\ step = "await" /\ session = "gone"
    /\ FailsWith("QueryFailed")
    /\ server' = "rest"
    /\ UNCHANGED <<session, effects, losses>>

(* Between two statements the heartbeat may find the link broken and reset  *)
(* the connection                                                           *)
BeatReconnects ==
    /\ step = "execute" /\ session = "gone"
    /\ session' = "idle"
    /\ UNCHANGED <<step, parserVars, next, error, lent, callVars, server, effects, losses>>

-----------------------------------------------------------------------------
(* The server and the link                                                  *)

(* The statement has arrived and its result goes back                       *)
Serves(kind, result) ==
    /\ server = "has" /\ kinds[next] \in kind
    /\ server' = result
    /\ UNCHANGED <<step, parserVars, next, error, lent, callVars, losses>>

(* Outside a transaction a statement commits by itself                      *)
ServerRuns ==
    /\ Serves({"plain", "begin"}, "ok")
    /\ session' = IF kinds[next] = "begin" THEN "open" ELSE session
    /\ \/ session' = "open" /\ pending' = pending \cup {next} /\ UNCHANGED durable
       \/ session' # "open" /\ durable' = durable \cup {next} /\ UNCHANGED pending
    /\ UNCHANGED undone

(* Without a transaction, COMMIT and ROLLBACK are only warnings             *)
ServerEnds ==
    /\ Serves({"commit", "rollback"}, "ok")
    /\ session' = "idle" /\ pending' = {}
    /\ IF session = "open" /\ kinds[next] = "rollback"
         THEN undone' = undone \cup pending \cup {next} /\ UNCHANGED durable
         ELSE durable' = durable \cup pending \cup {next} /\ UNCHANGED undone

(* A COMMIT that is refused ends the transaction too                        *)
ServerRejects ==
    /\ Serves({"plain", "begin", "commit"}, "error")
    /\ session' = IF session = "idle" \/ kinds[next] = "commit" THEN "idle" ELSE "failed"
    /\ pending' = {} /\ undone' = undone \cup pending
    /\ UNCHANGED durable

(* The server aborts the transaction; a result may have come through        *)
Lose ==
    /\ lent /\ session # "gone" /\ losses < MaxLosses
    /\ losses' = losses + 1
    /\ session' = "gone" /\ pending' = {} /\ undone' = undone \cup pending
    /\ server' \in {"rest"} \cup ({server} \ {"has"})
    /\ UNCHANGED <<step, parserVars, next, error, lent, callVars, durable>>

-----------------------------------------------------------------------------
ExecuteStep ==
    \/ Send \/ SeesLoss \/ Reconnects \/ ReconnectFails \/ SocketFails
    \/ ReadsResult \/ LosesResult \/ BeatReconnects

ServerStep == ServerRuns \/ ServerEnds \/ ServerRejects \/ Lose

FileNext ==
    \/ OpenFile \/ ParseStep \/ ParseEnd
    \/ Acquire \/ Execute \/ AllExecuted \/ Return
    \/ ExecuteStep \/ ServerStep

FileSpec == FileInit /\ [][FileNext]_fileVars

-----------------------------------------------------------------------------
(* A reference: what each character of the file is, read as SQL             *)

(* The state in which a character is read, from the one before it           *)
Follows(s, c, d) ==
    CASE s = "code" /\ c = "-" /\ d = "-" -> "line"
      [] s = "code" /\ c = "/" /\ d = "*" -> "opening"
      [] s = "code" /\ c = "'"            -> "literal"
      [] s = "line" /\ d = "\n"           -> "code"
      [] s = "opening"                    -> "block"
      [] s = "block" /\ c = "*" /\ d = "/" -> "closing"
      [] s = "closing"                    -> "code"
      [] s = "literal" /\ c = "'"         -> IF d = "'" THEN "escaped" ELSE "code"
      [] s = "escaped"                    -> "literal"
      [] OTHER                            -> s

ReadIn ==
    LET state[k \in 1..n] ==
          IF k = 1 THEN "code" ELSE Follows(state[k - 1], sql[k - 1], sql[k])
    IN state

(* The characters of literals; those of the code that are not in comments   *)
InLiteral(k) == ReadIn[k] \in {"literal", "escaped"} \/ (ReadIn[k] = "code" /\ sql[k] = "'")
OpensComment(k) == k < n /\ Follows("code", sql[k], sql[k + 1]) \in {"line", "opening"}
InCode(k) == ReadIn[k] = "code" /\ sql[k] # "'" /\ ~OpensComment(k)

Gap(k)   == InCode(k) /\ sql[k] \in Blank
Split(k) == InCode(k) /\ sql[k] = ";"
Kept == {k \in 1..n : InLiteral(k) \/ (InCode(k) /\ ~Gap(k) /\ ~Split(k))}

OpenComment == n > 0 /\ ReadIn[n] = "block"
OpenLiteral == n > 0 /\ \/ ReadIn[n] = "escaped"
                        \/ ReadIn[n] = "literal" /\ sql[n] # "'"
                        \/ ReadIn[n] = "code" /\ sql[n] = "'"
Parsed == step \notin {"open", "parse"}

-----------------------------------------------------------------------------
(* Properties                                                               *)

(* Every variable keeps its type.                                           *)
FileTypeOK ==
    /\ step \in {"open", "parse", "acquire", "execute", "send", "await", "reset", "return", "done"}
    /\ i \in 1..n+1
    /\ current \in Seq(0..n) /\ statements \in Seq(Seq(0..n))
    /\ next \in 1..Len(statements)+1
    /\ error \in {"none", "SqlFileError", "ConnectionError", "QueryFailed", "BadConnection",
                  "SocketFailed", "FailedToReconnect"}
    /\ lent \in BOOLEAN
    /\ kinds \in Seq(Kinds) /\ attempts \in 1..2
    /\ session \in {"idle", "open", "failed", "gone"}
    /\ server \in {"rest", "has", "ok", "error"}
    /\ pending \cup durable \cup undone \subseteq 1..Len(statements)
    /\ losses \in Nat

(* The characters of the file in a statement, and in several               *)
Positions(s) == Range(s) \ {0}
AllPositions(ss) == UNION {Positions(ss[a]) : a \in DOMAIN ss}

Before(S, T) == \A p \in S, q \in T : p < q
Ascends(s) == \A x, y \in DOMAIN s : x < y /\ s[x] # 0 /\ s[y] # 0 => s[x] < s[y]
InOrder(ss) ==
    /\ \A a \in DOMAIN ss : Ascends(ss[a])
    /\ \A a, b \in DOMAIN ss : a < b => Before(Positions(ss[a]), Positions(ss[b]))

(* Comments go, and with them nothing else: the statements hold the code    *)
(* and the literals of the file, complete, in order and, inside literals,   *)
(* verbatim.  But of a comment that is not closed the last character stays, *)
(* and a literal that is not closed loses the blanks at its end.            *)
TextKept ==
    Parsed /\ error # "SqlFileError" =>
        /\ InOrder(statements)
        /\ LET found == AllPositions(statements) IN
             \/ found = Kept
             \/ OpenComment /\ found = Kept \cup {n}
             \/ /\ OpenLiteral /\ found \subseteq Kept /\ Before(found, Kept \ found)
                /\ \A k \in Kept \ found : sql[k] \in Blank

(* What stands between two characters that follow each other in a statement,*)
(* or with one space in between: never a ';', and a blank exactly when there*)
(* is the space, or when it would be on the inner side of a parenthesis     *)
Joined(p, q) == \A k \in p+1..q-1 : ~Split(k) /\ (Gap(k) => sql[p] = "(" \/ sql[q] = ")")
Spaced(p, q) == /\ \A k \in p+1..q-1 : ~Split(k)
                /\ \E k \in p+1..q-1 : Gap(k)
                /\ sql[p] # "(" /\ sql[q] # ")"
Link(s, x) ==
    \/ s[x] = 0 /\ s[x + 1] # 0
    \/ s[x] # 0 /\ s[x + 1] # 0 /\ Joined(s[x], s[x + 1])
    \/ s[x] # 0 /\ s[x + 1] = 0 /\ Spaced(s[x], s[x + 2])

Neat(s) == /\ s # <<>> /\ Head(s) # 0 /\ Last(s) # 0
           /\ \A x \in 1..Len(s) - 1 : Link(s, x)
Separated(ss) ==
    \A a \in 1..Len(ss) - 1 : \E p \in Last(ss[a]) .. Head(ss[a + 1]) : Split(p)

(* A statement ends at a ';' of the code and nowhere else; one space stands *)
(* where the code has blanks, never next to the inner side of a parenthesis *)
(* and never at an end.                                                     *)
Normalised ==
    Parsed /\ error # "SqlFileError" /\ ~OpenComment /\ ~OpenLiteral =>
        (\A a \in DOMAIN statements : Neat(statements[a])) /\ Separated(statements)

(* What the file does with transactions of its own, as far as it was sent   *)
Begins   == \E k \in DOMAIN kinds : kinds[k] = "begin"
RollsBack == \E k \in DOMAIN kinds : kinds[k] = "rollback"

(* Nothing is skipped and nothing runs ahead, over broken links, retries,   *)
(* rejections and statements that are executed after their timeout: what    *)
(* was done is behind the next statement or is this one, and everything     *)
(* behind it was done; in a file without transactions of its own it took    *)
(* effect and lasts.                                                        *)
NeverSkips ==
    /\ durable \cup pending \cup undone \subseteq 1..next
    /\ 1..next-1 \subseteq durable \cup pending \cup undone
    /\ ~Begins => 1..next-1 \subseteq durable

(* A migration that reports success got to the end of the file.  All of it  *)
(* lasts when the file has no transactions, whatever broke; with            *)
(* transactions of its own it lasts, or waits for the file's COMMIT, when   *)
(* the file rolled nothing back and no link broke.  (When one did, the      *)
(* retry in a new session succeeds and what the transaction had done before *)
(* is gone.)  And on every way out the connection is back in the pool.      *)
CompleteOrError ==
    step = "done" =>
        /\ error = "none" =>
             /\ next = Len(statements) + 1
             /\ ~Begins => durable = 1..Len(statements)
             /\ losses = 0 /\ ~RollsBack => durable \cup pending = 1..Len(statements)
        /\ ~lent

=============================================================================
