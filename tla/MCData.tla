------------------------------- MODULE MCData -------------------------------
(***************************************************************************)
(* The two paths of data that share no state with each other or with the   *)
(* threads: a migration file on its way to statements, a value on its way  *)
(* to a column and back.  A behaviour takes one of them; the other rests.  *)
(***************************************************************************)
EXTENDS MCValues, Migration

(* Files of up to four statements, which are executed with every kind of    *)
(* statement on a connection that breaks; the others show the parser, and   *)
(* have plain statements and a link that stands                             *)
Scripts == {<<>>, <<"x", ";", "x">>, <<"x", ";", "x", ";", "x", ";", "x">>}
Simple == kinds' \in Seq({"plain"}) /\ losses' = 0

(* Every short text over all characters that the parser tells apart, longer *)
(* ones over those of literals, of either comment and of parentheses        *)
Over(chars, most) == UNION {[1..j -> chars] : j \in 0..most}
Files == Over({"x", "'", "-", "/", "*", " ", "\n", "(", ")", ";"}, 3)
         \cup Over({"'", ";", "x", " "}, 5) \cup Over({"/", "*", "x", ";"}, 6)
         \cup Over({"-", "\n", "x", "'"}, 5) \cup Over({"(", ")", " ", "x"}, 5)
         \cup Scripts

ValueRests ==
    /\ pc = "rejected" /\ type = "none" /\ value = 0
    /\ v = 0 /\ raw = <<>> /\ quot = <<>> /\ weight = 0
    /\ wire = <<>> /\ column = "none"
    /\ reader = "none" /\ result = 0 /\ k = 0 /\ answer = <<>>

FileRests ==
    /\ step = "done" /\ error = "SqlFileError" /\ lent = FALSE
    /\ sql = <<>> /\ i = 1 /\ current = <<>> /\ statements = <<>> /\ next = 1
    /\ kinds = <<>> /\ attempts = 1
    /\ session = "idle" /\ server = "rest" /\ losses = 0
    /\ pending = {} /\ durable = {} /\ undone = {}

DataInit == \/ Init /\ FileRests
            \/ FileInit /\ ValueRests
DataNext == \/ Next /\ UNCHANGED fileVars
            \/ FileNext /\ (sql \in Scripts \/ Simple) /\ UNCHANGED vars
DataSpec == DataInit /\ [][DataNext]_<<vars, fileVars>>

=============================================================================
