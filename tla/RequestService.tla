--------------------------- MODULE RequestService ---------------------------
(***************************************************************************)
(* What a postgres_client promises to those who call execute() and         *)
(* execute_async(): requests are executed one at a time in the order in    *)
(* which they were submitted, each is answered at most once, callbacks are *)
(* delivered afterwards, each once and in any order, and nothing is        *)
(* dropped before the client is gone.                                      *)
(*                                                                         *)
(* ClientRuntime implements it with threads, queues and condition          *)
(* variables, TransactionSession with retries, timeouts and a server: each *)
(* leaves out what the other one models, and this is where they meet.      *)
(***************************************************************************)
EXTENDS Sequences, Functions

CONSTANTS
    Request,
    Async,     \* requests answered by a callback
    None       \* no request

VARIABLES
    state,       \* of the client
    backlog,     \* submitted, in order, and not begun
    executing,   \* the request that is being executed, or None
    delivering,  \* executed requests whose callback has not returned
    answered     \* requests whose future is set or whose callback returned

vars == <<state, backlog, executing, delivering, answered>>

Init == /\ state = "open"
        /\ backlog = <<>>
        /\ executing = None
        /\ delivering = {}
        /\ answered = {}

Known == Range(backlog) \cup {executing} \cup delivering \cup answered

Submit(r) ==
    /\ state # "closed"
    /\ r \notin Known
    /\ backlog' = Append(backlog, r)
    /\ UNCHANGED <<state, executing, delivering, answered>>

Begin ==
    /\ executing = None
    /\ backlog # <<>>
    /\ executing' = Head(backlog)
    /\ backlog' = Tail(backlog)
    /\ UNCHANGED <<state, delivering, answered>>

Finish ==
    /\ executing # None
    /\ executing' = None
    /\ IF executing \in Async
         THEN delivering' = delivering \cup {executing} /\ UNCHANGED answered
         ELSE answered' = answered \cup {executing} /\ UNCHANGED delivering
    /\ UNCHANGED <<state, backlog>>

Deliver(r) ==
    /\ r \in delivering
    /\ delivering' = delivering \ {r}
    /\ answered' = answered \cup {r}
    /\ UNCHANGED <<state, backlog, executing>>

(* A client that is being destroyed answers without executing               *)
Refuse ==
    /\ state = "closing"
    /\ executing = None
    /\ backlog # <<>> /\ Head(backlog) \notin Async
    /\ answered' = answered \cup {Head(backlog)}
    /\ backlog' = Tail(backlog)
    /\ UNCHANGED <<state, executing, delivering>>

Close ==
    /\ state = "open"
    /\ state' = "closing"
    /\ UNCHANGED <<backlog, executing, delivering, answered>>

(* What is left in the backlog when the client is gone is never answered    *)
Discard ==
    /\ state = "closing"
    /\ executing = None /\ delivering = {}
    /\ state' = "closed"
    /\ backlog' = <<>>
    /\ UNCHANGED <<executing, delivering, answered>>

Next == \/ \E r \in Request : Submit(r) \/ Deliver(r)
        \/ Begin \/ Finish \/ Refuse \/ Close \/ Discard

Spec == Init /\ [][Next]_vars

=============================================================================
