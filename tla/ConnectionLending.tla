-------------------------- MODULE ConnectionLending --------------------------
(***************************************************************************)
(* What a ConnectionPool promises to its users: a connection is lent to one *)
(* user at a time, comes back to the end of the idle queue and is lent      *)
(* again from its front; the pool is closed, and its idle connections with  *)
(* it, only when none is lent.  ConnectionPool implements it with a         *)
(* semaphore, warm-up threads and reference counts.                         *)
(***************************************************************************)
EXTENDS Sequences, Functions

CONSTANTS
    User,
    Conn,
    None       \* no connection

VARIABLES
    open,
    idle,      \* connections that wait to be lent
    lent       \* the connection each user has, or None

vars == <<open, idle, lent>>

Init == open = TRUE /\ idle = <<>> /\ lent = [u \in User |-> None]

Fresh == Conn \ (Range(idle) \cup {lent[u] : u \in User})

LendIdle(u) ==
    /\ open /\ lent[u] = None /\ idle # <<>>
    /\ lent' = [lent EXCEPT ![u] = Head(idle)]
    /\ idle' = Tail(idle)
    /\ UNCHANGED open

LendNew(u) ==
    /\ open /\ lent[u] = None
    /\ \E c \in Fresh : lent' = [lent EXCEPT ![u] = c]
    /\ UNCHANGED <<open, idle>>

GiveBack(u) ==
    /\ open /\ lent[u] # None
    /\ idle' = Append(idle, lent[u])
    /\ lent' = [lent EXCEPT ![u] = None]
    /\ UNCHANGED open

(* One user hands its connection to another; what that one had is closed    *)
HandOver(u, v) ==
    /\ u # v /\ lent[v] # None
    /\ lent' = [lent EXCEPT ![u] = lent[v], ![v] = None]
    /\ UNCHANGED <<open, idle>>

Stock ==
    /\ open
    /\ \E c \in Fresh : idle' = Append(idle, c)
    /\ UNCHANGED <<open, lent>>

Close ==
    /\ open /\ \A u \in User : lent[u] = None
    /\ open' = FALSE /\ idle' = <<>>
    /\ UNCHANGED lent

Next == \/ \E u \in User : LendIdle(u) \/ LendNew(u) \/ GiveBack(u)
        \/ \E u, v \in User : HandOver(u, v)
        \/ Stock \/ Close

Spec == Init /\ [][Next]_vars

=============================================================================
