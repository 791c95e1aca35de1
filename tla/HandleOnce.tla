------------------------------ MODULE HandleOnce ------------------------------
(***************************************************************************)
(* What AppDomainVerifyTaskMgr promises of the http tasks it is given: the *)
(* handler of each is called at most once, never for a task that was not   *)
(* submitted, and after stop only for a task a worker already has.         *)
(***************************************************************************)
EXTENDS FiniteSets, Integers

CONSTANTS
    Task,       \* http tasks
    PoolSize    \* how many of them are run at a time

VARIABLES
    submitted,  \* tasks AddTask accepted
    taken,      \* tasks a worker began
    handled,    \* per task, how often OnSuccess, OnFail or OnCancel was called
    stop        \* the pool is being destroyed

vars == <<submitted, taken, handled, stop>>

Init ==
    /\ submitted = {}
    /\ taken = {}
    /\ handled = [t \in Task |-> 0]
    /\ stop = FALSE

Submit(t) ==
    /\ ~stop
    /\ t \notin submitted
    /\ submitted' = submitted \cup {t}
    /\ UNCHANGED <<taken, handled, stop>>

Take(t) ==
    /\ ~stop
    /\ t \in submitted \ taken
    /\ Cardinality({u \in taken : handled[u] = 0}) < PoolSize
    /\ taken' = taken \cup {t}
    /\ UNCHANGED <<submitted, handled, stop>>

Handle(t) ==
    /\ t \in taken
    /\ handled[t] = 0
    /\ handled' = [handled EXCEPT ![t] = 1]
    /\ UNCHANGED <<submitted, taken, stop>>

Stop ==
    /\ stop' = TRUE
    /\ UNCHANGED <<submitted, taken, handled>>

Next == (\E t \in Task : Submit(t) \/ Take(t) \/ Handle(t)) \/ Stop

Spec == Init /\ [][Next]_vars
===============================================================================
