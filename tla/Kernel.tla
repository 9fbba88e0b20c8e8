------------------------------- MODULE Kernel -------------------------------
(***************************************************************************)
(* What the nucleus promises its processes: a family tree, one processor,  *)
(* counting semaphores, waiting for events, and a termination that takes a *)
(* process and all its descendants away in one step.  Who is dispatched    *)
(* next, and who of several waiters is woken, is left open.                *)
(***************************************************************************)
EXTENDS Integers, FiniteSets

CONSTANTS
    PROC,   \* names of processes
    SEM,    \* counting semaphores
    EVENT,  \* what a process may wait for: a device or the clock
    NULL

VARIABLES
    alive,    \* the processes there are
    parent,   \* the parent of each, NULL for the first
    running,  \* the process that has the processor, or NULL
    ready,    \* those waiting for it
    waiting,  \* those blocked on each semaphore and event
    value     \* of the semaphores

vars == <<alive, parent, running, ready, waiting, value>>

\* The smallest set that holds p and the children of its members.
Family(p) ==
    LET closed(S) == p \in S /\ \A c \in PROC : parent[c] \in S => c \in S
    IN CHOOSE S \in SUBSET PROC :
          closed(S) /\ \A T \in SUBSET PROC : closed(T) => S \subseteq T

\* Any of the processes in r gets the processor.
Schedule(r) ==
    \/ \E p \in r : running' = p /\ ready' = r \ {p}
    \/ r = {} /\ running' = NULL /\ ready' = {}

\* The running process goes on; an idle processor takes one of r.
Continue(r) ==
    \/ running # NULL /\ UNCHANGED running /\ ready' = r
    \/ running = NULL /\ Schedule(r)

Block(s) ==
    /\ running # NULL
    /\ waiting' = [waiting EXCEPT ![s] = @ \cup {running}]
    /\ Schedule(ready)

-----------------------------------------------------------------------------

Create(p) ==
    /\ running # NULL /\ p \notin alive
    /\ alive' = alive \cup {p}
    /\ parent' = [parent EXCEPT ![p] = running]
    /\ ready' = ready \cup {p}
    /\ UNCHANGED <<running, waiting, value>>

P(s) ==
    /\ running # NULL
    /\ value' = [value EXCEPT ![s] = @ - 1]
    /\ \/ value[s] <= 0 /\ Block(s)
       \/ value[s] > 0 /\ UNCHANGED <<running, ready, waiting>>
    /\ UNCHANGED <<alive, parent>>

V(s) ==
    /\ running # NULL
    /\ value' = [value EXCEPT ![s] = @ + 1]
    /\ \/ \E p \in waiting[s] :
            /\ waiting' = [waiting EXCEPT ![s] = @ \ {p}]
            /\ ready' = ready \cup {p}
       \/ waiting[s] = {} /\ UNCHANGED <<waiting, ready>>
    /\ UNCHANGED <<alive, parent, running>>

Await(e) == Block(e) /\ UNCHANGED <<alive, parent, value>>

\* An event wakes some of the processes waiting for it.
Wake(e) ==
    /\ \E ps \in (SUBSET waiting[e]) \ {{}} :
         /\ waiting' = [waiting EXCEPT ![e] = @ \ ps]
         /\ Continue(ready \cup ps)
    /\ UNCHANGED <<alive, parent, value>>

Preempt ==
    /\ running # NULL
    /\ Schedule(ready \cup {running})
    /\ UNCHANGED <<alive, parent, waiting, value>>

\* Each victim that was blocked on a semaphore gives back its P.
Kill ==
    /\ running # NULL /\ running' = NULL
    /\ LET family == Family(running)
       IN /\ alive' = alive \ family
          /\ parent' = [p \in PROC |-> IF p \in family THEN NULL ELSE parent[p]]
          /\ ready' = ready \ family
          /\ waiting' = [s \in SEM \cup EVENT |-> waiting[s] \ family]
          /\ value' = [s \in SEM |-> value[s] + Cardinality(waiting[s] \cap family)]

Dispatch ==
    /\ running = NULL /\ ready # {}
    /\ Schedule(ready)
    /\ UNCHANGED <<alive, parent, waiting, value>>

-----------------------------------------------------------------------------

Init ==
    /\ \E p \in PROC : alive = {p} /\ running = p
    /\ parent = [p \in PROC |-> NULL]
    /\ ready = {}
    /\ waiting = [s \in SEM \cup EVENT |-> {}]
    /\ value \in [SEM -> Nat]

Next ==
    \/ \E p \in PROC : Create(p)
    \/ \E s \in SEM : P(s) \/ V(s)
    \/ \E e \in EVENT : Await(e) \/ Wake(e)
    \/ Preempt
    \/ Kill
    \/ Dispatch

Spec == Init /\ [][Next]_vars
=============================================================================
