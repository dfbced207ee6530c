------------------------------- MODULE Alarm -------------------------------
(***************************************************************************)
(* What the Manager takes a timer to be: a deadline on the wall clock that *)
(* is served at most once, never before it has come and never after it was *)
(* cleared.  The one excuse for a deadline that is dropped unserved is     *)
(* that it was Reach milliseconds ahead or more.                           *)
(***************************************************************************)
EXTENDS Integers

CONSTANTS Reach,    \* how far ahead a deadline may be and still be kept
          NoAlarm   \* the deadline of an alarm that is not set

VARIABLES now,       \* the wall clock, which may be set to any time
          task,      \* whether the caller has given a task and not taken it back
          deadline,  \* the time at which it is to run, or NoAlarm
          runs       \* how often a task has been run

vars == <<now, task, deadline, runs>>

Init ==
    /\ now \in Int
    /\ task = FALSE
    /\ deadline = NoAlarm
    /\ runs = 0

Clock == now' \in Int /\ UNCHANGED <<task, deadline, runs>>

Set ==
    /\ task' = TRUE
    /\ deadline' \in Int
    /\ UNCHANGED <<now, runs>>

Clear ==
    /\ task' = FALSE
    /\ deadline' = NoAlarm
    /\ UNCHANGED <<now, runs>>

\* The task may take itself back, but not set its own alarm again.
Run ==
    /\ task
    /\ deadline # NoAlarm
    /\ deadline <= now
    /\ runs' = runs + 1
    /\ task' \in {task, FALSE}
    /\ deadline' = NoAlarm
    /\ UNCHANGED now

\* A deadline out of reach may be forgotten.
Forget ==
    /\ deadline # NoAlarm
    /\ deadline - now >= Reach
    /\ deadline' = NoAlarm
    /\ UNCHANGED <<now, task, runs>>

Next == Clock \/ Set \/ Clear \/ Run \/ Forget

Spec == Init /\ [][Next]_vars
=============================================================================
