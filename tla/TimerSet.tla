------------------------------ MODULE TimerSet ------------------------------
(***************************************************************************)
(* What lib/timer.c and lib/timer_list.c promise their callers: a set of   *)
(* running count-down timers.  Only a running timer counts, a running      *)
(* timer never reads zero, and a timer whose count reaches zero has        *)
(* stopped running in the same instant.  There are no links, no interrupt  *)
(* flag and no program counter here; TimerList implements this module.     *)
(***************************************************************************)
EXTENDS Naturals

CONSTANTS Timers,      \* the timer_t objects of the client
          MaxTimeout   \* largest timeout a client asks for

VARIABLES running,     \* the timers that count
          left,        \* ticks left on each timer
          period       \* the timeout each timer was last started with

svars == <<running, left, period>>

Init == /\ running = {}
        /\ left = [t \in Timers |-> 0]
        /\ period = [t \in Timers |-> 0]

(* A stopped timer is given a new timeout. *)
Load(t, n) == /\ t \notin running
              /\ left' = [left EXCEPT ![t] = n]
              /\ period' = [period EXCEPT ![t] = n]
              /\ UNCHANGED running

(* A timer, running or not, is set back to its own timeout. *)
Reload(t) == /\ left' = [left EXCEPT ![t] = period[t]]
             /\ UNCHANGED <<running, period>>

(* A stopped timer with ticks left runs on. *)
Run(t) == /\ t \notin running
          /\ left[t] > 0
          /\ running' = running \cup {t}
          /\ UNCHANGED <<left, period>>

(* A running timer is stopped and keeps its ticks. *)
Stop(t) == /\ t \in running
           /\ running' = running \ {t}
           /\ UNCHANGED <<left, period>>

(* A running timer counts one tick, and triggers when it was the last. *)
Count(t) == /\ t \in running
            /\ left' = [left EXCEPT ![t] = @ - 1]
            /\ running' = IF left[t] = 1 THEN running \ {t} ELSE running
            /\ UNCHANGED period

Next == \E t \in Timers : \/ \E n \in 0 .. MaxTimeout : Load(t, n)
                          \/ Reload(t)
                          \/ Run(t)
                          \/ Stop(t)
                          \/ Count(t)

Spec == Init /\ [][Next]_svars
=============================================================================
