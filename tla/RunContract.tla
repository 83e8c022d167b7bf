---------------------------- MODULE RunContract ----------------------------
(***************************************************************************)
(* What one call of Runner::run promises to the menu and to -d, without    *)
(* the order in which it goes about it: the pretasks come first and one    *)
(* after another; then every prerequisite (the connection, the resources,  *)
(* each agent) has to be met, in whatever order they complete; only then   *)
(* are tasks started; a run that gives up has started none, and a run that *)
(* reports success has seen the end of all of them.                        *)
(***************************************************************************)
EXTENDS Integers

CONSTANTS PretaskCount,   \* number of pretasks of the run, a natural number
          TaskCount,      \* number of tasks of the run, a natural number
          Prereqs         \* what must hold before the first task starts

VARIABLES ran,      \* pretasks that ended with exit code 0
          phase,    \* "pretasks", "prepare", "over"
          met,      \* prerequisites that are met
          started,  \* tasks handed to the tasker
          ended,    \* tasks the tasker has finished, whatever their status
          result    \* "none", "true", "false" or "interrupted"

vars == <<ran, phase, met, started, ended, result>>

Init ==
    /\ ran = {} /\ met = {} /\ started = {} /\ ended = {}
    /\ phase = "pretasks"
    /\ result = "none"

RunPretask(i) ==
    /\ phase = "pretasks"
    /\ ran = 1 .. i - 1
    /\ ran' = 1 .. i
    /\ UNCHANGED <<phase, met, started, ended, result>>

Prepare ==
    /\ phase = "pretasks"
    /\ ran = 1 .. PretaskCount
    /\ phase' = "prepare"
    /\ UNCHANGED <<ran, met, started, ended, result>>

Meet(p) ==
    /\ phase = "prepare"
    /\ p \notin met
    /\ met' = met \cup {p}
    /\ UNCHANGED <<ran, phase, started, ended, result>>

StartTask(t) ==
    /\ phase = "prepare"
    /\ met = Prereqs
    /\ started = 1 .. t - 1
    /\ started' = 1 .. t
    /\ UNCHANGED <<ran, phase, met, ended, result>>

EndTask(t) ==
    /\ phase = "prepare"
    /\ t \in started
    /\ ended = 1 .. t - 1
    /\ ended' = 1 .. t
    /\ UNCHANGED <<ran, phase, met, started, result>>

Succeed ==
    /\ phase = "prepare"
    /\ met = Prereqs
    /\ ended = 1 .. TaskCount
    /\ phase' = "over"
    /\ result' = "true"
    /\ UNCHANGED <<ran, met, started, ended>>

GiveUp ==
    /\ phase # "over"
    /\ started = {}
    /\ phase' = "over"
    /\ result' = "false"
    /\ UNCHANGED <<ran, met, started, ended>>

\* SIGINT and SIGTERM leave through exit(0) wherever the run is.
Interrupt ==
    /\ phase # "over"
    /\ phase' = "over"
    /\ result' = "interrupted"
    /\ UNCHANGED <<ran, met, started, ended>>

Next ==
    \/ \E i \in 1 .. PretaskCount : RunPretask(i)
    \/ Prepare
    \/ \E p \in Prereqs : Meet(p)
    \/ \E t \in 1 .. TaskCount : StartTask(t) \/ EndTask(t)
    \/ Succeed
    \/ GiveUp
    \/ Interrupt

Spec == Init /\ [][Next]_vars
=============================================================================
