----------------------------- MODULE PlainStore -----------------------------
(***************************************************************************)
(* What Configurator::load and Configurator::save promise their caller:    *)
(* as if maa_pi_config.json were kept in the clear.  A process starts from *)
(* the configuration last stored in its directory, or from a blank one     *)
(* when nothing readable is stored; storing puts there what the process    *)
(* holds, or nothing readable when it is cut short.  There are no keys and *)
(* no ciphertexts, and nobody ever reads what nobody stored.               *)
(***************************************************************************)
CONSTANTS Procs, Dirs, DirOf, Configs, Blank, Nothing

VARIABLES stored,   \* the configuration of each directory, or Nothing
          running,  \* the processes that are running
          holds     \* the configuration each of them holds

vars == <<stored, running, holds>>

Init ==
    /\ stored = [d \in Dirs |-> Nothing]
    /\ running = {}
    /\ holds = [p \in Procs |-> Blank]

Open(p) ==
    /\ p \notin running
    /\ running' = running \cup {p}
    /\ holds' = [holds EXCEPT ![p] = IF stored[DirOf[p]] = Nothing THEN Blank ELSE stored[DirOf[p]]]
    /\ UNCHANGED stored

Edit(p) ==
    /\ p \in running
    /\ \E c \in Configs : holds' = [holds EXCEPT ![p] = c]
    /\ UNCHANGED <<stored, running>>

Store(p) ==
    /\ p \in running
    /\ \E c \in {holds[p], Nothing} : stored' = [stored EXCEPT ![DirOf[p]] = c]
    /\ UNCHANGED <<running, holds>>

\* The user leaves, or the process dies.
Close(p) ==
    /\ p \in running
    /\ running' = running \ {p}
    /\ holds' = [holds EXCEPT ![p] = Blank]
    /\ UNCHANGED stored

Next == \E p \in Procs : Open(p) \/ Edit(p) \/ Store(p) \/ Close(p)

Spec == Init /\ [][Next]_vars
=============================================================================
