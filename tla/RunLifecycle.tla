---------------------------- MODULE RunLifecycle ----------------------------
(***************************************************************************)
(* What a WOP reference host promises about runs, whatever it is built on: *)
(* a run is open from its submission until it ends with an outcome; only   *)
(* the one process that executes an open run appends to its log; the run   *)
(* ends with the outcome that the last event of its log announces, and     *)
(* then neither its outcome nor its log changes.  A process may drop the   *)
(* runs it executes (it crashed, or was shut down), and another one may    *)
(* then take them.                                                         *)
(***************************************************************************)
EXTENDS Naturals, Sequences

CONSTANTS Runs,
          Hosts,      \* the processes
          None,       \* no process
          EventType,
          Outcome     \* terminal event type -> the outcome it announces

VARIABLES phase,      \* run -> "absent", "open" or an outcome
          log,        \* run -> the types of its events, in order
          executor    \* run -> the process that executes it, or None

vars == <<phase, log, executor>>

Init ==
  /\ phase = [r \in Runs |-> "absent"]
  /\ log = [r \in Runs |-> <<>>]
  /\ executor = [r \in Runs |-> None]

\* The process that accepts a run may execute it from the start.
Submit(r) ==
  /\ phase[r] = "absent"
  /\ phase' = [phase EXCEPT ![r] = "open"]
  /\ \E p \in Hosts \cup {None} : executor' = [executor EXCEPT ![r] = p]
  /\ UNCHANGED log

Take(r, p) ==
  /\ phase[r] = "open"
  /\ executor[r] = None
  /\ executor' = [executor EXCEPT ![r] = p]
  /\ UNCHANGED <<phase, log>>

Record(r) ==
  /\ phase[r] = "open"
  /\ executor[r] # None
  /\ \E e \in EventType : log' = [log EXCEPT ![r] = Append(@, e)]
  /\ UNCHANGED <<phase, executor>>

Finish(r) ==
  /\ phase[r] = "open"
  /\ executor[r] # None
  /\ log[r] # <<>>
  /\ LET last == log[r][Len(log[r])]
     IN  /\ last \in DOMAIN Outcome
         /\ phase' = [phase EXCEPT ![r] = Outcome[last]]
  /\ UNCHANGED <<log, executor>>

\* The last two at once, for a host in which nothing comes between them.
Conclude(r) ==
  /\ phase[r] = "open"
  /\ executor[r] # None
  /\ \E e \in DOMAIN Outcome :
       /\ log' = [log EXCEPT ![r] = Append(@, e)]
       /\ phase' = [phase EXCEPT ![r] = Outcome[e]]
  /\ executor' = [executor EXCEPT ![r] = None]

Drop(S) ==
  /\ executor' = [r \in Runs |-> IF r \in S THEN None ELSE executor[r]]
  /\ UNCHANGED <<phase, log>>

Next ==
  \/ \E r \in Runs :
       \/ Submit(r) \/ Record(r) \/ Finish(r) \/ Conclude(r)
       \/ \E p \in Hosts : Take(r, p)
  \/ \E S \in SUBSET Runs : Drop(S)

Spec == Init /\ [][Next]_vars

=============================================================================
