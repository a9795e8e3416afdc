---------------------------- MODULE MCSqliteHost ----------------------------
(***************************************************************************)
(* Instances of SqliteHost for TLC, and the statements of the repository's *)
(* own documents and tests that the host does not meet.                    *)
(***************************************************************************)
EXTENDS SqliteHost

CONSTANTS p1, p2, p3, r1, r2, k1

\* Workflows of nodes that await their timer, that do not, and that fail.
OneDelay == [r \in Runs |-> <<"core.delay">>]
NoopThenDelay == [r \in Runs |-> <<"core.noop", "core.delay">>]
MixedDelays == [r \in Runs |-> IF r = r1 THEN <<"core.delay">> ELSE <<"core.delay", "other">>]
OneNoop == [r \in Runs |-> <<"core.noop">>]

NoKeys == [r \in Runs |-> NoKey]
SameKey == [r \in Runs |-> k1]

FullCatalog == [p \in Procs |-> Runs]
\* p2 was built with other fixtures.
PartCatalog == [p \in Procs |-> IF p = p2 THEN {} ELSE Runs]

-----------------------------------------------------------------------------

\* README.md section 4: a cancellation is detected at the next iteration and
\* "Both paths converge on run.cancelled".  runWorkflow starts a resumed run
\* with status running, whatever the row said: the cancellation of a run that
\* was under way is forgotten when its process dies.
CancelSticks ==
  [][\A r \in Runs : status[r] = "cancelling" /\ Logged(r, "run.started") =>
       status'[r] # "running"]_tables

\* eventOrdering.test.ts: a run has exactly one terminal event.  A crash between
\* the terminal event and the status makes the next process run it again.
OneTerminalEvent ==
  \A r \in Runs : \A s, t \in DOMAIN events[r] :
    events[r][s].type \in TerminalEvent /\ events[r][t].type \in TerminalEvent => s = t

\* idempotency.md: of the requests with one key exactly one is processed to
\* completion.
OneRunPerKey ==
  \A r, s \in Runs :
    Key[r] = Key[s] /\ Key[r] # NoKey /\ status[r] = "completed" /\ status[s] = "completed"
      => r = s

=============================================================================
