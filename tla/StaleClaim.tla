----------------------------- MODULE StaleClaim -----------------------------
(***************************************************************************)
(* The staleClaim scenario of the conformance suite and the host processes *)
(* that it spawns, kills and shuts down through lib/multiProcess.ts, over  *)
(* the SQLite host: A starts a run and is killed, the claim is left to     *)
(* lapse, B has to find the run when it starts, and bring it to its end.   *)
(*                                                                         *)
(* spawn() is given npx, so what the harness has a handle on is a wrapper  *)
(* around the server.  SIGKILL ends the wrapper, which can neither catch   *)
(* nor forward it, and the server lives on; whether the wrapper forwards   *)
(* SIGTERM is up to its version, and is settled before the test.  A tick   *)
(* is half a second; the delay of the workflow and the deadlines of the    *)
(* harness are counted in it.                                              *)
(***************************************************************************)
EXTENDS SqliteHost

CONSTANTS A, B,             \* hostA and hostB
          Run,              \* the run of the scenario
          Delay,            \* its delayMs
          ReadyTimeout,     \* of ready()
          RunningTimeout,   \* of the poll for 'running'
          TerminalTimeout,  \* of the poll for a terminal status
          KillBackstop,     \* after which kill() no longer waits for the exit
          ExitBackstop      \* after which shutdown() no longer does

ASSUME HostsAssumption == A \in Procs /\ B \in Procs /\ A # B /\ Run \in Runs
ASSUME TimesAssumption ==
  {Delay, ReadyTimeout, RunningTimeout, TerminalTimeout, KillBackstop, ExitBackstop} \subseteq Nat

VARIABLES step,       \* what the scenario does, or waits for
          since,      \* when it began with that
          verdict,    \* "none", "passed", "not ready" or "failed"
          forwards,   \* the wrapper forwards SIGTERM
          spawned,    \* hosts that were spawned, and whose boot no signal prevented
          signalled,  \* hosts that SIGTERM is on its way to
          asleep      \* process -> when its core.delay began

harnessVars == <<step, since, verdict, forwards, spawned, signalled, asleep>>
allVars == <<vars, harnessVars>>

Step == {"spawnA", "readyA", "create", "running", "killA", "killAExit", "wait", "spawnB", "readyB",
         "terminal", "afterA", "afterAExit", "afterB", "afterBExit", "removed"}

HarnessTypeOK ==
  /\ TypeOK
  /\ step \in Step
  /\ since \in Nat
  /\ verdict \in {"none", "passed", "not ready", "failed"}
  /\ forwards \in BOOLEAN
  /\ spawned \in SUBSET {A, B}
  /\ signalled \in SUBSET {A, B}
  /\ asleep \in [Procs -> Nat]

ScenarioInit ==
  /\ Init
  /\ step = "spawnA" /\ since = 0 /\ verdict = "none"
  /\ forwards \in BOOLEAN
  /\ spawned = {} /\ signalled = {}
  /\ asleep = [p \in Procs |-> 0]

-----------------------------------------------------------------------------
(* The hosts. *)

\* npx takes its time to start a server, which boots unless a signal was faster.
\* (One that boots when the database is removed makes a new one, and is alone.)
Boot(p) == p \in spawned /\ step # "removed" /\ Start(p) /\ UNCHANGED harnessVars

\* A step of a server; the delay of a node is timed.
HostStep(p) ==
  /\ \/ Statement(p, Run) \/ Heartbeat(p, Run) \/ ResumeOrphan(p, Run) \/ Listen(p)
     \/ now >= asleep[p] + Delay /\ Wake(p, Run)
  /\ asleep' = [asleep EXCEPT ![p] = IF co[p][Run].at # "sleep" THEN now ELSE @]
  /\ UNCHANGED <<step, since, verdict, forwards, spawned, signalled>>

-----------------------------------------------------------------------------
(* lib/multiProcess.ts *)

Go(next) == step' = next /\ since' = now

Spawn(p, next) ==
  /\ spawned' = spawned \cup {p}
  /\ Go(next)
  /\ UNCHANGED <<vars, verdict, forwards, signalled, asleep>>

Ready(p, next) ==
  /\ proc[p] = "serving"
  /\ Go(next)
  /\ UNCHANGED <<vars, verdict, forwards, spawned, signalled, asleep>>

\* The wrapper ends: the server lives on, or was not started yet and never will be.
EndWrapper(p) ==
  \/ UNCHANGED spawned
  \/ proc[p] = "unstarted" /\ spawned' = spawned \ {p}

\* shutdown(): SIGTERM, which the wrapper forwards or ends of.
Terminate(p, next) ==
  /\ \/ forwards /\ signalled' = signalled \cup {p} /\ UNCHANGED spawned
     \/ ~forwards /\ UNCHANGED signalled /\ EndWrapper(p)
  /\ Go(next)
  /\ UNCHANGED <<vars, verdict, forwards, asleep>>

\* Seeded bug: proc.kill() without its argument.
Kill_Terminate(p, next) == Terminate(p, next)

\* kill(): SIGKILL, which ends the wrapper and nothing else.
Kill(p, next) ==
  /\ EndWrapper(p)
  /\ Go(next)
  /\ UNCHANGED <<vars, verdict, forwards, signalled, asleep>>

\* The server gets it.  It waits for the event loop, once the last statement of
\* the boot has registered its handler; before, it kills.
TakeSignal(p) ==
  /\ p \in signalled
  /\ signalled' = signalled \ {p}
  /\ \/ Shutdown(p) /\ UNCHANGED spawned
     \/ proc[p] = "resuming" /\ Crash(p) /\ UNCHANGED spawned
     \/ ~Live(p) /\ spawned' = spawned \ {p} /\ UNCHANGED vars
  /\ UNCHANGED <<step, since, verdict, forwards, asleep>>

-----------------------------------------------------------------------------
(* The scenario. *)

CreateTheRun ==
  /\ step = "create"
  /\ CreateRun(A, Run)
  /\ Go("running")
  /\ UNCHANGED <<verdict, forwards, spawned, signalled, asleep>>

\* A step that looks at something and goes on.
Pass(from, condition, to) ==
  /\ step = from
  /\ condition
  /\ Go(to)
  /\ UNCHANGED <<vars, verdict, forwards, spawned, signalled, asleep>>

SeeRunning == Pass("running", AtLoop(A) /\ status[Run] = "running", "killA")

KillA == step = "killA" /\ Kill(A, "killAExit")

\* The promise of kill(): the wrapper exits sooner or later, the backstop is due.
KilledA == Pass("killAExit", TRUE, "wait")

\* CLAIM_TTL_MS + 1000.
LapseTime == ClaimTtl + 2

WaitForLapse == Pass("wait", now >= since + LapseTime, "spawnB")

\* The poll finds a terminal status.  (The look at the event log that follows
\* accepts any log with run.started in it.)
SeeTerminal ==
  /\ step = "terminal"
  /\ AtLoop(B) /\ status[Run] \in Terminal
  /\ verdict' = IF status[Run] = "completed" /\ Logged(Run, "run.started") THEN "passed"
                                                                           ELSE "failed"
  /\ Go("afterB")
  /\ UNCHANGED <<vars, forwards, spawned, signalled, asleep>>

Timeout == CASE step \in {"readyA", "readyB"} -> ReadyTimeout
             [] step = "running"              -> RunningTimeout
             [] step = "terminal"             -> TerminalTimeout

\* A deadline of the harness passes, and the test goes to afterEach.
TimesOut ==
  /\ step \in {"readyA", "readyB", "running", "terminal"}
  /\ now >= since + Timeout
  /\ verdict' = IF step \in {"readyA", "readyB"} THEN "not ready" ELSE "failed"
  /\ Go(IF step \in {"readyA", "running"} THEN "afterA" ELSE "afterB")
  /\ UNCHANGED <<vars, forwards, spawned, signalled, asleep>>

\* afterEach: hostA.kill() if the test has not come to that, or hostB.shutdown(),
\* and rmSync(dbDir) when that is over.
AfterEachKill == step = "afterA" /\ Kill(A, "afterAExit")
AfterEachShutdown == step = "afterB" /\ Terminate(B, "afterBExit")

\* The promise of shutdown(): a wrapper that forwards exits after its server.
ShutdownAwaited ==
  \/ forwards => ~Live(B) /\ B \notin signalled
  \/ now >= since + ExitBackstop

AfterEachRemove ==
  \/ Pass("afterAExit", TRUE, "removed")
  \/ Pass("afterBExit", ShutdownAwaited, "removed")

HarnessStep ==
  \/ step = "spawnA" /\ Spawn(A, "readyA")
  \/ step = "readyA" /\ Ready(A, "create")
  \/ CreateTheRun \/ SeeRunning \/ KillA \/ KilledA \/ WaitForLapse
  \/ step = "spawnB" /\ Spawn(B, "readyB")
  \/ step = "readyB" /\ Ready(B, "terminal")
  \/ SeeTerminal \/ TimesOut \/ AfterEachKill \/ AfterEachShutdown \/ AfterEachRemove

-----------------------------------------------------------------------------
(* The clock, which stops when the scenario is over. *)

\* Nothing of the harness is due.
HarnessWaits ==
  \/ /\ step \in {"readyA", "readyB", "running", "terminal"} /\ now < since + Timeout
     /\ CASE step = "readyA"   -> proc[A] # "serving"
          [] step = "readyB"   -> proc[B] # "serving"
          [] step = "running"  -> status[Run] # "running"
          [] step = "terminal" -> status[Run] \notin Terminal
  \/ step = "wait" /\ now < since + LapseTime
  \/ step \in {"killAExit", "afterAExit"} /\ now < since + KillBackstop
  \/ step = "afterBExit" /\ now < since + ExitBackstop

\* A delay ends within the tick; a signal takes as long as it likes.
TimePasses ==
  /\ HarnessWaits
  /\ \A p \in Procs : At(p, Run, "sleep") => now < asleep[p] + Delay
  /\ Tick
  /\ UNCHANGED harnessVars

ScenarioNext ==
  \/ HarnessStep
  \/ \E p \in Procs : Boot(p) \/ HostStep(p) \/ TakeSignal(p)
  \/ TimePasses

\* A host may boot late or never, and get its signal too; the rest goes on.
ScenarioSpec ==
  /\ ScenarioInit /\ [][ScenarioNext]_allVars
  /\ WF_allVars(HarnessStep)
  /\ WF_allVars(TimePasses)
  /\ \A p \in Procs : WF_allVars(HostStep(p))

-----------------------------------------------------------------------------

\* The scenario passes whatever its signals do, when its hosts boot in time: the
\* run is completed within the deadlines ...
ScenarioPasses == <>(verdict \in {"passed", "not ready"})

\* ... but by the host that should be dead.  Its kill ends the wrapper of A; A
\* renews its claim, so B finds no orphan, and the recovery that the scenario is
\* there to test never happens.
NothingRecovered == ~Logged(Run, "run.resumed")

=============================================================================
