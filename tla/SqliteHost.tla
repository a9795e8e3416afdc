----------------------------- MODULE SqliteHost -----------------------------
(***************************************************************************)
(* The executor of the SQLite reference host, run by any number of         *)
(* processes over one database file: claims with a time to live,           *)
(* heartbeats, runWorkflow as a coroutine of SQL statements, cancellation, *)
(* resumption of orphaned runs at startup, graceful shutdown and crashes.  *)
(*                                                                         *)
(* A member of Procs is one incarnation of the host: it starts at most     *)
(* once and never comes back, because PROCESS_ID is random.  JavaScript    *)
(* runs a macrotask (an HTTP handler after its body is read, a timer, a    *)
(* signal) to its end before the next one, so a macrotask needs AtLoop(p); *)
(* other processes interleave between any two SQL statements.              *)
(***************************************************************************)
EXTENDS RunStore, Sequences

CONSTANTS Workflow,           \* run -> the node types of its workflow, in order
          Key,                \* run -> the Idempotency-Key it was created with, or NoKey
          NoKey,
          Catalog,            \* process -> the runs whose workflow its fixtures define
          ClaimTtl,           \* CLAIM_TTL_MS, in ticks
          HeartbeatInterval,  \* HEARTBEAT_INTERVAL_MS, in ticks
          MayCrash,           \* processes that may be killed
          MayStall,           \* processes whose event loop may lag behind the clock
          MaxTime             \* bound on the clock

ASSUME NoKeyAssumption == NoKey \notin Keys
ASSUME WorkflowAssumption == Workflow \in [Runs -> Seq(NodeType)]
ASSUME KeyAssumption == Key \in [Runs -> Keys \cup {NoKey}]
ASSUME CatalogAssumption == Catalog \in [Procs -> SUBSET Runs]
ASSUME ClaimTtlAssumption == ClaimTtl \in Nat
ASSUME HeartbeatAssumption == HeartbeatInterval \in Nat \ {0}
ASSUME MaxTimeAssumption == MaxTime \in Nat

VARIABLES now,      \* Date.now(), in ticks, the same for all processes
          proc,     \* process -> phase of its life
          orphans,  \* process -> runs that resumeOrphans has still to try
          http,     \* process -> the run its cancel handler is between two statements of
          co,       \* process -> run -> runWorkflow's coroutine (or its creation)
          beat      \* process -> run -> when its heartbeat timer fires, 0 for no timer

vars == <<tables, now, proc, orphans, http, co, beat>>

Phase == {"unstarted", "resuming", "serving", "stopped", "crashed"}

\* Where a coroutine is: the SQL statement it runs next, or "sleep" in core.delay.
Place == {"idle", "insertRun", "remember", "claim", "load", "scan", "markRunning",
          "loop", "node", "final", "count", "insert", "sleep", "terminal", "release"}

\* ev is the event being appended (or the last one); node the node index;
\* seq the seq that COUNT returned; level the number of catch blocks entered:
\* 0 inside try, 1 in its catch, 2 in the .catch of the caller.
Coroutine == [at : Place, ev : EventType, node : Nat, seq : Nat, level : 0..2]

Idle == [at |-> "idle", ev |-> "run.started", node |-> 0, seq |-> 0, level |-> 0]

TypeOK ==
  /\ StoreTypeOK
  /\ now \in Nat
  /\ proc \in [Procs -> Phase]
  /\ orphans \in [Procs -> SUBSET Runs]
  /\ http \in [Procs -> Runs \cup {NoRun}]
  /\ co \in [Procs -> [Runs -> Coroutine]]
  /\ beat \in [Procs -> [Runs -> Nat]]

Init ==
  /\ StoreInit
  /\ now = 0
  /\ proc = [p \in Procs |-> "unstarted"]
  /\ orphans = [p \in Procs |-> {}]
  /\ http = [p \in Procs |-> NoRun]
  /\ co = [p \in Procs |-> [r \in Runs |-> Idle]]
  /\ beat = [p \in Procs |-> [r \in Runs |-> 0]]

Live(p) == proc[p] \in {"resuming", "serving"}

\* Every coroutine of p is finished or awaits its timer.
Quiet(p) == \A r \in Runs : co[p][r].at \in {"idle", "sleep"}

\* The coroutine has what it awaits, the outcome of a node or the rejection of
\* runWorkflow, and goes on when the code that called it has come to its end.
Awaits(p, r) ==
  \/ co[p][r].at \in {"loop", "final"} /\ co[p][r].ev = "node.completed"
  \/ /\ co[p][r].at = "count" /\ co[p][r].ev \in {"run.failed", "run.cancelled"}
     /\ co[p][r].node # 0 \/ co[p][r].level = 2

\* The boot code, which does not await, is not at its end.
Held(p, r) == proc[p] = "resuming" /\ Awaits(p, r)

\* No coroutine of p keeps the code that started it waiting.
Returned(p) == \A r \in Runs : co[p][r].at \in {"idle", "sleep"} \/ Awaits(p, r)

\* The event loop of p is free to take its next macrotask.
AtLoop(p) == proc[p] = "serving" /\ http[p] = NoRun /\ Quiet(p)

\* p is inside runWorkflow for r.
Executing(p, r) == co[p][r].at \notin {"idle", "insertRun", "remember", "claim"}

-----------------------------------------------------------------------------
(* The control flow of runWorkflow and executeNode between two statements. *)

Goto(c, place) == [c EXCEPT !.at = place]

ToAppend(c, ev) == Goto([c EXCEPT !.ev = ev], "count")

\* The loop of runWorkflow finds a cancellation between two nodes.
CancelFound(c) == ToAppend([c EXCEPT !.node = 0], "run.cancelled")

NextNode(r, c) ==
  IF c.node < Len(Workflow[r])
    THEN Goto([c EXCEPT !.node = @ + 1], "loop")
    ELSE Goto([c EXCEPT !.node = 0], "final")

\* What an iteration does once node.started is in the log.
RunNode(r, c) ==
  CASE Workflow[r][c.node] = "core.noop"  -> ToAppend(c, "node.completed")
    [] Workflow[r][c.node] = "core.delay" -> Goto(c, "sleep")
    [] OTHER                              -> ToAppend(c, "node.failed")

\* Seeded bug: a cancelled node ends the run without run.cancelled.
AfterAppend_NoRunEvent(r, c) ==
  CASE c.ev \in {"run.started", "run.resumed", "node.completed"} -> NextNode(r, c)
    [] c.ev = "node.started" -> RunNode(r, c)
    [] c.ev = "node.failed"  -> ToAppend(c, "run.failed")
    [] OTHER                 -> Goto(c, "terminal")

\* Where the coroutine goes after it has appended the event c.ev.
AfterAppend(r, c) ==
  CASE c.ev \in {"run.started", "run.resumed", "node.completed"} -> NextNode(r, c)
    [] c.ev = "node.started"   -> RunNode(r, c)
    [] c.ev = "node.cancelled" -> ToAppend(c, "run.cancelled")
    [] c.ev = "node.failed"    -> ToAppend(c, "run.failed")
    [] OTHER                   -> Goto(c, "terminal")

\* Seeded bug: a status that the host never leaves again.
StatusOf_Waiting(ev) == IF ev = "run.cancelled" THEN "waiting-approval" ELSE "failed"

StatusOf(ev) == CASE ev = "run.completed" -> "completed"
                  [] ev = "run.cancelled" -> "cancelled"
                  [] OTHER                -> "failed"

EventNode(c) == IF c.ev \in NodeEvent THEN c.node ELSE 0

\* The next catch block after an append that threw: inside the try it is entered
\* at once or, if executeNode threw, after an await.
Caught(c) ==
  [ToAppend(Idle, "run.failed") EXCEPT !.level = c.level + 1, !.node = EventNode(c)]

-----------------------------------------------------------------------------
(* Steps of a coroutine: one SQL statement each. *)

Resume(p, r, c) == co' = [co EXCEPT ![p][r] = c]

SetBeat(p, r, t) == beat' = [beat EXCEPT ![p][r] = t]

Rest == <<now, proc, orphans, http>>

At(p, r, place) == co[p][r].at = place

\* The process is gone, with everything it kept in memory.
Die(p, phase) ==
  /\ proc' = [proc EXCEPT ![p] = phase]
  /\ orphans' = [orphans EXCEPT ![p] = {}]
  /\ http' = [http EXCEPT ![p] = NoRun]
  /\ co' = [co EXCEPT ![p] = [r \in Runs |-> Idle]]
  /\ beat' = [beat EXCEPT ![p] = [r \in Runs |-> 0]]
  /\ UNCHANGED now

\* tryClaim and, when it wins, the start of runWorkflow.
TryClaim(p, r) ==
  \/ /\ Claimable(r, now)
     /\ AcquireClaim(p, r, now + ClaimTtl)
     /\ Resume(p, r, Goto(Idle, "load"))
  \/ /\ ~Claimable(r, now)
     /\ Resume(p, r, Idle)
     /\ UNCHANGED tables

\* handleCreateRun: insertRun ...
InsertRun(p, r) ==
  /\ At(p, r, "insertRun")
  /\ InsertRunRow(r)
  /\ Resume(p, r, Goto(Idle, IF Key[r] = NoKey THEN "claim" ELSE "remember"))
  /\ UNCHANGED <<Rest, beat>>

\* Seeded bug: INSERT OR REPLACE.
Remember_Replace(p, r) ==
  /\ At(p, r, "remember")
  /\ InsertIdempotency(Key[r], r)
  /\ Resume(p, r, Goto(Idle, "claim"))
  /\ UNCHANGED <<Rest, beat>>

\* ... then insertIdempotency, which throws when another request has stored the
\* key: the router answers 500 and the pending row stays ...
Remember(p, r) ==
  /\ At(p, r, "remember")
  /\ \/ /\ idem[Key[r]] = NoRun
        /\ InsertIdempotency(Key[r], r)
        /\ Resume(p, r, Goto(Idle, "claim"))
     \/ /\ idem[Key[r]] # NoRun
        /\ Resume(p, r, Idle)
        /\ UNCHANGED tables
  /\ UNCHANGED <<Rest, beat>>

\* ... then tryClaim.
ClaimCreated(p, r) ==
  /\ At(p, r, "claim")
  /\ TryClaim(p, r)
  /\ UNCHANGED <<Rest, beat>>

\* Seeded bug: an unknown workflow is failed without an event.
Load_NoEvent(p, r) ==
  /\ At(p, r, "load")
  /\ IF r \in Catalog[p]
       THEN /\ Resume(p, r, Goto(co[p][r], "scan"))
            /\ SetBeat(p, r, now + HeartbeatInterval)
       ELSE /\ Resume(p, r, Goto([co[p][r] EXCEPT !.ev = "run.failed"], "terminal"))
            /\ UNCHANGED beat
  /\ UNCHANGED <<tables, Rest>>

\* An unknown workflow fails the run outside the try, before any heartbeat.
Load(p, r) ==
  /\ At(p, r, "load")
  /\ \/ /\ r \in Catalog[p]
        /\ Resume(p, r, Goto(co[p][r], "scan"))
        /\ SetBeat(p, r, now + HeartbeatInterval)
     \/ /\ r \notin Catalog[p]
        /\ Resume(p, r, [ToAppend(co[p][r], "run.failed") EXCEPT !.level = 1])
        /\ UNCHANGED beat
  /\ UNCHANGED <<tables, Rest>>

\* Seeded bug: the status instead of the log says whether the run has started.
Scan_ByStatus(p, r) ==
  /\ At(p, r, "scan")
  /\ LET first == IF status[r] = "running" THEN "run.resumed" ELSE "run.started"
     IN  Resume(p, r, Goto([co[p][r] EXCEPT !.ev = first], "markRunning"))
  /\ UNCHANGED <<tables, Rest, beat>>

Scan(p, r) ==
  /\ At(p, r, "scan")
  /\ LET first == IF Logged(r, "run.started") THEN "run.resumed" ELSE "run.started"
     IN  Resume(p, r, Goto([co[p][r] EXCEPT !.ev = first], "markRunning"))
  /\ UNCHANGED <<tables, Rest, beat>>

MarkRunning(p, r) ==
  /\ At(p, r, "markRunning")
  /\ UpdateRunStatus(r, "running")
  /\ Resume(p, r, Goto(co[p][r], "count"))
  /\ UNCHANGED <<Rest, beat>>

\* The check at the head of the loop of runWorkflow.
CheckLoop(p, r) ==
  /\ At(p, r, "loop") /\ ~Held(p, r)
  /\ Resume(p, r, IF status[r] = "cancelling"
                    THEN CancelFound(co[p][r])
                    ELSE Goto(co[p][r], "node"))
  /\ UNCHANGED <<tables, Rest, beat>>

\* The check at the head of executeNode.
CheckNode(p, r) ==
  /\ At(p, r, "node")
  /\ Resume(p, r, ToAppend(co[p][r], IF status[r] = "cancelling" THEN "node.cancelled"
                                                               ELSE "node.started"))
  /\ UNCHANGED <<tables, Rest, beat>>

CheckFinal(p, r) ==
  /\ At(p, r, "final") /\ ~Held(p, r)
  /\ Resume(p, r, ToAppend(co[p][r], IF status[r] = "cancelling" THEN "run.cancelled"
                                                               ELSE "run.completed"))
  /\ UNCHANGED <<tables, Rest, beat>>

\* Seeded bug: a seq that starts at 1.
Count_OneBased(p, r) ==
  /\ At(p, r, "count") /\ ~Held(p, r)
  /\ Resume(p, r, Goto([co[p][r] EXCEPT !.seq = CountEvents(r) + 1], "insert"))
  /\ UNCHANGED <<tables, Rest, beat>>

\* appendEvent: SELECT COUNT(*) and INSERT are two statements.
Count(p, r) ==
  /\ At(p, r, "count") /\ ~Held(p, r)
  /\ Resume(p, r, Goto([co[p][r] EXCEPT !.seq = CountEvents(r)], "insert"))
  /\ UNCHANGED <<tables, Rest, beat>>

Insert(p, r) ==
  /\ At(p, r, "insert")
  /\ ~KeyTaken(r, co[p][r].seq)
  /\ InsertEvent(r, co[p][r].seq, [type |-> co[p][r].ev, node |-> EventNode(co[p][r])])
  /\ Resume(p, r, AfterAppend(r, [co[p][r] EXCEPT !.seq = 0]))
  /\ UNCHANGED <<Rest, beat>>

\* The INSERT throws.  Inside the try the catch block appends run.failed; if that
\* throws too, finally stops the heartbeat and the caller's .catch tries once more.
InsertThrows(p, r) ==
  /\ At(p, r, "insert")
  /\ KeyTaken(r, co[p][r].seq)
  /\ co[p][r].level < 2
  /\ Resume(p, r, Caught(co[p][r]))
  /\ SetBeat(p, r, IF co[p][r].level = 1 THEN 0 ELSE beat[p][r])
  /\ UNCHANGED <<tables, Rest>>

\* A third throw is an unhandled rejection, which ends the Node process.
UnhandledRejection(p, r) ==
  /\ At(p, r, "insert")
  /\ KeyTaken(r, co[p][r].seq)
  /\ co[p][r].level = 2
  /\ Die(p, "crashed")
  /\ UNCHANGED tables

\* Seeded bug: a run that is being cancelled keeps its status.
SetTerminal_NotCancelling(p, r) ==
  /\ At(p, r, "terminal")
  /\ IF status[r] = "cancelling" THEN UNCHANGED tables
                                 ELSE UpdateRunStatus(r, StatusOf(co[p][r].ev))
  /\ Resume(p, r, Goto(co[p][r], "release"))
  /\ UNCHANGED <<Rest, beat>>

\* setRunTerminal: the status, whoever holds the claim ...
SetTerminal(p, r) ==
  /\ At(p, r, "terminal")
  /\ UpdateRunStatus(r, StatusOf(co[p][r].ev))
  /\ Resume(p, r, Goto(co[p][r], "release"))
  /\ UNCHANGED <<Rest, beat>>

\* ... then the claim, if it is still this process's, and the finally block.
Release(p, r) ==
  /\ At(p, r, "release")
  /\ ReleaseClaim(p, r)
  /\ Resume(p, r, Idle)
  /\ SetBeat(p, r, 0)
  /\ UNCHANGED Rest

Statement(p, r) ==
  \/ InsertRun(p, r) \/ Remember(p, r) \/ ClaimCreated(p, r) \/ Load(p, r) \/ Scan(p, r)
  \/ MarkRunning(p, r) \/ CheckLoop(p, r) \/ CheckNode(p, r) \/ CheckFinal(p, r)
  \/ Count(p, r) \/ Insert(p, r) \/ InsertThrows(p, r) \/ UnhandledRejection(p, r)
  \/ SetTerminal(p, r) \/ Release(p, r)

-----------------------------------------------------------------------------
(* Macrotasks. *)

\* Seeded bug: the idempotency row is written before the run.
CreateRun_RememberFirst(p, r) ==
  /\ AtLoop(p)
  /\ r \in Catalog[p]
  /\ status[r] = "absent"
  /\ \A q \in Procs : co[q][r].at = "idle"
  /\ Key[r] # NoKey => idem[Key[r]] = NoRun
  /\ Resume(p, r, Goto(Idle, IF Key[r] = NoKey THEN "insertRun" ELSE "remember"))
  /\ UNCHANGED <<tables, Rest, beat>>

\* POST /v1/runs, up to the SELECT that finds no idempotency row (a row found
\* is replayed, which changes nothing).  randomUUID makes r new to everyone.
CreateRun(p, r) ==
  /\ AtLoop(p)
  /\ r \in Catalog[p]
  /\ status[r] = "absent"
  /\ \A q \in Procs : co[q][r].at = "idle"
  /\ Key[r] # NoKey => idem[Key[r]] = NoRun
  /\ Resume(p, r, Goto(Idle, "insertRun"))
  /\ UNCHANGED <<tables, Rest, beat>>

\* p is executing the POST that creates r, up to the first node: no reply yet.
Creating(p, r) ==
  /\ proc[p] = "serving"
  /\ co[p][r].at \notin {"idle", "sleep"}
  /\ co[p][r].ev \in {"run.started", "node.started"} /\ co[p][r].node <= 1

\* A client can name r: from the reply to that POST, or to its repetition, which
\* another process answers as soon as it finds the key.
KnownToClients(r) ==
  \/ \A q \in Procs : ~Creating(q, r)
  \/ Key[r] # NoKey /\ idem[Key[r]] = r

\* POST /v1/runs/{r}/cancel, whose SELECT finds a run that is not terminal.
CancelRequest(p, r) ==
  /\ AtLoop(p)
  /\ KnownToClients(r)
  /\ status[r] \in Resumable
  /\ http' = [http EXCEPT ![p] = r]
  /\ UNCHANGED <<tables, now, proc, orphans, co, beat>>

\* Its UPDATE, and the abort of the delay when this process executes the run.
CancelUpdate(p, r) ==
  /\ http[p] = r
  /\ SetCancelRequested(r)
  /\ http' = [http EXCEPT ![p] = NoRun]
  /\ Resume(p, r, IF At(p, r, "sleep") THEN ToAppend(co[p][r], "node.cancelled")
                                       ELSE co[p][r])
  /\ UNCHANGED <<now, proc, orphans, beat>>

\* The timer of core.delay.
Wake(p, r) ==
  /\ AtLoop(p)
  /\ At(p, r, "sleep")
  /\ Resume(p, r, ToAppend(co[p][r], "node.completed"))
  /\ UNCHANGED <<tables, Rest, beat>>

Due(p, r) == beat[p][r] # 0 /\ beat[p][r] <= now

\* Seeded bug: a renewal through acquireClaim, which refuses a claim in force.
Heartbeat_Reacquire(p, r) ==
  /\ AtLoop(p)
  /\ Due(p, r)
  /\ IF Claimable(r, now) THEN AcquireClaim(p, r, now + ClaimTtl) ELSE UNCHANGED tables
  /\ SetBeat(p, r, now + HeartbeatInterval)
  /\ UNCHANGED <<Rest, co>>

\* The interval timer of startHeartbeat.  It does not look at how many rows the
\* UPDATE changed, so a process whose claim was taken goes on executing.
Heartbeat(p, r) ==
  /\ AtLoop(p)
  /\ Due(p, r)
  /\ RenewClaim(p, r, now + ClaimTtl)
  /\ SetBeat(p, r, now + HeartbeatInterval)
  /\ UNCHANGED <<Rest, co>>

\* Seeded bug: the handler waits for the aborted delays before db.close().
Shutdown_Drain(p) ==
  /\ AtLoop(p)
  /\ ReleaseAllClaims(p)
  /\ co' = [co EXCEPT ![p] = [r \in Runs |-> IF At(p, r, "sleep")
                                              THEN ToAppend(co[p][r], "node.cancelled")
                                              ELSE co[p][r]]]
  /\ UNCHANGED <<Rest, beat>>

\* Seeded bug: the claims are not released.
Shutdown_KeepClaims(p) == AtLoop(p) /\ Die(p, "stopped") /\ UNCHANGED tables

\* SIGINT or SIGTERM.  After db.close() every statement throws, in both catch
\* blocks too, so the sleeps it aborts can write nothing any more.
Shutdown(p) ==
  /\ AtLoop(p)
  /\ ReleaseAllClaims(p)
  /\ Die(p, "stopped")

\* Bootstrap: the statement of resumeOrphans that lists the orphans ...
Start(p) ==
  /\ proc[p] = "unstarted"
  /\ proc' = [proc EXCEPT ![p] = "resuming"]
  /\ orphans' = [orphans EXCEPT ![p] = OrphanRuns(now)]
  /\ UNCHANGED <<tables, now, http, co, beat>>

\* ... its loop, which runs each resumed run up to its first await ...
ResumeOrphan(p, r) ==
  /\ proc[p] = "resuming" /\ Returned(p)
  /\ r \in orphans[p]
  /\ orphans' = [orphans EXCEPT ![p] = @ \ {r}]
  /\ TryClaim(p, r)
  /\ UNCHANGED <<now, proc, http, beat>>

\* ... and server.listen.
Listen(p) ==
  /\ proc[p] = "resuming" /\ Returned(p)
  /\ orphans[p] = {}
  /\ proc' = [proc EXCEPT ![p] = "serving"]
  /\ UNCHANGED <<tables, now, orphans, http, co, beat>>

-----------------------------------------------------------------------------
(* The environment: kills, and the clock. *)

Crash(p) ==
  /\ p \in MayCrash
  /\ Live(p)
  /\ Die(p, "crashed")
  /\ UNCHANGED tables

\* A tick is longer than any macrotask, except in a process that may stall:
\* the others are at their loop, with no timer overdue, when the clock moves.
Timely(p) == Live(p) => AtLoop(p) /\ \A r \in Runs : ~Due(p, r)

Tick ==
  /\ now < MaxTime
  /\ \A p \in Procs \ MayStall : Timely(p)
  /\ now' = now + 1
  /\ UNCHANGED <<tables, proc, orphans, http, co, beat>>

-----------------------------------------------------------------------------

RunStep(p, r) ==
  \/ Statement(p, r)
  \/ CreateRun(p, r) \/ CancelRequest(p, r) \/ CancelUpdate(p, r)
  \/ Wake(p, r) \/ Heartbeat(p, r) \/ ResumeOrphan(p, r)

ProcStep(p) == Start(p) \/ Listen(p) \/ Shutdown(p) \/ Crash(p)

Next ==
  \/ \E p \in Procs : ProcStep(p) \/ \E r \in Runs : RunStep(p, r)
  \/ Tick

Spec == Init /\ [][Next]_vars

\* The scheduling that Node gives: a macrotask runs to its end, the boot loop
\* finishes, and a timer that is due is served although requests keep coming
\* (the loop visits its timers every round, hence strong fairness).
Fairness ==
  \A p \in Procs :
    /\ WF_vars(Listen(p))
    /\ \A r \in Runs :
         /\ WF_vars(Statement(p, r))
         /\ WF_vars(CancelUpdate(p, r))
         /\ WF_vars(ResumeOrphan(p, r))
         /\ SF_vars(Wake(p, r))

FairSpec == Spec /\ Fairness

-----------------------------------------------------------------------------
(* What the host promises under any schedule, stalled processes included. *)

\* The seqs of a run are 0, 1, 2, ... without a gap or a duplicate, although
\* appendEvent counts and inserts in two statements that another process can
\* come between.
LogContiguous == \A r \in Runs : DOMAIN events[r] = 0 .. (CountEvents(r) - 1)

\* An event that was stored is never lost or rewritten: a client that has read
\* up to seq n can resume after n.
LogAppendOnly ==
  [][\A r \in Runs : \A s \in DOMAIN events[r] :
       s \in DOMAIN events'[r] /\ events'[r][s] = events[r][s]]_events

\* The key of a request that is replayed names a run that exists.
ReplayFindsRun == \A k \in Keys : idem[k] # NoRun => status[idem[k]] # "absent"

\* Whatever two processes do with the same Idempotency-Key, every request that
\* is replayed names the same run.
KeyRecordedOnce ==
  [][\A k \in Keys : idem[k] # NoRun => idem'[k] = idem[k]]_idem

\* A claim that has not lapsed is only given up by its own holder: neither the
\* UPDATE of acquireClaim nor a late setRunTerminal of a former holder takes it.
ClaimRespected ==
  [][\A r \in Runs, q \in Procs :
       (holder[r] = q /\ holder'[r] # q) =>
         \/ expires[r] < now
         \/ co'[q][r] # co[q][r]
         \/ proc'[q] # proc[q]]_vars

-----------------------------------------------------------------------------
(* What it promises when no process stalls, crashes and restarts included. *)

\* Two processes never execute the same run at the same time.
ExclusiveExecution ==
  \A p, q \in Procs, r \in Runs : Executing(p, r) /\ Executing(q, r) => p = q

\* Why: a process that executes a run holds its claim, which has not lapsed.  At
\* the start of runWorkflow the claim is fresh; inside the try a heartbeat is set
\* that fires before the claim lapses; a catch block never awaits anything.
Lease(p, r) ==
  /\ ~At(p, r, "idle") => Live(p)
  /\ Executing(p, r) => holder[r] = p /\ expires[r] >= now
  /\ At(p, r, "load") => expires[r] >= now + ClaimTtl /\ co[p][r].level = 0
  /\ Executing(p, r) /\ ~At(p, r, "load") /\ co[p][r].level = 0 =>
       beat[p][r] # 0 /\ beat[p][r] <= expires[r]
  /\ Executing(p, r) /\ co[p][r].level # 0 =>
       /\ co[p][r].at \in {"count", "insert", "terminal", "release"}
       /\ co[p][r].ev \in TerminalEvent

LeaseHeld == \A p \in Procs, r \in Runs : Lease(p, r)

\* The seq that COUNT returned is still free when the INSERT comes.
AppendNeverConflicts ==
  \A p \in Procs, r \in Runs : At(p, r, "insert") => ~KeyTaken(r, co[p][r].seq)

\* However often a run is handed over, run.started is in its log at most once.
StartedOnce ==
  \A r \in Runs : \A s, t \in DOMAIN events[r] :
    events[r][s].type = "run.started" /\ events[r][t].type = "run.started" => s = t

\* The snapshot and the event log agree on how a finished run ended.
StatusMatchesLog ==
  \A r \in Runs : status[r] \in Terminal =>
    /\ CountEvents(r) > 0
    /\ LET last == events[r][CountEvents(r) - 1].type
       IN  last \in TerminalEvent /\ StatusOf(last) = status[r]

\* A finished run stays as it is: no late cancel, resume or append touches it.
TerminalFrozen ==
  [][\A r \in Runs : status[r] \in Terminal =>
       status'[r] = status[r] /\ events'[r] = events[r]]_<<status, events>>

\* A cancellation is only logged for a run whose row says that one was asked
\* for; in particular the aborts of a graceful shutdown cancel nothing.
CancelledOnRequest ==
  [][\A r \in Runs : \A s \in DOMAIN events'[r] \ DOMAIN events[r] :
       events'[r][s].type \in {"node.cancelled", "run.cancelled"} =>
         status[r] = "cancelling"]_events

\* A process that was shut down has left no claim behind, so the next one need
\* not wait for a claim to lapse.
StoppedHoldsNothing ==
  \A p \in Procs, r \in Runs : proc[p] = "stopped" => holder[r] # p

\* The refinement: a run is open until its status is terminal, and its executor
\* is the process inside runWorkflow for it.
LifecyclePhase(r) == IF status[r] \in Resumable THEN "open" ELSE status[r]

LogOf(r) == [i \in 1 .. CountEvents(r) |-> events[r][i - 1].type]

ExecutorOf(r) == IF \E p \in Procs : Executing(p, r)
                   THEN CHOOSE p \in Procs : Executing(p, r)
                   ELSE NoHolder

Lifecycle == INSTANCE RunLifecycle
  WITH Hosts <- Procs, None <- NoHolder,
       Outcome <- [ev \in TerminalEvent |-> StatusOf(ev)],
       phase <- [r \in Runs |-> LifecyclePhase(r)],
       log <- [r \in Runs |-> LogOf(r)],
       executor <- [r \in Runs |-> ExecutorOf(r)]

\* Timely processes that share the database behave as RunLifecycle says.
ImplementsLifecycle == Lifecycle!Spec

\* A run that a process executes ends, unless the process does.
RunsEnd ==
  \A p \in Procs, r \in Runs :
    Executing(p, r) ~> (status[r] \in Terminal \/ ~Live(p))

\* An orphan whose claim has lapsed when a starting process comes to it is
\* resumed, by this process or by one that was faster.
OrphansResumed ==
  \A p \in Procs, r \in Runs :
    (r \in orphans[p] /\ Lapsed(r, now)) ~> (\/ status[r] \in Terminal
                                            \/ ~Live(p)
                                            \/ \E q \in Procs : Executing(q, r))

=============================================================================
