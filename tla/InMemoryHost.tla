---------------------------- MODULE InMemoryHost ----------------------------
(***************************************************************************)
(* The in-memory reference host: one process, whose runs, event logs and   *)
(* idempotency cache are JavaScript maps.  Requests and timers are         *)
(* macrotasks, so they need AtLoop; between two macrotasks every coroutine *)
(* of runWorkflow has finished or awaits the timer of core.delay.  A step  *)
(* is one appendEvent, with the code around it up to the next one, because *)
(* each append is also emitted to the streams.  Nothing survives a         *)
(* restart: a crash is the end of the behaviour.                           *)
(***************************************************************************)
EXTENDS RunEvents, Naturals, Sequences

CONSTANTS Runs,       \* run ids, randomUUID
          Keys,       \* Idempotency-Key header values
          NoKey,      \* no such header
          Bodies,     \* request bodies, up to their hash
          Workflow,   \* body -> the node types of the workflow that it names, in order
          NoEntry,    \* no cache entry
          CacheTtl,   \* IDEMPOTENCY_TTL_MS, in ticks
          MaxTime     \* bound on the clock

ASSUME NoKeyAssumption == NoKey \notin Keys
ASSUME BodiesAssumption == Bodies # {}
ASSUME WorkflowAssumption == Workflow \in [Bodies -> Seq(NodeType)]
ASSUME CacheTtlAssumption == CacheTtl \in Nat
ASSUME MaxTimeAssumption == MaxTime \in Nat

VARIABLES now,     \* Date.now(), in ticks
          status,  \* run -> its status, "absent" before it is created
          log,     \* run -> its events, in order (the seq is the position)
          cancel,  \* run -> cancelRequested
          co,      \* run -> what its coroutine does next
          cache,   \* key -> cache entry, or NoEntry
          origin   \* run -> the request it was created by: key, body and time

hostVars == <<now, status, log, cancel, co, cache, origin>>

\* A cache entry holds the reply, which is the id of a run.
Entry == [run : Runs, body : Bodies, storedAt : Nat]

ASSUME NoEntryAssumption == NoEntry \notin Entry

\* next is the event that the coroutine appends next, "sleep" while it awaits a
\* timer, "idle" when it has returned; node is the index of its node.
Coroutine == [next : EventType \cup {"sleep", "idle"}, node : Nat]

TypeOK ==
  /\ now \in Nat
  /\ status \in [Runs -> {"absent", "pending", "running"} \cup Terminal]
  /\ log \in [Runs -> Seq(Row)]
  /\ cancel \in [Runs -> BOOLEAN]
  /\ co \in [Runs -> Coroutine]
  /\ DOMAIN cache = Keys /\ \A k \in Keys : cache[k] # NoEntry => cache[k] \in Entry
  /\ origin \in [Runs -> [key : Keys \cup {NoKey}, body : Bodies, at : Nat]]

HostInit ==
  /\ now = 0
  /\ status = [r \in Runs |-> "absent"]
  /\ log = [r \in Runs |-> <<>>]
  /\ cancel = [r \in Runs |-> FALSE]
  /\ co = [r \in Runs |-> [next |-> "idle", node |-> 0]]
  /\ cache = [k \in Keys |-> NoEntry]
  /\ origin = [r \in Runs |-> [key |-> NoKey, body |-> CHOOSE b \in Bodies : TRUE, at |-> 0]]

Do(r, next) == [co[r] EXCEPT !.next = next]

\* The event loop is free to take its next macrotask.
AtLoop == \A r \in Runs : co[r].next \in {"idle", "sleep"}

-----------------------------------------------------------------------------
(* Requests. *)

\* Seeded bug: off by one, an entry expires at its last valid moment.
Pruned_Early == [k \in Keys |-> IF cache[k] # NoEntry /\ cache[k].storedAt + CacheTtl <= now
                                  THEN NoEntry ELSE cache[k]]

\* pruneIdempotencyCache.
Pruned == [k \in Keys |-> IF cache[k] # NoEntry /\ cache[k].storedAt + CacheTtl < now
                            THEN NoEntry ELSE cache[k]]

\* POST /v1/runs when the pruned cache has no entry for the key: the run, the
\* cache entry and the start of runWorkflow.
CreateRun(r, k, b) ==
  /\ AtLoop
  /\ status[r] = "absent"
  /\ k # NoKey => Pruned[k] = NoEntry
  /\ status' = [status EXCEPT ![r] = "pending"]
  /\ origin' = [origin EXCEPT ![r] = [key |-> k, body |-> b, at |-> now]]
  /\ co' = [co EXCEPT ![r] = [next |-> "run.started", node |-> 0]]
  /\ cache' = IF k = NoKey THEN cache
              ELSE [Pruned EXCEPT ![k] = [run |-> r, body |-> b, storedAt |-> now]]
  /\ UNCHANGED <<now, log, cancel>>

\* POST /v1/runs when it has one: the reply is the cached one, or 409 when the
\* body is another.  Of the state only the pruning is left.
Reuse(k) ==
  /\ AtLoop
  /\ Pruned[k] # NoEntry
  /\ cache' = Pruned
  /\ UNCHANGED <<now, status, log, cancel, co, origin>>

\* Seeded bugs: the sleep is not aborted; the handler sets the status itself.
CancelRun_NoAbort(r) ==
  /\ AtLoop
  /\ status[r] \notin Terminal \cup {"absent"}
  /\ cancel' = [cancel EXCEPT ![r] = TRUE]
  /\ UNCHANGED <<now, status, log, co, cache, origin>>
CancelRun_SetStatus(r) ==
  /\ AtLoop
  /\ status[r] \notin Terminal \cup {"absent"}
  /\ cancel' = [cancel EXCEPT ![r] = TRUE]
  /\ status' = [status EXCEPT ![r] = "cancelled"]
  /\ co' = [co EXCEPT ![r] = IF @.next = "sleep" THEN Do(r, "node.cancelled") ELSE @]
  /\ UNCHANGED <<now, log, cache, origin>>

\* POST /v1/runs/{r}/cancel: the abort rejects the sleep of the coroutine.
CancelRun(r) ==
  /\ AtLoop
  /\ status[r] \notin Terminal \cup {"absent"}
  /\ cancel' = [cancel EXCEPT ![r] = TRUE]
  /\ co' = [co EXCEPT ![r] = IF @.next = "sleep" THEN Do(r, "node.cancelled") ELSE @]
  /\ UNCHANGED <<now, status, log, cache, origin>>

-----------------------------------------------------------------------------
(* runWorkflow and executeNode. *)

Nodes(r) == Workflow[origin[r].body]

\* Seeded bug: the last node is not executed.
NextNode_SkipLast(r) ==
  CASE cancel[r]                      -> [next |-> "run.cancelled", node |-> 0]
    [] ~cancel[r] /\ co[r].node + 1 < Len(Nodes(r))
                                      -> [next |-> "node.started", node |-> co[r].node + 1]
    [] OTHER                          -> [next |-> "run.completed", node |-> 0]

\* The head of the loop, and what follows the loop.  (executeNode looks at
\* cancelRequested once more, with nothing in between that could set it.)
NextNode(r) ==
  CASE cancel[r]                     -> [next |-> "run.cancelled", node |-> 0]
    [] ~cancel[r] /\ co[r].node < Len(Nodes(r))
                                     -> [next |-> "node.started", node |-> co[r].node + 1]
    [] OTHER                         -> [next |-> "run.completed", node |-> 0]

\* What executeNode does once node.started is in the log.
NodeBody(r) == CASE Nodes(r)[co[r].node] = "core.noop"  -> "node.completed"
                 [] Nodes(r)[co[r].node] = "core.delay" -> "sleep"
                 [] OTHER                               -> "node.failed"

\* Seeded bug: a failed node does not end runWorkflow.
AfterAppend_NoReturn(r, ev) ==
  CASE ev \in {"run.started", "node.completed"} -> NextNode(r)
    [] ev = "node.started"                      -> Do(r, NodeBody(r))
    [] ev = "node.cancelled"                    -> [next |-> "run.cancelled", node |-> 0]
    [] ev = "node.failed"                       -> [next |-> "run.failed", node |-> co[r].node]
    [] ev = "run.failed"                        -> NextNode(r)
    [] OTHER                                    -> Do(r, "idle")

AfterAppend(r, ev) ==
  CASE ev \in {"run.started", "node.completed"} -> NextNode(r)
    [] ev = "node.started"                      -> Do(r, NodeBody(r))
    [] ev = "node.cancelled"                    -> [next |-> "run.cancelled", node |-> 0]
    [] ev = "node.failed"                       -> [next |-> "run.failed", node |-> 0]
    [] OTHER                                    -> Do(r, "idle")

Outcome == [ev \in TerminalEvent |-> CASE ev = "run.completed" -> "completed"
                                       [] ev = "run.cancelled" -> "cancelled"
                                       [] ev = "run.failed"    -> "failed"]

\* runWorkflow sets the status just before it appends the event that says so.
StatusAt(r, ev) == CASE ev = "run.started"     -> "running"
                     [] ev \in TerminalEvent   -> Outcome[ev]
                     [] OTHER                  -> status[r]

AppendEvent(r) ==
  LET ev == co[r].next IN
  /\ ev \in EventType
  /\ status' = [status EXCEPT ![r] = StatusAt(r, ev)]
  /\ log' = [log EXCEPT ![r] = Append(@, [type |-> ev, node |-> co[r].node])]
  /\ co' = [co EXCEPT ![r] = AfterAppend(r, ev)]
  /\ UNCHANGED <<now, cancel, cache, origin>>

\* The timer of core.delay.
Wake(r) ==
  /\ AtLoop
  /\ co[r].next = "sleep"
  /\ co' = [co EXCEPT ![r] = Do(r, "node.completed")]
  /\ UNCHANGED <<now, status, log, cancel, cache, origin>>

Tick ==
  /\ AtLoop
  /\ now < MaxTime
  /\ now' = now + 1
  /\ UNCHANGED <<status, log, cancel, co, cache, origin>>

Request ==
  \/ \E r \in Runs : CancelRun(r)
  \/ \E r \in Runs, k \in Keys \cup {NoKey}, b \in Bodies : CreateRun(r, k, b)
  \/ \E k \in Keys : Reuse(k)

Timer == Tick \/ \E r \in Runs : Wake(r)

=============================================================================
