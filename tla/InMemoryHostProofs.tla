------------------------- MODULE InMemoryHostProofs -------------------------
(***************************************************************************)
(* What the in-memory host keeps true whatever is asked of it, for all     *)
(* workflows, keys and bodies and however many runs.  InMemoryHost is not  *)
(* a specification of its own: the lemmas are about its steps, and the     *)
(* modules that compose it with streams, or with callers, use them.        *)
(***************************************************************************)
EXTENDS InMemoryHost, TLAPS

\* Every step of the host, asked for or not.
HostNext == Request \/ Timer \/ \E r \in Runs : AppendEvent(r)

-----------------------------------------------------------------------------
(* Type correctness. *)

LEMMA NodesType ==
  ASSUME TypeOK, NEW r \in Runs
  PROVE  Nodes(r) \in Seq(NodeType)
BY WorkflowAssumption DEF TypeOK, Nodes

LEMMA DoFields ==
  ASSUME TypeOK, NEW r \in Runs, NEW next \in EventType \cup {"sleep", "idle"}
  PROVE  /\ Do(r, next) \in Coroutine
         /\ Do(r, next).next = next /\ Do(r, next).node = co[r].node
<1>1. co[r] \in Coroutine
  BY DEF TypeOK
<1>2. QED
  BY <1>1 DEF Do, Coroutine

\* The loop of runWorkflow goes on to a node, or to the end that is due.
LEMMA NextNodeIs ==
  ASSUME TypeOK, NEW r \in Runs
  PROVE  /\ NextNode(r) \in Coroutine
         /\ cancel[r] => NextNode(r).next = "run.cancelled"
         /\ ~cancel[r] /\ co[r].node < Len(Nodes(r)) =>
              NextNode(r) = [next |-> "node.started", node |-> co[r].node + 1]
         /\ ~cancel[r] /\ ~(co[r].node < Len(Nodes(r))) =>
              NextNode(r) = [next |-> "run.completed", node |-> 0]
<1>1. co[r].node \in Nat
  BY DEF TypeOK, Coroutine
<1>2. QED
  BY <1>1 DEF NextNode, Coroutine, EventType, NodeEvent, RunEvent, TerminalEvent

\* What an appended event leads to, in the order of the statements.
LEMMA AfterAppendIs ==
  ASSUME TypeOK, NEW r \in Runs, NEW ev \in EventType
  PROVE  /\ AfterAppend(r, ev) \in Coroutine
         /\ ev \in {"run.started", "node.completed"} => AfterAppend(r, ev) = NextNode(r)
         /\ ev = "node.started" =>
              /\ AfterAppend(r, ev).next \in {"node.completed", "sleep", "node.failed"}
              /\ AfterAppend(r, ev).node = co[r].node
         /\ ev = "node.cancelled" => AfterAppend(r, ev) = [next |-> "run.cancelled", node |-> 0]
         /\ ev = "node.failed" => AfterAppend(r, ev) = [next |-> "run.failed", node |-> 0]
         /\ ev \in TerminalEvent \cup {"run.resumed"} => AfterAppend(r, ev).next = "idle"
<1>1. /\ {"node.completed", "sleep", "node.failed"} \subseteq EventType \cup {"sleep", "idle"}
      /\ NodeBody(r) \in {"node.completed", "sleep", "node.failed"}
  BY DEF NodeBody, EventType, NodeEvent
<1>2. /\ Do(r, NodeBody(r)) \in Coroutine /\ Do(r, NodeBody(r)).next = NodeBody(r)
      /\ Do(r, NodeBody(r)).node = co[r].node
  BY <1>1, DoFields
<1>3. Do(r, "idle") \in Coroutine /\ Do(r, "idle").next = "idle"
  BY DoFields
<1>4. /\ ev \in {"run.started", "node.completed"} => AfterAppend(r, ev) = NextNode(r)
      /\ ev = "node.started" => AfterAppend(r, ev) = Do(r, NodeBody(r))
      /\ ev = "node.cancelled" => AfterAppend(r, ev) = [next |-> "run.cancelled", node |-> 0]
      /\ ev = "node.failed" => AfterAppend(r, ev) = [next |-> "run.failed", node |-> 0]
      /\ ev \in TerminalEvent \cup {"run.resumed"} => AfterAppend(r, ev) = Do(r, "idle")
  BY DEF AfterAppend, TerminalEvent
<1>5. /\ [next |-> "run.cancelled", node |-> 0] \in Coroutine
      /\ [next |-> "run.failed", node |-> 0] \in Coroutine
  BY DEF Coroutine, EventType, RunEvent, TerminalEvent
<1>6. ev \in {"run.started", "node.completed", "node.started", "node.cancelled", "node.failed",
              "run.resumed"} \cup TerminalEvent
  BY DEF EventType, NodeEvent, RunEvent
<1>7. AfterAppend(r, ev) \in Coroutine
  <2>1. NextNode(r) \in Coroutine
    BY NextNodeIs
  <2>2. QED
    BY <1>2, <1>3, <1>4, <1>5, <1>6, <2>1, Zenon
<1>8. QED
  BY <1>1, <1>2, <1>3, <1>4, <1>7

LEMMA StatusAtIs ==
  ASSUME NEW r \in Runs, NEW ev \in EventType
  PROVE  /\ ev = "run.started" => StatusAt(r, ev) = "running"
         /\ ev = "run.completed" => StatusAt(r, ev) = "completed"
         /\ ev = "run.cancelled" => StatusAt(r, ev) = "cancelled"
         /\ ev = "run.failed" => StatusAt(r, ev) = "failed"
         /\ ev \notin TerminalEvent \cup {"run.started"} => StatusAt(r, ev) = status[r]
<1>1. /\ "run.completed" \in TerminalEvent => Outcome["run.completed"] = "completed"
      /\ "run.cancelled" \in TerminalEvent => Outcome["run.cancelled"] = "cancelled"
      /\ "run.failed" \in TerminalEvent => Outcome["run.failed"] = "failed"
  BY DEF Outcome
<1>2. QED
  BY <1>1 DEF StatusAt, TerminalEvent

\* Pruning takes expired entries out of the cache and nothing else.
LEMMA PrunedIs ==
  ASSUME TypeOK
  PROVE  /\ DOMAIN Pruned = Keys
         /\ \A k \in Keys : Pruned[k] # NoEntry =>
              /\ Pruned[k] = cache[k] /\ cache[k] # NoEntry
              /\ cache[k] \in Entry
              /\ ~(cache[k].storedAt + CacheTtl < now)
         /\ \A k \in Keys : Pruned[k] = NoEntry => cache[k] = NoEntry \/ cache[k].storedAt + CacheTtl < now
BY DEF Pruned, TypeOK

LEMMA HostTypeInit ==
  ASSUME HostInit
  PROVE  TypeOK
<1>1. (CHOOSE b \in Bodies : TRUE) \in Bodies
  BY BodiesAssumption
<1>2. QED
  BY <1>1 DEF HostInit, TypeOK, Coroutine

LEMMA HostTypeStep ==
  ASSUME TypeOK, [HostNext]_hostVars
  PROVE  TypeOK'
<1>1. ASSUME NEW r \in Runs, NEW k \in Keys \cup {NoKey}, NEW b \in Bodies, CreateRun(r, k, b)
      PROVE  TypeOK'
  <2>1. [next |-> "run.started", node |-> 0] \in Coroutine
    BY DEF Coroutine, EventType, RunEvent
  <2>2. DOMAIN cache' = Keys /\ \A j \in Keys : cache'[j] # NoEntry => cache'[j] \in Entry
    <3>1. CASE k = NoKey
      BY <1>1, <3>1 DEF CreateRun, TypeOK
    <3>2. CASE k # NoKey
      <4>1. k \in Keys /\ [run |-> r, body |-> b, storedAt |-> now] \in Entry
        BY <3>2 DEF Entry, TypeOK
      <4>2. cache' = [Pruned EXCEPT ![k] = [run |-> r, body |-> b, storedAt |-> now]]
        BY <1>1, <3>2 DEF CreateRun
      <4>3. QED
        BY <4>1, <4>2, PrunedIs
    <3>3. QED
      BY <3>1, <3>2
  <2>3. QED
    BY <1>1, <2>1, <2>2 DEF CreateRun, TypeOK
<1>2. ASSUME NEW k \in Keys, Reuse(k)
      PROVE  TypeOK'
  BY <1>2, PrunedIs DEF Reuse, TypeOK
<1>3. ASSUME NEW r \in Runs, CancelRun(r)
      PROVE  TypeOK'
  <2>1. Do(r, "node.cancelled") \in Coroutine
    BY DoFields DEF EventType, NodeEvent
  <2>2. QED
    BY <1>3, <2>1 DEF CancelRun, TypeOK
<1>4. ASSUME NEW r \in Runs, AppendEvent(r)
      PROVE  TypeOK'
  <2>1. co[r].next \in EventType /\ co[r].node \in Nat
    BY <1>4 DEF AppendEvent, TypeOK, Coroutine
  <2>2. AfterAppend(r, co[r].next) \in Coroutine
    BY <2>1, AfterAppendIs
  <2>3. [type |-> co[r].next, node |-> co[r].node] \in Row
    BY <2>1 DEF Row
  <2>4. StatusAt(r, co[r].next) \in {"absent", "pending", "running"} \cup Terminal
    BY <2>1, StatusAtIs DEF TypeOK, Terminal, TerminalEvent
  <2>5. QED
    BY <1>4, <2>2, <2>3, <2>4 DEF AppendEvent, TypeOK
<1>5. ASSUME NEW r \in Runs, Wake(r)
      PROVE  TypeOK'
  <2>1. Do(r, "node.completed") \in Coroutine
    BY DoFields DEF EventType, NodeEvent
  <2>2. QED
    BY <1>5, <2>1 DEF Wake, TypeOK
<1>6. CASE Tick \/ UNCHANGED hostVars
  BY <1>6 DEF Tick, hostVars, TypeOK
<1>7. QED
  BY <1>1, <1>2, <1>3, <1>4, <1>5, <1>6 DEF HostNext, Request, Timer

-----------------------------------------------------------------------------
(* The status of a run, its coroutine and its cancelRequested. *)

\* A run is pending until run.started, and its coroutine has returned exactly
\* when it has ended.  A cancellation finds the coroutine in its sleep, so that
\* node.cancelled and run.cancelled follow, and no cancellation ends it otherwise.
Standing(r) ==
  /\ co[r].next = "run.started" <=> status[r] = "pending"
  /\ co[r].next = "idle" <=> status[r] \in Terminal \cup {"absent"}
  /\ cancel[r] <=> status[r] = "cancelled" \/ co[r].next \in {"node.cancelled", "run.cancelled"}
  /\ co[r].next # "run.resumed"

HostInv == TypeOK /\ \A r \in Runs : Standing(r)

\* The statuses that a run may have, by what its coroutine does next.
LEMMA StandingStatus ==
  ASSUME HostInv, NEW r \in Runs
  PROVE  /\ co[r].next \in NodeEvent \cup TerminalEvent \cup {"sleep", "run.started", "idle"}
         /\ co[r].next \in NodeEvent \cup TerminalEvent \cup {"sleep"} => status[r] = "running"
         /\ co[r].next \in EventType => status[r] \in {"pending", "running"}
<1>1. co[r].next \in NodeEvent \cup TerminalEvent \cup {"sleep", "run.started", "idle"}
  BY DEF HostInv, TypeOK, Standing, Coroutine, EventType, RunEvent
<1>2. status[r] \in {"absent", "pending", "running"} \cup Terminal
  BY DEF HostInv, TypeOK
<1>3. QED
  BY <1>1, <1>2 DEF HostInv, Standing, NodeEvent, TerminalEvent, EventType, RunEvent

\* A cancellation is accepted while the coroutine sleeps.
LEMMA CancelFindsSleep ==
  ASSUME HostInv, NEW r \in Runs, CancelRun(r)
  PROVE  /\ co[r].next = "sleep" /\ status[r] = "running"
         /\ cancel' = [cancel EXCEPT ![r] = TRUE]
         /\ co' = [co EXCEPT ![r] = Do(r, "node.cancelled")]
<1>1. co[r].next = "sleep"
  BY DEF CancelRun, AtLoop, HostInv, Standing
<1>2. co' = [co EXCEPT ![r] = Do(r, "node.cancelled")]
  BY <1>1 DEF CancelRun
<1>3. QED
  BY <1>1, <1>2, StandingStatus DEF CancelRun

LEMMA StandingInit ==
  ASSUME HostInit
  PROVE  HostInv
BY HostTypeInit DEF HostInit, HostInv, Standing, Terminal

LEMMA HostInvStep ==
  ASSUME HostInv, [HostNext]_hostVars
  PROVE  HostInv'
<1>0. TypeOK /\ TypeOK' /\ \A r \in Runs : Standing(r)
  BY HostTypeStep DEF HostInv
<1>1. ASSUME NEW r \in Runs, NEW k \in Keys \cup {NoKey}, NEW b \in Bodies, CreateRun(r, k, b)
      PROVE  HostInv'
  <2>1. ~cancel[r]
    BY <1>0, <1>1 DEF CreateRun, Standing
  <2>2. QED
    BY <1>0, <1>1, <2>1 DEF CreateRun, TypeOK, HostInv, Standing, Terminal
<1>2. ASSUME NEW r \in Runs, CancelRun(r)
      PROVE  HostInv'
  <2>1. Do(r, "node.cancelled").next = "node.cancelled"
    BY <1>0, DoFields DEF EventType, NodeEvent
  <2>2. /\ status' = status /\ status[r] = "running"
        /\ cancel' = [cancel EXCEPT ![r] = TRUE]
        /\ co' = [co EXCEPT ![r] = Do(r, "node.cancelled")]
    BY <1>2, CancelFindsSleep DEF CancelRun
  <2>3. QED
    BY <1>0, <2>1, <2>2 DEF TypeOK, HostInv, Standing, Terminal
<1>3. ASSUME NEW r \in Runs, Wake(r)
      PROVE  HostInv'
  <2>1. Do(r, "node.completed").next = "node.completed"
    BY <1>0, DoFields DEF EventType, NodeEvent
  <2>2. /\ status' = status /\ cancel' = cancel /\ co[r].next = "sleep"
        /\ co' = [co EXCEPT ![r] = Do(r, "node.completed")]
    BY <1>3 DEF Wake
  <2>3. QED
    BY <1>0, <2>1, <2>2 DEF TypeOK, HostInv, Standing
<1>4. ASSUME NEW r \in Runs, AppendEvent(r)
      PROVE  HostInv'
  <2> DEFINE ev == co[r].next
  <2>1. ev \in EventType /\ ev # "run.resumed" /\ status[r] \in {"pending", "running"}
    BY <1>0, <1>4, StandingStatus DEF AppendEvent, Standing, HostInv
  <2>2. /\ cancel' = cancel /\ co'[r] = AfterAppend(r, ev) /\ status'[r] = StatusAt(r, ev)
        /\ \A s \in Runs : s # r => co'[s] = co[s] /\ status'[s] = status[s]
    BY <1>0, <1>4 DEF AppendEvent, TypeOK
  <2>3. Standing(r)'
    <3>1. CASE ev \in {"run.started", "node.completed"}
      <4>1. ~cancel[r]
        BY <1>0, <2>1, <3>1 DEF Standing
      <4>2. co'[r].next \in {"node.started", "run.completed"} /\ status'[r] = "running"
        BY <1>0, <2>1, <2>2, <3>1, <4>1, AfterAppendIs, NextNodeIs, StatusAtIs, StandingStatus
           DEF TerminalEvent, NodeEvent, HostInv
      <4>3. QED
        BY <2>2, <4>1, <4>2 DEF Standing, Terminal
    <3>2. CASE ev = "node.started"
      <4>1. /\ ~cancel[r] /\ status'[r] = "running"
            /\ co'[r].next \in {"node.completed", "sleep", "node.failed"}
        BY <1>0, <2>1, <2>2, <3>2, AfterAppendIs, StatusAtIs, StandingStatus
           DEF TerminalEvent, NodeEvent, HostInv, Standing
      <4>2. QED
        BY <2>2, <4>1 DEF Standing, Terminal
    <3>3. CASE ev = "node.cancelled"
      <4>1. cancel[r] /\ status'[r] = "running" /\ co'[r].next = "run.cancelled"
        BY <1>0, <2>1, <2>2, <3>3, AfterAppendIs, StatusAtIs, StandingStatus
           DEF TerminalEvent, NodeEvent, HostInv, Standing
      <4>2. QED
        BY <2>2, <4>1 DEF Standing, Terminal
    <3>4. CASE ev = "node.failed"
      <4>1. ~cancel[r] /\ status'[r] = "running" /\ co'[r].next = "run.failed"
        BY <1>0, <2>1, <2>2, <3>4, AfterAppendIs, StatusAtIs, StandingStatus
           DEF TerminalEvent, NodeEvent, HostInv, Standing
      <4>2. QED
        BY <2>2, <4>1 DEF Standing, Terminal
    <3>5. CASE ev \in TerminalEvent
      <4>1. /\ co'[r].next = "idle" /\ cancel'[r] = cancel[r]
            /\ status'[r] = "cancelled" <=> ev = "run.cancelled"
            /\ status'[r] \in Terminal
        BY <1>0, <2>1, <2>2, <3>5, AfterAppendIs, StatusAtIs DEF TerminalEvent, Terminal
      <4>2. cancel[r] <=> ev = "run.cancelled"
        BY <1>0, <2>1, <3>5 DEF Standing, TerminalEvent
      <4>3. QED
        BY <4>1, <4>2 DEF Standing, Terminal
    <3>6. QED
      BY <2>1, <3>1, <3>2, <3>3, <3>4, <3>5 DEF EventType, NodeEvent, RunEvent
  <2>4. \A s \in Runs : s # r => Standing(s)'
    BY <1>0, <2>2 DEF Standing
  <2>5. QED
    BY <1>0, <2>3, <2>4 DEF HostInv
<1>5. CASE (\E k \in Keys : Reuse(k)) \/ Tick \/ UNCHANGED hostVars
  BY <1>0, <1>5 DEF Reuse, Tick, hostVars, HostInv, Standing
<1>6. QED
  BY <1>1, <1>2, <1>3, <1>4, <1>5 DEF HostNext, Request, Timer

\* A cancellation takes effect within the macrotask that accepted it.
LEMMA CancelledAtLoop ==
  ASSUME HostInv, NEW r \in Runs
  PROVE  /\ AtLoop /\ cancel[r] => status[r] = "cancelled"
         /\ status[r] = "cancelled" => cancel[r]
BY DEF HostInv, Standing, AtLoop

=============================================================================
