-------------------------- MODULE SqliteHostProofs --------------------------
(***************************************************************************)
(* Theorems about SqliteHost, for every number of processes and runs, all  *)
(* workflows, and whatever processes crash or stall.                       *)
(***************************************************************************)
EXTENDS SqliteHost, FiniteSetTheorems, SequenceTheorems, TLAPS

-----------------------------------------------------------------------------
(* The statements: each keeps the tables well typed, and what an INSERT into *)
(* events does to a log without gaps.                                        *)

\* A statement that changes nothing, or that throws.
LEMMA StoreUnchangedType ==
  ASSUME StoreTypeOK, UNCHANGED tables
  PROVE  StoreTypeOK'
BY DEF StoreTypeOK, tables, runRow

LEMMA UpdateRunStatusType ==
  ASSUME StoreTypeOK, NEW r \in Runs, NEW s \in Status, UpdateRunStatus(r, s)
  PROVE  StoreTypeOK'
BY DEF StoreTypeOK, UpdateRunStatus

LEMMA InsertRunRowType ==
  ASSUME StoreTypeOK, NEW r \in Runs, InsertRunRow(r)
  PROVE  StoreTypeOK'
BY DEF StoreTypeOK, InsertRunRow, Status, Resumable

LEMMA SetCancelRequestedType ==
  ASSUME StoreTypeOK, NEW r \in Runs, SetCancelRequested(r)
  PROVE  StoreTypeOK'
BY DEF StoreTypeOK, SetCancelRequested, Status, Resumable

LEMMA AcquireClaimType ==
  ASSUME StoreTypeOK, NEW p \in Procs, NEW r \in Runs, NEW e \in Nat, AcquireClaim(p, r, e)
  PROVE  StoreTypeOK'
BY DEF StoreTypeOK, AcquireClaim

LEMMA RenewClaimType ==
  ASSUME StoreTypeOK, NEW p \in Procs, NEW r \in Runs, NEW e \in Nat, RenewClaim(p, r, e)
  PROVE  StoreTypeOK'
BY DEF StoreTypeOK, RenewClaim

LEMMA ReleaseClaimType ==
  ASSUME StoreTypeOK, NEW p \in Procs, NEW r \in Runs, ReleaseClaim(p, r)
  PROVE  StoreTypeOK'
BY DEF StoreTypeOK, ReleaseClaim

LEMMA ReleaseAllClaimsType ==
  ASSUME StoreTypeOK, NEW p \in Procs, ReleaseAllClaims(p)
  PROVE  StoreTypeOK'
BY DEF StoreTypeOK, ReleaseAllClaims

LEMMA InsertIdempotencyType ==
  ASSUME StoreTypeOK, NEW k \in Keys, NEW r \in Runs, InsertIdempotency(k, r)
  PROVE  StoreTypeOK'
BY DEF StoreTypeOK, InsertIdempotency, runRow

\* What InsertEvent does to the log of each run.
LEMMA InsertEventEffect ==
  ASSUME StoreTypeOK, NEW r \in Runs, NEW seq \in Nat, NEW row \in Row,
         InsertEvent(r, seq, row)
  PROVE  /\ DOMAIN events' = Runs
         /\ DOMAIN events'[r] = DOMAIN events[r] \cup {seq}
         /\ events'[r][seq] = row
         /\ \A s \in DOMAIN events[r] : s # seq => events'[r][s] = events[r][s]
         /\ \A q \in Runs : q # r => events'[q] = events[q]
BY DEF StoreTypeOK, InsertEvent

LEMMA InsertEventType ==
  ASSUME StoreTypeOK, NEW r \in Runs, NEW seq \in Nat, NEW row \in Row,
         InsertEvent(r, seq, row)
  PROVE  StoreTypeOK'
<1>1. /\ DOMAIN events' = Runs
      /\ DOMAIN events'[r] = DOMAIN events[r] \cup {seq}
      /\ events'[r][seq] = row
      /\ \A s \in DOMAIN events[r] : s # seq => events'[r][s] = events[r][s]
      /\ \A q \in Runs : q # r => events'[q] = events[q]
  BY InsertEventEffect
<1>2. ASSUME NEW q \in Runs
      PROVE  /\ DOMAIN events'[q] \subseteq Nat /\ IsFiniteSet(DOMAIN events'[q])
             /\ \A s \in DOMAIN events'[q] : events'[q][s] \in Row
  <2>1. CASE q = r
    BY <1>1, <2>1, FS_AddElement DEF StoreTypeOK
  <2>2. CASE q # r
    BY <1>1, <2>2 DEF StoreTypeOK
  <2>3. QED
    BY <2>1, <2>2
<1>3. QED
  BY <1>1, <1>2 DEF StoreTypeOK, InsertEvent, runRow

LEMMA CountEventsType ==
  ASSUME StoreTypeOK, NEW r \in Runs
  PROVE  CountEvents(r) \in Nat
BY FS_CardinalityType DEF StoreTypeOK, CountEvents

\* appendEvent's arithmetic: if the log of r has no gap and the seq to insert is
\* free and at most the count, then it is the count, and the log has no gap.
LEMMA InsertKeepsContiguous ==
  ASSUME StoreTypeOK, NEW r \in Runs, NEW seq \in Nat, NEW row \in Row,
         InsertEvent(r, seq, row),
         ~KeyTaken(r, seq), seq <= CountEvents(r),
         DOMAIN events[r] = 0 .. (CountEvents(r) - 1)
  PROVE  /\ DOMAIN events'[r] = 0 .. (CountEvents(r)' - 1)
         /\ CountEvents(r)' = CountEvents(r) + 1
         /\ seq = CountEvents(r)
<1>1. CountEvents(r) \in Nat
  BY CountEventsType
<1>2. seq = CountEvents(r)
  BY <1>1 DEF KeyTaken
<1>3. DOMAIN events'[r] = DOMAIN events[r] \cup {seq}
  BY InsertEventEffect
<1>4. CountEvents(r)' = CountEvents(r) + 1
  BY <1>3, FS_AddElement DEF StoreTypeOK, KeyTaken, CountEvents
<1>5. DOMAIN events'[r] = 0 .. CountEvents(r)
  BY <1>1, <1>2, <1>3
<1>6. QED
  BY <1>1, <1>2, <1>4, <1>5

-----------------------------------------------------------------------------
(* Type correctness. *)

\* The operators that move a coroutine on yield coroutines.
LEMMA GotoType ==
  ASSUME NEW c \in Coroutine, NEW place \in Place
  PROVE  Goto(c, place) \in Coroutine
BY DEF Goto, Coroutine

LEMMA ToAppendType ==
  ASSUME NEW c \in Coroutine, NEW ev \in EventType
  PROVE  ToAppend(c, ev) \in Coroutine
<1>1. [c EXCEPT !.ev = ev] \in Coroutine
  BY DEF Coroutine
<1>2. QED
  BY <1>1, GotoType DEF ToAppend, Place

LEMMA IdleType == Idle \in Coroutine
BY DEF Idle, Coroutine, Place, EventType, RunEvent

LEMMA NextNodeType ==
  ASSUME NEW c \in Coroutine, NEW r \in Runs
  PROVE  NextNode(r, c) \in Coroutine
<1>1. [c EXCEPT !.node = c.node + 1] \in Coroutine /\ [c EXCEPT !.node = 0] \in Coroutine
  BY DEF Coroutine
<1>2. /\ Goto([c EXCEPT !.node = c.node + 1], "loop") \in Coroutine
      /\ Goto([c EXCEPT !.node = 0], "final") \in Coroutine
  BY <1>1, GotoType DEF Place
<1>3. QED
  BY <1>2, Zenon DEF NextNode

LEMMA RunNodeType ==
  ASSUME NEW c \in Coroutine, NEW r \in Runs
  PROVE  RunNode(r, c) \in Coroutine
<1>1. ToAppend(c, "node.completed") \in Coroutine /\ ToAppend(c, "node.failed") \in Coroutine
  BY ToAppendType DEF EventType, NodeEvent
<1>2. Goto(c, "sleep") \in Coroutine
  BY GotoType DEF Place
<1>3. QED
  BY <1>1, <1>2 DEF RunNode

LEMMA AfterAppendType ==
  ASSUME NEW c \in Coroutine, NEW r \in Runs
  PROVE  AfterAppend(r, c) \in Coroutine
<1>1. /\ ToAppend(c, "run.cancelled") \in Coroutine
      /\ ToAppend(c, "run.failed") \in Coroutine
  BY ToAppendType DEF EventType, RunEvent, TerminalEvent
<1>2. Goto(c, "terminal") \in Coroutine
  BY GotoType DEF Place
<1>3. QED
  BY <1>1, <1>2, NextNodeType, RunNodeType DEF AfterAppend

LEMMA CancelFoundType ==
  ASSUME NEW c \in Coroutine
  PROVE  CancelFound(c) \in Coroutine
<1>1. [c EXCEPT !.node = 0] \in Coroutine
  BY DEF Coroutine
<1>2. QED
  BY <1>1, ToAppendType DEF CancelFound, EventType, RunEvent, TerminalEvent

LEMMA CaughtType ==
  ASSUME NEW c \in Coroutine, c.level < 2
  PROVE  Caught(c) \in Coroutine
<1> DEFINE d == ToAppend(Idle, "run.failed")
<1>1. d \in Coroutine
  BY IdleType, ToAppendType DEF EventType, RunEvent, TerminalEvent
<1>2. Caught(c) = [d EXCEPT !.level = c.level + 1, !.node = EventNode(c)]
  BY DEF Caught
<1>3. c.level + 1 \in 0..2 /\ EventNode(c) \in Nat
  BY DEF EventNode, Coroutine
<1> HIDE DEF d
<1>4. QED
  BY <1>1, <1>2, <1>3 DEF Coroutine

LEMMA ResumeType ==
  ASSUME co \in [Procs -> [Runs -> Coroutine]],
         NEW p \in Procs, NEW r \in Runs, NEW c \in Coroutine,
         Resume(p, r, c)
  PROVE  co' \in [Procs -> [Runs -> Coroutine]]
BY DEF Resume

LEMMA SetBeatType ==
  ASSUME beat \in [Procs -> [Runs -> Nat]],
         NEW p \in Procs, NEW r \in Runs, NEW t \in Nat,
         SetBeat(p, r, t)
  PROVE  beat' \in [Procs -> [Runs -> Nat]]
BY DEF SetBeat

\* A process that dies leaves well-typed variables behind.
LEMMA DieType ==
  ASSUME TypeOK, NEW p \in Procs, NEW phase \in Phase, Die(p, phase), StoreTypeOK'
  PROVE  TypeOK'
<1>1. /\ proc' \in [Procs -> Phase]
      /\ orphans' \in [Procs -> SUBSET Runs]
      /\ http' \in [Procs -> Runs \cup {NoRun}]
      /\ now' \in Nat
  BY DEF Die, TypeOK
<1>2. /\ co' \in [Procs -> [Runs -> Coroutine]]
      /\ beat' \in [Procs -> [Runs -> Nat]]
  BY IdleType DEF Die, TypeOK
<1>3. QED
  BY <1>1, <1>2 DEF TypeOK

\* The shape of most steps: a coroutine moves on, the tables stay well typed,
\* and the other variables stay, but perhaps the heartbeat.
LEMMA CoStepType ==
  ASSUME TypeOK, StoreTypeOK', UNCHANGED Rest, beat' \in [Procs -> [Runs -> Nat]],
         NEW p \in Procs, NEW r \in Runs, NEW c \in Coroutine, Resume(p, r, c)
  PROVE  TypeOK'
<1>1. co' \in [Procs -> [Runs -> Coroutine]]
  BY ResumeType DEF TypeOK
<1>2. QED
  BY <1>1 DEF TypeOK, Rest

LEMMA TryClaimType ==
  ASSUME TypeOK, NEW p \in Procs, NEW r \in Runs, TryClaim(p, r)
  PROVE  StoreTypeOK' /\ co' \in [Procs -> [Runs -> Coroutine]]
<1>1. CASE AcquireClaim(p, r, now + ClaimTtl) /\ Resume(p, r, Goto(Idle, "load"))
  <2>1. now + ClaimTtl \in Nat
    BY ClaimTtlAssumption DEF TypeOK
  <2>2. StoreTypeOK'
    BY <1>1, <2>1, AcquireClaimType DEF TypeOK
  <2>3. Goto(Idle, "load") \in Coroutine
    BY IdleType, GotoType DEF Place
  <2>4. QED
    BY <1>1, <2>2, <2>3, ResumeType DEF TypeOK
<1>2. CASE Resume(p, r, Idle) /\ UNCHANGED tables
  BY <1>2, StoreUnchangedType, IdleType, ResumeType DEF TypeOK
<1>3. QED
  BY <1>1, <1>2 DEF TryClaim

LEMMA StatementType ==
  ASSUME TypeOK, NEW p \in Procs, NEW r \in Runs, Statement(p, r)
  PROVE  TypeOK'
<1>0. /\ co[p][r] \in Coroutine
      /\ co[p][r].ev \in EventType /\ co[p][r].seq \in Nat /\ co[p][r].node \in Nat
      /\ StoreTypeOK
      /\ beat \in [Procs -> [Runs -> Nat]]
      /\ now \in Nat
  BY DEF TypeOK, Coroutine
<1>1. CASE InsertRun(p, r)
  <2>1. StoreTypeOK'
    BY <1>0, <1>1, InsertRunRowType DEF InsertRun
  <2>2. Goto(Idle, IF Key[r] = NoKey THEN "claim" ELSE "remember") \in Coroutine
    BY IdleType, GotoType DEF Place
  <2>3. QED
    BY <1>0, <1>1, <2>1, <2>2, CoStepType DEF InsertRun
<1>2. CASE Remember(p, r)
  <2>1. CASE InsertIdempotency(Key[r], r) /\ idem[Key[r]] = NoRun /\ Resume(p, r, Goto(Idle, "claim"))
    <3>1. Goto(Idle, "claim") \in Coroutine
      BY IdleType, GotoType DEF Place
    <3>2. StoreTypeOK'
      BY <1>0, <2>1 DEF StoreTypeOK, InsertIdempotency, runRow
    <3>3. QED
      BY <1>0, <1>2, <2>1, <3>1, <3>2, CoStepType DEF Remember
  <2>2. CASE Resume(p, r, Idle) /\ UNCHANGED tables
    BY <1>0, <1>2, <2>2, IdleType, StoreUnchangedType, CoStepType DEF Remember
  <2>3. QED
    BY <1>2, <2>1, <2>2 DEF Remember
<1>3. CASE ClaimCreated(p, r)
  BY <1>3, TryClaimType DEF ClaimCreated, TypeOK, Rest
<1>4. CASE Load(p, r)
  <2>1. StoreTypeOK'
    BY <1>0, <1>4, StoreUnchangedType DEF Load
  <2>2. CASE Resume(p, r, Goto(co[p][r], "scan")) /\ SetBeat(p, r, now + HeartbeatInterval)
    <3>1. now + HeartbeatInterval \in Nat
      BY <1>0, HeartbeatAssumption
    <3>2. beat' \in [Procs -> [Runs -> Nat]]
      BY <1>0, <2>2, <3>1, SetBeatType
    <3>3. Goto(co[p][r], "scan") \in Coroutine
      BY <1>0, GotoType DEF Place
    <3>4. QED
      BY <1>4, <2>1, <2>2, <3>2, <3>3, CoStepType DEF Load
  <2>3. CASE /\ Resume(p, r, [ToAppend(co[p][r], "run.failed") EXCEPT !.level = 1])
             /\ UNCHANGED beat
    <3>1. ToAppend(co[p][r], "run.failed") \in Coroutine
      BY <1>0, ToAppendType DEF EventType, RunEvent, TerminalEvent
    <3>2. [ToAppend(co[p][r], "run.failed") EXCEPT !.level = 1] \in Coroutine
      BY <3>1 DEF Coroutine
    <3>3. QED
      BY <1>0, <1>4, <2>1, <2>3, <3>2, CoStepType DEF Load
  <2>4. QED
    BY <1>4, <2>2, <2>3 DEF Load
<1>5. CASE Scan(p, r)
  <2> DEFINE first == IF Logged(r, "run.started") THEN "run.resumed" ELSE "run.started"
  <2>1. StoreTypeOK'
    BY <1>0, <1>5, StoreUnchangedType DEF Scan
  <2>2. first \in EventType
    BY DEF EventType, RunEvent
  <2>3. [co[p][r] EXCEPT !.ev = first] \in Coroutine
    BY <1>0, <2>2 DEF Coroutine
  <2>4. Goto([co[p][r] EXCEPT !.ev = first], "markRunning") \in Coroutine
    BY <2>3, GotoType DEF Place
  <2>5. QED
    BY <1>0, <1>5, <2>1, <2>4, CoStepType DEF Scan
<1>6. CASE MarkRunning(p, r)
  <2>1. StoreTypeOK'
    BY <1>0, <1>6, UpdateRunStatusType DEF MarkRunning, Status, Resumable
  <2>2. Goto(co[p][r], "count") \in Coroutine
    BY <1>0, GotoType DEF Place
  <2>3. QED
    BY <1>0, <1>6, <2>1, <2>2, CoStepType DEF MarkRunning
<1>7. CASE CheckLoop(p, r) \/ CheckNode(p, r) \/ CheckFinal(p, r)
  <2>1. StoreTypeOK'
    BY <1>0, <1>7, StoreUnchangedType DEF CheckLoop, CheckNode, CheckFinal
  <2>2. Goto(co[p][r], "node") \in Coroutine
    BY <1>0, GotoType DEF Place
  <2>3. /\ CancelFound(co[p][r]) \in Coroutine
        /\ ToAppend(co[p][r], "run.cancelled") \in Coroutine
        /\ ToAppend(co[p][r], "node.cancelled") \in Coroutine
        /\ ToAppend(co[p][r], "node.started") \in Coroutine
        /\ ToAppend(co[p][r], "run.completed") \in Coroutine
    BY <1>0, CancelFoundType, ToAppendType DEF EventType, RunEvent, NodeEvent, TerminalEvent
  <2>4. CASE CheckLoop(p, r)
    BY <1>0, <2>1, <2>2, <2>3, <2>4, CoStepType DEF CheckLoop
  <2>5. CASE CheckNode(p, r)
    BY <1>0, <2>1, <2>3, <2>5, CoStepType DEF CheckNode
  <2>6. CASE CheckFinal(p, r)
    BY <1>0, <2>1, <2>3, <2>6, CoStepType DEF CheckFinal
  <2>7. QED
    BY <1>7, <2>4, <2>5, <2>6
<1>8. CASE Count(p, r)
  <2>1. StoreTypeOK'
    BY <1>0, <1>8, StoreUnchangedType DEF Count
  <2>2. CountEvents(r) \in Nat
    BY <1>0, CountEventsType
  <2>3. [co[p][r] EXCEPT !.seq = CountEvents(r)] \in Coroutine
    BY <1>0, <2>2 DEF Coroutine
  <2>4. Goto([co[p][r] EXCEPT !.seq = CountEvents(r)], "insert") \in Coroutine
    BY <2>3, GotoType DEF Place
  <2>5. QED
    BY <1>0, <1>8, <2>1, <2>4, CoStepType DEF Count
<1>9. CASE Insert(p, r)
  <2> DEFINE row == [type |-> co[p][r].ev, node |-> EventNode(co[p][r])]
  <2>1. row \in Row
    BY <1>0 DEF Row, EventNode
  <2>2. StoreTypeOK'
    BY <1>0, <1>9, <2>1, InsertEventType DEF Insert
  <2>3. [co[p][r] EXCEPT !.seq = 0] \in Coroutine
    BY <1>0 DEF Coroutine
  <2>4. AfterAppend(r, [co[p][r] EXCEPT !.seq = 0]) \in Coroutine
    BY <2>3, AfterAppendType
  <2>5. QED
    BY <1>0, <1>9, <2>2, <2>4, CoStepType DEF Insert
<1>10. CASE InsertThrows(p, r)
  <2>1. StoreTypeOK'
    BY <1>0, <1>10, StoreUnchangedType DEF InsertThrows
  <2>4. Caught(co[p][r]) \in Coroutine
    BY <1>0, <1>10, CaughtType DEF InsertThrows
  <2>5. (IF co[p][r].level = 1 THEN 0 ELSE beat[p][r]) \in Nat
    BY <1>0
  <2>6. beat' \in [Procs -> [Runs -> Nat]]
    BY <1>0, <1>10, <2>5, SetBeatType DEF InsertThrows
  <2>7. QED
    BY <1>10, <2>1, <2>4, <2>6, CoStepType DEF InsertThrows
<1>11. CASE UnhandledRejection(p, r)
  BY <1>0, <1>11, StoreUnchangedType, DieType DEF UnhandledRejection, Phase
<1>12. CASE SetTerminal(p, r)
  <2>1. StatusOf(co[p][r].ev) \in Status
    BY DEF StatusOf, Status, Terminal
  <2>2. StoreTypeOK'
    BY <1>0, <1>12, <2>1, UpdateRunStatusType DEF SetTerminal
  <2>3. Goto(co[p][r], "release") \in Coroutine
    BY <1>0, GotoType DEF Place
  <2>4. QED
    BY <1>0, <1>12, <2>2, <2>3, CoStepType DEF SetTerminal
<1>13. CASE Release(p, r)
  <2>1. StoreTypeOK'
    BY <1>0, <1>13, ReleaseClaimType DEF Release
  <2>2. beat' \in [Procs -> [Runs -> Nat]]
    BY <1>0, <1>13, SetBeatType DEF Release
  <2>3. QED
    BY <1>13, <2>1, <2>2, IdleType, CoStepType DEF Release
<1>14. QED
  BY <1>1, <1>2, <1>3, <1>4, <1>5, <1>6, <1>7, <1>8, <1>9, <1>10, <1>11, <1>12, <1>13
     DEF Statement

LEMMA MacrotaskType ==
  ASSUME TypeOK, NEW p \in Procs, NEW r \in Runs,
         \/ CreateRun(p, r) \/ CancelRequest(p, r) \/ CancelUpdate(p, r)
         \/ Wake(p, r) \/ Heartbeat(p, r) \/ ResumeOrphan(p, r)
  PROVE  TypeOK'
<1>0. /\ co[p][r] \in Coroutine
      /\ StoreTypeOK
      /\ beat \in [Procs -> [Runs -> Nat]]
      /\ co \in [Procs -> [Runs -> Coroutine]]
      /\ now \in Nat
  BY DEF TypeOK
<1>1. CASE CreateRun(p, r)
  <2>1. Goto(Idle, "insertRun") \in Coroutine
    BY IdleType, GotoType DEF Place
  <2>2. StoreTypeOK'
    BY <1>0, <1>1, StoreUnchangedType DEF CreateRun
  <2>3. QED
    BY <1>0, <1>1, <2>1, <2>2, CoStepType DEF CreateRun
<1>2. CASE CancelRequest(p, r)
  <2>1. StoreTypeOK'
    BY <1>0, <1>2, StoreUnchangedType DEF CancelRequest
  <2>2. QED
    BY <1>2, <2>1 DEF CancelRequest, TypeOK
<1>3. CASE CancelUpdate(p, r)
  <2>1. StoreTypeOK'
    BY <1>0, <1>3, SetCancelRequestedType DEF CancelUpdate
  <2>2. ToAppend(co[p][r], "node.cancelled") \in Coroutine
    BY <1>0, ToAppendType DEF EventType, NodeEvent
  <2>3. co' \in [Procs -> [Runs -> Coroutine]]
    BY <1>0, <1>3, <2>2, ResumeType DEF CancelUpdate
  <2>4. QED
    BY <1>3, <2>1, <2>3 DEF CancelUpdate, TypeOK
<1>4. CASE Wake(p, r)
  <2>1. StoreTypeOK'
    BY <1>0, <1>4, StoreUnchangedType DEF Wake
  <2>2. ToAppend(co[p][r], "node.completed") \in Coroutine
    BY <1>0, ToAppendType DEF EventType, NodeEvent
  <2>3. QED
    BY <1>0, <1>4, <2>1, <2>2, CoStepType DEF Wake
<1>5. CASE Heartbeat(p, r)
  <2>1. now + ClaimTtl \in Nat /\ now + HeartbeatInterval \in Nat
    BY <1>0, ClaimTtlAssumption, HeartbeatAssumption
  <2>2. StoreTypeOK'
    BY <1>0, <1>5, <2>1, RenewClaimType DEF Heartbeat
  <2>3. beat' \in [Procs -> [Runs -> Nat]]
    BY <1>0, <1>5, <2>1, SetBeatType DEF Heartbeat
  <2>4. QED
    BY <1>5, <2>2, <2>3 DEF Heartbeat, TypeOK, Rest
<1>6. CASE ResumeOrphan(p, r)
  BY <1>6, TryClaimType DEF ResumeOrphan, TypeOK
<1>7. QED
  BY <1>1, <1>2, <1>3, <1>4, <1>5, <1>6

LEMMA ProcStepType ==
  ASSUME TypeOK, NEW p \in Procs, ProcStep(p)
  PROVE  TypeOK'
<1>0. StoreTypeOK
  BY DEF TypeOK
<1>1. CASE Start(p)
  <2>1. StoreTypeOK'
    BY <1>0, <1>1, StoreUnchangedType DEF Start
  <2>2. QED
    BY <1>1, <2>1 DEF Start, TypeOK, OrphanRuns, Phase
<1>2. CASE Listen(p)
  <2>1. StoreTypeOK'
    BY <1>0, <1>2, StoreUnchangedType DEF Listen
  <2>2. QED
    BY <1>2, <2>1 DEF Listen, TypeOK, Phase
<1>3. CASE Shutdown(p)
  BY <1>0, <1>3, ReleaseAllClaimsType, DieType DEF Shutdown, Phase
<1>4. CASE Crash(p)
  BY <1>0, <1>4, StoreUnchangedType, DieType DEF Crash, Phase
<1>5. QED
  BY <1>1, <1>2, <1>3, <1>4 DEF ProcStep

\* The database starts empty and no process has been started.
LEMMA InitTypes == Init => TypeOK
<1>1. SUFFICES ASSUME Init PROVE TypeOK
  OBVIOUS
<1>2. StoreTypeOK
  BY <1>1, FS_EmptySet DEF Init, StoreInit, StoreTypeOK, Status
<1>3. QED
  BY <1>1, <1>2, IdleType DEF Init, TypeOK, Phase

\* Every variable keeps its type, whatever the schedule.
THEOREM TypeCorrect == Spec => []TypeOK
<1>1. Init => TypeOK
  BY InitTypes
<1>2. TypeOK /\ [Next]_vars => TypeOK'
  <2>1. SUFFICES ASSUME TypeOK, [Next]_vars PROVE TypeOK'
    OBVIOUS
  <2>2. CASE \E p \in Procs : ProcStep(p)
    BY <2>1, <2>2, ProcStepType
  <2>3. CASE \E p \in Procs, r \in Runs : RunStep(p, r)
    BY <2>1, <2>3, StatementType, MacrotaskType DEF RunStep
  <2>4. CASE Tick
    <3>1. StoreTypeOK'
      BY <2>1, <2>4, StoreUnchangedType DEF Tick, TypeOK
    <3>2. QED
      BY <2>1, <2>4, <3>1 DEF Tick, TypeOK
  <2>5. CASE UNCHANGED vars
    <3>1. StoreTypeOK'
      BY <2>1, <2>5, StoreUnchangedType DEF vars, TypeOK
    <3>2. QED
      BY <2>1, <2>5, <3>1 DEF vars, TypeOK
  <2>6. QED
    BY <2>1, <2>2, <2>3, <2>4, <2>5 DEF Next
<1>3. QED
  BY <1>1, <1>2, PTL DEF Spec

-----------------------------------------------------------------------------
(* What a step does to coroutines and to the log. *)

LEMMA GotoFields ==
  ASSUME NEW c \in Coroutine, NEW place \in Place
  PROVE  /\ Goto(c, place).at = place
         /\ Goto(c, place).ev = c.ev
         /\ Goto(c, place).seq = c.seq
         /\ Goto(c, place).level = c.level
BY DEF Goto, Coroutine

LEMMA ToAppendFields ==
  ASSUME NEW c \in Coroutine, NEW ev \in EventType
  PROVE  /\ ToAppend(c, ev).at = "count"
         /\ ToAppend(c, ev).ev = ev
         /\ ToAppend(c, ev).level = c.level
<1> DEFINE d == [c EXCEPT !.ev = ev]
<1>1. d \in Coroutine /\ d.ev = ev /\ d.level = c.level
  BY DEF Coroutine
<1>2. ToAppend(c, ev) = Goto(d, "count")
  BY DEF ToAppend
<1> HIDE DEF d
<1>3. QED
  BY <1>1, <1>2, GotoFields DEF Place

LEMMA CancelFoundFields ==
  ASSUME NEW c \in Coroutine
  PROVE  /\ CancelFound(c).at = "count"
         /\ CancelFound(c).ev = "run.cancelled"
         /\ CancelFound(c).level = c.level
<1> DEFINE d == [c EXCEPT !.node = 0]
<1>1. d \in Coroutine /\ d.level = c.level
  BY DEF Coroutine
<1>2. CancelFound(c) = ToAppend(d, "run.cancelled")
  BY DEF CancelFound
<1> HIDE DEF d
<1>3. QED
  BY <1>1, <1>2, ToAppendFields DEF EventType, RunEvent, TerminalEvent

LEMMA CaughtFields ==
  ASSUME NEW c \in Coroutine
  PROVE  /\ Caught(c).at = "count"
         /\ Caught(c).ev = "run.failed"
         /\ Caught(c).level = c.level + 1
<1> DEFINE d == ToAppend(Idle, "run.failed")
<1>1. d \in Coroutine /\ d.at = "count" /\ d.ev = "run.failed"
  BY IdleType, ToAppendType, ToAppendFields DEF EventType, RunEvent, TerminalEvent
<1>2. Caught(c) = [d EXCEPT !.level = c.level + 1, !.node = EventNode(c)]
  BY DEF Caught
<1> HIDE DEF d
<1>3. QED
  BY <1>1, <1>2 DEF Coroutine

LEMMA NextNodeFields ==
  ASSUME NEW c \in Coroutine, NEW r \in Runs
  PROVE  /\ NextNode(r, c).at \in {"loop", "final"}
         /\ NextNode(r, c).level = c.level
<1> DEFINE d == [c EXCEPT !.node = c.node + 1]
           e == [c EXCEPT !.node = 0]
<1>1. d \in Coroutine /\ d.level = c.level /\ e \in Coroutine /\ e.level = c.level
  BY DEF Coroutine
<1>2. NextNode(r, c) = Goto(d, "loop") \/ NextNode(r, c) = Goto(e, "final")
  BY DEF NextNode
<1> HIDE DEF d, e
<1>3. QED
  BY <1>1, <1>2, GotoFields DEF Place

\* After an append a coroutine never stands at an INSERT: it counts again first.
LEMMA AfterAppendFields ==
  ASSUME NEW c \in Coroutine, NEW r \in Runs
  PROVE  /\ AfterAppend(r, c).at \in {"loop", "final", "count", "sleep", "terminal"}
         /\ AfterAppend(r, c).level = c.level
         /\ c.ev \in TerminalEvent => AfterAppend(r, c) = Goto(c, "terminal")
<1>1. \A ev \in {"run.cancelled", "run.failed", "node.completed", "node.failed"} :
        ToAppend(c, ev).at = "count" /\ ToAppend(c, ev).level = c.level
  BY ToAppendFields DEF EventType, RunEvent, NodeEvent, TerminalEvent
<1>2. \A place \in {"sleep", "terminal"} :
        Goto(c, place).at = place /\ Goto(c, place).level = c.level
  BY GotoFields DEF Place
<1>3. /\ RunNode(r, c).at \in {"count", "sleep"}
      /\ RunNode(r, c).level = c.level
  BY <1>1, <1>2 DEF RunNode
<1>4. c.ev \in TerminalEvent => AfterAppend(r, c) = Goto(c, "terminal")
  BY DEF AfterAppend, TerminalEvent
<1>5. QED
  BY <1>1, <1>2, <1>3, <1>4, NextNodeFields DEF AfterAppend

LEMMA ResumeEffect ==
  ASSUME TypeOK, NEW p \in Procs, NEW r \in Runs, NEW c, Resume(p, r, c)
  PROVE  /\ co'[p][r] = c
         /\ \A q \in Procs, s \in Runs : q # p \/ s # r => co'[q][s] = co[q][s]
BY DEF Resume, TypeOK

\* The only step that changes the log is the INSERT of appendEvent.
LEMMA EventsStep ==
  ASSUME [Next]_vars
  PROVE  UNCHANGED events \/ \E p \in Procs, r \in Runs : Insert(p, r)
<1>1. ASSUME NEW p \in Procs, NEW r \in Runs, Statement(p, r)
      PROVE  UNCHANGED events \/ Insert(p, r)
  BY <1>1
     DEF Statement, InsertRun, Remember, ClaimCreated, Load, Scan, MarkRunning, CheckLoop,
         CheckNode, CheckFinal, Count, InsertThrows, UnhandledRejection, SetTerminal, Release,
         TryClaim, tables, runRow, InsertRunRow, InsertIdempotency, AcquireClaim,
         UpdateRunStatus, ReleaseClaim
<1>2. ASSUME NEW p \in Procs, NEW r \in Runs, RunStep(p, r)
      PROVE  UNCHANGED events \/ Insert(p, r)
  BY <1>1, <1>2
     DEF RunStep, CreateRun, CancelRequest, CancelUpdate, Wake, Heartbeat, ResumeOrphan,
         TryClaim, tables, runRow, SetCancelRequested, RenewClaim, AcquireClaim
<1>3. ASSUME NEW p \in Procs, ProcStep(p)
      PROVE  UNCHANGED events
  BY <1>3 DEF ProcStep, Start, Listen, Shutdown, Crash, ReleaseAllClaims, tables
<1>4. QED
  BY <1>2, <1>3 DEF Next, Tick, vars, tables

LEMMA DieEffect ==
  ASSUME TypeOK, NEW p \in Procs, NEW phase, Die(p, phase)
  PROVE  /\ \A s \in Runs : co'[p][s] = Idle
         /\ \A q \in Procs : q # p => co'[q] = co[q]
BY DEF Die, TypeOK

LEMMA IdleAt == Idle.at = "idle" /\ Idle.level = 0
BY DEF Idle

\* The only step that brings a coroutine to an INSERT is the COUNT before it.
LEMMA StatementInsert ==
  ASSUME TypeOK, NEW p \in Procs, NEW r \in Runs, Statement(p, r),
         NEW q \in Procs, NEW s \in Runs, co'[q][s].at = "insert"
  PROVE  \/ co'[q][s] = co[q][s]
         \/ UNCHANGED events /\ co'[q][s].seq = CountEvents(s)
<1>0. co[p][r] \in Coroutine
  BY DEF TypeOK
<1>1. CASE InsertRun(p, r)
  BY <1>1, IdleType, GotoFields, ResumeEffect DEF InsertRun, Place
<1>2. CASE Remember(p, r)
  BY <1>2, IdleType, IdleAt, GotoFields, ResumeEffect DEF Remember, Place
<1>3. CASE ClaimCreated(p, r)
  BY <1>3, IdleType, IdleAt, GotoFields, ResumeEffect DEF ClaimCreated, TryClaim, Place
<1>4. CASE Load(p, r)
  <2> DEFINE d == ToAppend(co[p][r], "run.failed")
             e == [d EXCEPT !.level = 1]
  <2>1. d \in Coroutine /\ d.at = "count"
    BY <1>0, ToAppendType, ToAppendFields DEF EventType, RunEvent, TerminalEvent
  <2>2. e.at = d.at
    BY <2>1 DEF Coroutine
  <2>3. Resume(p, r, Goto(co[p][r], "scan")) \/ Resume(p, r, e)
    BY <1>4 DEF Load
  <2> HIDE DEF d, e
  <2>4. QED
    BY <1>0, <2>1, <2>2, <2>3, GotoFields, ResumeEffect DEF Place
<1>5. CASE Scan(p, r)
  <2> DEFINE first == IF Logged(r, "run.started") THEN "run.resumed" ELSE "run.started"
             d == [co[p][r] EXCEPT !.ev = first]
  <2>1. first \in EventType
    BY DEF EventType, RunEvent
  <2>2. d \in Coroutine
    BY <1>0, <2>1 DEF Coroutine
  <2>3. Resume(p, r, Goto(d, "markRunning"))
    BY <1>5 DEF Scan
  <2> HIDE DEF d
  <2>4. QED
    BY <2>2, <2>3, GotoFields, ResumeEffect DEF Place
<1>6. CASE MarkRunning(p, r)
  BY <1>0, <1>6, GotoFields, ResumeEffect DEF MarkRunning, Place
<1>7. CASE CheckLoop(p, r) \/ CheckNode(p, r) \/ CheckFinal(p, r)
  <2>1. /\ CancelFound(co[p][r]).at = "count"
        /\ \A ev \in {"run.cancelled", "node.cancelled", "node.started", "run.completed"} :
             ToAppend(co[p][r], ev).at = "count"
    BY <1>0, CancelFoundFields, ToAppendFields DEF EventType, RunEvent, NodeEvent, TerminalEvent
  <2>2. Goto(co[p][r], "node").at = "node"
    BY <1>0, GotoFields DEF Place
  <2>3. QED
    BY <1>7, <2>1, <2>2, ResumeEffect DEF CheckLoop, CheckNode, CheckFinal
<1>8. CASE Count(p, r)
  <2> DEFINE d == [co[p][r] EXCEPT !.seq = CountEvents(r)]
  <2>1. CountEvents(r) \in Nat
    BY CountEventsType DEF TypeOK
  <2>2. d \in Coroutine /\ d.seq = CountEvents(r)
    BY <1>0, <2>1 DEF Coroutine
  <2>3. Resume(p, r, Goto(d, "insert")) /\ UNCHANGED events
    BY <1>8 DEF Count, tables
  <2> HIDE DEF d
  <2>4. QED
    BY <2>2, <2>3, GotoFields, ResumeEffect DEF Place
<1>9. CASE Insert(p, r)
  <2> DEFINE d == [co[p][r] EXCEPT !.seq = 0]
  <2>1. d \in Coroutine
    BY <1>0 DEF Coroutine
  <2>2. Resume(p, r, AfterAppend(r, d))
    BY <1>9 DEF Insert
  <2> HIDE DEF d
  <2>3. QED
    BY <2>1, <2>2, AfterAppendFields, ResumeEffect
<1>10. CASE InsertThrows(p, r)
  BY <1>0, <1>10, CaughtFields, ResumeEffect DEF InsertThrows
<1>11. CASE UnhandledRejection(p, r)
  BY <1>11, IdleAt, DieEffect DEF UnhandledRejection
<1>12. CASE SetTerminal(p, r)
  BY <1>0, <1>12, GotoFields, ResumeEffect DEF SetTerminal, Place
<1>13. CASE Release(p, r)
  BY <1>13, IdleAt, ResumeEffect DEF Release
<1>14. QED
  BY <1>1, <1>2, <1>3, <1>4, <1>5, <1>6, <1>7, <1>8, <1>9, <1>10, <1>11, <1>12, <1>13
     DEF Statement

LEMMA StepInsert ==
  ASSUME TypeOK, [Next]_vars,
         NEW q \in Procs, NEW s \in Runs, co'[q][s].at = "insert"
  PROVE  \/ co'[q][s] = co[q][s]
         \/ UNCHANGED events /\ co'[q][s].seq = CountEvents(s)
<1>0. \A p \in Procs, r \in Runs : co[p][r] \in Coroutine
  BY DEF TypeOK
<1>1. ASSUME NEW p \in Procs, NEW r \in Runs, RunStep(p, r), ~Statement(p, r)
      PROVE  co'[q][s] = co[q][s]
  <2>1. \A ev \in {"node.cancelled", "node.completed"} : ToAppend(co[p][r], ev).at = "count"
    BY <1>0, ToAppendFields DEF EventType, NodeEvent
  <2>2. CASE CreateRun(p, r)
    BY <2>2, IdleType, GotoFields, ResumeEffect DEF CreateRun, Place
  <2>3. CASE CancelRequest(p, r) \/ Heartbeat(p, r)
    BY <2>3 DEF CancelRequest, Heartbeat
  <2>4. CASE CancelUpdate(p, r) \/ Wake(p, r)
    BY <2>1, <2>4, ResumeEffect DEF CancelUpdate, Wake
  <2>5. CASE ResumeOrphan(p, r)
    BY <2>5, IdleType, IdleAt, GotoFields, ResumeEffect DEF ResumeOrphan, TryClaim, Place
  <2>6. QED
    BY <1>1, <2>2, <2>3, <2>4, <2>5 DEF RunStep
<1>2. ASSUME NEW p \in Procs, ProcStep(p)
      PROVE  co'[q][s] = co[q][s]
  BY <1>2, IdleAt, DieEffect DEF ProcStep, Start, Listen, Shutdown, Crash
<1>3. CASE Tick \/ UNCHANGED vars
  BY <1>3 DEF Tick, vars
<1>4. QED
  BY <1>1, <1>2, <1>3, StatementInsert DEF Next

-----------------------------------------------------------------------------
(* The event log, under any schedule. *)

\* A seq that was counted can be overtaken by other processes but is never ahead
\* of the log; with it, LogContiguous is inductive.
CountedSeqs ==
  \A p \in Procs, r \in Runs : At(p, r, "insert") => co[p][r].seq <= CountEvents(r)

LogInv == TypeOK /\ LogContiguous /\ CountedSeqs

LEMMA LogInvInit == Init => LogContiguous /\ CountedSeqs
<1>1. SUFFICES ASSUME Init PROVE LogContiguous /\ CountedSeqs
  OBVIOUS
<1>2. \A r \in Runs : DOMAIN events[r] = {}
  BY <1>1 DEF Init, StoreInit
<1>3. \A r \in Runs : CountEvents(r) = 0
  BY <1>2, FS_EmptySet DEF CountEvents
<1>4. \A p \in Procs, r \in Runs : co[p][r].at = "idle"
  BY <1>1, IdleAt DEF Init
<1>5. QED
  BY <1>2, <1>3, <1>4 DEF LogContiguous, CountedSeqs, At

LEMMA LogInvStep ==
  ASSUME LogInv, [Next]_vars
  PROVE  LogContiguous' /\ CountedSeqs'
<1>0. TypeOK /\ StoreTypeOK
  BY DEF LogInv, TypeOK
<1>1. CASE UNCHANGED events
  <2>1. \A r \in Runs : CountEvents(r)' = CountEvents(r)
    BY <1>1 DEF CountEvents
  <2>2. LogContiguous'
    BY <1>1, <2>1 DEF LogInv, LogContiguous
  <2>3. ASSUME NEW p \in Procs, NEW r \in Runs, co'[p][r].at = "insert"
        PROVE  co'[p][r].seq <= CountEvents(r)'
    <3>1. CountEvents(r) \in Nat
      BY <1>0, CountEventsType
    <3>2. co'[p][r] = co[p][r] \/ co'[p][r].seq = CountEvents(r)
      BY <1>0, <2>3, StepInsert
    <3>3. QED
      BY <2>1, <2>3, <3>1, <3>2 DEF LogInv, CountedSeqs, At
  <2>4. QED
    BY <2>2, <2>3 DEF CountedSeqs, At
<1>2. ASSUME NEW p \in Procs, NEW r \in Runs, Insert(p, r)
      PROVE  LogContiguous' /\ CountedSeqs'
  <2> DEFINE seq == co[p][r].seq
             row == [type |-> co[p][r].ev, node |-> EventNode(co[p][r])]
  <2>1. seq \in Nat /\ row \in Row
    BY <1>0 DEF TypeOK, Coroutine, Row, EventNode
  <2>2. /\ InsertEvent(r, seq, row)
        /\ ~KeyTaken(r, seq)
        /\ seq <= CountEvents(r)
        /\ DOMAIN events[r] = 0 .. (CountEvents(r) - 1)
    BY <1>2 DEF Insert, LogInv, LogContiguous, CountedSeqs
  <2>3. /\ DOMAIN events'[r] = 0 .. (CountEvents(r)' - 1)
        /\ CountEvents(r)' = CountEvents(r) + 1
        /\ \A q \in Runs : q # r => events'[q] = events[q]
    BY <1>0, <2>1, <2>2, InsertKeepsContiguous, InsertEventEffect
  <2>4. \A q \in Runs : q # r => CountEvents(q)' = CountEvents(q)
    BY <2>3 DEF CountEvents
  <2>5. LogContiguous'
    BY <2>3, <2>4 DEF LogInv, LogContiguous
  <2>6. ASSUME NEW q \in Procs, NEW s \in Runs, co'[q][s].at = "insert"
        PROVE  co'[q][s].seq <= CountEvents(s)'
    <3>1. CountEvents(s) \in Nat /\ CountEvents(s) <= CountEvents(s)'
      BY <1>0, <2>3, <2>4, CountEventsType
    <3>2. co'[q][s] = co[q][s] \/ co'[q][s].seq = CountEvents(s)
      BY <1>0, <2>6, StepInsert
    <3>3. co[q][s].seq \in Nat
      BY <1>0 DEF TypeOK, Coroutine
    <3>4. co'[q][s].seq <= CountEvents(s) /\ co'[q][s].seq \in Nat
      BY <2>6, <3>1, <3>2, <3>3 DEF LogInv, CountedSeqs, At
    <3>5. CountEvents(s)' \in Nat
      BY <2>3, <2>4, <3>1
    <3>6. QED
      BY <3>1, <3>4, <3>5
  <2>7. QED
    BY <2>5, <2>6 DEF CountedSeqs, At
<1>3. QED
  BY <1>1, <1>2, EventsStep

\* The seqs of every run are 0, 1, 2, ... however many processes append to its
\* log, and whichever of them crash, stall or have lost their claim.
THEOREM LogIsContiguous == Spec => []LogContiguous
<1>1. Init => LogContiguous /\ CountedSeqs
  BY LogInvInit
<1>2. LogInv /\ [Next]_vars => (LogContiguous /\ CountedSeqs)'
  BY LogInvStep
<1>3. QED
  BY <1>1, <1>2, TypeCorrect, PTL DEF Spec, LogInv

\* No event that was stored is ever lost or rewritten, under the same conditions.
THEOREM LogIsAppendOnly == Spec => LogAppendOnly
<1> DEFINE Kept == \A r \in Runs : \A s \in DOMAIN events[r] :
                     s \in DOMAIN events'[r] /\ events'[r][s] = events[r][s]
<1>1. ASSUME TypeOK, [Next]_vars
      PROVE  [Kept]_events
  <2>1. ASSUME NEW p \in Procs, NEW r \in Runs, Insert(p, r)
        PROVE  Kept
    <3> DEFINE seq == co[p][r].seq
               row == [type |-> co[p][r].ev, node |-> EventNode(co[p][r])]
    <3>1. StoreTypeOK /\ seq \in Nat /\ row \in Row
      BY <1>1 DEF TypeOK, Coroutine, Row, EventNode
    <3>2. InsertEvent(r, seq, row) /\ seq \notin DOMAIN events[r]
      BY <2>1 DEF Insert, KeyTaken
    <3>3. /\ DOMAIN events'[r] = DOMAIN events[r] \cup {seq}
          /\ \A s \in DOMAIN events[r] : s # seq => events'[r][s] = events[r][s]
          /\ \A q \in Runs : q # r => events'[q] = events[q]
      BY <3>1, <3>2, InsertEventEffect
    <3>4. QED
      BY <3>2, <3>3
  <2>2. QED
    BY <1>1, <2>1, EventsStep
<1>2. QED
  BY <1>1, TypeCorrect, PTL DEF Spec, LogAppendOnly

-----------------------------------------------------------------------------
(* Mutual exclusion, when no process stalls and a heartbeat fits in a claim. *)

\* What a lease depends on.
LEMMA LeaseFrame ==
  ASSUME NEW q \in Procs, NEW s \in Runs, Lease(q, s),
         co'[q][s] = co[q][s], beat'[q][s] = beat[q][s],
         Executing(q, s) => holder'[s] = holder[s] /\ expires'[s] = expires[s],
         now' = now, Live(q) => Live(q)'
  PROVE  Lease(q, s)'
BY DEF Lease, At, Executing

\* A coroutine at "idle", "insertRun", "remember" or "claim" needs no lease.
LEMMA LeaseNotExecuting ==
  ASSUME NEW p \in Procs, NEW r \in Runs, ~Executing(p, r)', At(p, r, "idle")' \/ Live(p)'
  PROVE  Lease(p, r)'
BY DEF Lease, At, Executing

\* A step of runWorkflow that keeps the level, the claim and the heartbeat.
LEMMA LeaseMove ==
  ASSUME NEW p \in Procs, NEW r \in Runs, Lease(p, r),
         Executing(p, r), ~At(p, r, "load"), ~At(p, r, "load")', Executing(p, r)',
         co'[p][r].level = co[p][r].level,
         co[p][r].level # 0 => /\ co'[p][r].at \in {"count", "insert", "terminal", "release"}
                               /\ co'[p][r].ev \in TerminalEvent,
         beat'[p][r] = beat[p][r], holder'[r] = holder[r], expires'[r] = expires[r],
         now' = now, proc' = proc
  PROVE  Lease(p, r)'
BY DEF Lease, At, Executing, Live

\* A run that someone executes cannot be claimed.
LEMMA NotClaimable ==
  ASSUME TypeOK, LeaseHeld, NEW q \in Procs, NEW r \in Runs, Executing(q, r)
  PROVE  ~Claimable(r, now)
<1>1. holder[r] = q /\ expires[r] >= now
  BY DEF LeaseHeld, Lease
<1>2. q # NoHolder
  BY NoHolderAssumption
<1>3. now \in Nat /\ expires[r] \in Nat
  BY DEF TypeOK, StoreTypeOK
<1>4. QED
  BY <1>1, <1>2, <1>3 DEF Claimable, Lapsed

LEMMA TryClaimLease ==
  ASSUME TypeOK, LeaseHeld, NEW p \in Procs, NEW r \in Runs, TryClaim(p, r),
         Live(p), Live(p)', UNCHANGED <<now, beat>>, \A q \in Procs : Live(q) => Live(q)',
         NEW q \in Procs, NEW s \in Runs
  PROVE  Lease(q, s)'
<1>1. Lease(q, s)
  BY DEF LeaseHeld
<1>2. CASE q # p \/ s # r
  <2>1. co'[q][s] = co[q][s]
    BY <1>2, ResumeEffect DEF TryClaim
  <2>2. Executing(q, s) => holder'[s] = holder[s] /\ expires'[s] = expires[s]
    <3>1. CASE Claimable(r, now)
      <4>1. /\ holder' = [holder EXCEPT ![r] = p]
            /\ expires' = [expires EXCEPT ![r] = now + ClaimTtl]
        BY <3>1 DEF TryClaim, AcquireClaim
      <4>2. Executing(q, s) => s # r
        BY <3>1, NotClaimable
      <4>3. QED
        BY <4>1, <4>2 DEF TypeOK, StoreTypeOK
    <3>2. CASE ~Claimable(r, now)
      BY <3>2 DEF TryClaim, tables, runRow
    <3>3. QED
      BY <3>1, <3>2
  <2>3. QED
    BY <1>1, <2>1, <2>2, LeaseFrame
<1>3. CASE q = p /\ s = r /\ Claimable(r, now)
  <2>1. /\ holder' = [holder EXCEPT ![r] = p]
        /\ expires' = [expires EXCEPT ![r] = now + ClaimTtl]
        /\ co'[p][r] = Goto(Idle, "load")
    BY <1>3, ResumeEffect DEF TryClaim, AcquireClaim
  <2>2. co'[p][r].at = "load" /\ co'[p][r].level = 0
    BY <2>1, IdleType, IdleAt, GotoFields DEF Place
  <2>3. holder'[r] = p /\ expires'[r] = now + ClaimTtl
    BY <2>1 DEF TypeOK, StoreTypeOK
  <2>4. now \in Nat /\ ClaimTtl \in Nat
    BY ClaimTtlAssumption DEF TypeOK
  <2>5. QED
    BY <1>3, <2>2, <2>3, <2>4 DEF Lease, At, Executing
<1>4. CASE q = p /\ s = r /\ ~Claimable(r, now)
  <2>1. co'[p][r].at = "idle"
    BY <1>4, IdleAt, ResumeEffect DEF TryClaim
  <2>2. QED
    BY <1>4, <2>1 DEF Lease, At, Executing
<1>5. QED
  BY <1>2, <1>3, <1>4

\* The step of runWorkflow at one statement, seen from the coroutine itself.
LEMMA LeaseOwnStatement ==
  ASSUME TypeOK, LeaseHeld, HeartbeatInterval <= ClaimTtl,
         NEW p \in Procs, NEW r \in Runs, Statement(p, r), ~ClaimCreated(p, r)
  PROVE  Lease(p, r)'
<1>0. co[p][r] \in Coroutine /\ Lease(p, r) /\ now \in Nat /\ expires[r] \in Nat
  BY DEF TypeOK, LeaseHeld, StoreTypeOK
<1>1. CASE InsertRun(p, r) \/ Remember(p, r)
  <2>1. \A place \in {"claim", "remember"} : Goto(Idle, place).at = place
    BY IdleType, GotoFields DEF Place
  <2>2. co'[p][r].at \in {"idle", "claim", "remember"} /\ proc' = proc
    BY <1>1, <2>1, IdleAt, ResumeEffect DEF InsertRun, Remember, Rest
  <2>3. Live(p)
    BY <1>0, <1>1 DEF Lease, At, InsertRun, Remember
  <2>4. QED
    BY <2>2, <2>3, LeaseNotExecuting DEF Executing, At, Live
<1>2. CASE Load(p, r)
  <2>1. /\ Live(p) /\ holder[r] = p /\ expires[r] >= now
        /\ expires[r] >= now + ClaimTtl /\ co[p][r].level = 0
        /\ holder' = holder /\ expires' = expires /\ now' = now /\ proc' = proc
    BY <1>0, <1>2 DEF Load, Lease, At, Executing, tables, runRow, Rest
  <2>2. CASE Resume(p, r, Goto(co[p][r], "scan")) /\ SetBeat(p, r, now + HeartbeatInterval)
    <3>1. co'[p][r].at = "scan" /\ co'[p][r].level = 0
      BY <1>0, <2>1, <2>2, GotoFields, ResumeEffect DEF Place
    <3>2. beat'[p][r] = now + HeartbeatInterval
      BY <2>2 DEF SetBeat, TypeOK
    <3>3. now + HeartbeatInterval # 0 /\ now + HeartbeatInterval <= expires[r]
      BY <1>0, <2>1, HeartbeatAssumption, ClaimTtlAssumption
    <3>4. QED
      BY <2>1, <3>1, <3>2, <3>3 DEF Lease, At, Executing, Live
  <2>3. CASE Resume(p, r, [ToAppend(co[p][r], "run.failed") EXCEPT !.level = 1])
    <3> DEFINE d == ToAppend(co[p][r], "run.failed")
               e == [d EXCEPT !.level = 1]
    <3>1. d \in Coroutine /\ d.at = "count" /\ d.ev = "run.failed"
      BY <1>0, ToAppendType, ToAppendFields DEF EventType, RunEvent, TerminalEvent
    <3>2. e.at = "count" /\ e.ev = "run.failed" /\ e.level = 1
      BY <3>1 DEF Coroutine
    <3>3. co'[p][r] = e
      BY <2>3, ResumeEffect
    <3> HIDE DEF d, e
    <3>4. QED
      BY <2>1, <3>2, <3>3 DEF Lease, At, Executing, Live, TerminalEvent
  <2>4. QED
    BY <1>2, <2>2, <2>3 DEF Load
<1>3. CASE Scan(p, r)
  <2> DEFINE first == IF Logged(r, "run.started") THEN "run.resumed" ELSE "run.started"
             d == [co[p][r] EXCEPT !.ev = first]
  <2>1. first \in EventType
    BY DEF EventType, RunEvent
  <2>2. d \in Coroutine /\ d.level = co[p][r].level
    BY <1>0, <2>1 DEF Coroutine
  <2>3. co'[p][r] = Goto(d, "markRunning")
    BY <1>3, ResumeEffect DEF Scan
  <2> HIDE DEF d
  <2>4. co'[p][r].at = "markRunning" /\ co'[p][r].level = co[p][r].level
    BY <2>2, <2>3, GotoFields DEF Place
  <2>5. co[p][r].at = "scan" /\ co[p][r].level = 0
    BY <1>0, <1>3 DEF Scan, Lease, At, Executing
  <2>6. QED
    BY <1>0, <1>3, <2>4, <2>5, LeaseMove DEF Scan, At, Executing, tables, runRow, Rest
<1>4. CASE MarkRunning(p, r) \/ SetTerminal(p, r)
  <2>1. \/ At(p, r, "markRunning") /\ co'[p][r] = Goto(co[p][r], "count")
        \/ At(p, r, "terminal") /\ co'[p][r] = Goto(co[p][r], "release")
    BY <1>4, ResumeEffect DEF MarkRunning, SetTerminal
  <2>2. \A place \in {"count", "release"} :
          /\ Goto(co[p][r], place).at = place
          /\ Goto(co[p][r], place).level = co[p][r].level
          /\ Goto(co[p][r], place).ev = co[p][r].ev
    BY <1>0, GotoFields DEF Place
  <2>3. /\ co'[p][r].at \in {"count", "release"}
        /\ co'[p][r].level = co[p][r].level
        /\ co'[p][r].ev = co[p][r].ev
    BY <2>1, <2>2
  <2>4. co[p][r].level # 0 => co[p][r].ev \in TerminalEvent
    BY <1>0, <2>1 DEF Lease, At, Executing
  <2>5. QED
    BY <1>0, <1>4, <2>1, <2>3, <2>4, LeaseMove
       DEF MarkRunning, SetTerminal, UpdateRunStatus, At, Executing, Rest
<1>5. CASE CheckLoop(p, r) \/ CheckNode(p, r) \/ CheckFinal(p, r)
  <2>1. /\ CancelFound(co[p][r]).at = "count"
        /\ CancelFound(co[p][r]).level = co[p][r].level
        /\ \A ev \in {"run.cancelled", "node.cancelled", "node.started", "run.completed"} :
             /\ ToAppend(co[p][r], ev).at = "count"
             /\ ToAppend(co[p][r], ev).level = co[p][r].level
    BY <1>0, CancelFoundFields, ToAppendFields DEF EventType, RunEvent, NodeEvent, TerminalEvent
  <2>2. Goto(co[p][r], "node").at = "node" /\ Goto(co[p][r], "node").level = co[p][r].level
    BY <1>0, GotoFields DEF Place
  <2>3. co'[p][r].at \in {"count", "node"} /\ co'[p][r].level = co[p][r].level
    BY <1>5, <2>1, <2>2, ResumeEffect DEF CheckLoop, CheckNode, CheckFinal
  <2>4. co[p][r].at \in {"loop", "node", "final"} /\ co[p][r].level = 0
    BY <1>0, <1>5 DEF CheckLoop, CheckNode, CheckFinal, Lease, At, Executing
  <2>5. QED
    BY <1>0, <1>5, <2>3, <2>4, LeaseMove
       DEF CheckLoop, CheckNode, CheckFinal, At, Executing, tables, runRow, Rest
<1>6. CASE Count(p, r)
  <2> DEFINE d == [co[p][r] EXCEPT !.seq = CountEvents(r)]
  <2>1. CountEvents(r) \in Nat
    BY CountEventsType DEF TypeOK
  <2>2. d \in Coroutine /\ d.level = co[p][r].level /\ d.ev = co[p][r].ev
    BY <1>0, <2>1 DEF Coroutine
  <2>3. co'[p][r] = Goto(d, "insert")
    BY <1>6, ResumeEffect DEF Count
  <2> HIDE DEF d
  <2>4. /\ co'[p][r].at = "insert"
        /\ co'[p][r].level = co[p][r].level
        /\ co'[p][r].ev = co[p][r].ev
    BY <2>2, <2>3, GotoFields DEF Place
  <2>5. co[p][r].at = "count" /\ (co[p][r].level # 0 => co[p][r].ev \in TerminalEvent)
    BY <1>0, <1>6 DEF Count, Lease, At, Executing
  <2>6. QED
    BY <1>0, <1>6, <2>4, <2>5, LeaseMove DEF Count, At, Executing, tables, runRow, Rest
<1>7. CASE Insert(p, r)
  <2> DEFINE d == [co[p][r] EXCEPT !.seq = 0]
  <2>1. d \in Coroutine /\ d.level = co[p][r].level /\ d.ev = co[p][r].ev
    BY <1>0 DEF Coroutine
  <2>2. co'[p][r] = AfterAppend(r, d)
    BY <1>7, ResumeEffect DEF Insert
  <2> HIDE DEF d
  <2>3. /\ co'[p][r].at \in {"loop", "final", "count", "sleep", "terminal"}
        /\ co'[p][r].level = co[p][r].level
    BY <2>1, <2>2, AfterAppendFields
  <2>4. co[p][r].at = "insert" /\ (co[p][r].level # 0 => co[p][r].ev \in TerminalEvent)
    BY <1>0, <1>7 DEF Insert, Lease, At, Executing
  <2>5. co[p][r].level # 0 => co'[p][r].at = "terminal" /\ co'[p][r].ev \in TerminalEvent
    BY <2>1, <2>2, <2>4, AfterAppendFields, GotoFields DEF Place
  <2>6. QED
    BY <1>0, <1>7, <2>3, <2>4, <2>5, LeaseMove
       DEF Insert, InsertEvent, At, Executing, runRow, Rest
<1>8. CASE InsertThrows(p, r)
  <2> DEFINE e == Caught(co[p][r])
  <2>2. co[p][r].level \in 0..2
    BY <1>0 DEF Coroutine
  <2>3. e.at = "count" /\ e.ev = "run.failed" /\ e.level = co[p][r].level + 1
    BY <1>0, CaughtFields
  <2>4. co'[p][r] = e
    BY <1>8, ResumeEffect DEF InsertThrows
  <2> HIDE DEF e
  <2>5. /\ Live(p) /\ holder[r] = p /\ expires[r] >= now
        /\ holder' = holder /\ expires' = expires /\ now' = now /\ proc' = proc
    BY <1>0, <1>8 DEF InsertThrows, Lease, At, Executing, tables, runRow, Rest
  <2>6. co'[p][r].level # 0
    BY <2>2, <2>3, <2>4
  <2>7. QED
    BY <2>3, <2>4, <2>5, <2>6 DEF Lease, At, Executing, Live, TerminalEvent
<1>9. CASE UnhandledRejection(p, r) \/ Release(p, r)
  <2>1. co'[p][r].at = "idle"
    BY <1>9, IdleAt, DieEffect, ResumeEffect DEF UnhandledRejection, Release
  <2>2. QED
    BY <2>1, LeaseNotExecuting DEF Executing, At
<1>10. QED
  BY <1>1, <1>2, <1>3, <1>4, <1>5, <1>6, <1>7, <1>8, <1>9 DEF Statement

\* The same step seen from any other coroutine.
LEMMA LeaseOtherStatement ==
  ASSUME TypeOK, LeaseHeld,
         NEW p \in Procs, NEW r \in Runs, Statement(p, r), ~ClaimCreated(p, r),
         NEW q \in Procs, NEW s \in Runs, q # p \/ s # r
  PROVE  Lease(q, s)'
<1>0. Lease(q, s)
  BY DEF LeaseHeld
<1>1. CASE Release(p, r)
  <2>1. co'[q][s] = co[q][s] /\ proc' = proc /\ now' = now
    BY <1>1, ResumeEffect DEF Release, Rest
  <2>2. beat'[q][s] = beat[q][s]
    BY <1>1 DEF Release, SetBeat, TypeOK
  <2>3. Executing(q, s) => s # r \/ holder[r] # p
    BY <1>0 DEF Lease
  <2>4. Executing(q, s) => holder'[s] = holder[s] /\ expires'[s] = expires[s]
    BY <1>1, <2>3 DEF Release, ReleaseClaim, TypeOK, StoreTypeOK
  <2>5. QED
    BY <1>0, <2>1, <2>2, <2>4, LeaseFrame DEF Live
<1>2. CASE UnhandledRejection(p, r)
  <2>1. CASE q = p
    BY <1>2, <2>1, IdleAt, DieEffect, LeaseNotExecuting DEF UnhandledRejection, Executing, At
  <2>2. CASE q # p
    BY <1>0, <1>2, <2>2, LeaseFrame
       DEF UnhandledRejection, Die, Live, tables, runRow, TypeOK
  <2>3. QED
    BY <2>1, <2>2
<1>3. CASE ~Release(p, r) /\ ~UnhandledRejection(p, r)
  <2>1. /\ co'[q][s] = co[q][s] /\ proc' = proc /\ now' = now
        /\ holder' = holder /\ expires' = expires
    BY <1>3, ResumeEffect
       DEF Statement, InsertRun, Remember, Load, Scan, MarkRunning, CheckLoop, CheckNode,
           CheckFinal, Count, Insert, InsertThrows, SetTerminal, tables, runRow, Rest,
           InsertRunRow, InsertIdempotency, UpdateRunStatus, InsertEvent
  <2>2. beat'[q][s] = beat[q][s]
    BY <1>3
       DEF Statement, InsertRun, Remember, Load, Scan, MarkRunning, CheckLoop, CheckNode,
           CheckFinal, Count, Insert, InsertThrows, SetTerminal, SetBeat, TypeOK
  <2>3. QED
    BY <1>0, <2>1, <2>2, LeaseFrame DEF Live
<1>4. QED
  BY <1>1, <1>2, <1>3

LEMMA LeaseMacrotask ==
  ASSUME TypeOK, LeaseHeld, HeartbeatInterval <= ClaimTtl,
         NEW p \in Procs, NEW r \in Runs, RunStep(p, r), ~Statement(p, r),
         NEW q \in Procs, NEW s \in Runs
  PROVE  Lease(q, s)'
<1>0. /\ co[p][r] \in Coroutine /\ Lease(q, s) /\ Lease(p, r)
      /\ now \in Nat /\ ClaimTtl \in Nat /\ HeartbeatInterval \in Nat \ {0}
  BY ClaimTtlAssumption, HeartbeatAssumption DEF TypeOK, LeaseHeld
<1>1. CASE CreateRun(p, r)
  <2>1. CASE q # p \/ s # r
    BY <1>0, <1>1, <2>1, ResumeEffect, LeaseFrame DEF CreateRun, tables, runRow, Rest, Live
  <2>2. CASE q = p /\ s = r
    <3>1. co'[p][r].at = "insertRun"
      BY <1>1, IdleType, GotoFields, ResumeEffect DEF CreateRun, Place
    <3>2. Live(p)'
      BY <1>1 DEF CreateRun, AtLoop, Rest, Live
    <3>3. QED
      BY <2>2, <3>1, <3>2, LeaseNotExecuting DEF Executing, At
  <2>3. QED
    BY <2>1, <2>2
<1>2. CASE CancelRequest(p, r)
  BY <1>0, <1>2, LeaseFrame DEF CancelRequest, tables, runRow, Live
<1>3. CASE CancelUpdate(p, r) \/ Wake(p, r)
  <2>1. /\ proc' = proc /\ now' = now /\ beat' = beat
        /\ holder' = holder /\ expires' = expires
    BY <1>3 DEF CancelUpdate, Wake, SetCancelRequested, Rest, tables, runRow
  <2>2. CASE co'[q][s] = co[q][s]
    BY <1>0, <2>1, <2>2, LeaseFrame DEF Live
  <2>3. CASE co'[q][s] # co[q][s]
    <3>1. q = p /\ s = r
      BY <1>3, <2>3, ResumeEffect DEF CancelUpdate, Wake
    <3>2. co[p][r].at = "sleep"
      BY <1>3, <2>3, <3>1, ResumeEffect DEF CancelUpdate, Wake, At
    <3>3. \A ev \in {"node.cancelled", "node.completed"} :
            /\ ToAppend(co[p][r], ev).at = "count"
            /\ ToAppend(co[p][r], ev).level = co[p][r].level
      BY <1>0, ToAppendFields DEF EventType, NodeEvent
    <3>4. co'[p][r].at = "count" /\ co'[p][r].level = co[p][r].level
      BY <1>3, <3>2, <3>3, ResumeEffect DEF CancelUpdate, Wake, At
    <3>5. co[p][r].level = 0
      BY <1>0, <3>2 DEF Lease, At, Executing
    <3>6. QED
      BY <1>0, <2>1, <3>1, <3>2, <3>4, <3>5, LeaseMove DEF At, Executing
  <2>4. QED
    BY <2>2, <2>3
<1>4. CASE Heartbeat(p, r)
  <2>1. co' = co /\ proc' = proc /\ now' = now /\ holder' = holder
    BY <1>4 DEF Heartbeat, RenewClaim, Rest
  <2>2. expires' = [expires EXCEPT ![r] = IF holder[r] = p THEN now + ClaimTtl ELSE @]
    BY <1>4 DEF Heartbeat, RenewClaim
  <2>3. CASE q = p /\ s = r
    <3>1. beat'[p][r] = now + HeartbeatInterval
      BY <1>4 DEF Heartbeat, SetBeat, TypeOK
    <3>2. Executing(p, r) => expires'[r] = now + ClaimTtl
      BY <1>0, <2>2 DEF Lease, TypeOK, StoreTypeOK
    <3>3. now + HeartbeatInterval # 0 /\ now + HeartbeatInterval <= now + ClaimTtl
      BY <1>0
    <3>4. now + ClaimTtl >= now
      BY <1>0
    <3>5. At(p, r, "load") => Executing(p, r)
      BY DEF At, Executing
    <3>6. QED
      BY <1>0, <2>1, <2>3, <3>1, <3>2, <3>3, <3>4, <3>5 DEF Lease, At, Executing, Live
  <2>4. CASE q # p \/ s # r
    <3>1. beat'[q][s] = beat[q][s]
      BY <1>4, <2>4 DEF Heartbeat, SetBeat, TypeOK
    <3>2. Executing(q, s) => expires'[s] = expires[s]
      BY <1>0, <2>2, <2>4 DEF Lease, TypeOK, StoreTypeOK
    <3>3. QED
      BY <1>0, <2>1, <3>1, <3>2, LeaseFrame DEF Live
  <2>5. QED
    BY <2>3, <2>4
<1>5. CASE ResumeOrphan(p, r)
  BY <1>5, TryClaimLease DEF ResumeOrphan, Live
<1>6. QED
  BY <1>1, <1>2, <1>3, <1>4, <1>5 DEF RunStep

LEMMA LeaseProcStep ==
  ASSUME TypeOK, LeaseHeld, NEW p \in Procs, ProcStep(p), NEW q \in Procs, NEW s \in Runs
  PROVE  Lease(q, s)'
<1>0. Lease(q, s)
  BY DEF LeaseHeld
<1>1. CASE Start(p) \/ Listen(p)
  <2>1. Live(q) => Live(q)'
    BY <1>1 DEF Start, Listen, Live, TypeOK
  <2>2. QED
    BY <1>0, <1>1, <2>1, LeaseFrame DEF Start, Listen, tables, runRow
<1>2. ASSUME NEW phase, Die(p, phase),
             holder' = holder \/ ReleaseAllClaims(p), expires' = expires
      PROVE  Lease(q, s)'
  <2>1. CASE q = p
    BY <1>2, <2>1, IdleAt, DieEffect, LeaseNotExecuting DEF Executing, At
  <2>2. CASE q # p
    <3>1. Executing(q, s) => holder'[s] = holder[s]
      BY <1>0, <1>2, <2>2 DEF Lease, ReleaseAllClaims
    <3>2. /\ co'[q][s] = co[q][s] /\ beat'[q][s] = beat[q][s] /\ now' = now
          /\ proc'[q] = proc[q]
      BY <1>2, <2>2 DEF Die, TypeOK
    <3>3. QED
      BY <1>0, <1>2, <3>1, <3>2, LeaseFrame DEF Live
  <2>3. QED
    BY <2>1, <2>2
<1>3. CASE Shutdown(p)
  BY <1>2, <1>3 DEF Shutdown, ReleaseAllClaims
<1>4. CASE Crash(p)
  BY <1>2, <1>4 DEF Crash, tables, runRow
<1>5. QED
  BY <1>1, <1>3, <1>4 DEF ProcStep

\* When the clock moves every run that is executed sleeps, and its next heartbeat
\* is still ahead, hence also the moment its claim lapses.
LEMMA LeaseTick ==
  ASSUME TypeOK, LeaseHeld, MayStall = {}, Tick, NEW q \in Procs, NEW s \in Runs
  PROVE  Lease(q, s)'
<1>0. Lease(q, s) /\ now \in Nat /\ expires[s] \in Nat /\ beat[q][s] \in Nat
  BY DEF LeaseHeld, TypeOK, StoreTypeOK
<1>1. /\ now' = now + 1
      /\ co' = co /\ beat' = beat /\ proc' = proc /\ holder' = holder /\ expires' = expires
  BY DEF Tick, tables, runRow
<1>2. CASE At(q, s, "idle")
  BY <1>1, <1>2, LeaseNotExecuting DEF Executing, At
<1>3. CASE ~At(q, s, "idle")
  <2>1. AtLoop(q) /\ ~Due(q, s)
    BY <1>0, <1>3 DEF Tick, Timely, Lease
  <2>2. co[q][s].at = "sleep"
    BY <1>3, <2>1 DEF AtLoop, Quiet, At
  <2>3. beat[q][s] # 0 /\ beat[q][s] <= expires[s] /\ co[q][s].level = 0
    BY <1>0, <2>2 DEF Lease, Executing, At
  <2>4. beat[q][s] > now
    BY <1>0, <2>1, <2>3 DEF Due
  <2>5. expires[s] >= now + 1
    BY <1>0, <2>3, <2>4
  <2>6. QED
    BY <1>0, <1>1, <2>2, <2>3, <2>5 DEF Lease, Executing, At, Live
<1>4. QED
  BY <1>2, <1>3

\* As long as no process stalls and HEARTBEAT_INTERVAL_MS is at most
\* CLAIM_TTL_MS, whoever executes a run holds its claim, unexpired, whichever
\* processes crash, are shut down or start.
THEOREM LeaseIsHeld ==
  ASSUME MayStall = {}, HeartbeatInterval <= ClaimTtl
  PROVE  Spec => []LeaseHeld
<1>1. Init => LeaseHeld
  BY IdleAt DEF Init, LeaseHeld, Lease, At, Executing
<1>2. TypeOK /\ LeaseHeld /\ [Next]_vars => LeaseHeld'
  <2>1. SUFFICES ASSUME TypeOK, LeaseHeld, [Next]_vars, NEW q \in Procs, NEW s \in Runs
                 PROVE  Lease(q, s)'
    BY DEF LeaseHeld
  <2>2. ASSUME NEW p \in Procs, NEW r \in Runs, Statement(p, r)
        PROVE  Lease(q, s)'
    <3>1. CASE ClaimCreated(p, r)
      <4>1. Live(p)
        BY <2>1, <3>1 DEF LeaseHeld, Lease, ClaimCreated, At
      <4>2. QED
        BY <2>1, <3>1, <4>1, TryClaimLease DEF ClaimCreated, Rest, Live
    <3>2. CASE ~ClaimCreated(p, r)
      BY <2>1, <2>2, <3>2, LeaseOwnStatement, LeaseOtherStatement
    <3>3. QED
      BY <3>1, <3>2
  <2>3. ASSUME NEW p \in Procs, NEW r \in Runs, RunStep(p, r)
        PROVE  Lease(q, s)'
    BY <2>1, <2>2, <2>3, LeaseMacrotask
  <2>4. CASE UNCHANGED vars
    BY <2>1, <2>4, LeaseFrame DEF vars, tables, runRow, LeaseHeld, Live
  <2>5. QED
    BY <2>1, <2>3, <2>4, LeaseProcStep, LeaseTick DEF Next
<1>3. QED
  BY <1>1, <1>2, TypeCorrect, PTL DEF Spec

\* Two processes never execute the same run at the same time: a claim has one
\* holder.
THEOREM ExecutionIsExclusive ==
  ASSUME MayStall = {}, HeartbeatInterval <= ClaimTtl
  PROVE  Spec => []ExclusiveExecution
<1>1. LeaseHeld => ExclusiveExecution
  BY DEF LeaseHeld, Lease, ExclusiveExecution
<1>2. QED
  BY <1>1, LeaseIsHeld, PTL

\* Nobody else appends between the COUNT and the INSERT.
ExactSeqs ==
  \A p \in Procs, r \in Runs : At(p, r, "insert") => co[p][r].seq = CountEvents(r)

LEMMA ExactSeqsStep ==
  ASSUME TypeOK, ExclusiveExecution, ExactSeqs, [Next]_vars
  PROVE  ExactSeqs'
<1>1. SUFFICES ASSUME NEW q \in Procs, NEW s \in Runs, co'[q][s].at = "insert"
               PROVE  co'[q][s].seq = CountEvents(s)'
  BY DEF ExactSeqs, At
<1>2. \/ co'[q][s] = co[q][s]
      \/ UNCHANGED events /\ co'[q][s].seq = CountEvents(s)
  BY <1>1, StepInsert
<1>3. CASE UNCHANGED events
  BY <1>1, <1>2, <1>3 DEF ExactSeqs, At, CountEvents
<1>4. ASSUME NEW p \in Procs, NEW r \in Runs, Insert(p, r), ~UNCHANGED events
      PROVE  co'[q][s].seq = CountEvents(s)'
  <2> DEFINE row == [type |-> co[p][r].ev, node |-> EventNode(co[p][r])]
  <2>1. co'[q][s] = co[q][s] /\ co[q][s].at = "insert"
    BY <1>1, <1>2, <1>4
  <2>2. CASE s # r
    <3>1. InsertEvent(r, co[p][r].seq, row) /\ co[p][r].seq \in Nat /\ row \in Row /\ StoreTypeOK
      BY <1>4 DEF Insert, TypeOK, Coroutine, Row, EventNode
    <3>2. events'[s] = events[s]
      BY <2>2, <3>1, InsertEventEffect
    <3>3. QED
      BY <2>1, <3>2 DEF ExactSeqs, At, CountEvents
  <2>3. CASE s = r /\ q # p
    BY <1>4, <2>1, <2>3 DEF ExclusiveExecution, Executing, Insert, At
  <2>4. CASE s = r /\ q = p
    <3> DEFINE d == [co[p][r] EXCEPT !.seq = 0]
    <3>0. co[p][r] \in Coroutine
      BY DEF TypeOK
    <3>1. d \in Coroutine
      BY <3>0 DEF Coroutine
    <3>2. co'[p][r] = AfterAppend(r, d)
      BY <1>4, ResumeEffect DEF Insert
    <3> HIDE DEF d
    <3>3. co'[p][r].at # "insert"
      BY <3>1, <3>2, AfterAppendFields
    <3>4. QED
      BY <1>1, <2>4, <3>3
  <2>5. QED
    BY <2>2, <2>3, <2>4
<1>5. QED
  BY <1>3, <1>4, EventsStep

\* appendEvent never meets a taken seq, so no run fails, and no process dies, of
\* a primary key conflict.
THEOREM AppendsDoNotConflict ==
  ASSUME MayStall = {}, HeartbeatInterval <= ClaimTtl
  PROVE  Spec => []AppendNeverConflicts
<1>1. Init => ExactSeqs
  BY IdleAt DEF Init, ExactSeqs, At
<1>2. TypeOK /\ ExclusiveExecution /\ ExactSeqs /\ [Next]_vars => ExactSeqs'
  BY ExactSeqsStep
<1>3. LogContiguous /\ TypeOK /\ ExactSeqs => AppendNeverConflicts
  <2>1. SUFFICES ASSUME LogContiguous, TypeOK, ExactSeqs, NEW p \in Procs, NEW r \in Runs,
                        At(p, r, "insert")
                 PROVE  ~KeyTaken(r, co[p][r].seq)
    BY DEF AppendNeverConflicts
  <2>2. co[p][r].seq = CountEvents(r) /\ CountEvents(r) \in Nat
    BY <2>1, CountEventsType DEF ExactSeqs, TypeOK
  <2>3. DOMAIN events[r] = 0 .. (CountEvents(r) - 1)
    BY <2>1 DEF LogContiguous
  <2>4. QED
    BY <2>2, <2>3 DEF KeyTaken
<1>4. QED
  BY <1>1, <1>2, <1>3, TypeCorrect, ExecutionIsExclusive, LogIsContiguous, PTL DEF Spec

-----------------------------------------------------------------------------
(* Keys and claims, under any schedule. *)

\* A step changes the table of keys only where the INSERT found none.
LEMMA IdemStep ==
  ASSUME [Next]_vars
  PROVE  \/ UNCHANGED idem
         \/ \E p \in Procs, r \in Runs :
              /\ At(p, r, "remember") /\ idem[Key[r]] = NoRun
              /\ InsertIdempotency(Key[r], r)
<1>1. ASSUME NEW p \in Procs, NEW r \in Runs, Statement(p, r), ~Remember(p, r)
      PROVE  UNCHANGED idem
  BY <1>1
     DEF Statement, InsertRun, ClaimCreated, Load, Scan, MarkRunning, CheckLoop, Insert,
         CheckNode, CheckFinal, Count, InsertThrows, UnhandledRejection, SetTerminal, Release,
         TryClaim, tables, runRow, InsertRunRow, AcquireClaim, InsertEvent,
         UpdateRunStatus, ReleaseClaim
<1>2. ASSUME NEW p \in Procs, NEW r \in Runs, RunStep(p, r), ~Statement(p, r)
      PROVE  UNCHANGED idem
  BY <1>2
     DEF RunStep, CreateRun, CancelRequest, CancelUpdate, Wake, Heartbeat, ResumeOrphan,
         TryClaim, tables, runRow, SetCancelRequested, RenewClaim, AcquireClaim
<1>3. ASSUME NEW p \in Procs, ProcStep(p)
      PROVE  UNCHANGED idem
  BY <1>3 DEF ProcStep, Start, Listen, Shutdown, Crash, ReleaseAllClaims, tables
<1>4. ASSUME NEW p \in Procs, NEW r \in Runs, Remember(p, r)
      PROVE  \/ UNCHANGED idem
             \/ /\ At(p, r, "remember") /\ idem[Key[r]] = NoRun
                /\ InsertIdempotency(Key[r], r)
  BY <1>4 DEF Remember, tables
<1>5. QED
  BY <1>1, <1>2, <1>3, <1>4 DEF Next, Tick, vars, tables, RunStep

\* Whatever two processes do with the same Idempotency-Key, its row is never
\* overwritten: every request that is replayed names the same run.
THEOREM KeysAreKept == Spec => KeyRecordedOnce
<1> DEFINE Kept == \A k \in Keys : idem[k] # NoRun => idem'[k] = idem[k]
<1>1. ASSUME TypeOK, [Next]_vars
      PROVE  [Kept]_idem
  <2>1. ASSUME NEW p \in Procs, NEW r \in Runs,
               idem[Key[r]] = NoRun, InsertIdempotency(Key[r], r)
        PROVE  Kept
    BY <1>1, <2>1 DEF InsertIdempotency, TypeOK, StoreTypeOK
  <2>2. QED
    BY <1>1, <2>1, IdemStep
<1>2. QED
  BY <1>1, TypeCorrect, PTL DEF Spec, KeyRecordedOnce

\* The row of a run is written before the row of its key, and never deleted.
RowsBeforeKeys ==
  /\ \A p \in Procs, r \in Runs : At(p, r, "remember") => status[r] # "absent"
  /\ ReplayFindsRun

\* No statement deletes the row of a run.
LEMMA RowsStay ==
  ASSUME TypeOK, [Next]_vars, NEW s \in Runs, status[s] # "absent"
  PROVE  status'[s] # "absent"
<1>0. status \in [Runs -> Status]
  BY DEF TypeOK, StoreTypeOK
<1>1. ASSUME NEW p \in Procs, NEW r \in Runs, RunStep(p, r)
      PROVE  status'[s] # "absent"
  <2>1. CASE InsertRun(p, r)
    BY <1>0, <2>1 DEF InsertRun, InsertRunRow
  <2>2. CASE MarkRunning(p, r) \/ SetTerminal(p, r)
    BY <1>0, <2>2 DEF MarkRunning, SetTerminal, UpdateRunStatus, StatusOf
  <2>3. CASE CancelUpdate(p, r)
    BY <1>0, <2>3 DEF CancelUpdate, SetCancelRequested, Terminal
  <2>4. CASE UNCHANGED status
    BY <2>4
  <2>5. QED
    BY <1>1, <2>1, <2>2, <2>3, <2>4
       DEF RunStep, Statement, Remember, ClaimCreated, Load, Scan, CheckLoop, Insert, CheckNode,
           CheckFinal, Count, InsertThrows, UnhandledRejection, Release, CreateRun,
           CancelRequest, Wake, Heartbeat, ResumeOrphan, TryClaim, tables, runRow, RenewClaim,
           AcquireClaim, InsertEvent, ReleaseClaim, InsertIdempotency
<1>2. ASSUME NEW p \in Procs, ProcStep(p)
      PROVE  UNCHANGED status
  BY <1>2 DEF ProcStep, Start, Listen, Shutdown, Crash, ReleaseAllClaims, tables, runRow
<1>3. QED
  BY <1>1, <1>2 DEF Next, Tick, vars, tables, runRow


-----------------------------------------------------------------------------
(* Where each step takes its coroutine, and with which event. *)

\* Between two appends: after which event a coroutine goes where.
LEMMA AfterAppendCourse ==
  ASSUME NEW c \in Coroutine, NEW r \in Runs
  PROVE  /\ c.ev \in {"run.started", "run.resumed", "node.completed"} =>
              AfterAppend(r, c).at \in {"loop", "final"}
         /\ c.ev = "node.started" =>
              \/ AfterAppend(r, c).at = "sleep"
              \/ /\ AfterAppend(r, c).at = "count"
                 /\ AfterAppend(r, c).ev \in {"node.completed", "node.failed"}
         /\ c.ev = "node.cancelled" =>
              AfterAppend(r, c).at = "count" /\ AfterAppend(r, c).ev = "run.cancelled"
         /\ c.ev = "node.failed" =>
              AfterAppend(r, c).at = "count" /\ AfterAppend(r, c).ev = "run.failed"
         /\ c.ev \in TerminalEvent =>
              AfterAppend(r, c).at = "terminal" /\ AfterAppend(r, c).ev = c.ev
<1>1. \A ev \in {"run.cancelled", "run.failed", "node.completed", "node.failed"} :
        ToAppend(c, ev).at = "count" /\ ToAppend(c, ev).ev = ev
  BY ToAppendFields DEF EventType, RunEvent, NodeEvent, TerminalEvent
<1>2. \A place \in {"sleep", "terminal"} :
        Goto(c, place).at = place /\ Goto(c, place).ev = c.ev
  BY GotoFields DEF Place
<1>3. CASE c.ev \in {"run.started", "run.resumed", "node.completed"}
  BY <1>3, NextNodeFields DEF AfterAppend, TerminalEvent
<1>4. CASE c.ev = "node.started"
  <2>1. AfterAppend(r, c) = RunNode(r, c)
    BY <1>4 DEF AfterAppend
  <2>2. RunNode(r, c) \in {ToAppend(c, "node.completed"), Goto(c, "sleep"), ToAppend(c, "node.failed")}
    BY DEF RunNode
  <2>3. QED
    BY <1>1, <1>2, <1>4, <2>1, <2>2 DEF TerminalEvent
<1>5. CASE c.ev \in {"node.cancelled", "node.failed"}
  BY <1>1, <1>5 DEF AfterAppend, TerminalEvent
<1>6. CASE c.ev \in TerminalEvent
  BY <1>2, <1>6 DEF AfterAppend, TerminalEvent
<1>7. c.ev \in EventType
  BY DEF Coroutine
<1>8. QED
  BY <1>3, <1>4, <1>5, <1>6, <1>7 DEF EventType, NodeEvent, RunEvent

\* The statements before runWorkflow.
LEMMA CreationMoves ==
  ASSUME TypeOK, NEW p \in Procs, NEW r \in Runs
  PROVE  /\ CreateRun(p, r) => co'[p][r].at = "insertRun"
         /\ InsertRun(p, r) => co'[p][r].at \in {"remember", "claim"}
         /\ Remember(p, r) => co'[p][r].at \in {"idle", "claim"}
         /\ TryClaim(p, r) => \/ Claimable(r, now) /\ co'[p][r].at = "load"
                              \/ ~Claimable(r, now) /\ co'[p][r].at = "idle" /\ UNCHANGED tables
<1>1. \A place \in {"insertRun", "remember", "claim", "load"} : Goto(Idle, place).at = place
  BY IdleType, GotoFields DEF Place
<1>2. CreateRun(p, r) => co'[p][r].at = "insertRun"
  BY <1>1, ResumeEffect DEF CreateRun
<1>3. InsertRun(p, r) => co'[p][r].at \in {"remember", "claim"}
  BY <1>1, ResumeEffect DEF InsertRun
<1>4. Remember(p, r) => co'[p][r].at \in {"idle", "claim"}
  BY <1>1, IdleAt, ResumeEffect DEF Remember
<1>5. TryClaim(p, r) => \/ Claimable(r, now) /\ co'[p][r].at = "load"
                        \/ ~Claimable(r, now) /\ co'[p][r].at = "idle" /\ UNCHANGED tables
  BY <1>1, IdleAt, ResumeEffect DEF TryClaim
<1>6. QED
  BY <1>2, <1>3, <1>4, <1>5

\* The statements up to the first event.
LEMMA OpeningMoves ==
  ASSUME TypeOK, NEW p \in Procs, NEW r \in Runs
  PROVE  /\ Load(p, r) => \/ co'[p][r].at = "scan"
                          \/ co'[p][r].at = "count" /\ co'[p][r].ev = "run.failed"
         /\ Scan(p, r) => /\ co'[p][r].at = "markRunning"
                          /\ co'[p][r].ev = "run.started" => ~Logged(r, "run.started")
                          /\ co'[p][r].ev \in {"run.started", "run.resumed"}
         /\ MarkRunning(p, r) => co'[p][r].at = "count" /\ co'[p][r].ev = co[p][r].ev
<1>0. co[p][r] \in Coroutine
  BY DEF TypeOK
<1>1. Load(p, r) => \/ co'[p][r].at = "scan"
                    \/ co'[p][r].at = "count" /\ co'[p][r].ev = "run.failed"
  <2> DEFINE d == ToAppend(co[p][r], "run.failed")
             e == [d EXCEPT !.level = 1]
  <2>1. d \in Coroutine /\ d.at = "count" /\ d.ev = "run.failed"
    BY <1>0, ToAppendType, ToAppendFields DEF EventType, RunEvent, TerminalEvent
  <2>2. e.at = "count" /\ e.ev = "run.failed"
    BY <2>1 DEF Coroutine
  <2>3. Load(p, r) => Resume(p, r, Goto(co[p][r], "scan")) \/ Resume(p, r, e)
    BY DEF Load
  <2> HIDE DEF d, e
  <2>4. QED
    BY <1>0, <2>2, <2>3, GotoFields, ResumeEffect DEF Place
<1>2. Scan(p, r) => /\ co'[p][r].at = "markRunning"
                    /\ co'[p][r].ev = "run.started" => ~Logged(r, "run.started")
                    /\ co'[p][r].ev \in {"run.started", "run.resumed"}
  <2> DEFINE first == IF Logged(r, "run.started") THEN "run.resumed" ELSE "run.started"
             d == [co[p][r] EXCEPT !.ev = first]
  <2>1. first \in EventType
    BY DEF EventType, RunEvent
  <2>2. d \in Coroutine /\ d.ev = first
    BY <1>0, <2>1 DEF Coroutine
  <2>3. Scan(p, r) => Resume(p, r, Goto(d, "markRunning"))
    BY DEF Scan
  <2> HIDE DEF d
  <2>4. Scan(p, r) => co'[p][r].at = "markRunning" /\ co'[p][r].ev = first
    BY <2>2, <2>3, GotoFields, ResumeEffect DEF Place
  <2>5. QED
    BY <2>4
<1>3. MarkRunning(p, r) => co'[p][r].at = "count" /\ co'[p][r].ev = co[p][r].ev
  BY <1>0, GotoFields, ResumeEffect DEF MarkRunning, Place
<1>4. QED
  BY <1>1, <1>2, <1>3

\* The checks of the status, the timer and the abort of core.delay.
LEMMA LoopMoves ==
  ASSUME TypeOK, NEW p \in Procs, NEW r \in Runs
  PROVE  /\ CheckLoop(p, r) => \/ co'[p][r].at = "node"
                               \/ /\ status[r] = "cancelling"
                                  /\ co'[p][r].at = "count" /\ co'[p][r].ev = "run.cancelled"
         /\ CheckNode(p, r) => \/ co'[p][r].at = "count" /\ co'[p][r].ev = "node.started"
                               \/ /\ status[r] = "cancelling"
                                  /\ co'[p][r].at = "count" /\ co'[p][r].ev = "node.cancelled"
         /\ CheckFinal(p, r) => \/ co'[p][r].at = "count" /\ co'[p][r].ev = "run.completed"
                                \/ /\ status[r] = "cancelling"
                                   /\ co'[p][r].at = "count" /\ co'[p][r].ev = "run.cancelled"
         /\ Wake(p, r) => co'[p][r].at = "count" /\ co'[p][r].ev = "node.completed"
         /\ CancelUpdate(p, r) =>
              \/ co'[p][r] = co[p][r]
              \/ /\ At(p, r, "sleep")
                 /\ co'[p][r].at = "count" /\ co'[p][r].ev = "node.cancelled"
<1>0. co[p][r] \in Coroutine
  BY DEF TypeOK
<1>1. /\ CancelFound(co[p][r]).at = "count" /\ CancelFound(co[p][r]).ev = "run.cancelled"
      /\ \A ev \in {"run.cancelled", "node.cancelled", "node.started", "run.completed",
                    "node.completed"} :
           ToAppend(co[p][r], ev).at = "count" /\ ToAppend(co[p][r], ev).ev = ev
  BY <1>0, CancelFoundFields, ToAppendFields DEF EventType, RunEvent, NodeEvent, TerminalEvent
<1>2. Goto(co[p][r], "node").at = "node"
  BY <1>0, GotoFields DEF Place
<1>3. QED
  BY <1>1, <1>2, ResumeEffect DEF CheckLoop, CheckNode, CheckFinal, Wake, CancelUpdate

\* appendEvent.
LEMMA AppendMoves ==
  ASSUME TypeOK, NEW p \in Procs, NEW r \in Runs
  PROVE  /\ Count(p, r) => co'[p][r].at = "insert" /\ co'[p][r].ev = co[p][r].ev
         /\ Insert(p, r) =>
              /\ co[p][r].ev \in {"run.started", "run.resumed", "node.completed"} =>
                   co'[p][r].at \in {"loop", "final"}
              /\ co[p][r].ev = "node.started" =>
                   \/ co'[p][r].at = "sleep"
                   \/ co'[p][r].at = "count" /\ co'[p][r].ev \in {"node.completed", "node.failed"}
              /\ co[p][r].ev = "node.cancelled" =>
                   co'[p][r].at = "count" /\ co'[p][r].ev = "run.cancelled"
              /\ co[p][r].ev = "node.failed" =>
                   co'[p][r].at = "count" /\ co'[p][r].ev = "run.failed"
              /\ co[p][r].ev \in TerminalEvent =>
                   co'[p][r].at = "terminal" /\ co'[p][r].ev = co[p][r].ev
         /\ InsertThrows(p, r) => co'[p][r].at = "count" /\ co'[p][r].ev = "run.failed"
<1>0. co[p][r] \in Coroutine
  BY DEF TypeOK
<1>1. Count(p, r) => co'[p][r].at = "insert" /\ co'[p][r].ev = co[p][r].ev
  <2> DEFINE d == [co[p][r] EXCEPT !.seq = CountEvents(r)]
  <2>1. CountEvents(r) \in Nat
    BY CountEventsType DEF TypeOK
  <2>2. d \in Coroutine /\ d.ev = co[p][r].ev
    BY <1>0, <2>1 DEF Coroutine
  <2>3. Count(p, r) => Resume(p, r, Goto(d, "insert"))
    BY DEF Count
  <2> HIDE DEF d
  <2>4. QED
    BY <2>2, <2>3, GotoFields, ResumeEffect DEF Place
<1>2. ASSUME Insert(p, r)
      PROVE  \E d \in Coroutine : d.ev = co[p][r].ev /\ co'[p][r] = AfterAppend(r, d)
  <2> DEFINE d == [co[p][r] EXCEPT !.seq = 0]
  <2>1. d \in Coroutine /\ d.ev = co[p][r].ev
    BY <1>0 DEF Coroutine
  <2>2. co'[p][r] = AfterAppend(r, d)
    BY <1>2, ResumeEffect DEF Insert
  <2> HIDE DEF d
  <2>3. QED
    BY <2>1, <2>2
<1>3. InsertThrows(p, r) => co'[p][r].at = "count" /\ co'[p][r].ev = "run.failed"
  BY <1>0, CaughtFields, ResumeEffect DEF InsertThrows
<1>4. QED
  BY <1>1, <1>2, <1>3, AfterAppendCourse

\* The end.
LEMMA ClosingMoves ==
  ASSUME TypeOK, NEW p \in Procs, NEW r \in Runs
  PROVE  /\ SetTerminal(p, r) => co'[p][r].at = "release" /\ co'[p][r].ev = co[p][r].ev
         /\ Release(p, r) => co'[p][r].at = "idle"
         /\ UnhandledRejection(p, r) => \A s \in Runs : co'[p][s].at = "idle"
<1>0. co[p][r] \in Coroutine
  BY DEF TypeOK
<1>1. SetTerminal(p, r) => co'[p][r].at = "release" /\ co'[p][r].ev = co[p][r].ev
  BY <1>0, GotoFields, ResumeEffect DEF SetTerminal, Place
<1>2. Release(p, r) => co'[p][r].at = "idle"
  BY IdleAt, ResumeEffect DEF Release
<1>3. UnhandledRejection(p, r) => \A s \in Runs : co'[p][s].at = "idle"
  BY IdleAt, DieEffect DEF UnhandledRejection
<1>4. QED
  BY <1>1, <1>2, <1>3

\* A coroutine moves on by a step of its own, or vanishes with its process.
LEMMA CoStep ==
  ASSUME TypeOK, [Next]_vars, NEW q \in Procs, NEW s \in Runs
  PROVE  \/ co'[q][s] = co[q][s]
         \/ RunStep(q, s)
         \/ co'[q][s].at = "idle"
<1>1. ASSUME NEW p \in Procs, NEW r \in Runs, RunStep(p, r), q # p \/ s # r
      PROVE  co'[q][s] = co[q][s] \/ co'[q][s].at = "idle"
  <2>1. CASE UnhandledRejection(p, r)
    BY <2>1, IdleAt, DieEffect DEF UnhandledRejection
  <2>2. CASE UNCHANGED co
    BY <2>2
  <2>3. ASSUME NEW c, Resume(p, r, c)
        PROVE  co'[q][s] = co[q][s]
    BY <1>1, <2>3, ResumeEffect
  <2>4. CASE /\ ~UnhandledRejection(p, r)
             /\ ~CancelRequest(p, r) /\ ~Heartbeat(p, r)
    BY <1>1, <2>3, <2>4
       DEF RunStep, Statement, InsertRun, Remember, ClaimCreated, Load, Scan, MarkRunning,
           CheckLoop, CheckNode, CheckFinal, Count, Insert, InsertThrows, SetTerminal, Release,
           CreateRun, CancelUpdate, Wake, ResumeOrphan, TryClaim
  <2>5. QED
    BY <2>1, <2>2, <2>4 DEF CancelRequest, Heartbeat
<1>2. ASSUME NEW p \in Procs, ProcStep(p)
      PROVE  co'[q][s] = co[q][s] \/ co'[q][s].at = "idle"
  BY <1>2, IdleAt, DieEffect DEF ProcStep, Start, Listen, Shutdown, Crash
<1>3. QED
  BY <1>1, <1>2 DEF Next, Tick, vars

\* A request is about to record its key only once it has stored its run.
LEMMA RememberStep ==
  ASSUME TypeOK, [Next]_vars, NEW p \in Procs, NEW r \in Runs, At(p, r, "remember")'
  PROVE  At(p, r, "remember") \/ InsertRun(p, r)
<1>1. CASE RunStep(p, r) /\ ~InsertRun(p, r) /\ co'[p][r] # co[p][r]
  <2>1. co[p][r] \in Coroutine
    BY DEF TypeOK
  <2>2. co'[p][r].at = "remember"
    BY DEF At
  <2>3. ~Statement(p, r)
    BY <1>1, <2>1, <2>2, CreationMoves, OpeningMoves, LoopMoves, AppendMoves, ClosingMoves
       DEF Statement, ClaimCreated, Insert, Coroutine, EventType, NodeEvent, RunEvent
  <2>4. ~CreateRun(p, r) /\ ~CancelUpdate(p, r) /\ ~Wake(p, r) /\ ~ResumeOrphan(p, r)
    BY <1>1, <2>2, CreationMoves, LoopMoves DEF ResumeOrphan
  <2>5. QED
    BY <1>1, <2>3, <2>4 DEF RunStep, CancelRequest, Heartbeat
<1>2. QED
  BY <1>1, CoStep DEF At

\* The key of a request that is replayed names a run whose row exists, whatever
\* crashes between the two INSERTs of handleCreateRun.
THEOREM ReplaysFindTheirRun == Spec => []ReplayFindsRun
<1>1. Init => RowsBeforeKeys
  BY IdleAt, NoRunAssumption DEF Init, StoreInit, RowsBeforeKeys, ReplayFindsRun, At
<1>2. TypeOK /\ RowsBeforeKeys /\ [Next]_vars => RowsBeforeKeys'
  <2>1. SUFFICES ASSUME TypeOK, RowsBeforeKeys, [Next]_vars
                 PROVE  RowsBeforeKeys'
    OBVIOUS
  <2>2. ASSUME NEW p \in Procs, NEW r \in Runs, At(p, r, "remember")'
        PROVE  status'[r] # "absent"
    <3>1. CASE At(p, r, "remember")
      BY <2>1, <3>1, RowsStay DEF RowsBeforeKeys
    <3>2. CASE InsertRun(p, r)
      BY <2>1, <3>2 DEF InsertRun, InsertRunRow, TypeOK, StoreTypeOK
    <3>3. QED
      BY <2>1, <2>2, <3>1, <3>2, RememberStep
  <2>3. ASSUME NEW k \in Keys, idem'[k] # NoRun
        PROVE  status'[idem'[k]] # "absent"
    <3>0. idem \in [Keys -> Runs \cup {NoRun}]
      BY <2>1 DEF TypeOK, StoreTypeOK
    <3>1. CASE idem'[k] = idem[k]
      BY <2>1, <2>3, <3>0, <3>1, RowsStay DEF RowsBeforeKeys, ReplayFindsRun
    <3>2. CASE idem'[k] # idem[k]
      <4>1. PICK p \in Procs, r \in Runs :
              At(p, r, "remember") /\ InsertIdempotency(Key[r], r)
        BY <2>1, <3>2, IdemStep
      <4>2. idem'[k] = r
        BY <3>0, <3>2, <4>1 DEF InsertIdempotency
      <4>3. QED
        BY <2>1, <4>1, <4>2, RowsStay DEF RowsBeforeKeys
    <3>3. QED
      BY <3>1, <3>2
  <2>4. QED
    BY <2>2, <2>3 DEF RowsBeforeKeys, ReplayFindsRun
<1>3. QED
  BY <1>1, <1>2, TypeCorrect, PTL DEF Spec, RowsBeforeKeys

\* How the holder of a claim changes: the UPDATE of acquireClaim, by a process
\* that is up, on a row without a claim in force, or the holder gives it up.
LEMMA HolderStep ==
  ASSUME TypeOK, [Next]_vars, NEW r \in Runs
  PROVE  \/ holder'[r] = holder[r]
         \/ \E p \in Procs :
              /\ ClaimCreated(p, r) \/ ResumeOrphan(p, r)
              /\ Claimable(r, now) /\ holder'[r] = p
         \/ \E p \in Procs :
              /\ Release(p, r) \/ Shutdown(p)
              /\ holder[r] = p /\ holder'[r] = NoHolder
<1>0. holder \in [Runs -> Procs \cup {NoHolder}]
  BY DEF TypeOK, StoreTypeOK
<1>1. ASSUME NEW p \in Procs, NEW s \in Runs, TryClaim(p, s)
      PROVE  \/ holder'[r] = holder[r]
             \/ s = r /\ Claimable(r, now) /\ holder'[r] = p
  BY <1>0, <1>1 DEF TryClaim, AcquireClaim, tables, runRow
<1>2. ASSUME NEW p \in Procs, NEW s \in Runs, RunStep(p, s),
             ~ClaimCreated(p, s), ~ResumeOrphan(p, s), ~Release(p, s)
      PROVE  holder' = holder
  BY <1>2
     DEF RunStep, Statement, InsertRun, Remember, Load, Scan, MarkRunning, CheckLoop,
         CheckNode, CheckFinal, Count, Insert, InsertThrows, UnhandledRejection, SetTerminal,
         CreateRun, CancelRequest, CancelUpdate, Wake, Heartbeat, tables, runRow,
         InsertRunRow, InsertIdempotency, UpdateRunStatus, InsertEvent, SetCancelRequested,
         RenewClaim
<1>3. ASSUME NEW p \in Procs, NEW s \in Runs, Release(p, s)
      PROVE  \/ holder'[r] = holder[r]
             \/ s = r /\ holder[r] = p /\ holder'[r] = NoHolder
  BY <1>0, <1>3 DEF Release, ReleaseClaim
<1>4. ASSUME NEW p \in Procs, ProcStep(p)
      PROVE  \/ holder'[r] = holder[r]
             \/ Shutdown(p) /\ holder[r] = p /\ holder'[r] = NoHolder
  BY <1>4 DEF ProcStep, Start, Listen, Shutdown, Crash, ReleaseAllClaims, tables, runRow
<1>5. CASE Tick \/ UNCHANGED vars
  BY <1>5 DEF Tick, vars, tables, runRow
<1>6. ASSUME NEW p \in Procs, NEW s \in Runs, RunStep(p, s)
      PROVE  \/ holder'[r] = holder[r]
             \/ /\ ClaimCreated(p, r) \/ ResumeOrphan(p, r)
                /\ Claimable(r, now) /\ holder'[r] = p
             \/ Release(p, r) /\ holder[r] = p /\ holder'[r] = NoHolder
  BY <1>1, <1>2, <1>3, <1>6 DEF ClaimCreated, ResumeOrphan
<1>7. QED
  BY <1>4, <1>5, <1>6 DEF Next

\* A claim that has not lapsed is only given up by its own holder, even when
\* that holder stalls for longer than its claim lasts.
THEOREM ClaimsAreRespected == Spec => ClaimRespected
<1> DEFINE GivenUp(r, q) == (holder[r] = q /\ holder'[r] # q) =>
                              \/ expires[r] < now
                              \/ co'[q][r] # co[q][r]
                              \/ proc'[q] # proc[q]
<1>1. ASSUME TypeOK, [Next]_vars, NEW r \in Runs, NEW q \in Procs,
             holder[r] = q, holder'[r] # q
      PROVE  expires[r] < now \/ co'[q][r] # co[q][r] \/ proc'[q] # proc[q]
  <2>1. CASE Claimable(r, now)
    BY <1>1, <2>1, NoHolderAssumption DEF Claimable, Lapsed
  <2>2. CASE Release(q, r)
    BY <1>1, <2>2, IdleAt, ResumeEffect DEF Release, At
  <2>3. CASE Shutdown(q)
    BY <1>1, <2>3 DEF Shutdown, Die, AtLoop, TypeOK
  <2>4. QED
    BY <1>1, <2>1, <2>2, <2>3, HolderStep
<1>2. ASSUME TypeOK, [Next]_vars
      PROVE  \A r \in Runs, q \in Procs : GivenUp(r, q)
  BY <1>1, <1>2
<1>3. QED
  BY <1>2, TypeCorrect, PTL DEF Spec, ClaimRespected

\* Only a process that is up is between two statements of anything.
BusyIsLive == \A p \in Procs, r \in Runs : ~At(p, r, "idle") => Live(p)

\* A step for a run ends a process only by an unhandled rejection.
LEMMA RunStepProc ==
  ASSUME TypeOK, NEW p \in Procs, NEW r \in Runs, RunStep(p, r), NEW q \in Procs
  PROVE  \/ proc'[q] = proc[q]
         \/ q = p /\ UnhandledRejection(p, r) /\ proc'[q] = "crashed"
BY DEF RunStep, Statement, InsertRun, Remember, ClaimCreated, Load, Scan, MarkRunning,
       CheckLoop, CheckNode, CheckFinal, Count, Insert, InsertThrows, SetTerminal, Release,
       UnhandledRejection, Die, CreateRun, CancelRequest, CancelUpdate, Wake, Heartbeat,
       ResumeOrphan, Rest, TypeOK

LEMMA BusyIsLiveStep ==
  ASSUME TypeOK, BusyIsLive, [Next]_vars
  PROVE  BusyIsLive'
<1>1. ASSUME NEW p \in Procs, NEW q \in Procs, ProcStep(p), Live(q)
      PROVE  Live(q)' \/ \A r \in Runs : co'[q][r].at = "idle"
  BY <1>1, IdleAt, DieEffect DEF ProcStep, Start, Listen, Shutdown, Crash, Die, Live, TypeOK
<1>2. ASSUME NEW q \in Procs, NEW s \in Runs, co'[q][s].at # "idle"
      PROVE  Live(q)'
  <2>1. Live(q)
    <3>1. CASE co[q][s].at # "idle"
      BY <3>1 DEF BusyIsLive, At
    <3>2. CASE co[q][s].at = "idle" /\ RunStep(q, s)
      <4>1. CASE CreateRun(q, s) \/ ResumeOrphan(q, s) \/ Wake(q, s) \/ CancelRequest(q, s)
                 \/ Heartbeat(q, s)
        BY <4>1 DEF CreateRun, ResumeOrphan, Wake, CancelRequest, Heartbeat, AtLoop, Live
      <4>2. CASE CancelUpdate(q, s)
        BY <1>2, <3>2, <4>2, ResumeEffect DEF CancelUpdate, At
      <4>3. QED
        BY <3>2, <4>1, <4>2
           DEF RunStep, Statement, InsertRun, Remember, ClaimCreated, Load, Scan, MarkRunning,
               CheckLoop, CheckNode, CheckFinal, Count, Insert, InsertThrows,
               UnhandledRejection, SetTerminal, Release, At
    <3>3. QED
      BY <1>2, <3>1, <3>2, CoStep
  <2>2. CASE \E p \in Procs, r \in Runs : RunStep(p, r)
    <3>1. PICK p \in Procs, r \in Runs : RunStep(p, r)
      BY <2>2
    <3>2. q # p \/ ~UnhandledRejection(p, r)
      BY <1>2, ClosingMoves
    <3>3. QED
      BY <2>1, <3>1, <3>2, RunStepProc DEF Live
  <2>3. CASE Tick \/ UNCHANGED vars
    BY <2>1, <2>3 DEF Tick, vars, Live
  <2>4. QED
    BY <1>1, <1>2, <2>1, <2>2, <2>3 DEF Next
<1>3. QED
  BY <1>2 DEF BusyIsLive, At

\* A process that was shut down has left no claim behind, so the next one need
\* not wait for a claim to lapse.
THEOREM StoppedLeavesNoClaim == Spec => []StoppedHoldsNothing
<1>1. Init => BusyIsLive /\ StoppedHoldsNothing
  BY IdleAt DEF Init, BusyIsLive, StoppedHoldsNothing, At
<1>2. TypeOK /\ BusyIsLive /\ StoppedHoldsNothing /\ [Next]_vars =>
        (BusyIsLive /\ StoppedHoldsNothing)'
  <2>1. SUFFICES ASSUME TypeOK, BusyIsLive, StoppedHoldsNothing, [Next]_vars,
                        NEW p \in Procs, NEW r \in Runs, proc'[p] = "stopped"
                 PROVE  holder'[r] # p
    BY BusyIsLiveStep DEF StoppedHoldsNothing
  <2>2. proc[p] = "stopped" \/ Shutdown(p)
    <3>1. ASSUME NEW q \in Procs, ProcStep(q), ~Shutdown(p)
          PROVE  proc[p] = "stopped"
      BY <2>1, <3>1 DEF ProcStep, Start, Listen, Shutdown, Crash, Die, TypeOK
    <3>2. CASE Tick \/ UNCHANGED vars
      BY <2>1, <3>2 DEF Tick, vars
    <3>3. QED
      BY <2>1, <3>1, <3>2, RunStepProc DEF Next
  <2>3. CASE Shutdown(p)
    BY <2>3, NoHolderAssumption DEF Shutdown, ReleaseAllClaims
  <2>4. CASE proc[p] = "stopped"
    <3>1. ~ClaimCreated(p, r) /\ ~ResumeOrphan(p, r)
      BY <2>1, <2>4 DEF BusyIsLive, ClaimCreated, ResumeOrphan, At, Live
    <3>2. QED
      BY <2>1, <2>4, <3>1, NoHolderAssumption, HolderStep DEF StoppedHoldsNothing
  <2>5. QED
    BY <2>2, <2>3, <2>4
<1>3. QED
  BY <1>1, <1>2, TypeCorrect, PTL DEF Spec

-----------------------------------------------------------------------------
(* What becomes of a run, when no process stalls. *)

\* Nobody has a run whose row does not exist, but the request that is about to
\* insert it.
Unborn(r) ==
  /\ status[r] = "absent" => \A p \in Procs : http[p] # r /\ co[p][r].at \in {"idle", "insertRun"}
  /\ \A p \in Procs : At(p, r, "insertRun") =>
       /\ status[r] = "absent"
       /\ \A q \in Procs : q # p => At(q, r, "idle")

LastIs(r, type) == CountEvents(r) > 0 /\ events[r][CountEvents(r) - 1].type = type

\* What the process that executes r knows of its row and of its log.
Course(p, r) ==
  Executing(p, r) =>
    /\ status[r] \in Terminal => At(p, r, "release")
    /\ At(p, r, "terminal") => co[p][r].ev \in TerminalEvent /\ LastIs(r, co[p][r].ev)
    /\ At(p, r, "markRunning") => co[p][r].ev \in {"run.started", "run.resumed"}
    /\ co[p][r].at \in {"markRunning", "count", "insert"} /\ co[p][r].ev = "run.started" =>
         ~Logged(r, "run.started")
    /\ co[p][r].at \in {"count", "insert"} /\ co[p][r].ev \in {"node.cancelled", "run.cancelled"} =>
         status[r] = "cancelling"

\* A finished run was finished by the last event of its log.
EndLogged(r) ==
  status[r] \in Terminal => \E type \in TerminalEvent : LastIs(r, type) /\ StatusOf(type) = status[r]

OneStart(r) ==
  \A s, t \in DOMAIN events[r] :
    events[r][s].type = "run.started" /\ events[r][t].type = "run.started" => s = t

RunInv ==
  \A r \in Runs : Unborn(r) /\ (\A p \in Procs : Course(p, r)) /\ EndLogged(r) /\ OneStart(r)

\* Only CreateRun brings a coroutine to the INSERT of a run.
LEMMA InsertRunStep ==
  ASSUME TypeOK, [Next]_vars, NEW p \in Procs, NEW r \in Runs, At(p, r, "insertRun")'
  PROVE  At(p, r, "insertRun") \/ CreateRun(p, r)
<1>1. CASE RunStep(p, r) /\ ~CreateRun(p, r) /\ co'[p][r] # co[p][r]
  <2>1. co[p][r] \in Coroutine
    BY DEF TypeOK
  <2>2. co'[p][r].at = "insertRun"
    BY DEF At
  <2>3. ~Statement(p, r)
    BY <1>1, <2>1, <2>2, CreationMoves, OpeningMoves, LoopMoves, AppendMoves, ClosingMoves
       DEF Statement, ClaimCreated, Insert, Coroutine, EventType, NodeEvent, RunEvent
  <2>4. ~CancelUpdate(p, r) /\ ~Wake(p, r) /\ ~ResumeOrphan(p, r)
    BY <1>1, <2>2, CreationMoves, LoopMoves DEF ResumeOrphan
  <2>5. QED
    BY <1>1, <2>3, <2>4 DEF RunStep, CancelRequest, Heartbeat
<1>2. QED
  BY <1>1, CoStep DEF At

\* The statements that change the status of a run.
LEMMA StatusStep ==
  ASSUME TypeOK, [Next]_vars, NEW s \in Runs
  PROVE  \/ status'[s] = status[s]
         \/ \E p \in Procs :
              \/ InsertRun(p, s) /\ status'[s] = "pending"
              \/ MarkRunning(p, s) /\ status'[s] = "running"
              \/ SetTerminal(p, s) /\ status'[s] = StatusOf(co[p][s].ev)
              \/ /\ CancelUpdate(p, s)
                 /\ status[s] \notin Terminal /\ status'[s] = "cancelling"
<1>0. status \in [Runs -> Status]
  BY DEF TypeOK, StoreTypeOK
<1>1. ASSUME NEW p \in Procs, NEW r \in Runs, RunStep(p, r)
      PROVE  \/ status'[s] = status[s]
             \/ InsertRun(p, s) /\ status'[s] = "pending"
             \/ MarkRunning(p, s) /\ status'[s] = "running"
             \/ SetTerminal(p, s) /\ status'[s] = StatusOf(co[p][s].ev)
             \/ /\ CancelUpdate(p, s)
                /\ status[s] \notin Terminal /\ status'[s] = "cancelling"
  <2>1. CASE InsertRun(p, r)
    BY <1>0, <2>1 DEF InsertRun, InsertRunRow
  <2>2. CASE MarkRunning(p, r) \/ SetTerminal(p, r)
    BY <1>0, <2>2 DEF MarkRunning, SetTerminal, UpdateRunStatus
  <2>3. CASE CancelUpdate(p, r)
    BY <1>0, <2>3 DEF CancelUpdate, SetCancelRequested
  <2>4. CASE UNCHANGED status
    BY <2>4
  <2>5. QED
    BY <1>1, <2>1, <2>2, <2>3, <2>4
       DEF RunStep, Statement, Remember, ClaimCreated, Load, Scan, CheckLoop, Insert, CheckNode,
           CheckFinal, Count, InsertThrows, UnhandledRejection, Release, CreateRun,
           CancelRequest, Wake, Heartbeat, ResumeOrphan, TryClaim, tables, runRow, RenewClaim,
           AcquireClaim, InsertEvent, ReleaseClaim, InsertIdempotency
<1>2. ASSUME NEW p \in Procs, ProcStep(p)
      PROVE  UNCHANGED status
  BY <1>2 DEF ProcStep, Start, Listen, Shutdown, Crash, ReleaseAllClaims, tables, runRow
<1>3. QED
  BY <1>1, <1>2 DEF Next, Tick, vars, tables, runRow

\* What appendEvent does to the log of its run, if that has no gap.
LEMMA InsertEffect ==
  ASSUME LogInv, NEW p \in Procs, NEW r \in Runs, Insert(p, r)
  PROVE  /\ CountEvents(r) \in Nat
         /\ CountEvents(r)' = CountEvents(r) + 1
         /\ DOMAIN events[r] = 0 .. (CountEvents(r) - 1)
         /\ DOMAIN events'[r] = DOMAIN events[r] \cup {CountEvents(r)}
         /\ events'[r][CountEvents(r)].type = co[p][r].ev
         /\ \A i \in DOMAIN events[r] : events'[r][i] = events[r][i]
         /\ \A q \in Runs : q # r => events'[q] = events[q]
<1> DEFINE seq == co[p][r].seq
           row == [type |-> co[p][r].ev, node |-> EventNode(co[p][r])]
<1>1. StoreTypeOK /\ seq \in Nat /\ row \in Row /\ row.type = co[p][r].ev
  BY DEF LogInv, TypeOK, Coroutine, Row, EventNode
<1>2. /\ InsertEvent(r, seq, row)
      /\ ~KeyTaken(r, seq)
      /\ seq <= CountEvents(r)
      /\ DOMAIN events[r] = 0 .. (CountEvents(r) - 1)
  BY DEF Insert, LogInv, LogContiguous, CountedSeqs
<1> HIDE DEF seq, row
<1>3. CountEvents(r)' = CountEvents(r) + 1 /\ seq = CountEvents(r)
  BY <1>1, <1>2, InsertKeepsContiguous
<1>4. /\ DOMAIN events'[r] = DOMAIN events[r] \cup {seq}
      /\ events'[r][seq] = row
      /\ \A i \in DOMAIN events[r] : i # seq => events'[r][i] = events[r][i]
      /\ \A q \in Runs : q # r => events'[q] = events[q]
  BY <1>1, <1>2, InsertEventEffect, ZenonT(40)
<1>5. QED
  BY <1>1, <1>2, <1>3, <1>4, CountEventsType DEF KeyTaken

\* No other statement changes the log of a run.
LEMMA LogStep ==
  ASSUME LogInv, [Next]_vars, NEW s \in Runs
  PROVE  \/ events'[s] = events[s] /\ CountEvents(s)' = CountEvents(s)
         \/ \E p \in Procs : Insert(p, s)
<1>1. events'[s] = events[s] => CountEvents(s)' = CountEvents(s)
  BY DEF CountEvents
<1>2. ASSUME NEW p \in Procs, NEW r \in Runs, Insert(p, r), r # s
      PROVE  events'[s] = events[s]
  BY <1>2, InsertEffect
<1>3. QED
  BY <1>1, <1>2, EventsStep

\* A run that has no row is idle until its creation.
LEMMA AbsentMoves ==
  ASSUME TypeOK, [Next]_vars, NEW p \in Procs, NEW r \in Runs,
         status[r] = "absent", http[p] # r, co[p][r].at \in {"idle", "insertRun"}
  PROVE  \/ co'[p][r] = co[p][r]
         \/ co'[p][r].at = "idle"
         \/ CreateRun(p, r)
         \/ InsertRun(p, r)
<1>1. CASE RunStep(p, r)
  <2>1. ~Claimable(r, now)
    BY DEF Claimable, Resumable
  <2>2. ResumeOrphan(p, r) => co'[p][r].at = "idle"
    BY <2>1, CreationMoves DEF ResumeOrphan
  <2>3. QED
    BY <1>1, <2>2
       DEF RunStep, Statement, Remember, ClaimCreated, Load, Scan, MarkRunning, CheckLoop,
           CheckNode, CheckFinal, Count, Insert, InsertThrows, UnhandledRejection, SetTerminal,
           Release, CancelRequest, CancelUpdate, Wake, Heartbeat, At
<1>2. QED
  BY <1>1, CoStep

LEMMA UnbornStep ==
  ASSUME TypeOK, RunInv, [Next]_vars, NEW r \in Runs
  PROVE  Unborn(r)'
<1>0. Unborn(r)
  BY DEF RunInv
<1>1. ASSUME NEW p \in Procs, At(p, r, "insertRun")'
      PROVE  status'[r] = "absent"
  <2>1. status[r] = "absent"
    BY <1>0, <1>1, InsertRunStep DEF Unborn, CreateRun
  <2>2. ASSUME NEW q \in Procs, InsertRun(q, r)
        PROVE  FALSE
    <3>1. CASE q = p
      BY <1>1, <2>2, <3>1, CreationMoves DEF At
    <3>2. CASE q # p
      <4>1. At(p, r, "idle") /\ co'[p][r] = co[p][r]
        BY <1>0, <2>2, <3>2, ResumeEffect DEF Unborn, InsertRun
      <4>2. QED
        BY <1>1, <4>1 DEF At
    <3>3. QED
      BY <3>1, <3>2
  <2>3. ASSUME NEW q \in Procs, MarkRunning(q, r) \/ SetTerminal(q, r)
        PROVE  FALSE
    BY <1>0, <2>1, <2>3 DEF Unborn, MarkRunning, SetTerminal, At
  <2>4. ASSUME NEW q \in Procs, CancelUpdate(q, r)
        PROVE  FALSE
    BY <1>0, <2>1, <2>4 DEF Unborn, CancelUpdate
  <2>5. QED
    BY <2>1, <2>2, <2>3, <2>4, StatusStep
<1>2. ASSUME NEW p \in Procs, At(p, r, "insertRun")', NEW q \in Procs, q # p
      PROVE  At(q, r, "idle")'
  <2>1. status[r] = "absent" /\ At(q, r, "idle")
    BY <1>0, <1>2, InsertRunStep DEF Unborn, CreateRun, At
  <2>2. ~InsertRun(q, r) /\ http[q] # r
    BY <1>0, <2>1 DEF InsertRun, Unborn, At
  <2>3. ~CreateRun(q, r)
    <3>1. CreateRun(q, r) => At(p, r, "idle") /\ co'[p][r] = co[p][r]
      BY <1>2, ResumeEffect DEF CreateRun, At
    <3>2. QED
      BY <1>2, <3>1 DEF At
  <2>4. QED
    BY <2>1, <2>2, <2>3, AbsentMoves DEF At
<1>3. ASSUME status'[r] = "absent", NEW p \in Procs
      PROVE  co'[p][r].at \in {"idle", "insertRun"}
  <2>1. status[r] = "absent"
    BY <1>3, RowsStay
  <2>2. ~InsertRun(p, r)
    BY <1>3 DEF InsertRun, InsertRunRow, TypeOK, StoreTypeOK
  <2>3. QED
    BY <1>0, <2>1, <2>2, AbsentMoves, CreationMoves DEF Unborn
<1>4. ASSUME status'[r] = "absent", NEW p \in Procs
      PROVE  http'[p] # r
  <2>1. status[r] = "absent" /\ http[p] # r
    BY <1>0, <1>4, RowsStay DEF Unborn
  <2>2. ASSUME NEW q \in Procs, NEW s \in Runs, RunStep(q, s)
        PROVE  http'[p] # r
    BY <2>1, <2>2, NoRunAssumption
       DEF RunStep, Statement, InsertRun, Remember, ClaimCreated, Load, Scan, MarkRunning,
           CheckLoop, CheckNode, CheckFinal, Count, Insert, InsertThrows, UnhandledRejection,
           SetTerminal, Release, Die, CreateRun, CancelRequest, CancelUpdate, Wake, Heartbeat,
           ResumeOrphan, Rest, TypeOK, Resumable
  <2>3. ASSUME NEW q \in Procs, ProcStep(q)
        PROVE  http'[p] # r
    BY <2>1, <2>3, NoRunAssumption DEF ProcStep, Start, Listen, Shutdown, Crash, Die, TypeOK
  <2>4. QED
    BY <2>1, <2>2, <2>3 DEF Next, Tick, vars
<1>5. QED
  BY <1>1, <1>2, <1>3, <1>4 DEF Unborn, At

\* The facts that every step below starts from.
RunContext == LogInv /\ ExclusiveExecution /\ RunInv

\* The events and the status of a run are left alone by all but its executor,
\* except that anyone may ask for its cancellation.
LEMMA ForeignStep ==
  ASSUME RunContext, [Next]_vars, NEW p \in Procs, NEW r \in Runs,
         Executing(p, r), ~RunStep(p, r)
  PROVE  /\ events'[r] = events[r] /\ CountEvents(r)' = CountEvents(r)
         /\ \/ status'[r] = status[r]
            \/ status[r] \notin Terminal /\ status'[r] = "cancelling"
<1>1. ASSUME NEW q \in Procs, Insert(q, r) \/ MarkRunning(q, r) \/ SetTerminal(q, r)
      PROVE  FALSE
  <2>1. Executing(q, r)
    BY <1>1 DEF Insert, MarkRunning, SetTerminal, Executing, At
  <2>2. q = p
    BY <2>1 DEF RunContext, ExclusiveExecution
  <2>3. QED
    BY <1>1, <2>2 DEF RunStep, Statement
<1>2. ASSUME NEW q \in Procs, InsertRun(q, r)
      PROVE  FALSE
  <2>1. q # p => At(p, r, "idle")
    BY <1>2 DEF RunContext, RunInv, Unborn, InsertRun
  <2>2. QED
    BY <1>2, <2>1 DEF InsertRun, Executing, At
<1>3. TypeOK /\ LogInv
  BY DEF RunContext, LogInv
<1>4. QED
  BY <1>1, <1>2, <1>3, StatusStep, LogStep

\* The start of runWorkflow, up to the first append.
LEMMA CourseOpens ==
  ASSUME RunContext, [Next]_vars, NEW p \in Procs, NEW r \in Runs,
         \/ ClaimCreated(p, r) \/ ResumeOrphan(p, r)
         \/ Load(p, r) \/ Scan(p, r) \/ MarkRunning(p, r)
  PROVE  Course(p, r)'
<1>0. /\ TypeOK /\ Course(p, r) /\ co[p][r] \in Coroutine
      /\ status \in [Runs -> Status]
  BY DEF RunContext, LogInv, TypeOK, RunInv, StoreTypeOK
<1>1. CASE ClaimCreated(p, r) \/ ResumeOrphan(p, r)
  <2>1. TryClaim(p, r)
    BY <1>1 DEF ClaimCreated, ResumeOrphan
  <2>2. CASE Claimable(r, now)
    <3>1. co'[p][r].at = "load" /\ status'[r] \notin Terminal
      BY <1>0, <2>1, <2>2, CreationMoves DEF TryClaim, Claimable, AcquireClaim, Resumable, Terminal
    <3>2. QED
      BY <3>1 DEF Course, At
  <2>3. CASE ~Claimable(r, now)
    BY <1>0, <2>1, <2>3, CreationMoves DEF Course, Executing
  <2>4. QED
    BY <2>2, <2>3
<1>2. CASE Load(p, r)
  <2>1. Executing(p, r) /\ ~At(p, r, "release") /\ status' = status
    BY <1>2 DEF Load, Executing, At, tables, runRow
  <2>2. QED
    BY <1>0, <1>2, <2>1, OpeningMoves DEF Course, At
<1>3. CASE Scan(p, r)
  <2>1. Executing(p, r) /\ ~At(p, r, "release") /\ status' = status /\ events' = events
    BY <1>3 DEF Scan, Executing, At, tables, runRow
  <2>2. QED
    BY <1>0, <1>3, <2>1, OpeningMoves DEF Course, At, Logged
<1>4. CASE MarkRunning(p, r)
  <2>1. Executing(p, r) /\ At(p, r, "markRunning") /\ events' = events
    BY <1>4 DEF MarkRunning, Executing, At, UpdateRunStatus
  <2>2. status'[r] \notin Terminal
    BY <1>0, <1>4 DEF MarkRunning, UpdateRunStatus, Terminal
  <2>3. QED
    BY <1>0, <1>4, <2>1, <2>2, OpeningMoves DEF Course, At, Logged
<1>5. QED
  BY <1>1, <1>2, <1>3, <1>4

\* The loop over the nodes.
LEMMA CourseLoops ==
  ASSUME RunContext, [Next]_vars, NEW p \in Procs, NEW r \in Runs,
         \/ CheckLoop(p, r) \/ CheckNode(p, r) \/ CheckFinal(p, r)
         \/ Wake(p, r) \/ CancelUpdate(p, r)
  PROVE  Course(p, r)'
<1>0. /\ TypeOK /\ Course(p, r) /\ co[p][r] \in Coroutine
      /\ status \in [Runs -> Status]
  BY DEF RunContext, LogInv, TypeOK, RunInv, StoreTypeOK
<1>1. CASE CheckLoop(p, r) \/ CheckNode(p, r) \/ CheckFinal(p, r) \/ Wake(p, r)
  <2>1. Executing(p, r) /\ ~At(p, r, "release") /\ status' = status
    BY <1>1 DEF CheckLoop, CheckNode, CheckFinal, Wake, Executing, At, tables, runRow
  <2>2. QED
    BY <1>0, <1>1, <2>1, LoopMoves DEF Course, At
<1>2. CASE CancelUpdate(p, r)
  <2>1. /\ events' = events
        /\ status'[r] = IF status[r] \in Terminal THEN status[r] ELSE "cancelling"
    BY <1>0, <1>2 DEF CancelUpdate, SetCancelRequested
  <2>2. CountEvents(r)' = CountEvents(r)
    BY <2>1 DEF CountEvents
  <2>3. CASE co'[p][r] = co[p][r]
    BY <1>0, <2>1, <2>2, <2>3 DEF Course, Executing, At, Logged, LastIs, Terminal
  <2>4. CASE /\ At(p, r, "sleep")
             /\ co'[p][r].at = "count" /\ co'[p][r].ev = "node.cancelled"
    <3>1. status[r] \notin Terminal
      BY <1>0, <2>4 DEF Course, Executing, At
    <3>2. QED
      BY <2>1, <2>4, <3>1 DEF Course, Executing, At, Terminal
  <2>5. QED
    BY <1>0, <1>2, <2>3, <2>4, LoopMoves
<1>3. QED
  BY <1>1, <1>2

\* appendEvent, and the end of the run.
LEMMA CourseAppends ==
  ASSUME RunContext, [Next]_vars, NEW p \in Procs, NEW r \in Runs,
         \/ Count(p, r) \/ Insert(p, r) \/ InsertThrows(p, r) \/ UnhandledRejection(p, r)
         \/ SetTerminal(p, r) \/ Release(p, r)
  PROVE  Course(p, r)'
<1>0. /\ TypeOK /\ Course(p, r) /\ co[p][r] \in Coroutine
      /\ status \in [Runs -> Status]
  BY DEF RunContext, LogInv, TypeOK, RunInv, StoreTypeOK
<1>1. CASE Count(p, r) \/ InsertThrows(p, r)
  <2>1. /\ Executing(p, r) /\ ~At(p, r, "release") /\ status' = status /\ events' = events
        /\ Count(p, r) => At(p, r, "count")
    BY <1>1 DEF Count, InsertThrows, Executing, At, tables, runRow
  <2>2. QED
    BY <1>0, <1>1, <2>1, AppendMoves DEF Course, At, Logged
<1>2. CASE Insert(p, r)
  <2>1. Executing(p, r) /\ At(p, r, "insert") /\ ~At(p, r, "release") /\ status' = status
    BY <1>2 DEF Insert, Executing, At, InsertEvent, runRow
  <2>2. status[r] \notin Terminal
    BY <1>0, <2>1 DEF Course
  <2>3. co[p][r].ev = "node.cancelled" => status[r] = "cancelling"
    BY <1>0, <2>1 DEF Course, At
  <2>4. ASSUME NEW type, type = co[p][r].ev
        PROVE  LastIs(r, type)'
    BY <1>2, <2>4, InsertEffect DEF RunContext, LastIs
  <2>5. co'[p][r].ev = co[p][r].ev => LastIs(r, co[p][r].ev)'
    BY <2>4 DEF LastIs
  <2>6. QED
    BY <1>0, <1>2, <2>1, <2>2, <2>3, <2>5, AppendMoves
       DEF Course, At, Coroutine, EventType, NodeEvent, RunEvent, TerminalEvent
<1>3. CASE UnhandledRejection(p, r) \/ Release(p, r)
  BY <1>0, <1>3, ClosingMoves DEF Course, Executing
<1>4. CASE SetTerminal(p, r)
  BY <1>0, <1>4, ClosingMoves DEF Course, At
<1>5. QED
  BY <1>1, <1>2, <1>3, <1>4

LEMMA CourseStep ==
  ASSUME RunContext, [Next]_vars, NEW p \in Procs, NEW r \in Runs
  PROVE  Course(p, r)'
<1>0. TypeOK /\ Course(p, r) /\ co[p][r] \in Coroutine
  BY DEF RunContext, LogInv, RunInv, TypeOK
<1>1. CASE RunStep(p, r)
  <2>1. CASE CreateRun(p, r) \/ InsertRun(p, r) \/ Remember(p, r)
    BY <1>0, <2>1, CreationMoves DEF Course, Executing
  <2>2. CASE CancelRequest(p, r) \/ Heartbeat(p, r)
    <3>1. co' = co /\ status' = status /\ events' = events
      BY <2>2 DEF CancelRequest, Heartbeat, RenewClaim, tables, runRow
    <3>2. QED
      BY <1>0, <3>1 DEF Course, Executing, At, Logged, LastIs, CountEvents
  <2>3. QED
    BY <1>1, <2>1, <2>2, CourseOpens, CourseLoops, CourseAppends DEF RunStep, Statement
<1>2. CASE ~RunStep(p, r)
  <2>1. CASE co'[p][r].at = "idle"
    BY <2>1 DEF Course, Executing
  <2>2. CASE co'[p][r] = co[p][r] /\ Executing(p, r)
    <3>1. /\ events'[r] = events[r] /\ CountEvents(r)' = CountEvents(r)
          /\ \/ status'[r] = status[r]
             \/ status[r] \notin Terminal /\ status'[r] = "cancelling"
      BY <1>2, <2>2, ForeignStep
    <3>2. QED
      BY <1>0, <2>2, <3>1 DEF Course, Executing, At, Logged, LastIs, Terminal
  <2>3. QED
    BY <1>0, <1>2, <2>1, <2>2, CoStep DEF Course, Executing
<1>3. QED
  BY <1>1, <1>2

LEMMA EndLoggedStep ==
  ASSUME RunContext, [Next]_vars, NEW r \in Runs
  PROVE  EndLogged(r)'
<1>0. TypeOK /\ EndLogged(r) /\ LogInv /\ \A p \in Procs : Course(p, r)
  BY DEF RunContext, LogInv, RunInv
<1>1. SUFFICES ASSUME status'[r] \in Terminal
               PROVE  \E type \in TerminalEvent : LastIs(r, type)' /\ StatusOf(type) = status'[r]
  BY DEF EndLogged
<1>2. CASE status'[r] = status[r]
  <2>1. ASSUME NEW p \in Procs, Insert(p, r)
        PROVE  FALSE
    BY <1>0, <1>1, <1>2, <2>1 DEF Course, Insert, Executing, At
  <2>2. events'[r] = events[r] /\ CountEvents(r)' = CountEvents(r)
    BY <1>0, <2>1, LogStep
  <2>3. QED
    BY <1>0, <1>1, <1>2, <2>2 DEF EndLogged, LastIs
<1>3. ASSUME NEW p \in Procs, SetTerminal(p, r), status'[r] = StatusOf(co[p][r].ev)
      PROVE  co[p][r].ev \in TerminalEvent /\ LastIs(r, co[p][r].ev) /\ events' = events
  BY <1>0, <1>3 DEF Course, SetTerminal, UpdateRunStatus, Executing, At
<1>4. QED
  BY <1>0, <1>1, <1>2, <1>3, StatusStep DEF Terminal, LastIs, CountEvents

LEMMA OneStartStep ==
  ASSUME RunContext, [Next]_vars, NEW r \in Runs
  PROVE  OneStart(r)'
<1>0. LogInv /\ OneStart(r) /\ \A p \in Procs : Course(p, r)
  BY DEF RunContext, RunInv
<1>1. CASE events'[r] = events[r]
  BY <1>0, <1>1 DEF OneStart
<1>2. ASSUME NEW p \in Procs, Insert(p, r)
      PROVE  OneStart(r)'
  <2>1. co[p][r].ev = "run.started" => ~Logged(r, "run.started")
    BY <1>0, <1>2 DEF Course, Insert, Executing, At
  <2>2. QED
    BY <1>0, <1>2, <2>1, InsertEffect DEF OneStart, Logged
<1>3. QED
  BY <1>0, <1>1, <1>2, LogStep

\* The invariant behind the theorems about runs.
LEMMA RunInvariant ==
  ASSUME MayStall = {}, HeartbeatInterval <= ClaimTtl
  PROVE  Spec => []RunContext
<1>1. Init => RunInv
  <2>1. Init => \A r \in Runs : /\ status[r] = "absent" /\ DOMAIN events[r] = {}
                                /\ \A p \in Procs : co[p][r].at = "idle" /\ http[p] # r
    BY IdleAt, NoRunAssumption DEF Init, StoreInit
  <2>2. QED
    BY <2>1 DEF RunInv, Unborn, Course, EndLogged, OneStart, Executing, At, Terminal
<1>2. Init => LogContiguous /\ CountedSeqs
  BY LogInvInit
<1>3. LogInv /\ [Next]_vars => (LogContiguous /\ CountedSeqs)'
  BY LogInvStep
<1>4. LogInv /\ ExclusiveExecution /\ RunInv /\ [Next]_vars => RunInv'
  BY UnbornStep, CourseStep, EndLoggedStep, OneStartStep DEF RunInv, RunContext, LogInv
<1>5. QED
  BY <1>1, <1>2, <1>3, <1>4, TypeCorrect, ExecutionIsExclusive, PTL
     DEF Spec, LogInv, RunContext

\* However often a run is handed over between processes, its log says at most
\* once that it was started.
THEOREM RunsStartOnce ==
  ASSUME MayStall = {}, HeartbeatInterval <= ClaimTtl
  PROVE  Spec => []StartedOnce
<1>1. RunContext => StartedOnce
  BY DEF RunContext, RunInv, OneStart, StartedOnce
<1>2. QED
  BY <1>1, RunInvariant, PTL

\* The status of a finished run is the one that the last event of its log
\* announces: the snapshot and the log of a run never disagree.
THEOREM StatusFollowsLog ==
  ASSUME MayStall = {}, HeartbeatInterval <= ClaimTtl
  PROVE  Spec => []StatusMatchesLog
<1>1. RunContext => StatusMatchesLog
  BY DEF RunContext, RunInv, EndLogged, LastIs, StatusMatchesLog
<1>2. QED
  BY <1>1, RunInvariant, PTL

\* A step finds nothing to do to a finished run.
LEMMA FrozenStep ==
  ASSUME RunContext, [Next]_vars, NEW r \in Runs, status[r] \in Terminal
  PROVE  status'[r] = status[r] /\ events'[r] = events[r]
<1>1. TypeOK /\ LogInv /\ Unborn(r) /\ \A p \in Procs : Course(p, r)
  BY DEF RunContext, LogInv, RunInv
<1>2. ASSUME NEW p \in Procs, Insert(p, r) \/ MarkRunning(p, r) \/ SetTerminal(p, r)
      PROVE  FALSE
  BY <1>1, <1>2 DEF Course, Insert, MarkRunning, SetTerminal, Executing, At
<1>3. ASSUME NEW p \in Procs, InsertRun(p, r)
      PROVE  FALSE
  BY <1>1, <1>3 DEF Unborn, InsertRun, At, Terminal
<1>4. QED
  BY <1>1, <1>2, <1>3, StatusStep, LogStep

\* No late cancellation, resumption or append touches a finished run.
THEOREM FinishedRunsAreFrozen ==
  ASSUME MayStall = {}, HeartbeatInterval <= ClaimTtl
  PROVE  Spec => TerminalFrozen
<1> DEFINE Frozen == \A r \in Runs : status[r] \in Terminal =>
                       status'[r] = status[r] /\ events'[r] = events[r]
<1>1. RunContext /\ [Next]_vars => [Frozen]_<<status, events>>
  BY FrozenStep
<1>2. QED
  BY <1>1, RunInvariant, PTL DEF Spec, TerminalFrozen

\* A cancellation is only logged for a run whose row asks for one.
THEOREM CancelsAreRequested ==
  ASSUME MayStall = {}, HeartbeatInterval <= ClaimTtl
  PROVE  Spec => CancelledOnRequest
<1> DEFINE Asked == \A r \in Runs : \A s \in DOMAIN events'[r] \ DOMAIN events[r] :
                      events'[r][s].type \in {"node.cancelled", "run.cancelled"} =>
                        status[r] = "cancelling"
<1>1. ASSUME RunContext, [Next]_vars, NEW r \in Runs,
             NEW s \in DOMAIN events'[r] \ DOMAIN events[r],
             events'[r][s].type \in {"node.cancelled", "run.cancelled"}
      PROVE  status[r] = "cancelling"
  <2>1. LogInv /\ \A p \in Procs : Course(p, r)
    BY <1>1 DEF RunContext, RunInv
  <2>2. ASSUME NEW p \in Procs, Insert(p, r)
        PROVE  status[r] = "cancelling"
    <3>1. s = CountEvents(r) /\ events'[r][s].type = co[p][r].ev
      BY <1>1, <2>1, <2>2, InsertEffect
    <3>2. QED
      BY <1>1, <2>1, <2>2, <3>1 DEF Course, Insert, Executing, At
  <2>3. QED
    BY <1>1, <2>1, <2>2, LogStep
<1>2. RunContext /\ [Next]_vars => [Asked]_events
  BY <1>1
<1>3. QED
  BY <1>2, RunInvariant, PTL DEF Spec, CancelledOnRequest

-----------------------------------------------------------------------------
(* The refinement: each statement is a step of RunLifecycle, or a stutter. *)

\* Executors of the abstract specification.
Executors == [r \in Runs |-> ExecutorOf(r)]
Phases == [r \in Runs |-> LifecyclePhase(r)]
Logs == [r \in Runs |-> LogOf(r)]

LEMMA ExecutorIs ==
  ASSUME ExclusiveExecution, NEW r \in Runs
  PROVE  /\ \A p \in Procs : Executing(p, r) => ExecutorOf(r) = p
         /\ (\A p \in Procs : ~Executing(p, r)) => ExecutorOf(r) = NoHolder
BY DEF ExclusiveExecution, ExecutorOf

LEMMA ExecutorWillBe ==
  ASSUME ExclusiveExecution', NEW r \in Runs
  PROVE  /\ \A p \in Procs : Executing(p, r)' => ExecutorOf(r)' = p
         /\ (\A p \in Procs : ~Executing(p, r)') => ExecutorOf(r)' = NoHolder
BY DEF ExclusiveExecution, ExecutorOf

LEMMA SameExecutor ==
  ASSUME ExclusiveExecution, ExclusiveExecution', NEW r \in Runs,
         \A p \in Procs : Executing(p, r)' <=> Executing(p, r)
  PROVE  ExecutorOf(r)' = ExecutorOf(r)
BY ExecutorIs, ExecutorWillBe

LEMMA LogOfType ==
  ASSUME TypeOK, LogContiguous, NEW r \in Runs
  PROVE  /\ LogOf(r) \in Seq(EventType)
         /\ Len(LogOf(r)) = CountEvents(r)
         /\ \A i \in 1 .. CountEvents(r) : LogOf(r)[i] = events[r][i - 1].type
<1>1. CountEvents(r) \in Nat
  BY CountEventsType DEF TypeOK
<1>2. \A i \in 1 .. CountEvents(r) : i - 1 \in DOMAIN events[r]
  BY <1>1 DEF LogContiguous
<1>3. \A i \in 1 .. CountEvents(r) : events[r][i - 1].type \in EventType
  BY <1>2 DEF TypeOK, StoreTypeOK, Row
<1>4. LogOf(r) \in [1 .. CountEvents(r) -> EventType]
  BY <1>3 DEF LogOf
<1>5. LogOf(r) \in Seq(EventType)
  BY <1>1, <1>4
<1>6. QED
  BY <1>1, <1>4, <1>5, LenProperties DEF LogOf

\* An append to the rows of a run is an append to its abstract log.
LEMMA LogAppends ==
  ASSUME LogInv, NEW p \in Procs, NEW r \in Runs, Insert(p, r)
  PROVE  Logs' = [Logs EXCEPT ![r] = Append(@, co[p][r].ev)]
<1> DEFINE n == CountEvents(r)
<1>1. /\ n \in Nat /\ CountEvents(r)' = n + 1
      /\ DOMAIN events[r] = 0 .. (n - 1)
      /\ events'[r][n].type = co[p][r].ev
      /\ \A i \in DOMAIN events[r] : events'[r][i] = events[r][i]
      /\ \A q \in Runs : q # r => events'[q] = events[q]
  BY InsertEffect
<1>2. LogOf(r)' = [i \in 1 .. n + 1 |-> events'[r][i - 1].type]
  BY <1>1 DEF LogOf
<1>3. \A i \in 1 .. n : events'[r][i - 1].type = events[r][i - 1].type
  <2>1. \A i \in 1 .. n : i - 1 \in 0 .. (n - 1)
    BY <1>1
  <2>2. QED
    BY <1>1, <2>1
<1>4. LogOf(r) = [i \in 1 .. n |-> events[r][i - 1].type]
  BY DEF LogOf
<1> HIDE DEF n
<1>5. Append(LogOf(r), co[p][r].ev) = LogOf(r)'
  <2>1. LogOf(r) \in Seq(EventType) /\ Len(LogOf(r)) = n /\ co[p][r].ev \in EventType
    BY LogOfType DEF n, LogInv, TypeOK, Coroutine
  <2>2. /\ Append(LogOf(r), co[p][r].ev) \in Seq(EventType)
        /\ Len(Append(LogOf(r), co[p][r].ev)) = n + 1
        /\ \A i \in 1 .. n : Append(LogOf(r), co[p][r].ev)[i] = LogOf(r)[i]
        /\ Append(LogOf(r), co[p][r].ev)[n + 1] = co[p][r].ev
    BY <2>1, AppendProperties
  <2>3. \A i \in 1 .. n + 1 : Append(LogOf(r), co[p][r].ev)[i] = LogOf(r)'[i]
    <3>1. \A i \in 1 .. n : LogOf(r)'[i] = LogOf(r)[i]
      BY <1>1, <1>2, <1>3, <1>4
    <3>2. LogOf(r)'[n + 1] = co[p][r].ev
      BY <1>1, <1>2
    <3>3. \A i \in 1 .. n + 1 : i \in 1 .. n \/ i = n + 1
      BY <1>1
    <3>4. QED
      BY <2>2, <3>1, <3>2, <3>3
  <2>4. LogOf(r)' \in [1 .. n + 1 -> EventType]
    BY <1>2, <2>1, <2>2, <2>3, LenProperties
  <2>5. LogOf(r)' \in Seq(EventType) /\ Len(LogOf(r)') = n + 1
    BY <1>1, <2>4
  <2>6. QED
    BY <2>2, <2>3, <2>5, SeqEqual
<1>6. ASSUME NEW q \in Runs, q # r
      PROVE  LogOf(q)' = LogOf(q)
  BY <1>1, <1>6 DEF LogOf, CountEvents
<1>7. QED
  BY <1>5, <1>6 DEF Logs

\* A step for a run moves no coroutine of another.
LEMMA OthersStay ==
  ASSUME TypeOK, NEW p \in Procs, NEW r \in Runs, RunStep(p, r), ~UnhandledRejection(p, r),
         NEW q \in Procs, NEW s \in Runs, q # p \/ s # r
  PROVE  co'[q][s] = co[q][s]
<1>1. CASE UNCHANGED co
  BY <1>1
<1>2. ASSUME NEW c, Resume(p, r, c)
      PROVE  co'[q][s] = co[q][s]
  BY <1>2, ResumeEffect
<1>3. QED
  BY <1>1, <1>2
     DEF RunStep, Statement, InsertRun, Remember, ClaimCreated, Load, Scan, MarkRunning,
         CheckLoop, CheckNode, CheckFinal, Count, Insert, InsertThrows, SetTerminal, Release,
         CreateRun, CancelRequest, CancelUpdate, Wake, Heartbeat, ResumeOrphan, TryClaim

\* A process that is still to resume a run has nothing to do with it yet.
OrphansWait ==
  \A p \in Procs : \A r \in orphans[p] : proc[p] = "resuming" /\ At(p, r, "idle")

\* A step for a run takes at most that run from the orphans of its process.
LEMMA OrphansStep ==
  ASSUME TypeOK, NEW p \in Procs, NEW r \in Runs, RunStep(p, r), NEW q \in Procs
  PROVE  /\ orphans'[q] \subseteq orphans[q]
         /\ ResumeOrphan(q, r) /\ q = p => r \notin orphans'[q]
         /\ UnhandledRejection(p, r) => orphans'[p] = {}
<1>1. CASE ResumeOrphan(p, r)
  BY <1>1 DEF ResumeOrphan, UnhandledRejection, Die, TypeOK
<1>2. CASE UnhandledRejection(p, r)
  BY <1>2 DEF UnhandledRejection, Die, TypeOK
<1>3. CASE UNCHANGED orphans
  BY <1>3 DEF UnhandledRejection, Die, ResumeOrphan, TypeOK
<1>4. QED
  BY <1>1, <1>2, <1>3
     DEF RunStep, Statement, InsertRun, Remember, ClaimCreated, Load, Scan, MarkRunning,
         CheckLoop, CheckNode, CheckFinal, Count, Insert, InsertThrows, SetTerminal, Release,
         CreateRun, CancelRequest, CancelUpdate, Wake, Heartbeat, Rest

LEMMA OrphansWaitStep ==
  ASSUME TypeOK, BusyIsLive, OrphansWait, [Next]_vars
  PROVE  OrphansWait'
<1>1. SUFFICES ASSUME NEW q \in Procs, NEW s \in orphans'[q]
               PROVE  proc'[q] = "resuming" /\ co'[q][s].at = "idle"
  BY DEF OrphansWait, At
<1>2. ASSUME NEW p \in Procs, NEW r \in Runs, RunStep(p, r)
      PROVE  proc'[q] = "resuming" /\ co'[q][s].at = "idle"
  <2>1. s \in orphans[q] /\ s \in Runs
    BY <1>2, OrphansStep DEF TypeOK
  <2>2. proc[q] = "resuming" /\ co[q][s].at = "idle"
    BY <2>1 DEF OrphansWait, At
  <2>3. ~UnhandledRejection(q, r) \/ p # q
    BY <1>2, OrphansStep
  <2>4. proc'[q] = "resuming"
    BY <1>2, <2>2, <2>3, RunStepProc
  <2>5. ~CreateRun(q, s) /\ ~Statement(q, s) /\ ~Wake(q, s)
    BY <2>2
       DEF CreateRun, AtLoop, Wake, Statement, InsertRun, Remember, ClaimCreated, Load, Scan,
           MarkRunning, CheckLoop, CheckNode, CheckFinal, Count, Insert, InsertThrows,
           UnhandledRejection, SetTerminal, Release, At
  <2>6. ~(p = q /\ r = s /\ ResumeOrphan(q, s))
    BY <1>2, OrphansStep
  <2>7. CASE p = q /\ r = s
    <3>1. CancelRequest(q, s) \/ Heartbeat(q, s) \/ CancelUpdate(q, s)
      BY <1>2, <2>5, <2>6, <2>7 DEF RunStep
    <3>2. co'[q][s] = co[q][s]
      BY <2>1, <2>2, <3>1, LoopMoves DEF CancelRequest, Heartbeat, At
    <3>3. QED
      BY <2>2, <2>4, <3>2
  <2>8. CASE p # q \/ r # s
    <3>1. UnhandledRejection(p, r) => p # q /\ co'[q][s] = co[q][s]
      BY <2>3, DieEffect DEF UnhandledRejection
    <3>2. ~UnhandledRejection(p, r) => co'[q][s] = co[q][s]
      BY <1>2, <2>1, <2>8, OthersStay
    <3>3. QED
      BY <2>2, <2>4, <3>1, <3>2
  <2>9. QED
    BY <2>4, <2>7, <2>8
<1>3. ASSUME NEW p \in Procs, ProcStep(p)
      PROVE  proc'[q] = "resuming" /\ co'[q][s].at = "idle"
  <2>1. CASE Start(p)
    BY <2>1 DEF Start, OrphansWait, BusyIsLive, Live, At, TypeOK, OrphanRuns
  <2>2. CASE Listen(p)
    BY <2>2 DEF Listen, OrphansWait, At, TypeOK
  <2>3. ASSUME NEW phase, Die(p, phase)
        PROVE  proc'[q] = "resuming" /\ co'[q][s].at = "idle"
    BY <2>3 DEF Die, OrphansWait, At, TypeOK
  <2>4. QED
    BY <1>3, <2>1, <2>2, <2>3 DEF ProcStep, Shutdown, Crash
<1>4. CASE Tick \/ UNCHANGED vars
  BY <1>4 DEF Tick, vars, OrphansWait, At
<1>5. QED
  BY <1>2, <1>3, <1>4 DEF Next

\* The facts about the two states of a step.
Mapped == RunContext /\ LeaseHeld /\ OrphansWait

\* Nobody starts or stops executing a run but by these statements.
LEMMA SameExecutors ==
  ASSUME Mapped, Mapped', NEW p \in Procs, NEW r \in Runs, RunStep(p, r),
         ~UnhandledRejection(p, r), ~Release(p, r),
         TryClaim(p, r) => ~Claimable(r, now)
  PROVE  Executors' = Executors
<1>0. TypeOK /\ ExclusiveExecution /\ ExclusiveExecution' /\ co[p][r] \in Coroutine
  BY DEF Mapped, RunContext, LogInv, TypeOK
<1>1. Executing(p, r)' <=> Executing(p, r)
  <2>1. CASE CreateRun(p, r) \/ InsertRun(p, r) \/ Remember(p, r)
    BY <1>0, <2>1, CreationMoves DEF CreateRun, InsertRun, Remember, Executing, At
  <2>2. CASE ClaimCreated(p, r)
    BY <1>0, <2>2, CreationMoves DEF ClaimCreated, Executing, At
  <2>3. CASE ResumeOrphan(p, r)
    <3>1. co[p][r].at = "idle"
      BY <2>3 DEF Mapped, OrphansWait, ResumeOrphan, At
    <3>2. QED
      BY <1>0, <2>3, <3>1, CreationMoves DEF ResumeOrphan, Executing
  <2>4. CASE Load(p, r) \/ Scan(p, r) \/ MarkRunning(p, r)
    BY <1>0, <2>4, OpeningMoves DEF Load, Scan, MarkRunning, Executing, At
  <2>5. CASE CheckLoop(p, r) \/ CheckNode(p, r) \/ CheckFinal(p, r) \/ Wake(p, r)
             \/ CancelUpdate(p, r)
    BY <1>0, <2>5, LoopMoves DEF CheckLoop, CheckNode, CheckFinal, Wake, Executing, At
  <2>6. CASE Count(p, r) \/ Insert(p, r) \/ InsertThrows(p, r)
    BY <1>0, <2>6, AppendMoves
       DEF Count, Insert, InsertThrows, Executing, At, Coroutine, EventType, RunEvent, NodeEvent
  <2>7. CASE SetTerminal(p, r)
    BY <1>0, <2>7, ClosingMoves DEF SetTerminal, Executing, At
  <2>8. CASE CancelRequest(p, r) \/ Heartbeat(p, r)
    BY <2>8 DEF CancelRequest, Heartbeat, Executing
  <2>9. QED
    BY <2>1, <2>2, <2>3, <2>4, <2>5, <2>6, <2>7, <2>8 DEF RunStep, Statement
<1>2. \A q \in Procs, s \in Runs : Executing(q, s)' <=> Executing(q, s)
  BY <1>0, <1>1, OthersStay DEF Executing
<1>3. QED
  BY <1>0, <1>2, SameExecutor DEF Executors

\* A run that someone executes is open until its end is in its row.
LEMMA ExecutedIsOpen ==
  ASSUME Mapped, NEW p \in Procs, NEW r \in Runs, Executing(p, r), ~At(p, r, "release")
  PROVE  status[r] \in Resumable /\ LifecyclePhase(r) = "open" /\ ExecutorOf(r) = p
<1>1. status[r] # "absent"
  BY DEF Mapped, RunContext, RunInv, Unborn, Executing
<1>2. status[r] \notin Terminal
  BY DEF Mapped, RunContext, RunInv, Course
<1>3. status[r] \in Resumable
  BY <1>1, <1>2 DEF Mapped, RunContext, LogInv, TypeOK, StoreTypeOK, Status
<1>4. QED
  BY <1>3, ExecutorIs DEF Mapped, RunContext, LifecyclePhase

\* No log changes but by Insert, and no phase but by InsertRun and SetTerminal.
LEMMA SameLogs ==
  ASSUME Mapped, [Next]_vars
  PROVE  Logs' = Logs \/ \E p \in Procs, r \in Runs : Insert(p, r)
BY LogStep DEF Mapped, RunContext, Logs, LogOf

LEMMA SamePhases ==
  ASSUME Mapped, [Next]_vars
  PROVE  \/ Phases' = Phases
         \/ \E p \in Procs, r \in Runs : InsertRun(p, r) \/ SetTerminal(p, r)
<1>1. SUFFICES ASSUME NEW r \in Runs, \A p \in Procs : ~InsertRun(p, r) /\ ~SetTerminal(p, r)
               PROVE  LifecyclePhase(r)' = LifecyclePhase(r)
  BY DEF Phases
<1>2. CASE status'[r] = status[r]
  BY <1>2 DEF LifecyclePhase
<1>3. ASSUME NEW p \in Procs, MarkRunning(p, r), status'[r] = "running"
      PROVE  LifecyclePhase(r)' = LifecyclePhase(r)
  <2>1. LifecyclePhase(r) = "open"
    BY <1>3, ExecutedIsOpen DEF MarkRunning, Executing, At
  <2>2. QED
    BY <1>3, <2>1 DEF LifecyclePhase, Resumable
<1>4. ASSUME NEW p \in Procs, CancelUpdate(p, r),
             status[r] \notin Terminal, status'[r] = "cancelling"
      PROVE  LifecyclePhase(r)' = LifecyclePhase(r)
  <2>1. status[r] \in Resumable
    BY <1>4 DEF CancelUpdate, Mapped, RunContext, RunInv, Unborn, LogInv, TypeOK, StoreTypeOK, Status
  <2>2. QED
    BY <1>4, <2>1 DEF LifecyclePhase, Resumable
<1>5. TypeOK
  BY DEF Mapped, RunContext, LogInv
<1>6. QED
  BY <1>1, <1>2, <1>3, <1>4, <1>5, StatusStep

\* The abstract actions, in terms of the variables they are mapped to.
LEMMA AbstractSubmit ==
  ASSUME NEW r \in Runs, Phases[r] = "absent", Phases' = [Phases EXCEPT ![r] = "open"],
         Executors' = [Executors EXCEPT ![r] = NoHolder], Logs' = Logs
  PROVE  Lifecycle!Next
<1>1. Lifecycle!Submit(r)
  BY DEF Lifecycle!Submit, Phases, Executors, Logs
<1>2. QED
  BY <1>1 DEF Lifecycle!Next

LEMMA AbstractTake ==
  ASSUME NEW r \in Runs, NEW p \in Procs, Phases[r] = "open", Executors[r] = NoHolder,
         Executors' = [Executors EXCEPT ![r] = p], Phases' = Phases, Logs' = Logs
  PROVE  Lifecycle!Next
<1>1. Lifecycle!Take(r, p)
  BY DEF Lifecycle!Take, Phases, Executors, Logs
<1>2. QED
  BY <1>1 DEF Lifecycle!Next

LEMMA AbstractRecord ==
  ASSUME NEW r \in Runs, NEW e \in EventType, Phases[r] = "open", Executors[r] # NoHolder,
         Logs' = [Logs EXCEPT ![r] = Append(@, e)], Phases' = Phases, Executors' = Executors
  PROVE  Lifecycle!Next
<1>1. Lifecycle!Record(r)
  BY DEF Lifecycle!Record, Phases, Executors, Logs
<1>2. QED
  BY <1>1 DEF Lifecycle!Next

LEMMA AbstractFinish ==
  ASSUME NEW r \in Runs, NEW e \in TerminalEvent, Phases[r] = "open",
         Executors[r] # NoHolder, Logs[r] # <<>>, Logs[r][Len(Logs[r])] = e,
         Phases' = [Phases EXCEPT ![r] = StatusOf(e)], Logs' = Logs, Executors' = Executors
  PROVE  Lifecycle!Next
<1>1. Lifecycle!Finish(r)
  BY DEF Lifecycle!Finish, Phases, Executors, Logs
<1>2. QED
  BY <1>1 DEF Lifecycle!Next

LEMMA AbstractDrop ==
  ASSUME NEW S \in SUBSET Runs,
         Executors' = [s \in Runs |-> IF s \in S THEN NoHolder ELSE Executors[s]],
         Phases' = Phases, Logs' = Logs
  PROVE  Lifecycle!Next
<1>1. Lifecycle!Drop(S)
  BY DEF Lifecycle!Drop, Phases, Executors, Logs
<1>2. QED
  BY <1>1 DEF Lifecycle!Next

LEMMA AbstractStutter ==
  ASSUME Phases' = Phases, Logs' = Logs, Executors' = Executors
  PROVE  UNCHANGED Lifecycle!vars
BY DEF Lifecycle!vars, Phases, Executors, Logs

\* How each step of the host appears to RunLifecycle: the INSERT of a run ...
LEMMA InsertRunMaps ==
  ASSUME Mapped, Mapped', [Next]_vars, NEW p \in Procs, NEW r \in Runs, InsertRun(p, r)
  PROVE  Lifecycle!Next
<1>0. TypeOK /\ ExclusiveExecution /\ Unborn(r) /\ RunStep(p, r)
  BY DEF Mapped, RunContext, LogInv, RunInv, RunStep, Statement
<1>1. status[r] = "absent" /\ \A q \in Procs : ~Executing(q, r)
  BY <1>0 DEF Unborn, InsertRun, Executing, At
<1>2. ~TryClaim(p, r) /\ ~Release(p, r) /\ ~UnhandledRejection(p, r)
  <2>1. status'[r] = "pending"
    BY <1>0 DEF InsertRun, InsertRunRow, TypeOK, StoreTypeOK
  <2>2. TryClaim(p, r) => status'[r] = status[r]
    BY DEF TryClaim, AcquireClaim, tables, runRow
  <2>3. QED
    BY <1>1, <2>1, <2>2 DEF InsertRun, Release, UnhandledRejection, At
<1>3. Executors' = Executors /\ Executors[r] = NoHolder
  BY <1>0, <1>1, <1>2, SameExecutors, ExecutorIs DEF Executors
<1>4. Executors' = [Executors EXCEPT ![r] = NoHolder]
  BY <1>3 DEF Executors
<1>5. Logs' = Logs
  BY DEF InsertRun, InsertRunRow, Logs, LogOf, CountEvents
<1>6. Phases[r] = "absent" /\ Phases' = [Phases EXCEPT ![r] = "open"]
  BY <1>0, <1>1
     DEF Phases, LifecyclePhase, InsertRun, InsertRunRow, TypeOK, StoreTypeOK, Resumable
<1>7. QED
  BY <1>4, <1>5, <1>6, AbstractSubmit

\* ... the UPDATE that wins a claim ...
LEMMA TryClaimMaps ==
  ASSUME Mapped, Mapped', NEW p \in Procs, NEW r \in Runs, RunStep(p, r),
         TryClaim(p, r), Claimable(r, now)
  PROVE  Lifecycle!Next
<1>0. TypeOK /\ ExclusiveExecution /\ ExclusiveExecution' /\ LeaseHeld
  BY DEF Mapped, RunContext, LogInv
<1>1. \A q \in Procs : ~Executing(q, r)
  BY <1>0, NotClaimable
<1>2. Executing(p, r)'
  BY <1>0, CreationMoves DEF Executing
<1>3. ~UnhandledRejection(p, r)
  BY <1>0, <1>2, ClosingMoves DEF Executing
<1>4. \A s \in Runs : s # r => \A q \in Procs : Executing(q, s)' <=> Executing(q, s)
  BY <1>0, <1>3, OthersStay DEF Executing
<1>5. Executors' = [Executors EXCEPT ![r] = p] /\ Executors[r] = NoHolder
  <2>1. ExecutorOf(r) = NoHolder /\ ExecutorOf(r)' = p
    BY <1>0, <1>1, <1>2, ExecutorIs, ExecutorWillBe
  <2>2. \A s \in Runs : s # r => ExecutorOf(s)' = ExecutorOf(s)
    BY <1>0, <1>4, SameExecutor
  <2>3. QED
    BY <2>1, <2>2 DEF Executors
<1>6. Phases' = Phases /\ Logs' = Logs /\ Phases[r] = "open"
  BY DEF TryClaim, AcquireClaim, Claimable, Phases, LifecyclePhase, Logs, LogOf, CountEvents
<1>7. QED
  BY <1>5, <1>6, AbstractTake

\* ... the INSERT of an event ...
LEMMA InsertMaps ==
  ASSUME Mapped, Mapped', NEW p \in Procs, NEW r \in Runs, Insert(p, r)
  PROVE  Lifecycle!Next
<1>0. LogInv /\ RunStep(p, r) /\ Executing(p, r) /\ At(p, r, "insert") /\ co[p][r].ev \in EventType
  BY DEF Mapped, RunContext, LogInv, RunStep, Statement, Insert, Executing, At, TypeOK, Coroutine
<1>1. status' = status /\ ~UnhandledRejection(p, r) /\ ~Release(p, r) /\ ~Claimable(r, now)
  <2>1. ~Claimable(r, now)
    BY <1>0, NotClaimable DEF Mapped, LogInv
  <2>2. QED
    BY <1>0, <2>1 DEF Insert, InsertEvent, runRow, UnhandledRejection, Release, At
<1>2. Executors' = Executors
  BY <1>0, <1>1, SameExecutors
<1>3. Phases' = Phases
  BY <1>1 DEF Phases, LifecyclePhase
<1>4. Phases[r] = "open" /\ Executors[r] # NoHolder
  BY <1>0, ExecutedIsOpen, NoHolderAssumption DEF Phases, Executors, At
<1>5. Logs' = [Logs EXCEPT ![r] = Append(@, co[p][r].ev)]
  BY <1>0, LogAppends
<1>6. QED
  BY <1>0, <1>2, <1>3, <1>4, <1>5, AbstractRecord

\* ... the UPDATE of setRunTerminal ...
LEMMA SetTerminalMaps ==
  ASSUME Mapped, Mapped', NEW p \in Procs, NEW r \in Runs, SetTerminal(p, r)
  PROVE  Lifecycle!Next
<1> DEFINE e == co[p][r].ev
<1>0. LogInv /\ RunStep(p, r) /\ Executing(p, r) /\ At(p, r, "terminal") /\ Course(p, r)
  BY DEF Mapped, RunContext, RunInv, RunStep, Statement, SetTerminal, Executing, At
<1>1. /\ ~UnhandledRejection(p, r) /\ ~Release(p, r) /\ ~Claimable(r, now)
      /\ events' = events /\ status' = [status EXCEPT ![r] = StatusOf(e)]
  <2>1. ~Claimable(r, now)
    BY <1>0, NotClaimable DEF Mapped, LogInv
  <2>2. QED
    BY <1>0, <2>1 DEF SetTerminal, UpdateRunStatus, UnhandledRejection, Release, At
<1>2. Executors' = Executors
  BY <1>0, <1>1, SameExecutors
<1>3. Phases[r] = "open" /\ Executors[r] # NoHolder
  BY <1>0, ExecutedIsOpen, NoHolderAssumption DEF Phases, Executors, At
<1>4. Phases' = [Phases EXCEPT ![r] = StatusOf(e)]
  BY <1>0, <1>1 DEF Phases, LifecyclePhase, LogInv, TypeOK, StoreTypeOK, StatusOf, Resumable
<1>5. Logs' = Logs
  BY <1>1 DEF Logs, LogOf, CountEvents
<1>6. e \in TerminalEvent /\ LastIs(r, e)
  BY <1>0 DEF Course
<1>7. Logs[r] # <<>> /\ Logs[r][Len(Logs[r])] = e
  <2>1. /\ Logs[r] \in Seq(EventType) /\ Len(Logs[r]) = CountEvents(r)
        /\ \A i \in 1 .. CountEvents(r) : Logs[r][i] = events[r][i - 1].type
    BY <1>0, LogOfType DEF LogInv, Logs
  <2>2. CountEvents(r) \in Nat /\ CountEvents(r) > 0
    BY <1>0, <1>6, CountEventsType DEF LastIs, LogInv, TypeOK
  <2>3. QED
    BY <1>6, <2>1, <2>2, EmptySeq DEF LastIs
<1>8. QED
  BY <1>2, <1>3, <1>4, <1>5, <1>6, <1>7, AbstractFinish

\* ... and the ways in which a process lets go of its runs.
LEMMA LettingGoMaps ==
  ASSUME Mapped, Mapped', NEW S \in SUBSET Runs,
         status' = status, events' = events,
         \A r \in S, q \in Procs : ~Executing(q, r)',
         \A r \in Runs \ S, q \in Procs : Executing(q, r)' <=> Executing(q, r)
  PROVE  Lifecycle!Next
<1>0. ExclusiveExecution /\ ExclusiveExecution'
  BY DEF Mapped, RunContext
<1>1. \A r \in S : ExecutorOf(r)' = NoHolder
  BY <1>0, ExecutorWillBe
<1>2. \A r \in Runs \ S : ExecutorOf(r)' = ExecutorOf(r)
  BY <1>0, SameExecutor
<1>3. Executors' = [r \in Runs |-> IF r \in S THEN NoHolder ELSE Executors[r]]
  BY <1>1, <1>2 DEF Executors
<1>4. Phases' = Phases /\ Logs' = Logs
  BY DEF Phases, LifecyclePhase, Logs, LogOf, CountEvents
<1>5. QED
  BY <1>3, <1>4, AbstractDrop

LEMMA ReleaseMaps ==
  ASSUME Mapped, Mapped', NEW p \in Procs, NEW r \in Runs, Release(p, r)
  PROVE  Lifecycle!Next
<1>0. TypeOK /\ ExclusiveExecution /\ RunStep(p, r) /\ Executing(p, r) /\ ~UnhandledRejection(p, r)
  BY DEF Mapped, RunContext, LogInv, RunStep, Statement, Release, UnhandledRejection,
         Executing, At
<1>1. ~Executing(p, r)'
  BY <1>0, ClosingMoves DEF Executing
<1>2. \A q \in Procs, s \in Runs : q # p \/ s # r => Executing(q, s)' = Executing(q, s)
  BY <1>0, OthersStay DEF Executing
<1>3. \A q \in Procs : q # p => ~Executing(q, r)
  BY <1>0 DEF ExclusiveExecution
<1>4. status' = status /\ events' = events
  BY DEF Release, ReleaseClaim
<1> DEFINE S == {r}
<1>5. S \in SUBSET Runs
  OBVIOUS
<1>6. \A s \in S, q \in Procs : ~Executing(q, s)'
  BY <1>1, <1>2, <1>3
<1>7. \A s \in Runs \ S, q \in Procs : Executing(q, s)' <=> Executing(q, s)
  BY <1>2
<1> HIDE DEF S
<1>8. QED
  BY <1>4, <1>5, <1>6, <1>7, LettingGoMaps

LEMMA DieMaps ==
  ASSUME Mapped, Mapped', NEW p \in Procs, NEW phase, Die(p, phase),
         status' = status, events' = events
  PROVE  Lifecycle!Next
<1> DEFINE S == {r \in Runs : Executing(p, r)}
<1>0. TypeOK /\ ExclusiveExecution
  BY DEF Mapped, RunContext, LogInv
<1>1. \A r \in Runs : ~Executing(p, r)'
  BY <1>0, IdleAt, DieEffect DEF Executing
<1>2. \A q \in Procs, r \in Runs : q # p => Executing(q, r)' = Executing(q, r)
  BY <1>0, DieEffect DEF Executing
<1>3. \A r \in S : \A q \in Procs : q # p => ~Executing(q, r)
  BY <1>0 DEF ExclusiveExecution
<1>4. S \in SUBSET Runs
  OBVIOUS
<1>5. \A r \in S, q \in Procs : ~Executing(q, r)'
  BY <1>1, <1>2, <1>3
<1>6. \A r \in Runs \ S, q \in Procs : Executing(q, r)' <=> Executing(q, r)
  BY <1>1, <1>2
<1> HIDE DEF S
<1>7. QED
  BY <1>4, <1>5, <1>6, LettingGoMaps

\* Every other statement is invisible to RunLifecycle.
LEMMA QuietStepMaps ==
  ASSUME Mapped, Mapped', [Next]_vars, NEW p \in Procs, NEW r \in Runs, RunStep(p, r),
         ~InsertRun(p, r), ~Insert(p, r), ~SetTerminal(p, r), ~Release(p, r),
         ~UnhandledRejection(p, r), TryClaim(p, r) => ~Claimable(r, now)
  PROVE  UNCHANGED Lifecycle!vars
<1>0. TypeOK
  BY DEF Mapped, RunContext, LogInv
<1>1. events' = events
  BY DEF RunStep, Statement, Remember, ClaimCreated, Load, Scan, MarkRunning, CheckLoop,
         CheckNode, CheckFinal, Count, InsertThrows, CreateRun, CancelRequest, CancelUpdate,
         Wake, Heartbeat, ResumeOrphan, TryClaim, AcquireClaim, UpdateRunStatus, tables,
         InsertIdempotency, SetCancelRequested, RenewClaim
<1>2. Phases' = Phases
  <2>1. ASSUME NEW q \in Procs, NEW s \in Runs, InsertRun(q, s) \/ SetTerminal(q, s),
               q # p \/ s # r
        PROVE  FALSE
    <3>1. co'[q][s] = co[q][s]
      BY <1>0, <2>1, OthersStay
    <3>2. co'[q][s].at # co[q][s].at
      BY <1>0, <2>1, CreationMoves, ClosingMoves DEF InsertRun, SetTerminal, At
    <3>3. QED
      BY <3>1, <3>2
  <2>2. QED
    BY <2>1, SamePhases
<1>3. Executors' = Executors
  BY SameExecutors
<1>4. Logs' = Logs
  BY <1>1 DEF Logs, LogOf, CountEvents
<1>5. QED
  BY <1>2, <1>3, <1>4, AbstractStutter

\* So are the steps that move neither coroutines nor tables.
LEMMA StillStepMaps ==
  ASSUME co' = co, status' = status, events' = events
  PROVE  UNCHANGED Lifecycle!vars
<1>1. \A p \in Procs, r \in Runs : Executing(p, r)' = Executing(p, r)
  BY DEF Executing
<1>2. \A r \in Runs : ExecutorOf(r)' = ExecutorOf(r)
  BY DEF ExecutorOf, Executing
<1>3. Phases' = Phases /\ Logs' = Logs /\ Executors' = Executors
  BY <1>2 DEF Phases, LifecyclePhase, Logs, LogOf, CountEvents, Executors
<1>4. QED
  BY <1>3, AbstractStutter

\* Every step of the host is a step of RunLifecycle, or invisible to it.
LEMMA StepMaps ==
  ASSUME Mapped, Mapped', [Next]_vars
  PROVE  [Lifecycle!Next]_(Lifecycle!vars)
<1>1. ASSUME NEW p \in Procs, NEW r \in Runs, RunStep(p, r)
      PROVE  Lifecycle!Next \/ UNCHANGED Lifecycle!vars
  <2>1. CASE UnhandledRejection(p, r)
    BY <2>1, DieMaps DEF UnhandledRejection, tables, runRow
  <2>2. CASE ~UnhandledRejection(p, r)
    BY <1>1, <2>2, InsertRunMaps, TryClaimMaps, InsertMaps, SetTerminalMaps, ReleaseMaps,
       QuietStepMaps
  <2>3. QED
    BY <2>1, <2>2
<1>2. ASSUME NEW p \in Procs, ProcStep(p)
      PROVE  Lifecycle!Next \/ UNCHANGED Lifecycle!vars
  <2>1. CASE Start(p) \/ Listen(p)
    BY <2>1, StillStepMaps DEF Start, Listen, tables, runRow
  <2>2. CASE Shutdown(p) \/ Crash(p)
    BY <2>2, DieMaps DEF Shutdown, Crash, ReleaseAllClaims, tables, runRow
  <2>3. QED
    BY <1>2, <2>1, <2>2 DEF ProcStep
<1>3. CASE Tick \/ UNCHANGED vars
  BY <1>3, StillStepMaps DEF Tick, vars, tables, runRow
<1>4. QED
  BY <1>1, <1>2, <1>3 DEF Next

\* Processes that share the database and do not stall behave, whatever crashes,
\* as RunLifecycle promises: one executor at a time, a log that only it appends
\* to, and an end that the log announces and that nothing touches afterwards.
THEOREM HostImplementsLifecycle ==
  ASSUME MayStall = {}, HeartbeatInterval <= ClaimTtl
  PROVE  Spec => ImplementsLifecycle
<1>1. Init => Lifecycle!Init
  <2>1. SUFFICES ASSUME Init PROVE Lifecycle!Init
    OBVIOUS
  <2>2. \A r \in Runs : /\ status[r] = "absent" /\ DOMAIN events[r] = {}
                        /\ \A p \in Procs : ~Executing(p, r)
    BY <2>1, IdleAt DEF Init, StoreInit, Executing
  <2>3. \A r \in Runs : LogOf(r) = <<>> /\ LifecyclePhase(r) = "absent" /\ ExecutorOf(r) = NoHolder
    <3>1. ASSUME NEW r \in Runs
          PROVE  LogOf(r) = <<>>
      <4>1. CountEvents(r) = 0
        BY <2>2, FS_EmptySet DEF CountEvents
      <4>2. QED
        BY <4>1 DEF LogOf
    <3>2. QED
      BY <2>2, <3>1 DEF LifecyclePhase, Resumable, ExecutorOf
  <2>4. QED
    BY <2>3 DEF Lifecycle!Init
<1>2. Init => OrphansWait /\ BusyIsLive
  BY IdleAt DEF Init, OrphansWait, BusyIsLive, At
<1>3. TypeOK /\ OrphansWait /\ BusyIsLive /\ [Next]_vars => (OrphansWait /\ BusyIsLive)'
  BY OrphansWaitStep, BusyIsLiveStep
<1>4. Mapped /\ Mapped' /\ [Next]_vars => [Lifecycle!Next]_(Lifecycle!vars)
  BY StepMaps
<1>5. QED
  BY <1>1, <1>2, <1>3, <1>4, TypeCorrect, RunInvariant, LeaseIsHeld, PTL
     DEF Spec, Mapped, ImplementsLifecycle, Lifecycle!Spec

=============================================================================
