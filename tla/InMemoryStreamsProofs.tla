----------------------- MODULE InMemoryStreamsProofs -----------------------
(***************************************************************************)
(* Theorems about the in-memory host and the streams that it serves, for   *)
(* all workflows, runs, clients, keys and bodies.                          *)
(***************************************************************************)
EXTENDS InMemoryStreams, InMemoryHostProofs, EventStreamProofs

-----------------------------------------------------------------------------
(* The log of a run. *)

Full(r) == FullLog(Len(Nodes(r)))

\* The log is that of an execution that nothing has disturbed.
Clean(r) ==
  Len(log[r]) <= Len(Full(r)) /\ \A i \in 1 .. Len(log[r]) : log[r][i] = Full(r)[i]

\* It is the log of one up to the event of a failure, or of a cancellation.
Disturbed(r) ==
  \E j \in 1 .. Len(log[r]) :
    /\ log[r][j].type \in GoneWrong
    /\ \A i \in 1 .. j - 1 : i <= Len(Full(r)) /\ log[r][i] = Full(r)[i]

\* Where the coroutine is, or how the run ended, says what is in the log.
Course(r) ==
  LET n == Len(Nodes(r))
      k == co[r].node
      m == Len(log[r])
  IN  /\ status[r] = "absent" => log[r] = <<>>
      /\ co[r].next = "run.started" => k = 0 /\ m = 0 /\ Clean(r)
      /\ co[r].next = "node.started" => k \in 1 .. n /\ m = 2 * k - 1 /\ Clean(r)
      /\ co[r].next \in {"sleep", "node.completed", "node.failed", "node.cancelled"} =>
           k \in 1 .. n /\ m = 2 * k /\ Clean(r)
      /\ co[r].next = "run.completed" => k = 0 /\ m = 2 * n + 1 /\ Clean(r)
      /\ co[r].next \in {"run.failed", "run.cancelled"} => Disturbed(r)
      /\ status[r] = "completed" => m = 2 * n + 2 /\ Clean(r)
      /\ status[r] \in {"failed", "cancelled"} => Disturbed(r)

\* A terminal event is the end of the log and of the run.
EndLogged(r) ==
  \A i \in 1 .. Len(log[r]) : log[r][i].type \in TerminalEvent <=> Ended(r) /\ i = Len(log[r])

LogInv == HostInv /\ \A r \in Runs : Course(r) /\ EndLogged(r)

-----------------------------------------------------------------------------
(* The log that an undisturbed execution leaves. *)

LEMMA FullLogIs ==
  ASSUME NEW n \in Nat
  PROVE  /\ Len(FullLog(n)) = 2 * n + 2
         /\ FullLog(n)[1] = [type |-> "run.started", node |-> 0]
         /\ FullLog(n)[2 * n + 2] = [type |-> "run.completed", node |-> 0]
         /\ \A k \in 1 .. n : /\ FullLog(n)[2 * k] = [type |-> "node.started", node |-> k]
                              /\ FullLog(n)[2 * k + 1] = [type |-> "node.completed", node |-> k]
<1>1. ASSUME NEW k \in 1 .. n
      PROVE  /\ 2 * k \in 1 .. 2 * n + 2 /\ 2 * k # 1 /\ 2 * k # 2 * n + 2
             /\ 2 * k + 1 \in 1 .. 2 * n + 2 /\ 2 * k + 1 # 1 /\ 2 * k + 1 # 2 * n + 2
             /\ (2 * k) % 2 = 0 /\ (2 * k + 1) % 2 = 1
             /\ (2 * k) \div 2 = k /\ (2 * k + 1) \div 2 = k
  OBVIOUS
<1>2. 2 * n + 2 \in Nat /\ 1 \in 1 .. 2 * n + 2 /\ 2 * n + 2 \in 1 .. 2 * n + 2 /\ 2 * n + 2 # 1
  OBVIOUS
<1>3. Len(FullLog(n)) = 2 * n + 2
  BY <1>2 DEF FullLog
<1>4. /\ FullLog(n)[1] = [type |-> "run.started", node |-> 0]
      /\ FullLog(n)[2 * n + 2] = [type |-> "run.completed", node |-> 0]
  BY <1>2 DEF FullLog
<1>5. ASSUME NEW k \in 1 .. n
      PROVE  /\ FullLog(n)[2 * k] = [type |-> "node.started", node |-> k]
             /\ FullLog(n)[2 * k + 1] = [type |-> "node.completed", node |-> k]
  BY <1>1 DEF FullLog
<1>6. QED
  BY <1>3, <1>4, <1>5

LEMMA FullLength ==
  ASSUME TypeOK, NEW r \in Runs
  PROVE  Len(Nodes(r)) \in Nat /\ Len(Full(r)) = 2 * Len(Nodes(r)) + 2
BY NodesType, LenProperties, FullLogIs DEF Full

\* An append to the log of a run: the event goes to its end.
LEMMA AppendIs ==
  ASSUME TypeOK, NEW r \in Runs, AppendEvent(r)
  PROVE  /\ co[r].next \in EventType
         /\ Len(log[r]) \in Nat /\ Len(log'[r]) = Len(log[r]) + 1
         /\ \A i \in 1 .. Len(log[r]) : log'[r][i] = log[r][i]
         /\ log'[r][Len(log[r]) + 1] = [type |-> co[r].next, node |-> co[r].node]
         /\ \A s \in Runs : s # r => log'[s] = log[s] /\ status'[s] = status[s] /\ co'[s] = co[s]
         /\ status'[r] = StatusAt(r, co[r].next) /\ co'[r] = AfterAppend(r, co[r].next)
         /\ cancel' = cancel /\ origin' = origin
<1>1. [type |-> co[r].next, node |-> co[r].node] \in Row /\ log[r] \in Seq(Row)
  BY DEF AppendEvent, TypeOK, Coroutine, Row
<1>2. log'[r] = Append(log[r], [type |-> co[r].next, node |-> co[r].node])
  BY DEF AppendEvent, TypeOK
<1>3. /\ Len(log'[r]) = Len(log[r]) + 1
      /\ \A i \in 1 .. Len(log[r]) : log'[r][i] = log[r][i]
      /\ log'[r][Len(log[r]) + 1] = [type |-> co[r].next, node |-> co[r].node]
  BY <1>1, <1>2, AppendProperties
<1>4. Len(log[r]) \in Nat
  BY <1>1, LenProperties
<1>5. QED
  BY <1>3, <1>4 DEF AppendEvent, TypeOK

LEMMA SameNodes ==
  ASSUME NEW r \in Runs, origin'[r] = origin[r]
  PROVE  Nodes(r)' = Nodes(r) /\ Full(r)' = Full(r)
BY DEF Nodes, Full

\* The event that an undisturbed execution logs next keeps the log clean ...
LEMMA CleanAppend ==
  ASSUME TypeOK, NEW r \in Runs, AppendEvent(r), Clean(r), NEW m \in Nat,
         Len(log[r]) = m, m + 1 <= Len(Full(r)),
         Full(r)[m + 1] = [type |-> co[r].next, node |-> co[r].node]
  PROVE  Clean(r)' /\ Len(log'[r]) = m + 1
<1>1. Full(r)' = Full(r)
  BY AppendIs, SameNodes
<1>2. /\ Len(log'[r]) = m + 1
      /\ \A i \in 1 .. m : log'[r][i] = log[r][i]
      /\ log'[r][m + 1] = [type |-> co[r].next, node |-> co[r].node]
  BY AppendIs
<1>3. ASSUME NEW i \in 1 .. m + 1
      PROVE  log'[r][i] = Full(r)[i]
  <2>1. CASE i = m + 1
    BY <2>1, <1>2
  <2>2. CASE i \in 1 .. m
    BY <2>2, <1>2 DEF Clean
  <2>3. QED
    BY <2>1, <2>2
<1>4. Clean(r)'
  BY <1>1, <1>2, <1>3 DEF Clean
<1>5. QED
  BY <1>2, <1>4

\* ... and the event of a failure or a cancellation ends the clean part.
LEMMA DisturbingAppend ==
  ASSUME TypeOK, NEW r \in Runs, AppendEvent(r), Clean(r), co[r].next \in GoneWrong
  PROVE  Disturbed(r)'
<1> DEFINE m == Len(log[r])
<1>1. Full(r)' = Full(r)
  BY AppendIs, SameNodes
<1>2. /\ m \in Nat /\ Len(log'[r]) = m + 1
      /\ \A i \in 1 .. m : log'[r][i] = log[r][i]
      /\ log'[r][m + 1] = [type |-> co[r].next, node |-> co[r].node]
  BY AppendIs
<1>3. m <= Len(Full(r)) /\ \A i \in 1 .. m : log[r][i] = Full(r)[i]
  BY DEF Clean
<1> HIDE DEF m
<1> DEFINE j == m + 1
<1>4. j \in 1 .. Len(log'[r]) /\ log'[r][j].type \in GoneWrong
  BY <1>2
<1>5. \A i \in 1 .. j - 1 : i <= Len(Full(r)) /\ log'[r][i] = Full(r)[i]
  <2>1. ASSUME NEW i \in 1 .. m
        PROVE  i <= Len(Full(r)) /\ log'[r][i] = Full(r)[i]
    <3>1. Len(Full(r)) \in Nat
      BY FullLength
    <3>2. QED
      BY <1>2, <1>3, <3>1
  <2>2. QED
    BY <1>2, <2>1
<1> HIDE DEF j
<1>6. QED
  BY <1>1, <1>4, <1>5 DEF Disturbed

LEMMA StillDisturbed ==
  ASSUME TypeOK, NEW r \in Runs, AppendEvent(r), Disturbed(r)
  PROVE  Disturbed(r)'
<1>1. Full(r)' = Full(r)
  BY AppendIs, SameNodes
<1>2. PICK j \in 1 .. Len(log[r]) :
        /\ log[r][j].type \in GoneWrong
        /\ \A i \in 1 .. j - 1 : i <= Len(Full(r)) /\ log[r][i] = Full(r)[i]
  BY DEF Disturbed
<1>3. /\ Len(log[r]) \in Nat /\ Len(log'[r]) = Len(log[r]) + 1
      /\ \A i \in 1 .. Len(log[r]) : log'[r][i] = log[r][i]
  BY AppendIs
<1>4. j \in 1 .. Len(log'[r]) /\ log'[r][j].type \in GoneWrong
  BY <1>2, <1>3
<1>5. \A i \in 1 .. j - 1 : i <= Len(Full(r)) /\ log'[r][i] = Full(r)[i]
  BY <1>2, <1>3
<1>6. QED
  BY <1>1, <1>4, <1>5 DEF Disturbed

\* A run that is not appended to keeps its course, if its coroutine does.
LEMMA SameCourse ==
  ASSUME NEW r \in Runs, status'[r] = status[r], log'[r] = log[r], origin'[r] = origin[r],
         co'[r] = co[r], Course(r), EndLogged(r)
  PROVE  Course(r)' /\ EndLogged(r)'
<1>1. Nodes(r)' = Nodes(r) /\ Full(r)' = Full(r)
  BY SameNodes
<1>2. Clean(r)' <=> Clean(r)
  BY <1>1 DEF Clean
<1>3. Disturbed(r)' <=> Disturbed(r)
  BY <1>1 DEF Disturbed
<1>4. QED
  BY <1>1, <1>2, <1>3 DEF Course, EndLogged, Ended

\* Every event that a coroutine appends keeps its run on course.
LEMMA CourseAppend ==
  ASSUME HostInv, NEW r \in Runs, AppendEvent(r), Course(r)
  PROVE  Course(r)'
<1> DEFINE ev == co[r].next
           n == Len(Nodes(r))
           k == co[r].node
           m == Len(log[r])
<1>0. TypeOK /\ HostInv'
  BY HostInvStep DEF HostInv, HostNext
<1>1. /\ Nodes(r)' = Nodes(r) /\ Full(r) = FullLog(n)
      /\ co'[r] = AfterAppend(r, ev) /\ status'[r] = StatusAt(r, ev)
  BY <1>0, AppendIs, SameNodes DEF Full
<1>2. n \in Nat /\ k \in Nat /\ m \in Nat /\ Len(Full(r)) = 2 * n + 2
  BY <1>0, FullLength, LenProperties DEF TypeOK, Coroutine
<1>3. /\ ev \in EventType /\ ev # "run.resumed" /\ status[r] \in {"pending", "running"}
      /\ Standing(r) /\ Standing(r)' /\ status'[r] # "absent"
  <2>1. ev \in EventType /\ ev # "run.resumed" /\ status[r] \in {"pending", "running"}
    BY <1>0, AppendIs, StandingStatus DEF HostInv, Standing
  <2>2. status'[r] # "absent"
    BY <1>1, <2>1, StatusAtIs DEF TerminalEvent
  <2>3. QED
    BY <1>0, <2>1, <2>2 DEF HostInv
<1>4. CASE ev \in {"run.started", "node.completed"}
  <2>1. ~cancel[r] /\ status'[r] = "running"
    <3>1. ~cancel[r]
      BY <1>3, <1>4 DEF Standing
    <3>2. ev = "node.completed" => status[r] = "running"
      BY <1>3, <1>4, StandingStatus DEF NodeEvent
    <3>3. QED
      BY <1>1, <1>3, <1>4, <3>1, <3>2, StatusAtIs DEF TerminalEvent
  <2>2. /\ co'[r] = NextNode(r)
        /\ k < n => NextNode(r) = [next |-> "node.started", node |-> k + 1]
        /\ ~(k < n) => NextNode(r) = [next |-> "run.completed", node |-> 0]
    BY <1>0, <1>1, <1>3, <1>4, <2>1, AfterAppendIs, NextNodeIs
  <2>3. m = 2 * k /\ k <= n /\ Clean(r)
    BY <1>2, <1>4 DEF Course
  <2>4. Full(r)[m + 1] = [type |-> ev, node |-> k]
    <3>1. CASE ev = "run.started"
      <4>1. k = 0 /\ m = 0
        BY <3>1 DEF Course
      <4>2. Full(r)[1] = [type |-> ev, node |-> k]
        BY <1>1, <1>2, <3>1, <4>1, FullLogIs
      <4>3. QED
        BY <4>1, <4>2
    <3>2. CASE ev = "node.completed"
      <4>1. k \in 1 .. n
        BY <3>2 DEF Course
      <4>2. FullLog(n)[2 * k + 1] = [type |-> "node.completed", node |-> k]
        BY <1>2, <4>1, FullLogIs
      <4>3. QED
        BY <1>1, <2>3, <3>2, <4>2
    <3>3. QED
      BY <1>4, <3>1, <3>2
  <2>5. Clean(r)' /\ Len(log'[r]) = m + 1
    <3>1. m + 1 <= Len(Full(r))
      BY <1>2, <2>3
    <3>2. QED
      BY <1>0, <1>2, <2>3, <2>4, <3>1, CleanAppend
  <2>6. CASE k < n
    <3>1. co'[r].next = "node.started" /\ co'[r].node = k + 1
      BY <2>2, <2>6
    <3>2. k + 1 \in 1 .. n /\ Len(log'[r]) = 2 * (k + 1) - 1
      <4>1. Len(log'[r]) = m + 1
        BY <2>5
      <4>2. m = 2 * k
        BY <2>3
      <4>3. m + 1 = 2 * (k + 1) - 1
        BY <1>2, <4>2
      <4>4. k + 1 \in 1 .. n
        BY <1>2, <2>6
      <4>5. QED
        BY <4>1, <4>3, <4>4
    <3>3. QED
      BY <1>1, <2>1, <2>5, <3>1, <3>2 DEF Course
  <2>7. CASE ~(k < n)
    <3>1. co'[r].next = "run.completed" /\ co'[r].node = 0
      BY <2>2, <2>7
    <3>2. Len(log'[r]) = 2 * n + 1
      <4>1. Len(log'[r]) = m + 1
        BY <2>5
      <4>2. QED
        BY <1>2, <2>3, <2>7, <4>1, SMTT(30)
    <3>3. QED
      BY <1>1, <2>1, <2>5, <3>1, <3>2 DEF Course
  <2>8. QED
    BY <2>6, <2>7
<1>5. CASE ev = "node.started"
  <2>1. k \in 1 .. n /\ m = 2 * k - 1 /\ Clean(r)
    BY <1>5 DEF Course
  <2>2. m + 1 = 2 * k /\ m + 1 <= Len(Full(r))
    BY <1>2, <2>1
  <2>3. Full(r)[m + 1] = [type |-> ev, node |-> k]
    <3>1. FullLog(n)[2 * k] = [type |-> "node.started", node |-> k]
      BY <1>2, <2>1, FullLogIs
    <3>2. QED
      BY <1>1, <1>5, <2>2, <3>1
  <2>4. Clean(r)' /\ Len(log'[r]) = m + 1
    BY <1>0, <1>2, <2>1, <2>2, <2>3, CleanAppend
  <2>5. /\ co'[r].next \in {"node.completed", "sleep", "node.failed"} /\ co'[r].node = k
        /\ status'[r] = "running"
    BY <1>0, <1>1, <1>3, <1>5, AfterAppendIs, StatusAtIs, StandingStatus
       DEF TerminalEvent, NodeEvent
  <2>6. QED
    BY <1>1, <2>1, <2>2, <2>4, <2>5 DEF Course
<1>6. CASE ev \in {"node.failed", "node.cancelled"}
  <2>1. Disturbed(r)'
    BY <1>0, <1>6, DisturbingAppend DEF GoneWrong, Course
  <2>2. co'[r].next \in {"run.failed", "run.cancelled"} /\ status'[r] = "running"
    BY <1>0, <1>1, <1>3, <1>6, AfterAppendIs, StatusAtIs, StandingStatus
       DEF TerminalEvent, NodeEvent
  <2>3. QED
    BY <2>1, <2>2 DEF Course
<1>7. CASE ev \in {"run.failed", "run.cancelled"}
  <2>1. Disturbed(r)'
    BY <1>0, <1>7, StillDisturbed DEF Course
  <2>2. co'[r].next = "idle" /\ status'[r] \in {"failed", "cancelled"}
    BY <1>0, <1>1, <1>3, <1>7, AfterAppendIs, StatusAtIs DEF TerminalEvent
  <2>3. QED
    BY <2>1, <2>2 DEF Course
<1>8. CASE ev = "run.completed"
  <2>1. k = 0 /\ m = 2 * n + 1 /\ Clean(r)
    BY <1>8 DEF Course
  <2>2. m + 1 = 2 * n + 2 /\ m + 1 <= Len(Full(r))
    BY <1>2, <2>1
  <2>3. Full(r)[m + 1] = [type |-> ev, node |-> k]
    BY <1>1, <1>2, <1>8, <2>1, <2>2, FullLogIs
  <2>4. Clean(r)' /\ Len(log'[r]) = m + 1
    BY <1>0, <1>2, <2>1, <2>2, <2>3, CleanAppend
  <2>5. co'[r].next = "idle" /\ status'[r] = "completed"
    BY <1>0, <1>1, <1>3, <1>8, AfterAppendIs, StatusAtIs DEF TerminalEvent
  <2>6. QED
    BY <1>1, <2>2, <2>4, <2>5 DEF Course
<1>9. QED
  BY <1>3, <1>4, <1>5, <1>6, <1>7, <1>8 DEF EventType, NodeEvent, RunEvent, TerminalEvent

\* No event follows a terminal one.
LEMMA EndAppend ==
  ASSUME HostInv, NEW r \in Runs, AppendEvent(r), EndLogged(r)
  PROVE  EndLogged(r)'
<1> DEFINE m == Len(log[r])
<1>0. TypeOK /\ co[r].next \in EventType /\ status[r] \in {"pending", "running"}
  BY StandingStatus DEF HostInv, AppendEvent
<1>1. /\ m \in Nat /\ Len(log'[r]) = m + 1
      /\ \A i \in 1 .. m : log'[r][i] = log[r][i]
      /\ log'[r][m + 1].type = co[r].next
      /\ status'[r] = StatusAt(r, co[r].next)
  <2>1. log'[r][m + 1] = [type |-> co[r].next, node |-> co[r].node]
    BY <1>0, AppendIs
  <2>2. log'[r][m + 1].type = co[r].next
    BY <2>1
  <2>3. QED
    BY <1>0, <2>2, AppendIs
<1>2. \A i \in 1 .. m : log[r][i].type \notin TerminalEvent
  BY <1>0 DEF EndLogged, Ended, Terminal
<1>3. co[r].next \in TerminalEvent <=> status'[r] \in Terminal
  BY <1>0, <1>1, StatusAtIs DEF TerminalEvent, Terminal
<1> HIDE DEF m
<1>4. ASSUME NEW i \in 1 .. m + 1
      PROVE  log'[r][i].type \in TerminalEvent <=> status'[r] \in Terminal /\ i = m + 1
  <2>1. CASE i = m + 1
    BY <1>1, <1>3, <2>1
  <2>2. CASE i \in 1 .. m
    <3>1. i # m + 1 /\ log'[r][i].type \notin TerminalEvent
      BY <1>1, <1>2, <2>2
    <3>2. QED
      BY <3>1
  <2>3. QED
    BY <1>1, <2>1, <2>2
<1>5. QED
  BY <1>1, <1>4 DEF EndLogged, Ended

LEMMA LogInvInit ==
  ASSUME HostInit
  PROVE  LogInv
<1>1. \A r \in Runs : Course(r) /\ EndLogged(r)
  BY DEF HostInit, Course, EndLogged, Terminal
<1>2. QED
  BY <1>1, StandingInit DEF LogInv

LEMMA LogInvStep ==
  ASSUME LogInv, [HostNext]_hostVars
  PROVE  LogInv'
<1>0. HostInv /\ HostInv' /\ TypeOK /\ \A r \in Runs : Standing(r) /\ Course(r) /\ EndLogged(r)
  BY HostInvStep DEF LogInv, HostInv
<1>1. ASSUME NEW r \in Runs, AppendEvent(r)
      PROVE  LogInv'
  <2>1. ASSUME NEW s \in Runs, s # r
        PROVE  Course(s)' /\ EndLogged(s)'
    <3>1. status'[s] = status[s] /\ log'[s] = log[s] /\ origin'[s] = origin[s] /\ co'[s] = co[s]
      BY <1>0, <1>1, <2>1, AppendIs
    <3>2. QED
      BY <1>0, <3>1, SameCourse
  <2>2. QED
    BY <1>0, <1>1, <2>1, CourseAppend, EndAppend DEF LogInv
<1>2. ASSUME NEW r \in Runs, NEW k \in Keys \cup {NoKey}, NEW b \in Bodies, CreateRun(r, k, b)
      PROVE  LogInv'
  <2>1. ASSUME NEW s \in Runs, s # r
        PROVE  Course(s)' /\ EndLogged(s)'
    <3>1. status'[s] = status[s] /\ log'[s] = log[s] /\ origin'[s] = origin[s] /\ co'[s] = co[s]
      BY <1>0, <1>2, <2>1 DEF CreateRun, TypeOK
    <3>2. QED
      BY <1>0, <3>1, SameCourse
  <2>2. /\ log[r] = <<>> /\ log' = log /\ status'[r] = "pending"
        /\ co'[r] = [next |-> "run.started", node |-> 0]
    BY <1>0, <1>2 DEF CreateRun, TypeOK, Course
  <2>3. Clean(r)' /\ Len(log'[r]) = 0
    <3>1. Nodes(r)' \in Seq(NodeType)
      BY <1>0, WorkflowAssumption DEF HostInv, TypeOK, Nodes
    <3>2. Len(Nodes(r)') \in Nat
      BY <3>1, LenProperties
    <3>3. Len(Full(r)') = 2 * Len(Nodes(r)') + 2
      BY <3>2, FullLogIs DEF Full
    <3>4. Len(log'[r]) = 0
      BY <2>2
    <3>5. QED
      BY <3>2, <3>3, <3>4 DEF Clean
  <2>4. Course(r)' /\ EndLogged(r)'
    BY <2>2, <2>3 DEF Course, EndLogged
  <2>5. QED
    BY <1>0, <2>1, <2>4 DEF LogInv
<1>3. ASSUME NEW r \in Runs, CancelRun(r) \/ Wake(r)
      PROVE  LogInv'
  <2>1. /\ co[r].next = "sleep" /\ co'[r].next \in {"node.completed", "node.cancelled"}
        /\ co'[r].node = co[r].node /\ status' = status /\ log' = log /\ origin' = origin
        /\ status[r] = "running" /\ \A s \in Runs : s # r => co'[s] = co[s]
    <3>1. CASE CancelRun(r)
      <4>1. /\ Do(r, "node.cancelled").next = "node.cancelled"
            /\ Do(r, "node.cancelled").node = co[r].node
        BY <1>0, DoFields DEF EventType, NodeEvent
      <4>2. QED
        BY <1>0, <3>1, <4>1, CancelFindsSleep DEF CancelRun, TypeOK
    <3>2. CASE Wake(r)
      <4>1. /\ Do(r, "node.completed").next = "node.completed"
            /\ Do(r, "node.completed").node = co[r].node
        BY <1>0, DoFields DEF EventType, NodeEvent
      <4>2. QED
        BY <1>0, <3>2, <4>1, StandingStatus DEF Wake, TypeOK
    <3>3. QED
      BY <1>3, <3>1, <3>2
  <2>2. \A s \in Runs : s # r => Course(s)' /\ EndLogged(s)'
    BY <1>0, <2>1, SameCourse
  <2>3. Course(r)' /\ EndLogged(r)'
    <3>1. Nodes(r)' = Nodes(r) /\ Full(r)' = Full(r)
      BY <2>1, SameNodes
    <3>2. co[r].node \in 1 .. Len(Nodes(r)) /\ Len(log[r]) = 2 * co[r].node /\ Clean(r)
      BY <1>0, <2>1 DEF Course
    <3>3. Clean(r)'
      BY <2>1, <3>1, <3>2 DEF Clean
    <3>4. Course(r)'
      BY <2>1, <3>1, <3>2, <3>3 DEF Course
    <3>5. EndLogged(r)'
      BY <1>0, <2>1 DEF EndLogged, Ended
    <3>6. QED
      BY <3>4, <3>5
  <2>4. QED
    BY <1>0, <2>2, <2>3 DEF LogInv
<1>4. CASE (\E k \in Keys : Reuse(k)) \/ Tick \/ UNCHANGED hostVars
  <2>1. status' = status /\ log' = log /\ origin' = origin /\ co' = co
    BY <1>4 DEF Reuse, Tick, hostVars
  <2>2. QED
    BY <1>0, <2>1, SameCourse DEF LogInv
<1>5. QED
  BY <1>1, <1>2, <1>3, <1>4 DEF HostNext, Request, Timer

-----------------------------------------------------------------------------
(* The streams. *)

\* A client has, or gets from its connection, a prefix of the log: up to its end
\* when it listens, and when it was told that this is the end.
Served(c) ==
  /\ InSequence(c)
  /\ ~Answering(c)
  /\ Known(c) <= Len(log[Watch[c]])
  /\ link[c] = "listening" =>
       /\ server[c] = Host /\ ~Ended(Watch[c])
       /\ Known(c) = Len(log[Watch[c]])
  /\ link[c] \in {"ended", "done"} => Ended(Watch[c]) /\ Known(c) = Len(log[Watch[c]])
  /\ link[c] = "done" => wire[c] = <<>>

StreamInv == StreamTypeOK({Host}) /\ \A c \in Clients : Served(c)

IInv == LogInv /\ StreamInv

-----------------------------------------------------------------------------
(* The steps of the composition. *)

\* A step of the host ...
LEMMA HostSteps ==
  ASSUME [Next]_vars
  PROVE  [HostNext]_hostVars
BY DEF Next, vars, HostNext, Publish, Open, ClientStep

\* ... leaves a run's log and its end alone, unless it appends to the log.
LEMMA LogsStay ==
  ASSUME LogInv, [HostNext]_hostVars, NEW r \in Runs, ~AppendEvent(r)
  PROVE  log'[r] = log[r] /\ (Ended(r)' <=> Ended(r))
<1>0. TypeOK
  BY DEF LogInv, HostInv
<1>1. ASSUME NEW s \in Runs, AppendEvent(s)
      PROVE  log'[r] = log[r] /\ status'[r] = status[r]
  <2>1. s # r
    BY <1>1
  <2>2. QED
    BY <1>0, <1>1, <2>1, AppendIs
<1>2. ASSUME NEW s \in Runs, NEW k \in Keys \cup {NoKey}, NEW b \in Bodies, CreateRun(s, k, b)
      PROVE  log'[r] = log[r] /\ (status'[r] \in Terminal <=> status[r] \in Terminal)
  BY <1>0, <1>2 DEF CreateRun, TypeOK, Terminal
<1>3. CASE \/ \E s \in Runs : CancelRun(s) \/ Wake(s)
           \/ \E k \in Keys : Reuse(k)
           \/ Tick \/ UNCHANGED hostVars
  BY <1>3 DEF CancelRun, Wake, Reuse, Tick, hostVars, Ended
<1>4. QED
  BY <1>1, <1>2, <1>3 DEF HostNext, Request, Timer, Ended

\* What a client that a step leaves alone was promised still holds.
LEMMA SameServed ==
  ASSUME NEW c \in Clients, Served(c), Same(c),
         Len(log[Watch[c]])' = Len(log[Watch[c]]), Ended(Watch[c])' <=> Ended(Watch[c])
  PROVE  Served(c)'
<1>1. InSequence(c)' /\ Known(c)' = Known(c)
  BY SameInSequence DEF Served, Same
<1>2. link'[c] = link[c] /\ server'[c] = server[c] /\ wire'[c] = wire[c]
  BY DEF Same
<1>3. ~Answering(c)'
  BY <1>2 DEF Served, Answering
<1>4. Known(c)' <= Len(log[Watch[c]])'
  BY <1>1 DEF Served
<1>5. QED
  BY <1>1, <1>2, <1>3, <1>4 DEF Served

LEMMA StreamInvInit ==
  ASSUME Init
  PROVE  StreamInv
<1>1. StreamTypeOK({Host})
  BY DEF Init, StreamInit, StreamTypeOK, Link
<1>2. ASSUME NEW c \in Clients
      PROVE  Served(c)
  <2>1. /\ got[c] = <<>> /\ wire[c] = <<>> /\ link[c] = "closed" /\ log[Watch[c]] = <<>>
    BY WatchAssumption DEF Init, StreamInit, HostInit
  <2>2. InSequence(c)
    BY <2>1, NumberedEmpty DEF InSequence
  <2>3. Known(c) <= Len(log[Watch[c]])
    BY <2>1 DEF Known
  <2>4. QED
    BY <2>1, <2>2, <2>3 DEF Served, Answering
<1>3. QED
  BY <1>1, <1>2 DEF StreamInv

\* What an append does to the streams, which are all of the one process.
LEMMA HostEmits ==
  ASSUME StreamTypeOK({Host}), NEW r, NEW seq \in Nat, NEW type, Emit(Host, r, seq, type)
  PROVE  /\ StreamTypeOK({Host})'
         /\ \A c \in Clients :
              /\ server'[c] = server[c] /\ got'[c] = got[c]
              /\ c \notin Listeners(Host, r) => Same(c)
              /\ c \in Listeners(Host, r) =>
                   /\ link'[c] = IF type \in TerminalEvent THEN "ended" ELSE "listening"
                   /\ InSequence(c) /\ Known(c) = seq => InSequence(c)' /\ Known(c)' = seq + 1
  BY EmitIs

\* The listeners of a run get each event as it is appended, and the last one ends
\* their streams.
LEMMA PublishServes ==
  ASSUME IInv, NEW r \in Runs, Publish(r)
  PROVE  StreamInv'
<1> DEFINE ev == co[r].next
           m == Len(log[r])
<1>0. /\ StreamTypeOK({Host}) /\ HostInv /\ TypeOK /\ TypeOK'
      /\ AppendEvent(r) /\ Emit(Host, r, m, ev) /\ [HostNext]_hostVars
  BY HostTypeStep DEF IInv, LogInv, StreamInv, HostInv, Publish, HostNext
<1>1. /\ m \in Nat /\ Len(log'[r]) = m + 1 /\ ev \in EventType
      /\ \A s \in Runs : s # r => log'[s] = log[s] /\ status'[s] = status[s]
      /\ status'[r] = StatusAt(r, ev)
  BY <1>0, AppendIs
<1>2. ~Ended(r) /\ (Ended(r)' <=> ev \in TerminalEvent)
  <2>1. status[r] \in {"pending", "running"}
    BY <1>0, <1>1, StandingStatus
  <2>2. QED
    BY <1>1, <2>1, StatusAtIs DEF Ended, Terminal, TerminalEvent
<1>3. /\ StreamTypeOK({Host})'
      /\ \A c \in Clients :
           /\ server'[c] = server[c] /\ got'[c] = got[c]
           /\ c \notin Listeners(Host, r) => Same(c)
           /\ c \in Listeners(Host, r) =>
                /\ link'[c] = IF ev \in TerminalEvent THEN "ended" ELSE "listening"
                /\ InSequence(c) /\ Known(c) = m => InSequence(c)' /\ Known(c)' = m + 1
  BY <1>0, <1>1, HostEmits
<1>4. ASSUME NEW c \in Clients
      PROVE  Served(c)'
  <2>0. Served(c) /\ Watch[c] \in Runs
    BY WatchAssumption DEF IInv, StreamInv
  <2>1. CASE Watch[c] # r
    <3>1. c \notin Listeners(Host, r)
      BY <2>1 DEF Listeners
    <3>2. Same(c) /\ log'[Watch[c]] = log[Watch[c]] /\ status'[Watch[c]] = status[Watch[c]]
      BY <1>1, <1>3, <2>0, <2>1, <3>1
    <3>3. QED
      BY <2>0, <3>2, SameServed DEF Ended
  <2>2. CASE Watch[c] = r /\ link[c] = "listening"
    <3>1. c \in Listeners(Host, r) /\ InSequence(c) /\ Known(c) = m /\ server[c] = Host
      BY <2>0, <2>2 DEF Served, Listeners
    <3>2. /\ link'[c] = IF ev \in TerminalEvent THEN "ended" ELSE "listening"
          /\ server'[c] = Host /\ InSequence(c)' /\ Known(c)' = m + 1
      BY <1>3, <3>1
    <3>3. Known(c)' = Len(log[Watch[c]])' /\ Known(c)' <= Len(log[Watch[c]])'
      BY <1>1, <2>2, <3>2
    <3>4. ~Answering(c)'
      BY <3>2 DEF Answering
    <3>5. QED
      BY <1>2, <2>2, <3>2, <3>3, <3>4 DEF Served
  <2>3. CASE Watch[c] = r /\ link[c] # "listening"
    <3>1. c \notin Listeners(Host, r)
      BY <2>3 DEF Listeners
    <3>2. Same(c) /\ link[c] \notin {"ended", "done"}
      BY <1>2, <1>3, <2>0, <2>3, <3>1 DEF Served
    <3>3. InSequence(c)' /\ Known(c)' = Known(c) /\ ~Answering(c)'
      BY <2>0, <3>2, SameInSequence DEF Served, Same, Answering
    <3>4. Known(c)' <= Len(log[Watch[c]])'
      <4>1. Known(c) <= m /\ Known(c) \in Nat
        BY <2>0, <2>3, KnownIs DEF Served
      <4>2. QED
        BY <1>1, <2>3, <3>3, <4>1
    <3>5. QED
      BY <2>3, <3>2, <3>3, <3>4 DEF Served, Same
  <2>4. QED
    BY <2>1, <2>2, <2>3
<1>5. QED
  BY <1>3, <1>4 DEF StreamInv

LEMMA OpenServes ==
  ASSUME IInv, NEW c \in Clients, Open(c)
  PROVE  StreamInv'
<1> DEFINE r == Watch[c]
           n == Len(log[r])
<1>0. /\ StreamTypeOK({Host}) /\ TypeOK /\ r \in Runs /\ log' = log /\ status' = status
      /\ SendBacklog(c, Host, 0 .. n - 1, Ended(r)) /\ Ended(r) \in BOOLEAN /\ Served(c)
  BY WatchAssumption DEF IInv, StreamInv, LogInv, HostInv, Open, hostVars, Ended
<1>1. n \in Nat
  BY <1>0, LenProperties DEF TypeOK
<1>2. InSequence(c) /\ Len(got[c]) <= n
  <2>1. InSequence(c) /\ Known(c) <= n
    BY <1>0 DEF Served
  <2>2. Known(c) \in Nat /\ Len(got[c]) \in Nat /\ Len(got[c]) <= Known(c)
    BY <2>1, KnownIs
  <2>3. QED
    BY <1>1, <2>1, <2>2
<1>3. /\ StreamTypeOK({Host})'
      /\ IF Ended(r) THEN link'[c] = "ended" ELSE link'[c] \in {"reply", "listening"}
      /\ server'[c] = Host /\ InSequence(c)' /\ Known(c)' = n
      /\ \A d \in Clients : d # c => Same(d)
  <2>1. PICK terminal \in BOOLEAN : terminal = Ended(r)
    BY <1>0
  <2>2. PICK processes : processes = {Host}
    OBVIOUS
  <2>3. /\ SendBacklog(c, Host, 0 .. n - 1, terminal)
        /\ StreamTypeOK(processes) /\ Host \in processes
    BY <1>0, <2>1, <2>2
  <2>4. /\ StreamTypeOK(processes)'
        /\ IF terminal THEN link'[c] = "ended" ELSE link'[c] \in {"reply", "listening"}
        /\ server'[c] = Host /\ InSequence(c)' /\ Known(c)' = n
        /\ \A d \in Clients : d # c => Same(d)
    BY <1>0, <1>1, <1>2, <2>3, SendBacklogIs
  <2>5. QED
    BY <2>1, <2>2, <2>4
<1>4. Served(c)'
  <2>1. Known(c)' = Len(log[r])' /\ Known(c)' <= Len(log[r])' /\ (Ended(r)' <=> Ended(r))
    BY <1>0, <1>1, <1>3 DEF Ended
  <2>2. ~Answering(c)'
    BY <1>3 DEF Answering
  <2>3. QED
    BY <1>3, <2>1, <2>2 DEF Served
<1>5. \A d \in Clients : d # c => Served(d)'
  BY <1>0, <1>3, SameServed DEF IInv, StreamInv, Ended
<1>6. QED
  BY <1>3, <1>4, <1>5 DEF StreamInv

\* What a client does, and what happens to its connection.
LEMMA ClientServed ==
  ASSUME IInv, NEW c \in Clients, ClientStep(c), UNCHANGED hostVars
  PROVE  StreamInv'
<1> DEFINE L == Len(log[Watch[c]])
<1>0. /\ StreamTypeOK({Host}) /\ log' = log /\ status' = status /\ Served(c) /\ InSequence(c)
      /\ \A d \in Clients : Served(d)
  BY DEF IInv, StreamInv, hostVars, Served
<1>1. /\ L \in Nat /\ Len(log[Watch[c]])' = L /\ (Ended(Watch[c])' <=> Ended(Watch[c]))
      /\ Known(c) <= L /\ Known(c) \in Nat /\ Len(got[c]) \in Nat /\ Len(got[c]) <= Known(c)
  <2>1. L \in Nat
    BY WatchAssumption, LenProperties DEF IInv, LogInv, HostInv, TypeOK
  <2>2. Known(c) \in Nat /\ Len(got[c]) \in Nat /\ Len(got[c]) <= Known(c)
    BY <1>0, KnownIs
  <2>3. QED
    BY <1>0, <2>1, <2>2 DEF Served, Ended
<1>2. ASSUME \A d \in Clients : d # c => Same(d)
      PROVE  \A d \in Clients : d # c => Served(d)'
  BY <1>0, <1>2, SameServed DEF Ended
<1>3. CASE Disconnect(c)
  <2>1. /\ StreamTypeOK({Host})' /\ link'[c] = "closed" /\ got'[c] = got[c] /\ wire'[c] = <<>>
        /\ InSequence(c)' /\ \A d \in Clients : d # c => Same(d)
    BY <1>0, <1>3, BreakIs DEF Disconnect
  <2>2. Known(c)' <= L
    <3>1. Len(got'[c]) = Len(got[c]) /\ Len(wire'[c]) = 0
      BY <2>1
    <3>2. Known(c)' = Len(got[c])
      BY <1>1, <3>1 DEF Known
    <3>3. QED
      BY <1>1, <3>2
  <2>3. Served(c)'
    BY <1>1, <2>1, <2>2 DEF Served, Answering
  <2>4. QED
    BY <1>2, <2>1, <2>3 DEF StreamInv
<1>4. CASE Receive(c)
  <2>1. /\ StreamTypeOK({Host})' /\ link'[c] = link[c] /\ server'[c] = server[c]
        /\ InSequence(c)' /\ Known(c)' = Known(c) /\ \A d \in Clients : d # c => Same(d)
    BY <1>0, <1>4, ReceiveIs
  <2>2. link[c] # "done"
    BY <1>4 DEF Receive
  <2>3. Served(c)'
    BY <1>0, <1>1, <2>1, <2>2 DEF Served, Answering
  <2>4. QED
    BY <1>2, <2>1, <2>3 DEF StreamInv
<1>5. CASE SeeEnd(c)
  <2>1. /\ StreamTypeOK({Host})' /\ link[c] = "ended" /\ link'[c] = "done"
        /\ wire'[c] = wire[c] /\ wire[c] = <<>> /\ got'[c] = got[c]
        /\ \A d \in Clients : d # c => Same(d)
    BY <1>0, <1>5, SeeEndIs
  <2>2. InSequence(c)' /\ Known(c)' = Known(c)
    BY <1>0, <2>1, SameInSequence
  <2>3. Served(c)'
    BY <1>0, <1>1, <2>1, <2>2 DEF Served, Answering
  <2>4. QED
    BY <1>2, <2>1, <2>3 DEF StreamInv
<1>6. CASE ReceiveReply(c)
  <2>1. /\ StreamTypeOK({Host})' /\ link'[c] = IF link[c] = "ended" THEN "done" ELSE "closed"
        /\ InSequence(c)' /\ wire'[c] = <<>> /\ Known(c)' = Known(c)
        /\ \A d \in Clients : d # c => Same(d)
    BY <1>0, <1>6, ReceiveReplyIs
  <2>2. Served(c)'
    BY <1>0, <1>1, <2>1 DEF Served, Answering
  <2>3. QED
    BY <1>2, <2>1, <2>2 DEF StreamInv
<1>7. QED
  BY <1>3, <1>4, <1>5, <1>6 DEF ClientStep, Read

LEMMA StreamInvStep ==
  ASSUME IInv, [Next]_vars
  PROVE  StreamInv'
<1>1. ASSUME Request \/ Timer \/ UNCHANGED hostVars, UNCHANGED streamVars
      PROVE  StreamInv'
  <2>1. \A r \in Runs : log'[r] = log[r] /\ (Ended(r)' <=> Ended(r))
    <3>1. ASSUME NEW r \in Runs
          PROVE  log'[r] = log[r] /\ (Ended(r)' <=> Ended(r))
      <4>1. CASE AppendEvent(r)
        <5>1. log'[r] # log[r]
          <6>1. Len(log'[r]) = Len(log[r]) + 1 /\ Len(log[r]) \in Nat
            BY <4>1, AppendIs DEF IInv, LogInv, HostInv
          <6>2. QED
            BY <6>1
        <5>2. log' = log
          BY <1>1 DEF Request, Timer, CancelRun, CreateRun, Reuse, Tick, Wake, hostVars
        <5>3. QED
          BY <5>1, <5>2
      <4>2. CASE ~AppendEvent(r)
        <5>1. [HostNext]_hostVars
          BY <1>1 DEF HostNext
        <5>2. QED
          BY <4>2, <5>1, LogsStay DEF IInv
      <4>3. QED
        BY <4>1, <4>2
    <3>2. QED
      BY <3>1
  <2>2. \A c \in Clients : Same(c) /\ Served(c) /\ Watch[c] \in Runs
    BY <1>1, WatchAssumption DEF IInv, StreamInv, Same, streamVars
  <2>3. \A c \in Clients : Served(c)'
    BY <2>1, <2>2, SameServed
  <2>4. StreamTypeOK({Host})'
    BY <1>1 DEF IInv, StreamInv, StreamTypeOK, streamVars
  <2>5. QED
    BY <2>3, <2>4 DEF StreamInv
<1>2. QED
  BY <1>1, PublishServes, OpenServes, ClientServed DEF Next, vars

LEMMA Invariant == Spec => []IInv
<1>1. Init => IInv
  BY LogInvInit, StreamInvInit DEF Init, IInv
<1>2. IInv /\ [Next]_vars => IInv'
  BY LogInvStep, HostSteps, StreamInvStep DEF IInv
<1>3. QED
  BY <1>1, <1>2, PTL DEF Spec

-----------------------------------------------------------------------------
(* What the runs check. *)

\* Statuses, logs, coroutines, cache entries and connections are what they should
\* be after any sequence of requests, timers and events.
THEOREM TypeCorrect == Spec => []StreamsTyped
<1>1. IInv => StreamsTyped
  BY DEF IInv, LogInv, HostInv, StreamInv, StreamsTyped
<1>2. QED
  BY <1>1, Invariant, PTL

\* A cancellation that was accepted has ended its run by the time the event loop
\* takes the next request or timer, and no other run is cancelled.
THEOREM CancelsTakeEffectAtOnce == Spec => []CancelAtOnce
<1>1. IInv => CancelAtOnce
  BY CancelledAtLoop DEF IInv, LogInv, CancelAtOnce
<1>2. QED
  BY <1>1, Invariant, PTL

\* Whatever workflow a run executes, its log is that of the execution: complete,
\* or up to where a node failed or a cancellation hit it.
THEOREM LogsTellExecution == Spec => []LogTellsExecution
<1>1. ASSUME IInv, NEW r \in Runs
      PROVE  LET full == FullLog(Len(Nodes(r)))
             IN  /\ status[r] = "completed" => log[r] = full
                 /\ \A i \in 1 .. Len(log[r]) :
                      \/ \E j \in 1 .. i : log[r][j].type \in GoneWrong
                      \/ i <= Len(full) /\ log[r][i] = full[i]
  <2> DEFINE n == Len(Nodes(r))
  <2>0. TypeOK /\ Course(r) /\ Standing(r) /\ Full(r) = FullLog(n)
    BY <1>1 DEF IInv, LogInv, HostInv, Full
  <2>1. /\ n \in Nat /\ Len(Full(r)) = 2 * n + 2 /\ log[r] \in Seq(Row) /\ Len(log[r]) \in Nat
        /\ Full(r) = [i \in 1 .. 2 * n + 2 |-> Full(r)[i]]
    BY <2>0, FullLength, LenProperties DEF TypeOK, FullLog
  <2>2. status[r] = "completed" => log[r] = Full(r)
    <3>1. SUFFICES ASSUME status[r] = "completed" PROVE log[r] = Full(r)
      OBVIOUS
    <3>2. Len(log[r]) = 2 * n + 2 /\ \A i \in 1 .. Len(log[r]) : log[r][i] = Full(r)[i]
      BY <2>0, <3>1 DEF Course, Clean
    <3>3. log[r] = [i \in 1 .. Len(log[r]) |-> log[r][i]]
      BY <2>1
    <3>4. QED
      BY <2>1, <3>2, <3>3
  <2>3. ASSUME Clean(r), NEW i \in 1 .. Len(log[r])
        PROVE  i <= Len(Full(r)) /\ log[r][i] = Full(r)[i]
    <3>1. Len(log[r]) <= Len(Full(r)) /\ log[r][i] = Full(r)[i]
      BY <2>3 DEF Clean
    <3>2. \A a, b \in Nat : \A j \in 1 .. a : a <= b => j <= b
      OBVIOUS
    <3>3. Len(Full(r)) \in Nat
      BY <2>1
    <3>4. QED
      BY <2>1, <3>1, <3>2, <3>3
  <2>4. ASSUME Disturbed(r), NEW i \in 1 .. Len(log[r])
        PROVE  \/ \E j \in 1 .. i : log[r][j].type \in GoneWrong
               \/ i <= Len(Full(r)) /\ log[r][i] = Full(r)[i]
    <3>1. PICK j \in 1 .. Len(log[r]) :
            /\ log[r][j].type \in GoneWrong
            /\ \A l \in 1 .. j - 1 : l <= Len(Full(r)) /\ log[r][l] = Full(r)[l]
      BY <2>4 DEF Disturbed
    <3>2. CASE j <= i
      <4>1. j \in 1 .. i
        BY <2>1, <3>2
      <4>2. QED
        BY <3>1, <4>1
    <3>3. CASE ~(j <= i)
      <4>1. i \in 1 .. j - 1
        BY <2>1, <3>3
      <4>2. QED
        BY <3>1, <4>1
    <3>4. QED
      BY <3>2, <3>3
  <2>5. Clean(r) \/ Disturbed(r) \/ log[r] = <<>>
    BY <1>1, <2>0 DEF Course, IInv, LogInv, HostInv, TypeOK, Standing, Coroutine, EventType,
       NodeEvent, RunEvent, TerminalEvent, Terminal
  <2>6. QED
    BY <2>0, <2>2, <2>3, <2>4, <2>5
<1>2. IInv => LogTellsExecution
  BY <1>1 DEF LogTellsExecution
<1>3. QED
  BY <1>2, Invariant, PTL

\* runWorkflow logs one terminal event, after which nothing is logged.
THEOREM TerminalEventsAreLast == Spec => []TerminalEventIsLast
<1>1. IInv => TerminalEventIsLast
  BY DEF IInv, LogInv, EndLogged, TerminalEventIsLast
<1>2. QED
  BY <1>1, Invariant, PTL

\* However often a client's connection breaks, and whichever endpoint it comes
\* back to, it receives the events of its run once each and in order.
THEOREM ClientsGetPrefixes == Spec => []GotPrefix
<1>1. IInv => GotPrefix
  <2>1. SUFFICES ASSUME IInv, NEW c \in Clients, NEW i \in 1 .. Len(got[c])
                 PROVE  got[c][i] = i - 1
    BY DEF GotPrefix
  <2>2. got[c][i] = 0 + i - 1
    BY <2>1 DEF IInv, StreamInv, Served, InSequence, Numbered
  <2>3. QED
    BY <2>2
<1>2. QED
  BY <1>1, Invariant, PTL

\* A client that the host told of the end has every event of the run.
THEOREM DoneClientsHaveAll == Spec => []DoneHasAll
<1>1. IInv => DoneHasAll
  <2>1. SUFFICES ASSUME IInv, NEW c \in Clients, link[c] = "done"
                 PROVE  Ended(Watch[c]) /\ Len(got[c]) = Len(log[Watch[c]])
    BY DEF DoneHasAll
  <2>2. /\ Ended(Watch[c]) /\ Known(c) = Len(log[Watch[c]]) /\ wire[c] = <<>>
        /\ got[c] \in Seq(Nat)
    BY <2>1 DEF IInv, StreamInv, Served, InSequence
  <2>3. Known(c) = Len(got[c])
    BY <2>2, LenProperties DEF Known
  <2>4. QED
    BY <2>2, <2>3
<1>2. QED
  BY <1>1, Invariant, PTL

-----------------------------------------------------------------------------
(* The host implements RunLifecycle.  These are its variables, as the        *)
(* refinement maps them.                                                     *)

Phases == [r \in Runs |-> IF status[r] \in {"pending", "running"} THEN "open" ELSE status[r]]
Logs == [r \in Runs |-> [i \in 1 .. Len(log[r]) |-> log[r][i].type]]
Executors == [r \in Runs |-> IF co[r].next = "idle" THEN NoServer ELSE Host]

\* A coroutine that has something to do executes an open run.
LEMMA ExecutedIsOpen ==
  ASSUME LogInv, NEW r \in Runs, co[r].next # "idle"
  PROVE  Phases[r] = "open" /\ Executors[r] = Host /\ Host # NoServer
<1>1. status[r] \in {"pending", "running"}
  BY DEF LogInv, HostInv, Standing, TypeOK
<1>2. QED
  BY <1>1, NoServerAssumption DEF Phases, Executors

\* An append to the log of a run is an append to its abstract log.
LEMMA LogAppends ==
  ASSUME TypeOK, NEW r \in Runs, AppendEvent(r)
  PROVE  Logs' = [Logs EXCEPT ![r] = Append(@, co[r].next)]
<1> DEFINE ev == co[r].next
           m == Len(log[r])
<1>1. /\ m \in Nat /\ Len(log'[r]) = m + 1 /\ ev \in EventType
      /\ \A i \in 1 .. m : log'[r][i] = log[r][i]
      /\ \A s \in Runs : s # r => log'[s] = log[s]
  BY AppendIs
<1>2. log'[r][m + 1].type = ev
  <2>1. log'[r][m + 1] = [type |-> ev, node |-> co[r].node]
    BY AppendIs
  <2>2. QED
    BY <2>1
<1>3. /\ Logs[r] \in Seq(EventType) /\ Len(Logs[r]) = m
      /\ \A i \in 1 .. m : Logs[r][i] = log[r][i].type
  <2>1. ASSUME NEW i \in 1 .. m
        PROVE  log[r][i].type \in EventType
    <3>1. log[r] \in Seq(Row)
      BY DEF TypeOK
    <3>2. log[r][i] \in Row
      BY <3>1, ElementOfSeq
    <3>3. QED
      BY <3>2 DEF Row
  <2>2. Logs[r] = [i \in 1 .. m |-> log[r][i].type]
    BY DEF Logs
  <2>3. QED
    BY <1>1, <2>1, <2>2
<1>4. /\ Append(Logs[r], ev) \in Seq(EventType) /\ Len(Append(Logs[r], ev)) = m + 1
      /\ \A i \in 1 .. m : Append(Logs[r], ev)[i] = Logs[r][i]
      /\ Append(Logs[r], ev)[m + 1] = ev
  BY <1>1, <1>3, AppendProperties
<1>5. Logs'[r] = Append(Logs[r], ev)
  <2>1. Logs'[r] = [i \in 1 .. m + 1 |-> log'[r][i].type]
    BY <1>1 DEF Logs
  <2>2. Append(Logs[r], ev) = [i \in 1 .. m + 1 |-> Append(Logs[r], ev)[i]]
    BY <1>4
  <2>3. ASSUME NEW i \in 1 .. m + 1
        PROVE  log'[r][i].type = Append(Logs[r], ev)[i]
    <3>1. CASE i \in 1 .. m
      BY <1>1, <1>3, <1>4, <3>1
    <3>2. CASE i = m + 1
      BY <1>2, <1>4, <3>2
    <3>3. i \in 1 .. m \/ i = m + 1
      <4>1. \A a \in Nat : \A j \in 1 .. a + 1 : j \in 1 .. a \/ j = a + 1
        OBVIOUS
      <4>2. QED
        BY <1>1, <4>1
    <3>4. QED
      BY <3>1, <3>2, <3>3, Zenon
  <2>4. QED
    BY <2>1, <2>2, <2>3
<1>6. \A s \in Runs : s # r => Logs'[s] = Logs[s]
  BY <1>1 DEF Logs
<1>7. QED
  BY <1>5, <1>6 DEF Logs

\* An event that is not the last is recorded, and the last one concludes its run.
LEMMA PublishMaps ==
  ASSUME LogInv, NEW r \in Runs, AppendEvent(r)
  PROVE  Lifecycle!Next
<1> DEFINE ev == co[r].next
<1>0. TypeOK /\ HostInv /\ ev \in EventType /\ ev # "idle" /\ ev # "run.resumed"
  BY DEF LogInv, HostInv, Standing, AppendEvent, EventType, NodeEvent, RunEvent, TerminalEvent
<1>1. Phases[r] = "open" /\ Executors[r] = Host /\ Host # NoServer
  BY <1>0, ExecutedIsOpen
<1>2. Logs' = [Logs EXCEPT ![r] = Append(@, ev)]
  BY <1>0, LogAppends
<1>3. /\ co'[r] = AfterAppend(r, ev) /\ status'[r] = StatusAt(r, ev)
      /\ \A s \in Runs : s # r => co'[s] = co[s] /\ status'[s] = status[s]
  BY <1>0, AppendIs
<1>4. status[r] \in {"pending", "running"}
  BY <1>0, StandingStatus
<1>5. CASE ev \in TerminalEvent
  <2>1. co'[r].next = "idle" /\ status'[r] = Outcome[ev]
    BY <1>0, <1>3, <1>5, AfterAppendIs, StatusAtIs DEF TerminalEvent, Outcome
  <2>2. Executors' = [Executors EXCEPT ![r] = NoServer]
    BY <1>3, <2>1 DEF Executors
  <2>3. Outcome[ev] \notin {"pending", "running"} /\ ev \in DOMAIN Outcome
    BY <1>5 DEF Outcome, TerminalEvent
  <2>4. Phases' = [Phases EXCEPT ![r] = Outcome[ev]]
    BY <1>3, <2>1, <2>3 DEF Phases
  <2>5. Lifecycle!Conclude(r)
    BY <1>1, <1>2, <2>2, <2>3, <2>4 DEF Lifecycle!Conclude, Phases, Logs, Executors
  <2>6. QED
    BY <2>5 DEF Lifecycle!Next
<1>6. CASE ev \notin TerminalEvent
  <2>1. co'[r].next # "idle" /\ status'[r] \in {"pending", "running"}
    <3>1. status'[r] \in {"pending", "running"}
      BY <1>0, <1>3, <1>4, <1>6, StatusAtIs
    <3>2. Standing(r)'
      BY <1>0, HostInvStep DEF HostNext, HostInv
    <3>3. QED
      BY <3>1, <3>2 DEF Standing, Terminal
  <2>2. Executors' = Executors /\ Phases' = Phases
    BY <1>0, <1>3, <1>4, <2>1 DEF Executors, Phases
  <2>3. Lifecycle!Record(r)
    BY <1>0, <1>1, <1>2, <2>2 DEF Lifecycle!Record, Phases, Logs, Executors
  <2>4. QED
    BY <2>3 DEF Lifecycle!Next
<1>7. QED
  BY <1>5, <1>6

\* handleCreateRun submits a run that the host executes at once.
LEMMA CreateMaps ==
  ASSUME LogInv, NEW r \in Runs, NEW k \in Keys \cup {NoKey}, NEW b \in Bodies, CreateRun(r, k, b)
  PROVE  Lifecycle!Next
<1>0. TypeOK
  BY DEF LogInv, HostInv
<1>1. Phases[r] = "absent" /\ Phases' = [Phases EXCEPT ![r] = "open"]
  BY <1>0 DEF CreateRun, Phases, TypeOK
<1>2. Executors' = [Executors EXCEPT ![r] = Host] /\ Logs' = Logs
  BY <1>0 DEF CreateRun, Executors, Logs, TypeOK
<1>3. Lifecycle!Submit(r)
  BY <1>1, <1>2 DEF Lifecycle!Submit, Phases, Logs, Executors
<1>4. QED
  BY <1>3 DEF Lifecycle!Next

\* Requests to cancel, replays, timers, clients and their connections are invisible.
LEMMA QuietMaps ==
  ASSUME LogInv, status' = status, log' = log,
         \A r \in Runs : co'[r].next = "idle" <=> co[r].next = "idle"
  PROVE  UNCHANGED Lifecycle!vars
<1>1. Phases' = Phases /\ Logs' = Logs /\ Executors' = Executors
  BY DEF Phases, Logs, Executors
<1>2. QED
  BY <1>1 DEF Lifecycle!vars, Phases, Logs, Executors

LEMMA StepMaps ==
  ASSUME LogInv, [HostNext]_hostVars
  PROVE  [Lifecycle!Next]_(Lifecycle!vars)
<1>0. TypeOK /\ HostInv
  BY DEF LogInv, HostInv
<1>1. ASSUME NEW r \in Runs, CancelRun(r)
      PROVE  UNCHANGED Lifecycle!vars
  <2>1. co[r].next = "sleep" /\ co' = [co EXCEPT ![r] = Do(r, "node.cancelled")]
    BY <1>0, <1>1, CancelFindsSleep
  <2>2. Do(r, "node.cancelled").next = "node.cancelled"
    BY <1>0, DoFields DEF EventType, NodeEvent
  <2>3. \A s \in Runs : co'[s].next = "idle" <=> co[s].next = "idle"
    BY <1>0, <2>1, <2>2 DEF TypeOK
  <2>4. QED
    BY <1>1, <2>3, QuietMaps DEF CancelRun
<1>2. ASSUME NEW r \in Runs, Wake(r)
      PROVE  UNCHANGED Lifecycle!vars
  <2>1. Do(r, "node.completed").next = "node.completed"
    BY <1>0, DoFields DEF EventType, NodeEvent
  <2>2. \A s \in Runs : co'[s].next = "idle" <=> co[s].next = "idle"
    BY <1>0, <1>2, <2>1 DEF Wake, TypeOK
  <2>3. QED
    BY <1>2, <2>2, QuietMaps DEF Wake
<1>3. CASE (\E k \in Keys : Reuse(k)) \/ Tick \/ UNCHANGED hostVars
  BY <1>3, QuietMaps DEF Reuse, Tick, hostVars
<1>4. QED
  BY <1>1, <1>2, <1>3, PublishMaps, CreateMaps DEF HostNext, Request, Timer

\* The host behaves as RunLifecycle promises: it executes what it accepts, and a
\* run ends at once with the outcome that the last event of its log announces.
THEOREM HostImplementsLifecycle == Spec => ImplementsLifecycle
<1>1. Init => Lifecycle!Init
  BY DEF Init, HostInit, Lifecycle!Init
<1>2. IInv /\ [Next]_vars => [Lifecycle!Next]_(Lifecycle!vars)
  BY HostSteps, StepMaps DEF IInv
<1>3. QED
  BY <1>1, <1>2, Invariant, PTL DEF Spec, ImplementsLifecycle, Lifecycle!Spec

=============================================================================
