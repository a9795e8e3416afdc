--------------------------- MODULE SdkCallsProofs ---------------------------
(***************************************************************************)
(* Theorems about the callers of the in-memory host and its cache, for any *)
(* number of them, all bodies and stages, and whatever the network loses,  *)
(* tears or brings late.                                                   *)
(***************************************************************************)
EXTENDS SdkCalls, InMemoryHostProofs

Exists(r) == status[r] # "absent"

-----------------------------------------------------------------------------
(* The idempotency cache and the runs it stands for. *)

\* An entry is about the run that was created when it was stored.
EntriesTrue ==
  \A k \in Keys : cache[k] # NoEntry =>
    /\ Exists(cache[k].run)
    /\ origin[cache[k].run] = [key |-> k, body |-> cache[k].body, at |-> cache[k].storedAt]
    /\ cache[k].storedAt <= now

\* A run whose key is no longer in the cache, or stands for another run, is old.
Recorded(r) ==
  LET k == origin[r].key
  IN  Exists(r) /\ k # NoKey =>
        /\ cache[k] = NoEntry => origin[r].at + CacheTtl < now
        /\ cache[k] # NoEntry =>
             cache[k].run = r \/ origin[r].at + CacheTtl < cache[k].storedAt

CacheInv == HostInv /\ EntriesTrue /\ (\A r \in Runs : Recorded(r)) /\ OneRunPerWindow

-----------------------------------------------------------------------------
(* The callers. *)

\* A run is the caller's: its body, under the key.
Mine(c, r) == r \in Runs /\ Exists(r) /\ origin[r].key = Key /\ origin[r].body = asked[c]

\* Somebody has used the key for another body.
Contested(c) == \E r \in Runs : Exists(r) /\ origin[r].key = Key /\ origin[r].body # asked[c]

\* What was said of a run is so, or about to be.
Holds(r, says) ==
  /\ says \in Terminal => status[r] = says
  /\ says = "cancelling" => cancel[r]

\* A caller knows and was told what is true ...
Informed(c) ==
  /\ line[c] # "free" => stage[c] # "over"
  /\ known[c] # NoRun => Mine(c, known[c])
  /\ told[c] \in Status => known[c] # NoRun /\ Holds(known[c], told[c])
  /\ told[c] = "refused" => Contested(c)

\* ... and so is the reply on its way to it; when that is about another run than
\* the one it knows, it is about a later one.
Promised(c) ==
  /\ line[c] = "409" => Contested(c)
  /\ line[c] \in {"200", "201"} =>
       /\ Mine(c, reply[c].run) /\ Holds(reply[c].run, reply[c].says)
       /\ known[c] # NoRun /\ known[c] # reply[c].run =>
            origin[known[c]].at + CacheTtl < origin[reply[c].run].at

CallInv(c) == Informed(c) /\ Promised(c)

IInv == CallsTypeOK /\ CacheInv /\ \A c \in Callers : CallInv(c)

-----------------------------------------------------------------------------
(* The cache. *)

\* What a step of the host cannot undo: a run stays, with its origin; so do a
\* request to cancel it and its end.
LEMMA HostKeeps ==
  ASSUME HostInv, [HostNext]_hostVars, NEW r \in Runs, Exists(r)
  PROVE  /\ Exists(r)' /\ origin'[r] = origin[r]
         /\ cancel[r] => cancel'[r]
         /\ status[r] \in Terminal => status'[r] = status[r]
<1>0. TypeOK /\ status[r] # "absent"
  BY DEF HostInv, Exists
<1>1. ASSUME NEW s \in Runs, NEW k \in Keys \cup {NoKey}, NEW b \in Bodies, CreateRun(s, k, b)
      PROVE  status'[r] = status[r] /\ origin'[r] = origin[r] /\ cancel' = cancel
  <2>1. s # r
    BY <1>0, <1>1 DEF CreateRun
  <2>2. QED
    BY <1>0, <1>1, <2>1 DEF CreateRun, TypeOK
<1>2. ASSUME NEW s \in Runs, CancelRun(s)
      PROVE  status' = status /\ origin' = origin /\ (cancel[r] => cancel'[r])
  BY <1>0, <1>2 DEF CancelRun, TypeOK
<1>3. ASSUME NEW s \in Runs, AppendEvent(s)
      PROVE  /\ status'[r] # "absent" /\ (status[r] \in Terminal => status'[r] = status[r])
             /\ origin' = origin /\ cancel' = cancel
  <2>1. co[s].next \in EventType /\ status[s] \in {"pending", "running"}
    BY <1>3, StandingStatus DEF AppendEvent
  <2>2. StatusAt(s, co[s].next) # "absent"
    BY <2>1, StatusAtIs DEF TerminalEvent
  <2>3. CASE r = s
    BY <1>0, <1>3, <2>1, <2>2, <2>3 DEF AppendEvent, TypeOK, Terminal
  <2>4. CASE r # s
    BY <1>0, <1>3, <2>4 DEF AppendEvent, TypeOK
  <2>5. QED
    BY <2>3, <2>4
<1>4. CASE (\E s \in Runs : Wake(s)) \/ (\E k \in Keys : Reuse(k)) \/ Tick \/ UNCHANGED hostVars
  BY <1>0, <1>4 DEF Wake, Reuse, Tick, hostVars, Exists
<1>5. QED
  BY <1>0, <1>1, <1>2, <1>3, <1>4 DEF HostNext, Request, Timer, Exists

\* A key that pruning finds no entry for has only old runs.
LEMMA PrunedIsOld ==
  ASSUME CacheInv, NEW r \in Runs, Exists(r), origin[r].key # NoKey,
         Pruned[origin[r].key] = NoEntry
  PROVE  origin[r].at + CacheTtl < now
<1> DEFINE k == origin[r].key
<1>0. /\ TypeOK /\ k \in Keys /\ origin[r].at \in Nat /\ now \in Nat /\ CacheTtl \in Nat
      /\ Recorded(r) /\ EntriesTrue
  BY CacheTtlAssumption DEF CacheInv, HostInv, TypeOK
<1>1. CASE cache[k] = NoEntry
  BY <1>0, <1>1 DEF Recorded
<1>2. CASE cache[k] # NoEntry
  <2>1. cache[k].storedAt + CacheTtl < now /\ cache[k].storedAt \in Nat
    BY <1>0, <1>2, PrunedIs DEF TypeOK, Entry
  <2>2. CASE cache[k].run = r
    <3>1. origin[r] = [key |-> k, body |-> cache[k].body, at |-> cache[k].storedAt]
      BY <1>0, <1>2, <2>2 DEF EntriesTrue
    <3>2. QED
      BY <2>1, <3>1
  <2>3. CASE origin[r].at + CacheTtl < cache[k].storedAt
    <3>1. \A a, b, n \in Nat : a + CacheTtl < b /\ b + CacheTtl < n => a + CacheTtl < n
      BY <1>0
    <3>2. QED
      BY <1>0, <2>1, <2>3, <3>1
  <2>4. QED
    BY <1>0, <1>2, <2>2, <2>3 DEF Recorded
<1>3. QED
  BY <1>1, <1>2

\* Steps that leave the cache, the clock, and what is known of runs alone.
LEMMA SameCache ==
  ASSUME CacheInv, HostInv', cache' = cache, now' = now,
         \A r \in Runs : (Exists(r)' <=> Exists(r)) /\ origin'[r] = origin[r]
  PROVE  CacheInv'
<1>1. \A k \in Keys : cache[k] # NoEntry => cache[k].run \in Runs
  BY DEF CacheInv, HostInv, TypeOK, Entry
<1>2. EntriesTrue'
  BY <1>1 DEF CacheInv, EntriesTrue
<1>3. \A r \in Runs : Recorded(r)'
  BY DEF CacheInv, Recorded
<1>4. OneRunPerWindow'
  BY DEF CacheInv, OneRunPerWindow, Exists
<1>5. QED
  BY <1>2, <1>3, <1>4 DEF CacheInv

\* Pruning forgets the entries of old runs only.
LEMMA PruningKeeps ==
  ASSUME CacheInv, HostInv', cache' = Pruned, now' = now,
         status' = status, origin' = origin
  PROVE  CacheInv'
<1>0. TypeOK /\ now \in Nat
  BY DEF CacheInv, HostInv, TypeOK
<1>1. \A k \in Keys : cache'[k] # NoEntry => cache'[k] = cache[k] /\ cache[k] # NoEntry
  BY <1>0, PrunedIs
<1>2. EntriesTrue'
  BY <1>1 DEF CacheInv, EntriesTrue, Exists
<1>3. ASSUME NEW r \in Runs, Exists(r), origin[r].key # NoKey
      PROVE  LET k == origin[r].key
             IN  /\ cache'[k] = NoEntry => origin[r].at + CacheTtl < now
                 /\ cache'[k] # NoEntry =>
                      cache'[k].run = r \/ origin[r].at + CacheTtl < cache'[k].storedAt
  <2> DEFINE k == origin[r].key
  <2>1. k \in Keys
    BY <1>0, <1>3 DEF TypeOK
  <2>2. cache'[k] = NoEntry => origin[r].at + CacheTtl < now
    BY <1>3, PrunedIsOld
  <2>3. cache'[k] # NoEntry =>
          cache'[k].run = r \/ origin[r].at + CacheTtl < cache'[k].storedAt
    BY <1>1, <1>3, <2>1 DEF CacheInv, Recorded
  <2>4. QED
    BY <2>2, <2>3
<1>4. \A r \in Runs : Recorded(r)'
  BY <1>3 DEF Recorded, Exists
<1>5. OneRunPerWindow'
  BY DEF CacheInv, OneRunPerWindow
<1>6. QED
  BY <1>2, <1>4, <1>5 DEF CacheInv

\* A new run is recorded under its key, and every other run of that key is old.
LEMMA CreationRecords ==
  ASSUME CacheInv, HostInv', NEW r \in Runs, NEW k \in Keys \cup {NoKey}, NEW b \in Bodies,
         CreateRun(r, k, b)
  PROVE  CacheInv'
<1> DEFINE new == [run |-> r, body |-> b, storedAt |-> now]
           born == [key |-> k, body |-> b, at |-> now]
<1>0. /\ TypeOK /\ now \in Nat /\ CacheTtl \in Nat /\ now' = now /\ ~Exists(r)
      /\ Exists(r)' /\ origin'[r] = born
      /\ \A s \in Runs : s # r => origin'[s] = origin[s] /\ (Exists(s)' <=> Exists(s))
      /\ k # NoKey => Pruned[k] = NoEntry
      /\ cache' = IF k = NoKey THEN cache ELSE [Pruned EXCEPT ![k] = new]
  BY CacheTtlAssumption DEF CacheInv, HostInv, TypeOK, CreateRun, Exists
<1>1. /\ \A j \in Keys : j # k /\ cache'[j] # NoEntry => cache'[j] = cache[j] /\ cache[j] # NoEntry
      /\ k # NoKey => k \in Keys /\ cache'[k] = new
  BY <1>0, PrunedIs, NoKeyAssumption
<1>2. new # NoEntry
  BY <1>0, NoEntryAssumption DEF Entry
<1>3. EntriesTrue'
  <2>1. ASSUME NEW j \in Keys, cache'[j] # NoEntry, j # k
        PROVE  /\ status'[cache'[j].run] # "absent"
               /\ origin'[cache'[j].run] =
                    [key |-> j, body |-> cache'[j].body, at |-> cache'[j].storedAt]
               /\ cache'[j].storedAt <= now
    <3>1. cache'[j] = cache[j] /\ cache[j] # NoEntry
      BY <1>1, <2>1
    <3>2. /\ status[cache[j].run] # "absent" /\ cache[j].storedAt <= now
          /\ origin[cache[j].run] = [key |-> j, body |-> cache[j].body, at |-> cache[j].storedAt]
      BY <3>1 DEF CacheInv, EntriesTrue, Exists
    <3>3. cache[j].run \in Runs /\ cache[j].run # r
      BY <1>0, <3>1, <3>2 DEF TypeOK, Entry, Exists
    <3>4. /\ origin'[cache[j].run] = origin[cache[j].run]
          /\ status'[cache[j].run] # "absent"
      BY <1>0, <3>2, <3>3 DEF Exists
    <3>5. QED
      BY <3>1, <3>2, <3>4
  <2>2. ASSUME k \in Keys
        PROVE  /\ status'[cache'[k].run] # "absent"
               /\ origin'[cache'[k].run] =
                    [key |-> k, body |-> cache'[k].body, at |-> cache'[k].storedAt]
               /\ cache'[k].storedAt <= now
    <3>1. cache'[k] = new
      BY <1>1, <2>2, NoKeyAssumption
    <3>2. cache'[k].run = r /\ cache'[k].body = b /\ cache'[k].storedAt = now
      BY <3>1
    <3>3. QED
      BY <1>0, <3>2 DEF Exists
  <2>3. now' = now
    BY <1>0
  <2> HIDE DEF new, born
  <2>4. QED
    BY <2>1, <2>2, <2>3, Zenon DEF EntriesTrue, Exists
<1>4. ASSUME NEW s \in Runs, s # r, Exists(s), origin[s].key = k, k # NoKey
      PROVE  origin[s].at + CacheTtl < now
  BY <1>0, <1>4, PrunedIsOld
<1>5. ASSUME NEW s \in Runs
      PROVE  Recorded(s)'
  <2>1. CASE s = r
    <3>1. k # NoKey => cache'[k].run = r
      BY <1>1
    <3>2. k # NoKey => cache'[k] # NoEntry
      BY <1>1, <1>2
    <3>3. QED
      BY <1>0, <2>1, <3>1, <3>2 DEF Recorded
  <2>2. CASE s # r
    <3> DEFINE j == origin[s].key
    <3>1. SUFFICES ASSUME Exists(s), j # NoKey
                   PROVE  /\ cache'[j] = NoEntry => origin[s].at + CacheTtl < now
                          /\ cache'[j] # NoEntry =>
                               cache'[j].run = s \/ origin[s].at + CacheTtl < cache'[j].storedAt
      BY <1>0, <2>2 DEF Recorded
    <3>2. j \in Keys
      BY <1>0, <3>1 DEF TypeOK
    <3>3. CASE j = k
      <4>1. origin[s].at + CacheTtl < now
        BY <1>4, <2>2, <3>1, <3>3
      <4>2. cache'[j].storedAt = now
        BY <1>1, <3>1, <3>3
      <4>3. QED
        BY <4>1, <4>2
    <3>4. CASE j # k
      <4>1. cache'[j] # NoEntry =>
              cache'[j].run = s \/ origin[s].at + CacheTtl < cache'[j].storedAt
        BY <1>1, <3>1, <3>2, <3>4 DEF CacheInv, Recorded
      <4>2. ASSUME cache'[j] = NoEntry
            PROVE  origin[s].at + CacheTtl < now
        <5>1. CASE k = NoKey
          BY <1>0, <3>1, <4>2, <5>1 DEF CacheInv, Recorded
        <5>2. CASE k # NoKey
          <6>1. Pruned[j] = NoEntry
            BY <1>0, <1>1, <3>2, <3>4, <4>2, <5>2, PrunedIs
          <6>2. QED
            BY <3>1, <6>1, PrunedIsOld
        <5>3. QED
          BY <5>1, <5>2
      <4>3. QED
        BY <4>1, <4>2
    <3>5. QED
      BY <3>3, <3>4
  <2>3. QED
    BY <2>1, <2>2
<1>6. OneRunPerWindow'
  <2>1. ASSUME NEW s \in Runs, NEW t \in Runs, s # t, Exists(s)', Exists(t)',
               origin'[s].key = origin'[t].key, origin'[s].key # NoKey
        PROVE  \/ origin'[s].at > origin'[t].at + CacheTtl
               \/ origin'[t].at > origin'[s].at + CacheTtl
    <3>1. CASE s = r
      <4>1. origin[t].at + CacheTtl < now /\ origin'[t] = origin[t] /\ origin'[s].at = now
        BY <1>0, <1>4, <2>1, <3>1
      <4>2. origin[t].at \in Nat
        BY <1>0 DEF TypeOK
      <4>3. QED
        BY <1>0, <4>1, <4>2
    <3>2. CASE t = r
      <4>1. origin[s].at + CacheTtl < now /\ origin'[s] = origin[s] /\ origin'[t].at = now
        BY <1>0, <1>4, <2>1, <3>2
      <4>2. origin[s].at \in Nat
        BY <1>0 DEF TypeOK
      <4>3. QED
        BY <1>0, <4>1, <4>2
    <3>3. CASE s # r /\ t # r
      BY <1>0, <2>1, <3>3 DEF CacheInv, OneRunPerWindow, Exists
    <3>4. QED
      BY <3>1, <3>2, <3>3
  <2>2. QED
    BY <2>1 DEF OneRunPerWindow, Exists
<1>7. QED
  BY <1>3, <1>5, <1>6 DEF CacheInv

LEMMA CacheInvInit ==
  ASSUME HostInit
  PROVE  CacheInv
BY StandingInit DEF HostInit, CacheInv, EntriesTrue, Recorded, OneRunPerWindow, Exists

LEMMA CacheInvStep ==
  ASSUME CacheInv, [HostNext]_hostVars
  PROVE  CacheInv'
<1>0. HostInv /\ HostInv' /\ TypeOK
  BY HostInvStep DEF CacheInv, HostInv
<1>1. ASSUME NEW r \in Runs, CancelRun(r) \/ Wake(r) \/ AppendEvent(r)
      PROVE  CacheInv'
  <2>1. cache' = cache /\ now' = now /\ origin' = origin
    BY <1>1 DEF CancelRun, Wake, AppendEvent
  <2>2. \A s \in Runs : Exists(s)' <=> Exists(s)
    <3>1. \A s \in Runs : Exists(s) => Exists(s)'
      BY <1>0, HostKeeps
    <3>2. ASSUME NEW s \in Runs, ~Exists(s)
          PROVE  status'[s] = status[s]
      <4>1. CASE CancelRun(r) \/ Wake(r)
        BY <4>1 DEF CancelRun, Wake
      <4>2. CASE AppendEvent(r)
        <5>1. status[r] \in {"pending", "running"}
          BY <1>0, <4>2, StandingStatus DEF AppendEvent
        <5>2. s # r
          BY <3>2, <5>1 DEF Exists
        <5>3. QED
          BY <1>0, <4>2, <5>2 DEF AppendEvent, TypeOK
      <4>3. QED
        BY <1>1, <4>1, <4>2
    <3>3. QED
      BY <3>1, <3>2 DEF Exists
  <2>3. QED
    BY <1>0, <2>1, <2>2, SameCache
<1>2. CASE UNCHANGED hostVars
  BY <1>0, <1>2, SameCache DEF hostVars, Exists
<1>3. CASE Tick
  <2>1. /\ now \in Nat /\ now' = now + 1 /\ status' = status /\ origin' = origin /\ cache' = cache
        /\ EntriesTrue /\ (\A r \in Runs : Recorded(r)) /\ OneRunPerWindow /\ CacheTtl \in Nat
    BY <1>0, <1>3, CacheTtlAssumption DEF Tick, TypeOK, CacheInv
  <2>2. EntriesTrue'
    <3>1. \A k \in Keys : cache[k] # NoEntry => cache[k].storedAt \in Nat
      BY <1>0 DEF TypeOK, Entry
    <3>2. QED
      BY <2>1, <3>1 DEF EntriesTrue, Exists
  <2>3. ASSUME NEW r \in Runs
        PROVE  Recorded(r)'
    <3>1. origin[r].at \in Nat
      BY <1>0 DEF TypeOK
    <3>2. origin[r].at + CacheTtl < now => origin[r].at + CacheTtl < now + 1
      BY <2>1, <3>1
    <3>3. QED
      BY <2>1, <3>2 DEF Recorded, Exists
  <2>4. OneRunPerWindow'
    BY <2>1 DEF OneRunPerWindow
  <2>5. QED
    BY <1>0, <2>2, <2>3, <2>4 DEF CacheInv
<1>4. ASSUME NEW k \in Keys, Reuse(k)
      PROVE  CacheInv'
  BY <1>0, <1>4, PruningKeeps DEF Reuse
<1>5. QED
  BY <1>0, <1>1, <1>2, <1>3, <1>4, CreationRecords DEF HostNext, Request, Timer

-----------------------------------------------------------------------------
(* The steps of the callers. *)

\* What a client's code makes of a reply agrees with the status code.
LEMMA ResultsAre ==
  ASSUME NEW client \in Client, NEW how \in {"whole", "torn", "cut"}, NEW code \in Code,
         NEW result \in Results(client, how, code)
  PROVE  /\ result \in {"raised", "refused", "blank", "value"}
         /\ result = "refused" => code = "409"
         /\ result = "value" => code \in {"200", "201"}
BY DEF Results, Client, TypeScript, Python, PythonRequest, Go, Driver, PostRun, Whole, Code

LEMMA KeyFacts == /\ Key \in Keys /\ Key # NoKey
                  /\ \A c \in Callers : IdempotencyKey(c) = Key
BY KeyAssumption, NoKeyAssumption DEF IdempotencyKey

LEMMA CreatedIs ==
  ASSUME IInv, NEW c \in Callers, Created(c)
  PROVE  /\ FreshRun \in Runs /\ status[FreshRun] = "absent" /\ asked[c] \in Bodies
         /\ CreateRun(FreshRun, Key, asked[c])
<1>1. FreshRun \in Runs /\ status[FreshRun] = "absent"
  BY DEF Created, FreshRun
<1>2. QED
  BY <1>1, KeyFacts DEF IInv, CallsTypeOK, Created

\* The host's part of a step of the composition is a step of the host.
LEMMA HostSteps ==
  ASSUME IInv, [Next]_vars
  PROVE  [HostNext]_hostVars
<1>0. (\A c \in Callers : known[c] # NoRun => known[c] \in Runs) /\ Key \in Keys
  BY KeyFacts DEF IInv, CallsTypeOK
<1>1. ASSUME NEW c \in Callers, Created(c) \/ Reuse(IdempotencyKey(c))
      PROVE  HostNext
  BY <1>0, <1>1, CreatedIs, KeyFacts DEF HostNext, Request
<1>2. ASSUME NEW c \in Callers, known[c] \in Runs,
             CancelRun(known[c]) \/ AlreadyTerminal(known[c])
      PROVE  [HostNext]_hostVars
  BY <1>2 DEF HostNext, Request, AlreadyTerminal
<1>3. ASSUME NEW c \in Callers, Handle(c)
      PROVE  [HostNext]_hostVars
  BY <1>0, <1>1, <1>2, <1>3
     DEF Handle, HandleCreate, Replayed, HandleGetRun, HandleCancelRun, NotFound, hostVars
<1>4. ASSUME NEW c \in Callers, NEW st \in {"create", "cancel"}, ArriveLate(c, st)
      PROVE  [HostNext]_hostVars
  BY <1>0, <1>1, <1>2, <1>4 DEF ArriveLate
<1>5. ASSUME NEW c \in Callers, Send(c) \/ GiveUp(c) \/ Receive(c) \/ Abandon(c)
      PROVE  UNCHANGED hostVars
  BY <1>5 DEF Send, GiveUp, Receive, Abandon
<1>6. CASE HostStep \/ UNCHANGED vars
  BY <1>6 DEF HostStep, HostNext, vars
<1>7. QED
  BY <1>3, <1>4, <1>5, <1>6 DEF Next, Answered

\* How a program goes on.
LEMMA ContinueIs ==
  ASSUME CallsTypeOK, NEW c \in Callers, NEW st \in Stage, Continue(c, st)
  PROVE  /\ stage' \in [Callers -> Stage] /\ tries' \in [Callers -> 0 .. MaxTries]
         /\ stage'[c] = st /\ \A d \in Callers : d # c => stage'[d] = stage[d]
BY MaxTriesAssumption DEF CallsTypeOK, Continue

\* Taking a reply: what the program knows, was told, and does next.
LEMMA ReceiveIs ==
  ASSUME IInv, NEW c \in Callers, Receive(c)
  PROVE  /\ known' \in [Callers -> Runs \cup {NoRun}]
         /\ told' \in [Callers -> {"nothing", "refused", "blank"} \cup Status]
         /\ stage' \in [Callers -> Stage] /\ tries' \in [Callers -> 0 .. MaxTries]
         /\ line'[c] = "free" /\ line[c] \in Code
         /\ \A d \in Callers : d # c =>
              /\ stage'[d] = stage[d] /\ known'[d] = known[d] /\ told'[d] = told[d]
              /\ line'[d] = line[d] /\ reply'[d] = reply[d]
         /\ \/ /\ line[c] \in {"200", "201"}
               /\ known'[c] = reply[c].run /\ told'[c] = reply[c].says
            \/ line[c] = "409" /\ known'[c] = known[c] /\ told'[c] = "refused" /\ stage'[c] = "over"
            \/ known'[c] = known[c] /\ told'[c] \in {"blank", told[c]}
            \/ known'[c] = NoRun /\ told'[c] = "blank"
<1>0. CallsTypeOK /\ line[c] \in Code /\ stage[c] \in Stage /\ stage[c] # "over"
  BY DEF IInv, CallsTypeOK, CallInv, Informed, Receive
<1>1. /\ line'[c] = "free"
      /\ \A d \in Callers : d # c => line'[d] = line[d] /\ reply'[d] = reply[d]
  BY <1>0 DEF Receive, CallsTypeOK
<1>2. PICK client \in Client, how \in {"whole", "torn", "cut"} :
        \E result \in Results(client, how, line[c]) : Take(c, result)
  BY DEF Receive
<1>3. PICK result \in Results(client, how, line[c]) : Take(c, result)
  BY <1>2
<1>4. /\ result \in {"raised", "refused", "blank", "value"}
      /\ result = "refused" => line[c] = "409"
      /\ result = "value" => line[c] \in {"200", "201"}
  BY <1>0, <1>3, ResultsAre
<1> DEFINE next(says) == NextStages(c, says)
<1>10. ASSUME NEW says \in Status
       PROVE  next(says) \subseteq Stage
  <2>1. Wants[c] \subseteq Stage
    BY WantsAssumption
  <2>2. QED
    BY <1>0, <2>1 DEF NextStages, Stage
<1>5. CASE result = "value"
  <2>1. TakeValue(c)
    BY <1>3, <1>5 DEF Take
  <2>2. reply[c].run \in Runs \cup {NoRun} /\ reply[c].says \in Status
    BY <1>0 DEF CallsTypeOK, Reply
  <2>3. PICK st \in NextStages(c, reply[c].says) : Continue(c, st)
    BY <2>1 DEF TakeValue
  <2>4. st \in Stage
    BY <1>10, <2>2, <2>3
  <2>5. line[c] \in {"200", "201"}
    BY <1>4, <1>5
  <2>6. QED
    BY <1>0, <1>1, <2>1, <2>2, <2>3, <2>4, <2>5, ContinueIs DEF TakeValue, CallsTypeOK
<1>6. CASE result = "refused"
  <2>1. TakeRefusal(c)
    BY <1>3, <1>6 DEF Take
  <2>2. QED
    BY <1>0, <1>1, <1>4, <1>6, <2>1, ContinueIs DEF TakeRefusal, CallsTypeOK, Stage
<1>7. CASE result = "blank"
  <2>1. TakeBlank(c)
    BY <1>3, <1>7 DEF Take
  <2>2. PICK st \in NextStages(c, "pending") : Continue(c, st)
    BY <2>1 DEF TakeBlank
  <2>3. st \in Stage
    BY <1>10, <2>2 DEF Status
  <2>4. QED
    BY <1>0, <1>1, <2>1, <2>2, <2>3, ContinueIs DEF TakeBlank, CallsTypeOK
<1>8. CASE result = "raised"
  <2>1. TakeError(c)
    BY <1>3, <1>8 DEF Take
  <2>2. QED
    BY <1>0, <1>1, <2>1, ContinueIs DEF TakeError, CallsTypeOK
<1>9. QED
  BY <1>4, <1>5, <1>6, <1>7, <1>8

LEMMA TypesInit ==
  ASSUME Init
  PROVE  CallsTypeOK
<1>1. asked \in [Callers -> Bodies]
  BY AsksAssumption DEF Init
<1>2. QED
  BY <1>1, HostTypeInit, MaxTriesAssumption
     DEF Init, CallsTypeOK, NoReply, Reply, Status, Stage

LEMMA TypesStep ==
  ASSUME IInv, [Next]_vars
  PROVE  CallsTypeOK'
<1>0. TypeOK' /\ CallsTypeOK
  BY HostSteps, HostTypeStep DEF IInv, CallsTypeOK
<1>1. ASSUME NEW c \in Callers, NEW code \in Code, NEW run \in Runs \cup {NoRun},
             NEW says \in Status, Replies(c, code, run, says), late' = late, Unchanged_Client
      PROVE  CallsTypeOK'
  BY <1>0, <1>1 DEF CallsTypeOK, Replies, Unchanged_Client, Reply
<1>2. ASSUME NEW c \in Callers, HandleCreate(c)
      PROVE  CallsTypeOK'
  BY <1>1, <1>2, CreatedIs DEF HandleCreate, Code, Status
<1>3. ASSUME NEW c \in Callers, Replayed(c)
      PROVE  CallsTypeOK'
  <2>1. Pruned[Key].run \in Runs
    BY <1>0, <1>3, KeyFacts, PrunedIs DEF CallsTypeOK, Replayed, Reuse, Entry
  <2>2. QED
    BY <1>1, <1>3, <2>1, KeyFacts DEF Replayed, Code, Status
<1>4. ASSUME NEW c \in Callers, HandleGetRun(c) \/ HandleCancelRun(c)
      PROVE  CallsTypeOK'
  <2>1. Mine(c, known[c])
    BY <1>4 DEF HandleGetRun, HandleCancelRun, IInv, CallInv, Informed
  <2>2. known[c] \in Runs /\ status[known[c]] \in Status
    BY <1>0, <2>1 DEF CallsTypeOK, TypeOK, Mine, Exists, Status
  <2>3. QED
    BY <1>1, <1>4, <2>2 DEF HandleGetRun, HandleCancelRun, Code, Status
<1>11. ASSUME NEW c \in Callers, NotFound(c)
       PROVE  CallsTypeOK'
  BY <1>1, <1>11 DEF NotFound, Code, Status
<1>5. ASSUME NEW c \in Callers, NEW st \in {"create", "cancel"}, ArriveLate(c, st)
      PROVE  CallsTypeOK'
  BY <1>0, <1>5 DEF ArriveLate, CallsTypeOK, Unchanged_Client
<1>6. ASSUME NEW c \in Callers, Send(c) \/ GiveUp(c)
      PROVE  CallsTypeOK'
  <2>1. tries[c] < MaxTries => tries[c] + 1 \in 0 .. MaxTries
    BY <1>0, MaxTriesAssumption DEF CallsTypeOK
  <2>2. 0 \in 0 .. MaxTries
    BY MaxTriesAssumption
  <2>3. CASE Send(c)
    BY <1>0, <2>1, <2>3 DEF Send, CallsTypeOK
  <2>4. CASE GiveUp(c)
    BY <1>0, <2>2, <2>4 DEF GiveUp, CallsTypeOK, Stage
  <2>5. QED
    BY <1>6, <2>3, <2>4
<1>7. ASSUME NEW c \in Callers, Receive(c)
      PROVE  CallsTypeOK'
  <2>1. NoReply \in Reply
    BY DEF NoReply, Reply, Status
  <2>2. /\ line' \in [Callers -> {"free", "sent"} \cup Code] /\ reply' \in [Callers -> Reply]
        /\ asked' = asked /\ late' = late
    BY <1>0, <1>7, <2>1 DEF Receive, CallsTypeOK
  <2>3. QED
    BY <1>0, <1>7, <2>2, ReceiveIs DEF CallsTypeOK
<1>8. ASSUME NEW c \in Callers, Abandon(c)
      PROVE  CallsTypeOK'
  <2>1. /\ stage' \in [Callers -> Stage] /\ tries' \in [Callers -> 0 .. MaxTries]
        /\ known' = known /\ told' = told
    BY <1>0, <1>8, ContinueIs DEF Abandon, TakeError, CallsTypeOK
  <2>2. QED
    BY <1>0, <1>8, <2>1 DEF Abandon, CallsTypeOK
<1>9. CASE HostStep \/ UNCHANGED vars
  BY <1>0, <1>9 DEF HostStep, CallsTypeOK, callVars, vars
<1>10. QED
  BY <1>2, <1>3, <1>4, <1>5, <1>6, <1>7, <1>8, <1>9, <1>11 DEF Next, Answered, Handle

-----------------------------------------------------------------------------
(* What callers know and were told. *)

\* No step takes back what the runs say.
LEMMA RunsKeep ==
  ASSUME IInv, [Next]_vars
  PROVE  /\ asked' = asked
         /\ \A r \in Runs : status[r] # "absent" =>
              /\ status'[r] # "absent" /\ origin'[r] = origin[r]
              /\ cancel[r] => cancel'[r]
              /\ status[r] \in Terminal => status'[r] = status[r]
<1>1. asked' = asked
  BY DEF Next, HostStep, Answered, Handle, HandleCreate, Replayed, HandleGetRun,
         HandleCancelRun, NotFound, ArriveLate, Unchanged_Client, Send, GiveUp, Receive,
         Abandon, vars, callVars
<1>2. HostInv /\ [HostNext]_hostVars
  BY HostSteps DEF IInv, CacheInv
<1>3. QED
  BY <1>1, <1>2, HostKeeps DEF Exists

\* What is true of a run, or of a rival, stays true.
LEMMA TruthsKeep ==
  ASSUME IInv, [Next]_vars, NEW c \in Callers
  PROVE  /\ \A r \in Runs : Mine(c, r) => Mine(c, r)'
         /\ Contested(c) => Contested(c)'
         /\ \A r \in Runs, says \in Status : Exists(r) /\ Holds(r, says) => Holds(r, says)'
BY RunsKeep DEF Mine, Contested, Holds, Exists

\* A caller that knows no more than before, and was told nothing new.
LEMMA InformedStays ==
  ASSUME IInv, [Next]_vars, NEW c \in Callers,
         known'[c] = known[c], told'[c] \in {told[c], "blank"},
         line'[c] # "free" => stage'[c] # "over"
  PROVE  Informed(c)'
<1> DEFINE k == known[c]
<1>0. Informed(c) /\ asked' = asked /\ k \in Runs \cup {NoRun} /\ "blank" \notin Status
  BY RunsKeep DEF IInv, CallInv, CallsTypeOK, Status, Terminal
<1>1. k # NoRun =>
        /\ status'[k] # "absent" /\ origin'[k] = origin[k]
        /\ cancel[k] => cancel'[k]
        /\ status[k] \in Terminal => status'[k] = status[k]
  BY <1>0, RunsKeep DEF Informed, Mine, Exists
<1>2. k # NoRun => Mine(c, k)'
  BY <1>0, TruthsKeep DEF Informed
<1>3. told'[c] \in Status => k # NoRun
  BY <1>0 DEF Informed
<1>4. ASSUME told'[c] \in Status
      PROVE  /\ told[c] \in Terminal => status'[k] = told[c]
             /\ told[c] = "cancelling" => cancel'[k]
             /\ told'[c] = told[c]
  BY <1>0, <1>1, <1>4 DEF Informed, Holds, Status
<1>5. told'[c] = "refused" => Contested(c)'
  BY <1>0, TruthsKeep DEF Informed
<1>6. (known[c] # NoRun => Mine(c, known[c]))'
  BY <1>2 DEF Mine, Exists
<1>7. (told[c] \in Status => Holds(known[c], told[c]))'
  BY <1>4 DEF Holds
<1>8. QED
  BY <1>3, <1>5, <1>6, <1>7 DEF Informed

\* A reply on its way stays right.
LEMMA PromisedStays ==
  ASSUME IInv, [Next]_vars, NEW c \in Callers,
         known'[c] = known[c], line'[c] = line[c], reply'[c] = reply[c]
  PROVE  Promised(c)'
<1> DEFINE r == reply[c].run
           says == reply[c].says
<1>0. /\ Promised(c) /\ asked' = asked /\ known[c] \in Runs \cup {NoRun}
      /\ known[c] # NoRun => Exists(known[c])
  BY RunsKeep DEF IInv, CallInv, CallsTypeOK, Informed, Mine
<1>1. line[c] = "409" => Contested(c)'
  BY <1>0, TruthsKeep DEF Promised
<1>2. ASSUME line[c] \in {"200", "201"}
      PROVE  /\ status'[r] # "absent" /\ origin'[r] = origin[r] /\ r \in Runs
             /\ origin[r].key = Key /\ origin[r].body = asked[c]
             /\ says \in Terminal => status'[r] = says
             /\ says = "cancelling" => cancel'[r]
             /\ known[c] # NoRun /\ known[c] # r =>
                  origin'[known[c]].at + CacheTtl < origin'[r].at
  <2>1. /\ Mine(c, r) /\ Holds(r, says)
        /\ known[c] # NoRun /\ known[c] # r =>
             origin[known[c]].at + CacheTtl < origin[r].at
    BY <1>0, <1>2 DEF Promised
  <2>2. known[c] # NoRun => origin'[known[c]] = origin[known[c]]
    BY <1>0, RunsKeep DEF Exists
  <2>3. /\ status'[r] # "absent" /\ origin'[r] = origin[r]
        /\ cancel[r] => cancel'[r]
        /\ status[r] \in Terminal => status'[r] = status[r]
    BY <2>1, RunsKeep DEF Mine, Exists
  <2>4. QED
    BY <2>1, <2>2, <2>3 DEF Mine, Holds
<1>3. QED
  BY <1>0, <1>1, <1>2 DEF Promised, Mine, Exists, Holds

\* A success that is right when it is sent.
LEMMA PromiseMade ==
  ASSUME IInv, NEW c \in Callers, NEW code \in {"200", "201"}, NEW r \in Runs, NEW says \in Status,
         Replies(c, code, r, says), Unchanged_Client,
         Mine(c, r)', Holds(r, says)',
         known[c] # NoRun /\ known[c] # r =>
           origin'[known[c]].at + CacheTtl < origin'[r].at
  PROVE  Promised(c)'
<1>1. /\ line'[c] = code /\ reply'[c].run = r /\ reply'[c].says = says
      /\ known' = known
  BY DEF Replies, Unchanged_Client, IInv, CallsTypeOK
<1>2. Mine(c, reply[c].run)' /\ Holds(reply[c].run, reply[c].says)'
  BY <1>1 DEF Mine, Holds, Exists
<1>3. QED
  BY <1>1, <1>2 DEF Promised

\* The host's reply to a create that is not in the cache.
LEMMA CreatePromises ==
  ASSUME IInv, [Next]_vars, NEW c \in Callers, HandleCreate(c)
  PROVE  Promised(c)'
<1>1. PICK r \in Runs : r = FreshRun /\ status[r] = "absent" /\ CreateRun(r, Key, asked[c])
  BY CreatedIs DEF HandleCreate
<1>2. Replies(c, "201", r, "pending") /\ Unchanged_Client /\ "pending" \in Status
  BY <1>1 DEF HandleCreate, Status
<1>3. /\ status'[r] = "pending" /\ origin'[r] = [key |-> Key, body |-> asked[c], at |-> now]
      /\ Pruned[Key] = NoEntry /\ asked' = asked
  BY <1>1, KeyFacts, RunsKeep DEF CreateRun, IInv, CallsTypeOK, TypeOK
<1>4. Mine(c, r)' /\ Holds(r, "pending")'
  BY <1>3 DEF Mine, Exists, Holds, Terminal
<1>5. ASSUME known[c] # NoRun
      PROVE  origin'[known[c]].at + CacheTtl < origin'[r].at
  <2>1. Mine(c, known[c])
    BY <1>5 DEF IInv, CallInv, Informed
  <2>2. origin[known[c]].at + CacheTtl < now
    BY <1>3, <2>1, KeyFacts, PrunedIsOld DEF Mine, IInv
  <2>3. origin'[known[c]] = origin[known[c]]
    BY <2>1, RunsKeep DEF Mine, Exists
  <2>4. QED
    BY <1>3, <2>2, <2>3
<1>6. QED
  BY <1>2, <1>4, <1>5, PromiseMade

\* The host's reply to one that is.
LEMMA ReplayPromises ==
  ASSUME IInv, [Next]_vars, NEW c \in Callers, Replayed(c)
  PROVE  Promised(c)'
<1>0. CacheInv /\ TypeOK /\ CallsTypeOK
  BY DEF IInv, CacheInv, HostInv
<1>1. /\ Pruned[Key] = cache[Key] /\ cache[Key] # NoEntry /\ cache[Key] \in Entry
      /\ Unchanged_Client
      /\ IF cache[Key].body = asked[c] THEN Replies(c, "201", cache[Key].run, "pending")
                                       ELSE Replies(c, "409", NoRun, "pending")
  BY <1>0, KeyFacts, PrunedIs DEF Replayed, Reuse
<1>2. PICK r \in Runs : r = cache[Key].run
  BY <1>1 DEF Entry
<1>3. /\ Exists(r)
      /\ origin[r] = [key |-> Key, body |-> cache[Key].body, at |-> cache[Key].storedAt]
  BY <1>0, <1>1, <1>2, KeyFacts DEF CacheInv, EntriesTrue
<1>4. CASE cache[Key].body = asked[c]
  <2>1. Mine(c, r)
    BY <1>3, <1>4 DEF Mine
  <2>2. Mine(c, r)' /\ Holds(r, "pending")'
    BY <2>1, TruthsKeep DEF Holds, Terminal
  <2>3. ASSUME known[c] # NoRun, known[c] # r
        PROVE  origin'[known[c]].at + CacheTtl < origin'[r].at
    <3>1. Mine(c, known[c])
      BY <2>3 DEF IInv, CallInv, Informed
    <3>2. origin[known[c]].at + CacheTtl < cache[Key].storedAt
      BY <1>0, <1>1, <1>2, <2>3, <3>1, KeyFacts DEF Mine, CacheInv, Recorded
    <3>3. origin'[known[c]] = origin[known[c]] /\ origin'[r] = origin[r]
      BY <1>3, <3>1, RunsKeep DEF Mine, Exists
    <3>4. QED
      BY <1>3, <3>2, <3>3
  <2>4. Replies(c, "201", r, "pending") /\ "pending" \in Status
    BY <1>1, <1>2, <1>4 DEF Status
  <2>5. QED
    BY <1>1, <2>2, <2>3, <2>4, PromiseMade
<1>5. CASE cache[Key].body # asked[c]
  <2>1. line'[c] = "409"
    BY <1>0, <1>1, <1>5 DEF Replies, CallsTypeOK
  <2>2. Contested(c)
    BY <1>3, <1>5 DEF Contested
  <2>3. Contested(c)'
    BY <2>2, TruthsKeep
  <2>4. QED
    BY <2>1, <2>3 DEF Promised
<1>6. QED
  BY <1>4, <1>5

\* Its replies about a run that the client names.
LEMMA NamedPromises ==
  ASSUME IInv, [Next]_vars, NEW c \in Callers, HandleGetRun(c) \/ HandleCancelRun(c)
  PROVE  Promised(c)'
<1>0. Mine(c, known[c]) /\ TypeOK /\ [HostNext]_hostVars
  BY HostSteps DEF HandleGetRun, HandleCancelRun, IInv, CallInv, Informed, CacheInv, HostInv
<1>1. PICK r \in Runs : r = known[c]
  BY <1>0 DEF Mine
<1>2. Mine(c, r)' /\ Unchanged_Client
  BY <1>0, <1>1, TruthsKeep DEF HandleGetRun, HandleCancelRun
<1>3. CASE \/ HandleGetRun(c)
           \/ AlreadyTerminal(r) /\ Replies(c, "200", r, status[r])
  <2>1. PICK s \in Status : s = status[r] /\ s # "cancelling"
    BY <1>0, <1>1 DEF TypeOK, Mine, Exists, Status, Terminal
  <2>2. Replies(c, "200", r, s) /\ status' = status
    BY <1>1, <1>3, <2>1 DEF HandleGetRun, AlreadyTerminal, hostVars
  <2>3. Holds(r, s)'
    BY <2>1, <2>2 DEF Holds
  <2>4. QED
    BY <1>1, <1>2, <2>2, <2>3, PromiseMade
<1>4. CASE CancelRun(r) /\ Replies(c, "200", r, "cancelling")
  <2>1. cancel'[r] = TRUE
    BY <1>0, <1>4 DEF CancelRun, TypeOK
  <2>2. Holds(r, "cancelling")'
    BY <2>1 DEF Holds, Terminal
  <2>3. "cancelling" \in Status
    BY DEF Status
  <2>4. QED
    BY <1>1, <1>2, <1>4, <2>2, <2>3, PromiseMade
<1>5. QED
  BY <1>1, <1>3, <1>4 DEF HandleCancelRun

\* A caller that takes a reply knows and was told what the reply promised.
LEMMA ReceiveInforms ==
  ASSUME IInv, [Next]_vars, NEW c \in Callers, Receive(c)
  PROVE  CallInv(c)'
<1>0. /\ Promised(c) /\ Informed(c) /\ CallsTypeOK /\ late' = late /\ asked' = asked
      /\ line'[c] = "free" /\ line[c] \in Code /\ CallsTypeOK'
  BY ReceiveIs, TypesStep DEF IInv, CallInv, Receive
<1>1. Promised(c)'
  BY <1>0 DEF Promised
<1>2. CASE /\ line[c] \in {"200", "201"}
           /\ known'[c] = reply[c].run /\ told'[c] = reply[c].says
  <2>1. PICK r \in Runs, says \in Status :
          /\ r = reply[c].run /\ says = reply[c].says
          /\ Mine(c, r) /\ Holds(r, says) /\ Exists(r) /\ r # NoRun
    BY <1>0, <1>2, NoRunAssumption DEF Promised, Mine, CallsTypeOK, Reply
  <2>2. Mine(c, r)' /\ Holds(r, says)' /\ known'[c] = r /\ told'[c] = says
    BY <1>2, <2>1, TruthsKeep
  <2>3. Mine(c, known[c])' /\ Holds(known[c], told[c])'
    BY <2>2 DEF Mine, Holds, Exists
  <2>4. told'[c] # "refused"
    BY <2>2 DEF Status, Terminal
  <2>5. Informed(c)'
    BY <1>0, <2>1, <2>2, <2>3, <2>4 DEF Informed
  <2>6. QED
    BY <1>1, <2>5 DEF CallInv
<1>3. CASE line[c] = "409" /\ known'[c] = known[c] /\ told'[c] = "refused" /\ stage'[c] = "over"
  <2>1. Contested(c)' /\ "refused" \notin Status
    BY <1>0, <1>3, TruthsKeep DEF Promised, Status, Terminal
  <2>2. (known[c] # NoRun => Mine(c, known[c]))'
    <3>1. known[c] # NoRun => Mine(c, known[c]) /\ known[c] \in Runs
      BY <1>0 DEF Informed, Mine
    <3>2. \A r \in Runs : r = known[c] /\ r # NoRun => Mine(c, r)'
      BY <3>1, TruthsKeep
    <3>3. QED
      BY <1>3, <3>1, <3>2 DEF Mine, Exists
  <2>4. Informed(c)'
    BY <1>0, <1>3, <2>1, <2>2 DEF Informed
  <2>5. QED
    BY <1>1, <2>4 DEF CallInv
<1>4. CASE known'[c] = known[c] /\ told'[c] \in {"blank", told[c]}
  BY <1>0, <1>1, <1>4, InformedStays DEF CallInv
<1>5. CASE known'[c] = NoRun /\ told'[c] = "blank"
  BY <1>0, <1>1, <1>5 DEF CallInv, Informed, Status, Terminal
<1>6. QED
  BY <1>2, <1>3, <1>4, <1>5, ReceiveIs

\* A step in which a caller has no part.
LEMMA CallStays ==
  ASSUME IInv, [Next]_vars, NEW c \in Callers,
         stage'[c] = stage[c], known'[c] = known[c], told'[c] = told[c],
         line'[c] = line[c], reply'[c] = reply[c]
  PROVE  CallInv(c)'
<1>1. Promised(c)'
  BY PromisedStays
<1>2. line'[c] # "free" => stage'[c] # "over"
  BY DEF IInv, CallInv, Informed
<1>3. Informed(c)'
  BY <1>2, InformedStays
<1>4. QED
  BY <1>1, <1>3 DEF CallInv

LEMMA CallInvStep ==
  ASSUME IInv, [Next]_vars, NEW c \in Callers
  PROVE  CallInv(c)'
<1>0. CallsTypeOK /\ Informed(c)
  BY DEF IInv, CallInv
<1>1. CASE \/ HandleCreate(c) \/ Replayed(c) \/ HandleGetRun(c) \/ HandleCancelRun(c)
           \/ NotFound(c)
  <2>1. Promised(c)'
    <3>1. NotFound(c) => line'[c] = "404"
      BY <1>0 DEF NotFound, Replies, CallsTypeOK
    <3>2. NotFound(c) => Promised(c)'
      BY <3>1 DEF Promised
    <3>3. QED
      BY <1>1, <3>2, CreatePromises, ReplayPromises, NamedPromises
  <2>2. stage' = stage /\ known' = known /\ told' = told /\ line[c] = "sent"
    BY <1>1 DEF HandleCreate, Replayed, HandleGetRun, HandleCancelRun, NotFound, Unchanged_Client
  <2>3. Informed(c)'
    BY <1>0, <2>2, InformedStays DEF Informed
  <2>4. QED
    BY <2>1, <2>3 DEF CallInv
<1>2. CASE Send(c) \/ GiveUp(c)
  <2>1. /\ known' = known /\ told' = told /\ stage'[c] \in {stage[c], "over"}
        /\ stage[c] # "over" /\ line'[c] \in {"free", "sent"}
        /\ line'[c] # "free" => stage'[c] # "over"
    BY <1>0, <1>2 DEF Send, GiveUp, CallsTypeOK
  <2>2. Informed(c)'
    BY <2>1, InformedStays
  <2>3. Promised(c)'
    BY <2>1 DEF Promised
  <2>4. QED
    BY <2>2, <2>3 DEF CallInv
<1>3. CASE Abandon(c)
  <2>1. stage'[c] = stage[c] /\ known' = known /\ told' = told /\ line'[c] = "free"
    BY <1>0, <1>3, ContinueIs DEF Abandon, TakeError, CallsTypeOK
  <2>3. Informed(c)'
    BY <2>1, InformedStays
  <2>4. Promised(c)'
    BY <2>1 DEF Promised
  <2>5. QED
    BY <2>3, <2>4 DEF CallInv
<1>4. CASE Receive(c)
  BY <1>4, ReceiveInforms
<1>5. CASE \/ HostStep \/ UNCHANGED vars
           \/ \E d \in Callers, st \in {"create", "cancel"} : ArriveLate(d, st)
  BY <1>5, CallStays DEF HostStep, callVars, vars, ArriveLate, Unchanged_Client
<1>6. ASSUME NEW d \in Callers, d # c, Send(d) \/ GiveUp(d) \/ Answered(d)
      PROVE  CallInv(c)'
  <2>1. CASE Receive(d)
    BY <2>1, <1>6, ReceiveIs, CallStays DEF Receive
  <2>2. CASE Abandon(d)
    <3>1. stage'[c] = stage[c] /\ known' = known /\ told' = told
      BY <1>0, <1>6, <2>2, ContinueIs DEF Abandon, TakeError, CallsTypeOK
    <3>3. line'[c] = line[c] /\ reply'[c] = reply[c]
      BY <1>0, <1>6, <2>2 DEF Abandon, CallsTypeOK
    <3>4. QED
      BY <3>1, <3>3, CallStays
  <2>3. CASE Send(d) \/ GiveUp(d)
    <3>1. /\ stage'[c] = stage[c] /\ known' = known /\ told' = told
          /\ line'[c] = line[c] /\ reply'[c] = reply[c]
      BY <1>0, <1>6, <2>3 DEF Send, GiveUp, CallsTypeOK
    <3>2. QED
      BY <3>1, CallStays
  <2>4. CASE \/ HandleCreate(d) \/ Replayed(d) \/ HandleGetRun(d) \/ HandleCancelRun(d)
             \/ NotFound(d)
    <3>1. /\ stage' = stage /\ known' = known /\ told' = told
          /\ line'[c] = line[c] /\ reply'[c] = reply[c]
      BY <1>0, <1>6, <2>4
         DEF HandleCreate, Replayed, HandleGetRun, HandleCancelRun, NotFound,
             Unchanged_Client, Replies, CallsTypeOK
    <3>2. QED
      BY <3>1, CallStays
  <2>5. QED
    BY <1>6, <2>1, <2>2, <2>3, <2>4 DEF Answered, Handle
<1>7. QED
  BY <1>1, <1>2, <1>3, <1>4, <1>5, <1>6 DEF Next, Answered, Handle

-----------------------------------------------------------------------------
(* The theorems. *)

LEMMA IInvInit ==
  ASSUME Init
  PROVE  IInv
<1>1. CallsTypeOK /\ CacheInv
  BY TypesInit, CacheInvInit DEF Init
<1>2. \A c \in Callers : CallInv(c)
  BY DEF Init, CallInv, Informed, Promised, Status, Terminal
<1>3. QED
  BY <1>1, <1>2 DEF IInv

LEMMA IInvStep ==
  ASSUME IInv, [Next]_vars
  PROVE  IInv'
BY TypesStep, HostSteps, CacheInvStep, CallInvStep DEF IInv

LEMMA Invariance == Spec => []IInv
BY IInvInit, IInvStep, PTL DEF Spec

\* Everything that the callers and the host keep is of its type; codes, replies
\* and statuses are ones that the host sends.
THEOREM TypeCorrect == Spec => []CallsTypeOK
<1>1. IInv => CallsTypeOK
  BY DEF IInv
<1>2. QED
  BY <1>1, Invariance, PTL

\* However often a create is repeated, lost or late, the idempotency cache of the
\* host lets two runs have one key only when the 24 hours are over.
THEOREM OneRunInEachWindow == Spec => []OneRunPerWindow
<1>1. IInv => OneRunPerWindow
  BY DEF IInv, CacheInv
<1>2. QED
  BY <1>1, Invariance, PTL

\* Through every piece of request code, the run that a program is told of is its
\* own, and a refusal (409) means that the key is taken for another body; a program
\* whose reply had lost its body is told of no run's status.
THEOREM AnswersAreTheCallers == Spec => []AnswersAreRight
<1>1. IInv => AnswersAreRight
  BY DEF IInv, CallInv, Informed, CallsTypeOK, Mine, Contested, Exists, AnswersAreRight
<1>2. QED
  BY <1>1, Invariance, PTL

\* What a client was told of the end of its run, or of its cancellation, comes
\* true in the host's runWorkflow and is never taken back.
THEOREM WhatWasSaidHolds == Spec => []SaidIsTrue
<1>1. ASSUME IInv
      PROVE  SaidIsTrue
  <2>1. ASSUME NEW c \in Callers, told[c] \in Status
        PROVE  known[c] \in Runs /\ Holds(known[c], told[c])
    BY <1>1, <2>1 DEF IInv, CallInv, Informed, Mine
  <2>2. HostInv /\ "cancelling" \in Status /\ Terminal \subseteq Status
    BY <1>1 DEF IInv, CacheInv, Status
  <2>3. QED
    BY <2>1, <2>2, CancelledAtLoop DEF SaidIsTrue, Holds
<1>2. QED
  BY <1>1, Invariance, PTL

\* A repeated create is answered with another run only when the cache has
\* forgotten the first one.
THEOREM RetriesTellTheSameRun == Spec => RetriesAgree
<1>1. ASSUME IInv, [Next]_vars, NEW c \in Callers,
             known[c] # NoRun, known'[c] \notin {known[c], NoRun}
      PROVE  origin[known'[c]].at > origin[known[c]].at + CacheTtl
  <2>1. Receive(c)
    <3>1. \A d \in Callers : Receive(d) => d = c \/ known'[c] = known[c]
      BY <1>1, ReceiveIs
    <3>2. QED
      BY <1>1, <3>1
         DEF Next, HostStep, Answered, Handle, HandleCreate, Replayed, HandleGetRun,
             HandleCancelRun, NotFound, ArriveLate, Unchanged_Client, Send, GiveUp, Abandon,
             TakeError, vars, callVars
  <2>2. line[c] \in {"200", "201"} /\ known'[c] = reply[c].run
    BY <1>1, <2>1, ReceiveIs
  <2>3. /\ Promised(c) /\ TypeOK /\ CacheTtl \in Nat
        /\ known[c] \in Runs /\ reply[c].run \in Runs
    BY <1>1, <2>2, CacheTtlAssumption
       DEF IInv, CallInv, Informed, Promised, Mine, CacheInv, HostInv
  <2>4. origin[known[c]].at + CacheTtl < origin[reply[c].run].at
    BY <1>1, <2>2, <2>3 DEF Promised
  <2>5. origin[known[c]].at \in Nat /\ origin[reply[c].run].at \in Nat
    BY <2>3 DEF TypeOK
  <2>6. QED
    BY <2>2, <2>3, <2>4, <2>5
<1>2. IInv /\ [Next]_vars =>
        [\A c \in Callers : known[c] # NoRun /\ known'[c] \notin {known[c], NoRun} =>
           origin[known'[c]].at > origin[known[c]].at + CacheTtl]_vars
  <2>1. SUFFICES ASSUME IInv, [Next]_vars, NEW c \in Callers,
                        known[c] # NoRun, known'[c] \notin {known[c], NoRun}
                 PROVE  origin[known'[c]].at > origin[known[c]].at + CacheTtl
    OBVIOUS
  <2>2. QED
    BY <1>1, <2>1
<1>3. QED
  BY <1>2, Invariance, PTL DEF Spec, RetriesAgree

=============================================================================
