------------------------- MODULE EventStreamProofs -------------------------
(***************************************************************************)
(* Lemmas about the operators and the steps of EventStream: what a backlog *)
(* is, and what each step does to the numbering of the events that a       *)
(* client has received and of those on their way to it.                    *)
(***************************************************************************)
EXTENDS EventStream, FiniteSetTheorems, SequenceTheorems, TLAPS

\* The seqs in s are from, from + 1 and so on.
Numbered(s, from) == \A i \in 1 .. Len(s) : s[i] = from + i - 1

\* The client, with what is on its way, has the events 0 .. Known(c) - 1.
InSequence(c) ==
  /\ got[c] \in Seq(Nat) /\ wire[c] \in Seq(Nat)
  /\ Numbered(got[c], 0) /\ Numbered(wire[c], Len(got[c]))

Known(c) == Len(got[c]) + Len(wire[c])

-----------------------------------------------------------------------------
(* Sequences of consecutive numbers. *)

LEMMA NumberedEmpty ==
  ASSUME NEW from \in Nat
  PROVE  <<>> \in Seq(Nat) /\ Len(<<>>) = 0 /\ Numbered(<<>>, from)
BY DEF Numbered

LEMMA NumberedAppend ==
  ASSUME NEW s \in Seq(Nat), NEW from \in Nat, Numbered(s, from),
         NEW next \in Nat, next = from + Len(s)
  PROVE  /\ Append(s, next) \in Seq(Nat) /\ Len(Append(s, next)) = Len(s) + 1
         /\ Numbered(Append(s, next), from)
<1> DEFINE t == Append(s, next)
<1>1. Len(s) \in Nat
  BY LenProperties
<1>2. /\ t \in Seq(Nat) /\ Len(t) = Len(s) + 1
      /\ \A i \in 1 .. Len(s) : t[i] = s[i]
      /\ t[Len(s) + 1] = next
  BY AppendProperties
<1> HIDE DEF t
<1>3. ASSUME NEW i \in 1 .. Len(t)
      PROVE  t[i] = from + i - 1
  <2>1. CASE i \in 1 .. Len(s)
    BY <1>2, <2>1 DEF Numbered
  <2>2. CASE i = Len(s) + 1
    BY <1>1, <1>2, <2>2
  <2>3. QED
    BY <1>1, <1>2, <2>1, <2>2
<1>4. QED
  BY <1>2, <1>3 DEF Numbered, t

LEMMA NumberedTail ==
  ASSUME NEW s \in Seq(Nat), NEW from \in Nat, Numbered(s, from), s # <<>>
  PROVE  /\ Head(s) = from
         /\ Tail(s) \in Seq(Nat) /\ Len(Tail(s)) = Len(s) - 1
         /\ Numbered(Tail(s), from + 1)
<1> DEFINE t == Tail(s)
<1>1. Len(s) \in Nat /\ Len(s) > 0
  BY EmptySeq, LenProperties
<1>2. /\ Head(s) = s[1] /\ t \in Seq(Nat) /\ Len(t) = Len(s) - 1
      /\ \A i \in 1 .. Len(t) : t[i] = s[i + 1]
  BY HeadTailProperties
<1> HIDE DEF t
<1>3. Head(s) = from
  <2>1. 1 \in 1 .. Len(s)
    BY <1>1
  <2>2. QED
    BY <1>2, <2>1 DEF Numbered
<1>4. ASSUME NEW i \in 1 .. Len(t)
      PROVE  t[i] = from + 1 + i - 1
  <2>1. i + 1 \in 1 .. Len(s)
    BY <1>1, <1>2
  <2>2. s[i + 1] = from + (i + 1) - 1
    BY <2>1 DEF Numbered
  <2>3. QED
    BY <1>2, <2>2
<1>5. Numbered(t, from + 1)
  BY <1>4 DEF Numbered
<1>6. QED
  BY <1>2, <1>3, <1>5 DEF t

LEMMA NumberedConcat ==
  ASSUME NEW s \in Seq(Nat), NEW t \in Seq(Nat), NEW from \in Nat,
         Numbered(s, from), Numbered(t, from + Len(s))
  PROVE  /\ s \o t \in Seq(Nat) /\ Len(s \o t) = Len(s) + Len(t)
         /\ Numbered(s \o t, from)
<1> DEFINE u == s \o t
<1>1. Len(s) \in Nat /\ Len(t) \in Nat
  BY LenProperties
<1>2. /\ u \in Seq(Nat) /\ Len(u) = Len(s) + Len(t)
      /\ \A i \in 1 .. Len(s) + Len(t) : u[i] = IF i <= Len(s) THEN s[i] ELSE t[i - Len(s)]
  OBVIOUS
<1> HIDE DEF u
<1>3. ASSUME NEW i \in 1 .. Len(s) + Len(t)
      PROVE  u[i] = from + i - 1
  <2>1. CASE i <= Len(s)
    <3>1. i \in 1 .. Len(s) /\ u[i] = s[i]
      BY <1>1, <1>2, <2>1
    <3>2. QED
      BY <3>1 DEF Numbered
  <2>2. CASE i > Len(s)
    <3>1. i - Len(s) \in 1 .. Len(t) /\ u[i] = t[i - Len(s)]
      BY <1>1, <1>2, <2>2
    <3>2. t[i - Len(s)] = from + Len(s) + (i - Len(s)) - 1
      BY <3>1 DEF Numbered
    <3>3. QED
      BY <1>1, <3>1, <3>2
  <2>3. QED
    BY <1>1, <2>1, <2>2
<1>4. Numbered(u, from)
  BY <1>2, <1>3 DEF Numbered
<1>5. QED
  BY <1>2, <1>4 DEF u

-----------------------------------------------------------------------------
(* The backlog. *)

\* ORDER BY numbers an interval from its first element.
LEMMA AscendingInterval ==
  ASSUME NEW a \in Nat, NEW n \in Nat
  PROVE  Ascending(a .. a + n - 1) = [i \in 1 .. n |-> a + i - 1]
<1> DEFINE S == a .. a + n - 1
<1>1. Cardinality(S) = n
  <2>1. /\ a \in Int /\ a + n - 1 \in Int /\ (a > a + n - 1 <=> n = 0)
        /\ (a + n - 1) - a + 1 = n
    OBVIOUS
  <2>2. QED
    BY <2>1, FS_Interval
<1>2. ASSUME NEW s \in S
      PROVE  Cardinality({t \in S : t < s}) = s - a
  <2>1. {t \in S : t < s} = a .. s - 1
    <3>1. s \in Int /\ a <= s /\ s <= a + n - 1
      BY <1>2
    <3>2. \A t \in Int : (t \in S /\ t < s) <=> t \in a .. s - 1
      BY <3>1
    <3>3. QED
      BY <3>2
  <2>2. /\ a \in Int /\ s - 1 \in Int /\ (a > s - 1 <=> s = a)
        /\ (s - 1) - a + 1 = s - a
    BY <1>2
  <2>3. Cardinality(a .. s - 1) = IF a > s - 1 THEN 0 ELSE (s - 1) - a + 1
    BY <2>2, FS_Interval, Zenon
  <2>4. Cardinality(a .. s - 1) = s - a
    BY <2>2, <2>3
  <2>5. QED
    BY <2>1, <2>4
<1>3. ASSUME NEW i \in 1 .. n
      PROVE  (CHOOSE s \in S : Cardinality({t \in S : t < s}) = i - 1) = a + i - 1
  <2>1. a + i - 1 \in S
    OBVIOUS
  <2>2. \A s \in S : Cardinality({t \in S : t < s}) = i - 1 <=> s = a + i - 1
    BY <1>2
  <2> HIDE DEF S
  <2>3. QED
    BY <2>1, <2>2
<1>4. QED
  BY <1>1, <1>3 DEF Ascending

\* A client whose events are in sequence resumes after the last of them.
LEMMA LastEventIdIs ==
  ASSUME NEW c \in Clients, got[c] \in Seq(Nat), Numbered(got[c], 0)
  PROVE  LastEventId(c) = Len(got[c]) - 1
<1>1. CASE got[c] = <<>>
  BY <1>1 DEF LastEventId
<1>2. CASE got[c] # <<>>
  <2>1. Len(got[c]) \in 1 .. Len(got[c])
    BY <1>2, EmptySeq, LenProperties
  <2>2. QED
    BY <1>2, <2>1 DEF LastEventId, Numbered
<1>3. QED
  BY <1>1, <1>2

\* The backlog of a log without gaps takes the client to the end of the log.
LEMMA BacklogIs ==
  ASSUME NEW c \in Clients, got[c] \in Seq(Nat), Numbered(got[c], 0),
         NEW n \in Nat, Len(got[c]) <= n
  PROVE  /\ Backlog(c, 0 .. n - 1) \in Seq(Nat)
         /\ Len(Backlog(c, 0 .. n - 1)) = n - Len(got[c])
         /\ Numbered(Backlog(c, 0 .. n - 1), Len(got[c]))
<1> DEFINE g == Len(got[c])
           m == n - g
<1>1. g \in Nat /\ m \in Nat /\ g + m = n
  BY LenProperties
<1>2. {s \in 0 .. n - 1 : s > LastEventId(c)} = g .. g + m - 1
  BY <1>1, LastEventIdIs
<1>3. Backlog(c, 0 .. n - 1) = [i \in 1 .. m |-> g + i - 1]
  BY <1>1, <1>2, AscendingInterval DEF Backlog
<1> HIDE DEF g, m
<1>4. /\ [i \in 1 .. m |-> g + i - 1] \in Seq(Nat) /\ Len([i \in 1 .. m |-> g + i - 1]) = m
      /\ \A i \in 1 .. m : [j \in 1 .. m |-> g + j - 1][i] = g + i - 1
  <2>1. \A i \in 1 .. m : g + i - 1 \in Nat
    BY <1>1
  <2>2. QED
    BY <1>1, <2>1
<1>5. QED
  BY <1>1, <1>3, <1>4 DEF Numbered, g, m

-----------------------------------------------------------------------------
(* Steps.  Each one leaves the events of the other clients alone. *)

Same(c) == link'[c] = link[c] /\ server'[c] = server[c] /\ wire'[c] = wire[c] /\ got'[c] = got[c]

\* What a client has received is part of what it will have.
LEMMA KnownIs ==
  ASSUME NEW c \in Clients, InSequence(c)
  PROVE  Known(c) \in Nat /\ Len(got[c]) \in Nat /\ Len(got[c]) <= Known(c)
<1>1. Len(got[c]) \in Nat /\ Len(wire[c]) \in Nat
  BY LenProperties DEF InSequence
<1>2. \A a, b \in Nat : a + b \in Nat /\ a <= a + b
  OBVIOUS
<1>3. QED
  BY <1>1, <1>2, Zenon DEF Known

LEMMA WillBeInSequence ==
  ASSUME NEW c \in Clients, got'[c] \in Seq(Nat), wire'[c] \in Seq(Nat),
         Numbered(got'[c], 0), Numbered(wire'[c], Len(got'[c]))
  PROVE  InSequence(c)' /\ Known(c)' = Len(got'[c]) + Len(wire'[c])
BY DEF InSequence, Known

LEMMA SameInSequence ==
  ASSUME NEW c \in Clients, InSequence(c), wire'[c] = wire[c], got'[c] = got[c]
  PROVE  InSequence(c)' /\ Known(c)' = Known(c)
BY DEF InSequence, Known

\* The first statement of a handler sends nothing.
LEMMA ConnectIs ==
  ASSUME NEW processes, StreamTypeOK(processes), NEW c \in Clients, NEW p \in processes,
         NEW terminal \in BOOLEAN, Connect(c, p, terminal)
  PROVE  /\ StreamTypeOK(processes)'
         /\ link'[c] = IF terminal THEN "over" ELSE "open"
         /\ server'[c] = p /\ wire'[c] = wire[c] /\ got'[c] = got[c]
         /\ \A d \in Clients : d # c => Same(d)
BY DEF Connect, StreamTypeOK, Same, Link

\* The reply to a request that the log's n events are there for.
LEMMA SendBacklogIs ==
  ASSUME NEW processes, StreamTypeOK(processes), NEW c \in Clients, NEW p \in processes,
         NEW terminal \in BOOLEAN, NEW n \in Nat, InSequence(c), Len(got[c]) <= n,
         SendBacklog(c, p, 0 .. n - 1, terminal)
  PROVE  /\ StreamTypeOK(processes)'
         /\ IF terminal THEN link'[c] = "ended" ELSE link'[c] \in {"reply", "listening"}
         /\ server'[c] = p /\ got'[c] = got[c]
         /\ InSequence(c)' /\ Known(c)' = n
         /\ \A d \in Clients : d # c => Same(d)
<1>1. /\ wire' = [wire EXCEPT ![c] = Backlog(c, 0 .. n - 1)]
      /\ server' = [server EXCEPT ![c] = p] /\ got' = got
  BY DEF SendBacklog, ReplyToPoll, StartStream, Write
<1>2. PICK next \in IF terminal THEN {"ended"} ELSE {"reply", "listening"} :
        link' = [link EXCEPT ![c] = next]
  BY DEF SendBacklog, ReplyToPoll, StartStream, Write
<1>3. /\ Backlog(c, 0 .. n - 1) \in Seq(Nat)
      /\ Len(Backlog(c, 0 .. n - 1)) = n - Len(got[c])
      /\ Numbered(Backlog(c, 0 .. n - 1), Len(got[c]))
  BY BacklogIs DEF InSequence
<1>4. wire'[c] = Backlog(c, 0 .. n - 1) /\ got'[c] = got[c]
  BY <1>1 DEF StreamTypeOK
<1>5. Len(got[c]) \in Nat
  BY LenProperties DEF InSequence
<1>6. InSequence(c)' /\ Known(c)' = n
  <2>1. /\ got'[c] \in Seq(Nat) /\ wire'[c] \in Seq(Nat)
        /\ Numbered(got'[c], 0) /\ Numbered(wire'[c], Len(got'[c]))
        /\ Len(got'[c]) = Len(got[c]) /\ Len(wire'[c]) = n - Len(got[c])
    BY <1>3, <1>4 DEF InSequence
  <2>2. InSequence(c)' /\ Known(c)' = Len(got'[c]) + Len(wire'[c])
    BY <2>1, WillBeInSequence
  <2>3. QED
    BY <1>5, <2>1, <2>2
<1>7. StreamTypeOK(processes)' /\ server'[c] = p /\ \A d \in Clients : d # c => Same(d)
  BY <1>1, <1>2, <1>3 DEF StreamTypeOK, Same, Link
<1>8. link'[c] = next
  BY <1>2 DEF StreamTypeOK
<1>9. QED
  BY <1>2, <1>4, <1>6, <1>7, <1>8

\* An event of a run reaches the listeners of the process that appended it, each
\* of them in sequence if it had all the events before.
LEMMA EmitIs ==
  ASSUME NEW processes, StreamTypeOK(processes), NEW p \in processes, NEW r,
         NEW seq \in Nat, NEW type, Emit(p, r, seq, type)
  PROVE  /\ StreamTypeOK(processes)'
         /\ \A c \in Clients :
              /\ server'[c] = server[c] /\ got'[c] = got[c]
              /\ c \notin Listeners(p, r) => Same(c)
              /\ c \in Listeners(p, r) =>
                   /\ link'[c] = IF type \in TerminalEvent THEN "ended" ELSE "listening"
                   /\ InSequence(c) /\ Known(c) = seq => InSequence(c)' /\ Known(c)' = seq + 1
<1>1. /\ wire' = [c \in Clients |-> IF c \in Listeners(p, r) THEN Append(wire[c], seq) ELSE wire[c]]
      /\ link' = [c \in Clients |-> IF c \in Listeners(p, r) /\ type \in TerminalEvent
                                      THEN "ended" ELSE link[c]]
      /\ server' = server /\ got' = got
  BY DEF Emit
<1>2. \A c \in Clients : /\ wire[c] \in Seq(Nat) /\ got[c] \in Seq(Nat)
                         /\ Append(wire[c], seq) \in Seq(Nat)
                         /\ Len(Append(wire[c], seq)) = Len(wire[c]) + 1
                         /\ \A i \in 1 .. Len(wire[c]) : Append(wire[c], seq)[i] = wire[c][i]
                         /\ Append(wire[c], seq)[Len(wire[c]) + 1] = seq
  BY AppendProperties DEF StreamTypeOK
<1>3. StreamTypeOK(processes)'
  BY <1>1, <1>2 DEF StreamTypeOK, Link
<1>4. ASSUME NEW c \in Clients, c \in Listeners(p, r), InSequence(c), Known(c) = seq
      PROVE  InSequence(c)' /\ Known(c)' = seq + 1
  <2>1. wire'[c] = Append(wire[c], seq) /\ got'[c] = got[c]
    BY <1>1, <1>4
  <2>2. Len(wire[c]) \in Nat /\ Len(got[c]) \in Nat
    BY <1>2, LenProperties
  <2>3. Numbered(Append(wire[c], seq), Len(got[c]))
    BY <1>2, <1>4, <2>2, NumberedAppend DEF InSequence, Known
  <2>4. /\ got'[c] \in Seq(Nat) /\ wire'[c] \in Seq(Nat)
        /\ Numbered(got'[c], 0) /\ Numbered(wire'[c], Len(got'[c]))
        /\ Len(got'[c]) = Len(got[c]) /\ Len(wire'[c]) = Len(wire[c]) + 1
    BY <1>2, <1>4, <2>1, <2>3 DEF InSequence
  <2>5. InSequence(c)' /\ Known(c)' = Len(got'[c]) + Len(wire'[c])
    BY <2>4, WillBeInSequence
  <2>6. Known(c)' = seq + 1
    <3>1. /\ Len(got[c]) + Len(wire[c]) = seq
          /\ Len(got'[c]) = Len(got[c]) /\ Len(wire'[c]) = Len(wire[c]) + 1
      BY <1>4, <2>4 DEF Known
    <3>2. Len(got'[c]) \in Nat /\ Len(wire'[c]) \in Nat
      BY <2>4, LenProperties
    <3>3. \A a, b, y \in Nat : y = b + 1 => a + y = a + b + 1
      OBVIOUS
    <3>4. Len(got[c]) + Len(wire'[c]) = Len(got[c]) + Len(wire[c]) + 1
      BY <2>2, <3>1, <3>2, <3>3
    <3>5. Known(c)' = Len(got'[c]) + Len(wire'[c])
      BY DEF Known
    <3>6. QED
      BY <3>1, <3>4, <3>5
  <2>7. QED
    BY <2>5, <2>6
<1>5. \A c \in Clients : c \in Listeners(p, r) =>
        link'[c] = IF type \in TerminalEvent THEN "ended" ELSE "listening"
  BY <1>1 DEF Listeners
<1>6. \A c \in Clients : c \notin Listeners(p, r) => Same(c)
  BY <1>1 DEF Same
<1>7. \A c \in Clients : server'[c] = server[c] /\ got'[c] = got[c]
  BY <1>1
<1>8. QED
  BY <1>3, <1>4, <1>5, <1>6, <1>7

\* A connection that breaks leaves the client with what it received.
LEMMA BreakIs ==
  ASSUME NEW processes, StreamTypeOK(processes), NEW C \in SUBSET Clients, Break(C)
  PROVE  /\ StreamTypeOK(processes)'
         /\ \A c \in C :
              /\ link'[c] = "closed" /\ server'[c] = NoServer /\ got'[c] = got[c]
              /\ wire'[c] = <<>>
              /\ InSequence(c) => InSequence(c)'
         /\ \A c \in Clients \ C : Same(c)
<1>1. StreamTypeOK(processes)' /\ \A c \in Clients \ C : Same(c)
  BY DEF Break, StreamTypeOK, Link, Same
<1>2. ASSUME NEW c \in C
      PROVE  /\ link'[c] = "closed" /\ server'[c] = NoServer /\ got'[c] = got[c]
             /\ wire'[c] = <<>>
  BY DEF Break
<1>3. ASSUME NEW c \in C, InSequence(c)
      PROVE  InSequence(c)'
  BY <1>2, <1>3, NumberedEmpty, LenProperties DEF InSequence
<1>4. QED
  BY <1>1, <1>2, <1>3

\* Reading moves events from the wire to the client, in their order ...
LEMMA ReceiveIs ==
  ASSUME NEW processes, StreamTypeOK(processes), NEW c \in Clients, InSequence(c), Receive(c)
  PROVE  /\ StreamTypeOK(processes)'
         /\ link'[c] = link[c] /\ server'[c] = server[c]
         /\ InSequence(c)' /\ Known(c)' = Known(c) /\ Len(got'[c]) = Len(got[c]) + 1
         /\ \A d \in Clients : d # c => Same(d)
<1>1. /\ wire[c] \in Seq(Nat) /\ wire[c] # <<>> /\ got[c] \in Seq(Nat)
      /\ got' = [got EXCEPT ![c] = Append(got[c], Head(wire[c]))]
      /\ wire' = [wire EXCEPT ![c] = Tail(wire[c])]
      /\ link' = link /\ server' = server
  BY DEF Receive, StreamTypeOK
<1>2. got'[c] = Append(got[c], Head(wire[c])) /\ wire'[c] = Tail(wire[c])
  BY <1>1 DEF StreamTypeOK
<1>3. Len(wire[c]) \in Nat /\ Len(got[c]) \in Nat
  BY <1>1, LenProperties
<1>4. /\ Head(wire[c]) = Len(got[c])
      /\ Tail(wire[c]) \in Seq(Nat) /\ Len(Tail(wire[c])) = Len(wire[c]) - 1
      /\ Numbered(Tail(wire[c]), Len(got[c]) + 1)
  BY <1>1, <1>3, NumberedTail DEF InSequence
<1>5. /\ Append(got[c], Head(wire[c])) \in Seq(Nat)
      /\ Len(Append(got[c], Head(wire[c]))) = Len(got[c]) + 1
      /\ Numbered(Append(got[c], Head(wire[c])), 0)
  BY <1>1, <1>3, <1>4, NumberedAppend DEF InSequence
<1>6. InSequence(c)' /\ Known(c)' = Known(c) /\ Len(got'[c]) = Len(got[c]) + 1
  <2>1. Len(got'[c]) = Len(got[c]) + 1 /\ Len(wire'[c]) = Len(wire[c]) - 1
    BY <1>2, <1>4, <1>5
  <2>2. /\ got'[c] \in Seq(Nat) /\ wire'[c] \in Seq(Nat)
        /\ Numbered(got'[c], 0) /\ Numbered(wire'[c], Len(got'[c]))
    BY <1>2, <1>4, <1>5
  <2>3. InSequence(c)' /\ Known(c)' = Len(got'[c]) + Len(wire'[c])
    BY <2>2, WillBeInSequence
  <2>4. Known(c)' = Known(c)
    <3>1. Len(got'[c]) \in Nat /\ Len(wire'[c]) \in Nat
      BY <2>2, LenProperties
    <3>2. \A a, b, x, y \in Nat : x = a + 1 /\ y = b - 1 => x + y = a + b
      OBVIOUS
    <3>3. QED
      BY <1>3, <2>1, <3>1, <3>2, ZenonT(40) DEF Known
  <2>5. QED
    BY <2>1, <2>3, <2>4
<1>7. StreamTypeOK(processes)' /\ \A d \in Clients : d # c => Same(d)
  BY <1>1, <1>4, <1>5 DEF StreamTypeOK, Same
<1>8. QED
  BY <1>1, <1>6, <1>7

\* ... or all of them at once.
LEMMA ReceiveReplyIs ==
  ASSUME NEW processes, StreamTypeOK(processes), NEW c \in Clients, InSequence(c), ReceiveReply(c)
  PROVE  /\ StreamTypeOK(processes)'
         /\ link'[c] = IF link[c] = "ended" THEN "done" ELSE "closed"
         /\ InSequence(c)' /\ wire'[c] = <<>> /\ Known(c)' = Known(c)
         /\ Len(got'[c]) = Known(c)
         /\ \A d \in Clients : d # c => Same(d)
<1>1. /\ wire[c] \in Seq(Nat) /\ got[c] \in Seq(Nat)
      /\ got' = [got EXCEPT ![c] = got[c] \o wire[c]] /\ wire' = [wire EXCEPT ![c] = <<>>]
  BY DEF ReceiveReply, StreamTypeOK
<1>2. Len(wire[c]) \in Nat /\ Len(got[c]) \in Nat
  BY <1>1, LenProperties
<1>3. got'[c] = got[c] \o wire[c] /\ wire'[c] = <<>>
  BY <1>1 DEF StreamTypeOK
<1>4. /\ got[c] \o wire[c] \in Seq(Nat)
      /\ Len(got[c] \o wire[c]) = Len(got[c]) + Len(wire[c])
      /\ Numbered(got[c] \o wire[c], 0)
  BY <1>1, <1>2, NumberedConcat DEF InSequence
<1>5. Len(got'[c]) = Len(got[c]) + Len(wire[c]) /\ Len(wire'[c]) = 0
  BY <1>3, <1>4, NumberedEmpty
<1>6. InSequence(c)' /\ Known(c)' = Known(c) /\ Len(got'[c]) = Known(c)
  <2>1. Len(got'[c]) \in Nat
    BY <1>3, <1>4, LenProperties
  <2>2. /\ got'[c] \in Seq(Nat) /\ wire'[c] \in Seq(Nat)
        /\ Numbered(got'[c], 0) /\ Numbered(wire'[c], Len(got'[c]))
    BY <1>3, <1>4, <2>1, NumberedEmpty
  <2>3. InSequence(c)' /\ Known(c)' = Len(got'[c]) + Len(wire'[c])
    BY <2>2, WillBeInSequence
  <2>4. QED
    BY <1>2, <1>5, <2>3 DEF Known
<1>7. /\ StreamTypeOK(processes)'
      /\ link'[c] = IF link[c] = "ended" THEN "done" ELSE "closed"
      /\ \A d \in Clients : d # c => Same(d)
  BY <1>1, <1>4 DEF ReceiveReply, StreamTypeOK, Same, Link
<1>8. QED
  BY <1>3, <1>6, <1>7

\* The end of a stream comes after its events.
LEMMA SeeEndIs ==
  ASSUME NEW processes, StreamTypeOK(processes), NEW c \in Clients, SeeEnd(c)
  PROVE  /\ StreamTypeOK(processes)'
         /\ link[c] = "ended" /\ link'[c] = "done"
         /\ wire[c] = <<>> /\ wire'[c] = wire[c] /\ got'[c] = got[c]
         /\ Known(c) = Len(got[c])
         /\ \A d \in Clients : d # c => Same(d)
<1>1. Len(got[c]) \in Nat
  BY LenProperties DEF StreamTypeOK
<1>2. Known(c) = Len(got[c])
  BY <1>1 DEF SeeEnd, Known
<1>3. QED
  BY <1>2 DEF SeeEnd, StreamTypeOK, Same, Link

=============================================================================
