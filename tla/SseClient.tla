------------------------------ MODULE SseClient ------------------------------
(***************************************************************************)
(* The five readers of GET /v1/runs/{runId}/events in this repository: the *)
(* SDKs ("ts", "py", "go"), the conformance suite ("conf") and             *)
(* examples/streaming-client ("example").  One connection is read by one   *)
(* of them, from the first byte to the end of its loop.                    *)
(*                                                                         *)
(* A server writes frames and ends the response or loses the connection.   *)
(* Each line is three pieces on the wire: a first part of its text, the    *)
(* rest of it, and its newline; a read returns any number of pieces.  Data *)
(* is the documents it decodes to, and its part of that JSON text.         *)
(***************************************************************************)
EXTENDS Naturals, SequencesExt

CONSTANTS
  Parsers,    \* the readers, of "ts", "py", "go", "conf", "example"
  MaxFrames,  \* how many frames the response has
  Kinds,      \* the kinds of frames, of the domain of Lines
  Bare,       \* documents without eventId and sequence, as the reference hosts send
  Big,        \* documents of more than 1 MB
  ChanCap     \* capacity of the channel of the Go SDK

ASSUME ReaderAssumption ==
  /\ Parsers \subseteq {"ts", "py", "go", "conf", "example"}
  /\ Kinds \subseteq {"event", "message", "split", "batch", "comment", "vendor"}
  /\ MaxFrames \in Nat
  /\ ChanCap \in Nat

VARIABLES
  conn,          \* who reads what, and where and how the response ends
  arrived,       \* number of pieces that were read
  parsed,        \* number of lines that were consumed
  pendingEvent, pendingData,
  outbox,        \* items decoded but not handed over: the rest of a batch
  chan,          \* items in the Go channel
  got,           \* items that the consumer has
  phase,         \* "open", "closing", "ended", "left" by its consumer, "failed"
  stopped        \* "no", "abort", or in Go "cancel" and "cleanup"

vars == <<conn, arrived, parsed, pendingEvent, pendingData, outbox, chan, got, phase, stopped>>

-----------------------------------------------------------------------------
(* The wire. *)

\* The documents of the i-th frame.
Docs(kind, i) == CASE kind = "event"   -> <<4 * i>>
                   [] kind = "message" -> <<4 * i + 1>>
                   [] kind = "split"   -> <<4 * i + 2>>
                   [] kind = "batch"   -> <<4 * i, 4 * i + 3>>
                   [] OTHER -> <<>>

Text(field, value) == [field |-> field, value |-> value]
Data(kind, i, part) ==
  Text("data", [docs |-> Docs(kind, i), array |-> kind = "batch", part |-> part])
Blank == Text("blank", "none")

\* The lines of a frame: an event with or without a name, one of several data
\* lines, a batch, a keep-alive comment, and data that is not JSON.
Lines(kind, i) ==
  CASE kind = "event"   -> <<Text("event", "type"), Data(kind, i, "whole"), Blank>>
    [] kind = "message" -> <<Data(kind, i, "whole"), Blank>>
    [] kind = "split"   -> <<Text("event", "type"), Data(kind, i, "first"), Data(kind, i, "last"), Blank>>
    [] kind = "batch"   -> <<Text("event", "batch"), Data(kind, i, "whole"), Blank>>
    [] kind = "comment" -> <<Text("comment", "none"), Blank>>
    [] kind = "vendor"  -> <<Data(kind, i, "text"), Blank>>

Frames(kinds) == [i \in DOMAIN kinds |-> Lines(kinds[i], i)]
Wire(kinds) == FlattenSeq(Frames(kinds))
Size(kinds) == 3 * Len(Wire(kinds))

wire == Wire(conn.kinds)

\* An orderly end leaves out at most the last blank line and the newline before
\* it ("some servers drop the trailing \n\n on close"); a lost connection, anything.
\* Whether lines end in CRLF matters to the example only: the others trim it.
Conns ==
  {c \in [parser : Parsers, crlf : BOOLEAN, kinds : [1..MaxFrames -> Kinds],
          last : 0 .. MaxFrames * 12, how : {"close", "cut"}] :
     LET n == Size(c.kinds) IN
       /\ c.last <= n
       /\ c.how = "close" => c.last \in {n, n - 3, n - 4}
       /\ c.crlf => c.parser = "example"}

-----------------------------------------------------------------------------
(* Decoding. *)

\* What the joined data lines of an event are: a JSON text, another text, or
\* the beginning of one.
IsJson(data) ==
  \/ Len(data) = 1 /\ data[1].part = "whole"
  \/ Len(data) = 2 /\ data[1].part = "first" /\ data[2].part = "last"
IsWhole(data) == IsJson(data) \/ data[1].part = "text"

Item(docs, whole) == [docs |-> docs, whole |-> whole]
Each(docs) == [i \in DOMAIN docs |-> Item(<<docs[i]>>, TRUE)]

\* _decode_event_doc and sendOne drop what lacks the fields of a RunEventDoc.
Decoded(docs) ==
  IF conn.parser \in {"py", "go"}
    THEN FlattenSeq([i \in DOMAIN docs |-> IF docs[i] \in Bare THEN <<>> ELSE <<docs[i]>>])
    ELSE docs

\* What a flush hands over.
Flushed(event, data) ==
  IF data = <<>> THEN <<>>
  ELSE IF conn.parser \in {"conf", "example"} THEN <<Item(data[1].docs, IsWhole(data))>>
  ELSE IF ~IsJson(data) \/ data[1].docs = <<>> THEN <<>>
  ELSE IF data[1].array /\ event # "batch"
       THEN IF conn.parser = "ts" THEN <<Item(data[1].docs, TRUE)>> ELSE <<>>
  ELSE Each(Decoded(data[1].docs))

\* The line that the end of the response leaves without its newline, if any of
\* its text has arrived; the Python and Go readers take it for a line.
Rest ==
  IF conn.parser \notin {"py", "go"} \/ parsed = Len(wire) \/ arrived = 3 * parsed
     \/ wire[parsed + 1].field # "data"
    THEN <<>>
  ELSE LET f == wire[parsed + 1].value IN
    <<IF arrived = 3 * parsed + 1 THEN [f EXCEPT !.part = "cut"] ELSE f>>

-----------------------------------------------------------------------------

Init ==
  /\ conn \in Conns
  /\ arrived = 0
  /\ parsed = 0
  /\ pendingEvent = "message"
  /\ pendingData = <<>>
  /\ outbox = <<>>
  /\ chan = <<>>
  /\ got = <<>>
  /\ phase = "open"
  /\ stopped = "no"

LineComplete == 3 * (parsed + 1) <= arrived
Idle == phase = "open" /\ outbox = <<>> /\ ~LineComplete
TooLong == conn.parser = "go" /\ parsed < Len(wire) /\ arrived > 3 * parsed
             /\ wire[parsed + 1].field = "data"
             /\ \E d \in Range(wire[parsed + 1].value.docs) : d \in Big

\* The next read.
Receive ==
  /\ Idle
  /\ ~TooLong
  /\ stopped = "no"
  /\ \E n \in arrived + 1 .. conn.last : arrived' = n
  /\ UNCHANGED <<conn, parsed, pendingEvent, pendingData, outbox, chan, got, phase, stopped>>

\* Seeded bug: the data lines survive the flush.
Reset_KeepData == pendingEvent' = "message" /\ UNCHANGED pendingData

Reset == pendingEvent' = "message" /\ pendingData' = <<>>

\* The example looks for "\n\n", which CRLF never has.
EndsFrame(line) == line.field = "blank" /\ ~(conn.parser = "example" /\ conn.crlf)

\* One line of the loop.
ParseLine ==
  /\ phase = "open" /\ outbox = <<>> /\ LineComplete /\ ~TooLong
  /\ parsed' = parsed + 1
  /\ LET line == wire[parsed + 1] IN
       \/ /\ line.field = "event"
          /\ pendingEvent' = line.value
          /\ UNCHANGED <<pendingData, outbox>>
       \/ /\ line.field = "data"
          /\ pendingData' = Append(pendingData, line.value)
          /\ UNCHANGED <<pendingEvent, outbox>>
       \/ /\ EndsFrame(line)
          /\ outbox' = Flushed(pendingEvent, pendingData)
          /\ Reset
       \/ /\ line.field \in {"comment", "blank"} /\ ~EndsFrame(line)
          /\ UNCHANGED <<pendingEvent, pendingData, outbox>>
  /\ UNCHANGED <<conn, arrived, chan, got, phase, stopped>>

\* The flush after the loop, of the lines data; the example has none.
FinalFlush(data) ==
  /\ outbox' = IF conn.parser = "example" THEN <<>> ELSE Flushed(pendingEvent, data)
  /\ Reset
  /\ phase' = "closing"
  /\ UNCHANGED <<conn, arrived, parsed, chan, got>>

\* The error of a read reaches the consumer; subscribe returns no events then.
Fail ==
  /\ phase' = "failed"
  /\ got' = IF conn.parser = "conf" THEN <<>> ELSE got
  /\ UNCHANGED <<conn, arrived, parsed, pendingEvent, pendingData, outbox, chan>>

\* Seeded bug: what no blank line ended is dropped.
ServerCloses_NoFlush ==
  /\ Idle /\ ~TooLong /\ stopped = "no"
  /\ arrived = conn.last /\ conn.how = "close"
  /\ phase' = "closing"
  /\ UNCHANGED <<conn, arrived, parsed, pendingEvent, pendingData, outbox, chan, got, stopped>>

\* The response ends as it should.
ServerCloses ==
  /\ Idle /\ ~TooLong /\ stopped = "no"
  /\ arrived = conn.last /\ conn.how = "close"
  /\ FinalFlush(pendingData \o Rest)
  /\ UNCHANGED stopped

\* Seeded bug: every error of a read ends the loop, as scanner.Scan does.
ConnectionLost_Quiet ==
  /\ Idle /\ ~TooLong /\ stopped = "no"
  /\ arrived = conn.last /\ conn.how = "cut"
  /\ FinalFlush(pendingData \o Rest)
  /\ UNCHANGED stopped

\* The connection breaks.  The Go reader does not look at scanner.Err(); and a
\* Python one that reads an HTTPResponse by lines takes a connection closed at the
\* boundary of two chunks for the end, but raises when it is cut anywhere else.
ConnectionLost ==
  /\ Idle /\ ~TooLong /\ stopped = "no"
  /\ arrived = conn.last /\ conn.how = "cut"
  /\ \/ conn.parser \in {"go", "py"} /\ FinalFlush(pendingData \o Rest)
     \/ conn.parser # "go" /\ Fail
  /\ UNCHANGED stopped

\* bufio.Scanner gives up on a line that its buffer cannot hold.
LineTooLong ==
  /\ phase = "open" /\ outbox = <<>>
  /\ TooLong
  /\ FinalFlush(pendingData)
  /\ UNCHANGED stopped

\* The timeout, or the caller's signal, aborts a read.
Abort ==
  /\ Idle
  /\ conn.parser \in {"conf", "ts", "py"}
  /\ stopped' = "abort"
  /\ IF conn.parser = "conf" THEN FinalFlush(pendingData) ELSE Fail

\* In Go the consumer cancels ctx or calls cleanup, at any time.
Stop(how) ==
  /\ conn.parser = "go" /\ phase \in {"open", "closing"}
  /\ stopped # "cancel" /\ stopped # how
  /\ stopped' = how
  /\ UNCHANGED <<conn, arrived, parsed, pendingEvent, pendingData, outbox, chan, got, phase>>

\* The body is closed then, and the next read fails.
ReadClosedBody ==
  /\ Idle /\ ~TooLong /\ stopped \in {"cancel", "cleanup"}
  /\ FinalFlush(pendingData \o Rest)
  /\ UNCHANGED stopped

\* yield, push, or onEvent.
HandOver ==
  /\ conn.parser # "go" /\ outbox # <<>> /\ phase \in {"open", "closing"}
  /\ got' = Append(got, Head(outbox))
  /\ outbox' = Tail(outbox)
  /\ UNCHANGED <<conn, arrived, parsed, pendingEvent, pendingData, chan, phase, stopped>>

\* The consumer leaves its loop.
Leave ==
  /\ conn.parser \in {"ts", "py", "example"} /\ got # <<>> /\ phase \in {"open", "closing"}
  /\ phase' = "left"
  /\ outbox' = <<>>
  /\ UNCHANGED <<conn, arrived, parsed, pendingEvent, pendingData, chan, got, stopped>>

\* Seeded bug: a send that does not wait for room.
Send_Unbounded ==
  /\ conn.parser = "go" /\ outbox # <<>>
  /\ chan' = Append(chan, Head(outbox))
  /\ outbox' = Tail(outbox)
  /\ UNCHANGED <<conn, arrived, parsed, pendingEvent, pendingData, got, phase, stopped>>

\* The two cases of the select in sendOne.
Send ==
  /\ conn.parser = "go" /\ outbox # <<>> /\ Len(chan) < ChanCap
  /\ chan' = Append(chan, Head(outbox))
  /\ outbox' = Tail(outbox)
  /\ UNCHANGED <<conn, arrived, parsed, pendingEvent, pendingData, got, phase, stopped>>

\* Seeded bug: a send that only waits for room.
Skip_Never == FALSE /\ UNCHANGED vars

Skip ==
  /\ conn.parser = "go" /\ outbox # <<>> /\ stopped = "cancel"
  /\ outbox' = Tail(outbox)
  /\ UNCHANGED <<conn, arrived, parsed, pendingEvent, pendingData, chan, got, phase, stopped>>

\* The consumer receives from the channel.
Take ==
  /\ chan # <<>>
  /\ got' = Append(got, Head(chan))
  /\ chan' = Tail(chan)
  /\ UNCHANGED <<conn, arrived, parsed, pendingEvent, pendingData, outbox, phase, stopped>>

\* The loop returns: the Go reader closes its channel.
Finish ==
  /\ phase = "closing" /\ outbox = <<>>
  /\ phase' = "ended"
  /\ UNCHANGED <<conn, arrived, parsed, pendingEvent, pendingData, outbox, chan, got, stopped>>

Reader == ParseLine \/ ServerCloses \/ ConnectionLost \/ LineTooLong \/ ReadClosedBody
            \/ HandOver \/ Send \/ Skip \/ Finish

Next == Receive \/ Reader \/ Abort \/ Stop("cancel") \/ Stop("cleanup") \/ Leave \/ Take

\* The reader's loop runs, the response has an end, and a consumer that has not
\* stopped its stream takes what it is offered.
Spec == Init /\ [][Next]_vars /\ WF_vars(Receive) /\ WF_vars(Reader)
             /\ WF_vars(Take /\ stopped = "no")

-----------------------------------------------------------------------------

TypeOK ==
  /\ conn \in Conns
  /\ arrived \in 0 .. conn.last
  /\ parsed \in 0 .. Len(wire) /\ 3 * parsed <= arrived
  /\ Len(chan) <= ChanCap /\ (conn.parser # "go" => chan = <<>>)
  /\ phase \in {"open", "closing", "ended", "left", "failed"}
  /\ stopped \in {"no", "abort", "cancel", "cleanup"}

\* The documents of some items, and those that the reader is to hand over.
DocsOf(items) == FlattenSeq([i \in DOMAIN items |-> IF items[i].whole THEN items[i].docs ELSE <<>>])
Expected == FlattenSeq([i \in DOMAIN conn.kinds |-> Decoded(Docs(conn.kinds[i], i))])
Handed == got \o chan

\* The events reach the consumer in the order of the wire, each once, whatever
\* the reads return and batches hold.  A cancelled send in Go may leave a gap.
\* Only the conformance reader shows the beginning of an event, as its last one.
InOrder ==
  /\ stopped # "cancel" => IsPrefix(DocsOf(Handed \o outbox), Expected)
  /\ \A i \in DOMAIN Handed :
       Handed[i].whole \/ (conn.parser = "conf" /\ i = Len(Handed))

\* The response was sent up to the newline of its last data line.
LastLineEnded == conn.last >= Size(conn.kinds) - 3

\* A stream that its server closed is complete, a missing blank line at its end
\* included, unless the reader is the example; and in Go no event is too long.
NothingMissing ==
  phase = "ended" /\ conn.how = "close" /\ stopped = "no"
    /\ (conn.parser \in {"ts", "conf"} => LastLineEnded)
    /\ (conn.parser = "example" => conn.last = Size(conn.kinds) /\ ~conn.crlf)
    /\ (conn.parser = "go" =>
          \A i \in DOMAIN conn.kinds : \A d \in Range(Docs(conn.kinds[i], i)) : d \notin Big)
      => DocsOf(Handed) = Expected

\* A consumer that sees its stream end has not lost its connection, except in Go
\* and in Python, whose consumers cannot tell the two apart.
CutIsTold ==
  phase = "ended" /\ stopped = "no" /\ conn.parser \notin {"go", "py"} => conn.how = "close"

\* Every stream ends, whether its consumer keeps reading or cancels.  A Go
\* consumer that only calls cleanup can leave the goroutine in its send.
StreamEnds == <>(phase \notin {"open", "closing"} \/ stopped = "cleanup")

=============================================================================
