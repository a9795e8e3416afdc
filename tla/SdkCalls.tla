------------------------------ MODULE SdkCalls ------------------------------
(***************************************************************************)
(* Programs that create a run, cancel it and poll it until it ends, through *)
(* one of the five pieces of request code in the repository: the clients   *)
(* of the three SDKs, the driver of the conformance suite, and postRun of  *)
(* the idempotent-runs example (http of mcp-tool is the same).  Each makes *)
(* one attempt per call.  A program whose call raised may call again with  *)
(* the same Idempotency-Key, as spec/v1/idempotency.md asks of callers, or *)
(* give up; the example makes the same call several times in any case.     *)
(*                                                                         *)
(* The network loses a request or a reply, ends a reply inside its body,   *)
(* or brings a request to the host long after the client stopped waiting.  *)
(* The other end is the in-memory host.                                    *)
(***************************************************************************)
EXTENDS InMemoryHost

CONSTANTS Callers,
          Asks,      \* caller -> the bodies that it may post
          Wants,     \* caller -> the stages it goes through
          Key,       \* the Idempotency-Key of all of them
          NoRun,     \* no run id
          MaxTries   \* bound on the calls of one caller in one stage

ASSUME KeyAssumption == Key \in Keys
ASSUME NoRunAssumption == NoRun \notin Runs
ASSUME MaxTriesAssumption == MaxTries \in Nat \ {0}

VARIABLES asked,   \* caller -> the body it posts
          stage,   \* caller -> what it is about
          tries,   \* caller -> calls it has begun in this stage
          line,    \* caller -> "free", "sent", or the status code under way
          reply,   \* caller -> what the reply under way says
          late,    \* <<caller, stage>> of requests whose caller waits no more
          known,   \* caller -> the run it was told of, or NoRun
          told     \* caller -> the last status it was told

callVars == <<asked, stage, tries, line, reply, late, known, told>>
vars == <<hostVars, callVars>>

Client == {"typescript", "python", "go", "driver", "example"}
Stage == {"create", "cancel", "poll", "over"}

ASSUME AsksAssumption == Asks \in [Callers -> SUBSET Bodies]
ASSUME WantsAssumption == Wants \in [Callers -> SUBSET Stage]

Status == {"pending", "running", "cancelling"} \cup Terminal
Code == {"200", "201", "404", "409"}
Reply == [run : Runs \cup {NoRun}, says : Status]
NoReply == [run |-> NoRun, says |-> "pending"]

CallsTypeOK ==
  /\ TypeOK
  /\ asked \in [Callers -> Bodies]
  /\ stage \in [Callers -> Stage]
  /\ tries \in [Callers -> 0 .. MaxTries]
  /\ line \in [Callers -> {"free", "sent"} \cup Code]
  /\ reply \in [Callers -> Reply]
  /\ late \in SUBSET (Callers \X {"create", "cancel"})
  /\ known \in [Callers -> Runs \cup {NoRun}]
  /\ told \in [Callers -> {"nothing", "refused", "blank"} \cup Status]

Init ==
  /\ HostInit
  /\ asked \in {f \in [Callers -> Bodies] : \A c \in Callers : f[c] \in Asks[c]}
  /\ stage = [c \in Callers |-> "create"]
  /\ tries = [c \in Callers |-> 0]
  /\ line = [c \in Callers |-> "free"]
  /\ reply = [c \in Callers |-> NoReply]
  /\ late = {}
  /\ known = [c \in Callers |-> NoRun]
  /\ told = [c \in Callers |-> "nothing"]

-----------------------------------------------------------------------------
(* The client sends. *)

\* Seeded bug: a repeated call does not carry the key.
IdempotencyKey_FirstOnly(c) == IF tries[c] <= 1 THEN Key ELSE NoKey

\* The header of a create: the options of the call are the same in every call.
IdempotencyKey(c) == Key

\* A call, or one turn of a polling loop, which sleeps after each turn and so has
\* boundedly many of them before its deadline.
Send(c) ==
  /\ line[c] = "free"
  /\ stage[c] # "over"
  /\ tries[c] < MaxTries
  /\ line' = [line EXCEPT ![c] = "sent"]
  /\ tries' = [tries EXCEPT ![c] = @ + 1]
  /\ UNCHANGED <<hostVars, asked, stage, reply, late, known, told>>

\* The program stops calling: an exception it does not handle, or the deadline.
GiveUp(c) ==
  /\ line[c] = "free"
  /\ stage[c] # "over"
  /\ tries[c] > 0
  /\ stage' = [stage EXCEPT ![c] = "over"]
  /\ tries' = [tries EXCEPT ![c] = 0]
  /\ UNCHANGED <<hostVars, asked, line, reply, late, known, told>>

-----------------------------------------------------------------------------
(* The host's handlers, in the macrotask in which the request is complete. *)

Replies(c, code, run, says) ==
  /\ line' = [line EXCEPT ![c] = code]
  /\ reply' = [reply EXCEPT ![c] = [run |-> run, says |-> says]]

Unchanged_Client == UNCHANGED <<asked, stage, tries, known, told>>

\* handleCreateRun for a request that is not in the cache; the id is a new one.
FreshRun == CHOOSE r \in Runs : status[r] = "absent"
Created(c) ==
  /\ \E r \in Runs : status[r] = "absent"
  /\ CreateRun(FreshRun, IdempotencyKey(c), asked[c])

\* Seeded bug: a replay does not look at the body.
Replayed_AnyBody(c) ==
  /\ stage[c] = "create" /\ line[c] = "sent" /\ IdempotencyKey(c) \in Keys
  /\ Reuse(IdempotencyKey(c))
  /\ Replies(c, "201", Pruned[IdempotencyKey(c)].run, "pending")
  /\ late' = late /\ Unchanged_Client

\* handleCreateRun for one that is: the first reply, as it was, or 409.
Replayed(c) ==
  /\ stage[c] = "create" /\ line[c] = "sent" /\ IdempotencyKey(c) \in Keys
  /\ Reuse(IdempotencyKey(c))
  /\ LET entry == Pruned[IdempotencyKey(c)] IN
       IF entry.body = asked[c] THEN Replies(c, "201", entry.run, "pending")
                                ELSE Replies(c, "409", NoRun, "pending")
  /\ late' = late /\ Unchanged_Client

HandleCreate(c) ==
  /\ stage[c] = "create" /\ line[c] = "sent"
  /\ Created(c)
  /\ Replies(c, "201", FreshRun, "pending")
  /\ late' = late /\ Unchanged_Client

HandleGetRun(c) ==
  /\ stage[c] = "poll" /\ line[c] = "sent" /\ known[c] # NoRun
  /\ AtLoop
  /\ Replies(c, "200", known[c], status[known[c]])
  /\ UNCHANGED <<hostVars, late>> /\ Unchanged_Client

AlreadyTerminal(r) == AtLoop /\ status[r] \in Terminal /\ UNCHANGED hostVars

HandleCancelRun(c) ==
  /\ stage[c] = "cancel" /\ line[c] = "sent" /\ known[c] # NoRun
  /\ \/ CancelRun(known[c]) /\ Replies(c, "200", known[c], "cancelling")
     \/ AlreadyTerminal(known[c]) /\ Replies(c, "200", known[c], status[known[c]])
  /\ late' = late /\ Unchanged_Client

\* No route matches a path whose run id is empty.
NotFound(c) ==
  /\ stage[c] \in {"cancel", "poll"} /\ line[c] = "sent" /\ known[c] = NoRun
  /\ AtLoop
  /\ Replies(c, "404", NoRun, "pending")
  /\ UNCHANGED <<hostVars, late>> /\ Unchanged_Client

Handle(c) ==
  HandleCreate(c) \/ Replayed(c) \/ HandleGetRun(c) \/ HandleCancelRun(c) \/ NotFound(c)

\* The host handles a request whose client is gone, like any other.
ArriveLate(c, st) ==
  /\ <<c, st>> \in late
  /\ CASE st = "create" -> \/ Created(c)
                           \/ IdempotencyKey(c) \in Keys /\ Reuse(IdempotencyKey(c))
       [] st = "cancel" ->
            \/ known[c] # NoRun /\ (CancelRun(known[c]) \/ AlreadyTerminal(known[c]))
            \/ known[c] = NoRun /\ AtLoop /\ UNCHANGED hostVars
  /\ late' = late \ {<<c, st>>}
  /\ UNCHANGED <<line, reply>> /\ Unchanged_Client

-----------------------------------------------------------------------------
(* What the client's code makes of a reply that is complete ("whole"), ends *)
(* inside its body ("torn"), or that it never sees ("cut", a timeout among  *)
(* the causes): "raised", "refused" for an exception or value that tells    *)
(* the code 409, "blank" for a value without content, or "value".           *)

Whole(code) == CASE code \in {"200", "201"} -> "value"
                 [] code = "409"            -> "refused"
                 [] code = "404"            -> "raised"

\* #request: fetch and text() reject; then the code decides.
TypeScript(how, code) == IF how = "whole" THEN Whole(code) ELSE "raised"

\* _request_json: read() raises inside the reply of an error, too.
PythonRequest(how, code) == IF how = "whole" THEN Whole(code) ELSE "raised"

\* runs_create reads an eventsUrl that the host's reply does not have.
Python(how, code) == IF code = "201" THEN "raised" ELSE PythonRequest(how, code)

\* requestJSON: the error of ReadAll is dropped, so a reply without its body is a
\* success with a zero value; a body with a part missing is invalid JSON.
Go(how, code) == CASE how = "cut" -> {"raised"}
                   [] how = "torn" /\ Whole(code) = "value" -> {"blank", "raised"}
                   [] how = "whole" \/ (how = "torn" /\ Whole(code) # "value") -> {Whole(code)}

\* WopDriver.request: fetch and text() reject; the scenario looks at the code.
Driver(how, code) == IF how = "whole" THEN Whole(code) ELSE "raised"

\* postRun: json() may reject and leaves null; the code is known by then.
PostRun(how, code) == CASE how = "cut" -> "raised"
                        [] how = "torn" /\ Whole(code) = "value" -> "blank"
                        [] how = "whole" \/ (how = "torn" /\ Whole(code) # "value") -> Whole(code)

Results(client, how, code) == CASE client = "typescript" -> {TypeScript(how, code)}
                                [] client = "python"     -> {Python(how, code)}
                                [] client = "go"         -> Go(how, code)
                                [] client = "driver"     -> {Driver(how, code)}
                                [] client = "example"    -> {PostRun(how, code)}

\* The program goes on to st; a stage that it enters starts with no call made.
Continue(c, st) ==
  /\ stage' = [stage EXCEPT ![c] = st]
  /\ tries' = [tries EXCEPT ![c] = IF st = stage[c] THEN @ ELSE 0]

\* With a reply in hand, what comes next.  A poll looks for a terminal status.
NextStages(c, says) ==
  CASE stage[c] = "create" -> Wants[c]
    [] stage[c] = "cancel" -> {"poll"}
    [] stage[c] = "poll"   -> {IF says \in Terminal THEN "over" ELSE "poll"}

TakeValue(c) ==
  /\ known' = [known EXCEPT ![c] = reply[c].run]
  /\ told' = [told EXCEPT ![c] = reply[c].says]
  /\ \E st \in NextStages(c, reply[c].says) : Continue(c, st)

\* An example that is told 409 is at its end, and so is any other program.
TakeRefusal(c) ==
  /\ told' = [told EXCEPT ![c] = "refused"]
  /\ Continue(c, "over")
  /\ UNCHANGED known

\* The zero value of the Go SDK, and undefined in the example, are an answer as
\* good as any to the program: after a create it goes on without a run id.  A
\* polling loop asks again.
TakeBlank(c) ==
  /\ known' = IF stage[c] = "create" THEN [known EXCEPT ![c] = NoRun] ELSE known
  /\ told' = IF stage[c] = "poll" THEN told ELSE [told EXCEPT ![c] = "blank"]
  /\ \E st \in NextStages(c, "pending") : Continue(c, st)

\* A polling loop of the driver swallows the error; others let the program decide.
TakeError(c) == Continue(c, stage[c]) /\ UNCHANGED <<known, told>>

Take(c, result) ==
  CASE result = "value"   -> TakeValue(c)
    [] result = "refused" -> TakeRefusal(c)
    [] result = "blank"   -> TakeBlank(c)
    [] result = "raised"  -> TakeError(c)

\* The reply arrives, whole or in part, or the client stops waiting for it.
Receive(c) ==
  /\ line[c] \notin {"free", "sent"}
  /\ \E client \in Client, how \in {"whole", "torn", "cut"} :
       \E result \in Results(client, how, line[c]) : Take(c, result)
  /\ line' = [line EXCEPT ![c] = "free"]
  /\ reply' = [reply EXCEPT ![c] = NoReply]
  /\ UNCHANGED <<hostVars, asked, late>>

\* The request is lost, or comes late; a late read is of no consequence.
Abandon(c) ==
  /\ line[c] = "sent"
  /\ line' = [line EXCEPT ![c] = "free"]
  /\ late' \in {late, late \cup ({<<c, stage[c]>>} \cap (Callers \X {"create", "cancel"}))}
  /\ TakeError(c)
  /\ UNCHANGED <<hostVars, asked, reply>>

-----------------------------------------------------------------------------

Answered(c) == Handle(c) \/ Receive(c) \/ Abandon(c)

HostStep == (Timer \/ \E r \in Runs : AppendEvent(r)) /\ UNCHANGED callVars

Next ==
  \/ HostStep
  \/ \E c \in Callers : Send(c) \/ GiveUp(c) \/ Answered(c)
  \/ \E c \in Callers, st \in {"create", "cancel"} : ArriveLate(c, st)

Spec == Init /\ [][Next]_vars

-----------------------------------------------------------------------------

\* Requests with one key, and the 24 hours: two runs are created for it only
\* when the first one's entry has expired, whatever is retried or comes late.
OneRunPerWindow ==
  \A r, s \in Runs :
    r # s /\ status[r] # "absent" /\ status[s] # "absent"
          /\ origin[r].key = origin[s].key /\ origin[r].key # NoKey =>
      \/ origin[r].at > origin[s].at + CacheTtl
      \/ origin[s].at > origin[r].at + CacheTtl

\* The run that a client hands its program was created by that program's body
\* under its key, and a refused program has a rival that used the key for another.
\* A program that goes on without a run id is told of no run's status.
AnswersAreRight ==
  \A c \in Callers :
    /\ known[c] # NoRun =>
         /\ status[known[c]] # "absent"
         /\ origin[known[c]].key = Key /\ origin[known[c]].body = asked[c]
    /\ known[c] = NoRun => told[c] \in {"nothing", "refused", "blank"}
    /\ told[c] = "refused" =>
         \E r \in Runs : status[r] # "absent" /\ origin[r].key = Key
                                              /\ origin[r].body # asked[c]

\* A program that repeats its call is told of the same run until the entry of the
\* cache expires, also when an answer got lost in between.
RetriesAgree ==
  [][\A c \in Callers :
       known[c] # NoRun /\ known'[c] \notin {known[c], NoRun} =>
         origin[known'[c]].at > origin[known[c]].at + CacheTtl]_vars

\* What a program was told of the end of its run stays true: the status is that
\* one, and a run whose cancellation was accepted is cancelled and nothing else.
SaidIsTrue ==
  \A c \in Callers :
    /\ told[c] \in Terminal => status[known[c]] = told[c]
    /\ told[c] = "cancelling" /\ AtLoop => status[known[c]] = "cancelled"

=============================================================================
