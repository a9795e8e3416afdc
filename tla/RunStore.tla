------------------------------ MODULE RunStore ------------------------------
(***************************************************************************)
(* The SQLite file shared by every process of the SQLite reference host:   *)
(* the runs, events and idempotency tables and one operator per prepared   *)
(* statement that changes them.  A statement is one autocommit             *)
(* transaction, hence one atomic step; the host composes them.             *)
(*                                                                         *)
(* A run id is a member of Runs and status[r] = "absent" says that the     *)
(* runs table has no row for it.  The columns claim_holder_id and          *)
(* claim_expires_at are holder and expires (NULL is NoHolder and 0).       *)
(* events[r] maps the seq of each stored row of the run to that row, so    *)
(* the primary key (run_id, seq) is the domain of the function, and        *)
(* nothing in this module says that a domain has no gaps.  idem[k] is the  *)
(* run recorded for an Idempotency-Key, NoRun when there is no row.        *)
(***************************************************************************)
EXTENDS RunEvents, Naturals, FiniteSets

CONSTANTS Procs,      \* process incarnations; PROCESS_ID is drawn afresh at each start
          Runs,       \* run ids
          Keys,       \* Idempotency-Key header values
          NoHolder,   \* claim_holder_id IS NULL
          NoRun       \* no idempotency row

ASSUME NoHolderAssumption == NoHolder \notin Procs
ASSUME NoRunAssumption == NoRun \notin Runs

VARIABLES status, holder, expires, events, idem

runRow == <<status, holder, expires>>
tables == <<runRow, events, idem>>

Resumable == {"pending", "running", "cancelling"}
Status == {"absent"} \cup Resumable \cup Terminal

StoreTypeOK ==
  /\ status \in [Runs -> Status]
  /\ holder \in [Runs -> Procs \cup {NoHolder}]
  /\ expires \in [Runs -> Nat]
  /\ \A r \in Runs :
       /\ DOMAIN events[r] \subseteq Nat /\ IsFiniteSet(DOMAIN events[r])
       /\ \A s \in DOMAIN events[r] : events[r][s] \in Row
  /\ DOMAIN events = Runs
  /\ idem \in [Keys -> Runs \cup {NoRun}]

StoreInit ==
  /\ status = [r \in Runs |-> "absent"]
  /\ holder = [r \in Runs |-> NoHolder]
  /\ expires = [r \in Runs |-> 0]
  /\ events = [r \in Runs |-> [s \in {} |-> [type |-> "run.started", node |-> 0]]]
  /\ idem = [k \in Keys |-> NoRun]

-----------------------------------------------------------------------------
(* runs *)

InsertRunRow(r) ==
  /\ status' = [status EXCEPT ![r] = "pending"]
  /\ UNCHANGED <<holder, expires, events, idem>>

UpdateRunStatus(r, s) ==
  /\ status' = [status EXCEPT ![r] = s]
  /\ UNCHANGED <<holder, expires, events, idem>>

\* Seeded bug: an UPDATE without the CASE.
SetCancelRequested_Always(r) == UpdateRunStatus(r, "cancelling")

\* The CASE keeps a terminal status that was written since the caller's SELECT.
SetCancelRequested(r) ==
  /\ status' = [status EXCEPT ![r] = IF @ \in Terminal THEN @ ELSE "cancelling"]
  /\ UNCHANGED <<holder, expires, events, idem>>

\* Seeded bug: off by one, a claim lapses at its last valid moment.
Lapsed_Early(r, t) == holder[r] = NoHolder \/ expires[r] <= t

\* The claim of a row has no holder, or has lapsed, at time t.
Lapsed(r, t) == holder[r] = NoHolder \/ expires[r] < t

\* Seeded bugs: a terminal run can be claimed; a cancelling one cannot.
Claimable_AnyStatus(r, t) == status[r] # "absent" /\ Lapsed(r, t)
Claimable_NotCancelling(r, t) == status[r] \in {"pending", "running"} /\ Lapsed(r, t)

\* The WHERE clause of acquireClaim: the statement changes a row iff it holds.
Claimable(r, t) == status[r] \in Resumable /\ Lapsed(r, t)

AcquireClaim(p, r, e) ==
  /\ holder' = [holder EXCEPT ![r] = p]
  /\ expires' = [expires EXCEPT ![r] = e]
  /\ UNCHANGED <<status, events, idem>>

RenewClaim(p, r, e) ==
  /\ expires' = [expires EXCEPT ![r] = IF holder[r] = p THEN e ELSE @]
  /\ UNCHANGED <<status, holder, events, idem>>

\* Seeded bug: the claim is released whoever holds it.
ReleaseClaim_AnyHolder(p, r) ==
  /\ holder' = [holder EXCEPT ![r] = NoHolder]
  /\ expires' = [expires EXCEPT ![r] = 0]
  /\ UNCHANGED <<status, events, idem>>

ReleaseClaim(p, r) ==
  /\ holder' = [holder EXCEPT ![r] = IF @ = p THEN NoHolder ELSE @]
  /\ expires' = [expires EXCEPT ![r] = IF holder[r] = p THEN 0 ELSE @]
  /\ UNCHANGED <<status, events, idem>>

\* The UPDATE of the shutdown handler: it clears the holder of every row that
\* the process holds and leaves claim_expires_at as it is.
ReleaseAllClaims(p) ==
  /\ holder' = [r \in Runs |-> IF holder[r] = p THEN NoHolder ELSE holder[r]]
  /\ UNCHANGED <<status, expires, events, idem>>

OrphanRuns(t) == {r \in Runs : status[r] \in Resumable /\ Lapsed(r, t)}

-----------------------------------------------------------------------------
(* events and idempotency *)

CountEvents(r) == Cardinality(DOMAIN events[r])

\* Seeded bug: INSERT OR REPLACE.
KeyTaken_Never(r, seq) == FALSE

\* INSERT fails (it throws, and changes nothing) iff the key is taken.
KeyTaken(r, seq) == seq \in DOMAIN events[r]

InsertEvent(r, seq, row) ==
  /\ events' = [events EXCEPT ![r] =
                  [s \in DOMAIN @ \cup {seq} |-> IF s = seq THEN row ELSE @[s]]]
  /\ UNCHANGED <<runRow, idem>>

Logged(r, type) == \E s \in DOMAIN events[r] : events[r][s].type = type

InsertIdempotency(k, r) ==
  /\ idem' = [idem EXCEPT ![k] = r]
  /\ UNCHANGED <<runRow, events>>

=============================================================================
