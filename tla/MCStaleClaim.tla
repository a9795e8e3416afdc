---------------------------- MODULE MCStaleClaim ----------------------------
(***************************************************************************)
(* The instance of StaleClaim with the times of staleClaim.test.ts, for    *)
(* TLC.                                                                    *)
(***************************************************************************)
EXTENDS StaleClaim

CONSTANTS pA, pB, r1

\* conformance-cancellable.
OneDelay == [r \in Runs |-> <<"core.delay">>]
NoKeys == [r \in Runs |-> NoKey]
FullCatalog == [p \in Procs |-> Runs]

=============================================================================
