---------------------------- MODULE MCSseClient ----------------------------
(***************************************************************************)
(* The instance of SseClient for TLC.                                      *)
(***************************************************************************)
EXTENDS SseClient

=============================================================================
