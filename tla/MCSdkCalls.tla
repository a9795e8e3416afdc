---------------------------- MODULE MCSdkCalls ----------------------------
(***************************************************************************)
(* Instances of SdkCalls for TLC.                                          *)
(***************************************************************************)
EXTENDS SdkCalls

CONSTANTS r1, r2, b1, b2, c1, c2, k1

\* The run of one body waits, the run of the other fails at once.
OneNode == [b \in Bodies |-> IF b = b1 THEN <<"core.delay">> ELSE <<"other">>]

\* One caller goes all the way; its rival posts either body and stops there.
AllTheWay == [c \in Callers |-> IF c = c1 THEN {"create", "cancel", "poll"} ELSE {"create", "over"}]
Rival == [c \in Callers |-> IF c = c1 THEN {b1} ELSE Bodies]

===========================================================================
