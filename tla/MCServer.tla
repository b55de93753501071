------------------------------- MODULE MCServer -------------------------------
(***************************************************************************)
(* Instances of ServerLifecycle for TLC.                                   *)
(***************************************************************************)
EXTENDS ServerLifecycle

CONSTANTS p1, p2

Complete == [key \in Required \cup Durations |-> IF key \in Required THEN "good" ELSE "unset"]

(* A complete environment; one with a variable missing, the last URL       *)
(* malformed, or a duration malformed or zero.                             *)
Started == {Complete}
           \cup {[Complete EXCEPT ![key] = "unset"] : key \in Required}
           \cup {[Complete EXCEPT !["NOTIFICATION_SERVICE_URL"] = "bad"]}
           \cup {[Complete EXCEPT ![key] = value] : key \in Durations, value \in {"bad", "zero"}}
=============================================================================
