------------------------------ MODULE MCMeanwhile ------------------------------
(***************************************************************************)
(* Instances of ApiaryMeanwhile for TLC, with the values of MC.            *)
(***************************************************************************)
EXTENDS MC, ApiaryMeanwhile

(* Deletes beside creates, photo updates and services that act on their    *)
(* own.                                                                    *)
RacingDeletes == Ask({"delete", "deleteAll"}, {1}, {n1}, {Nil})
                 \cup Ask({"create"}, {1}, {n2}, {Nil})
                 \cup Ask({"update"}, {1}, {n1}, {<<m1>>})
ProSeed == {WorldOf({R(1, u1, n1, {}, 0)}, [u \in User |-> EntitlementPro])}
MeanwhileEvents == {"hive", "reminder", "exists", "fail"}

(* Creates and updates, and plans that change under them.                  *)
RacingPlans == Ask({"create"}, {1}, {n1, n2}, {Nil})
               \cup Ask({"update"}, {1}, {n3}, {Nil, <<m1>>})
PlanEvents == {"subscription", "fail", "crash"}
=============================================================================
