------------------------------ MODULE ReadApiary ------------------------------
(***************************************************************************)
(* GET /api/v1/apiaries/{apiaryId} (Service.Get) and                       *)
(* GET /api/v1/apiaries/writable (Service.WritableApiaryID).  Both answer  *)
(* from two or three reads made at different moments.                      *)
(***************************************************************************)
EXTENDS ApiaryBase

GetRow(p) ==
    LET row == GetByID(apiaries, req[p].user, req[p].id) IN
    /\ pc[p] = "getRow"
    /\ ConnFree
    /\ held' = [held EXCEPT ![p] = row]
    /\ IF row = NoRow THEN Finish(p, "NotFound") ELSE Goto(p, "getEntitlement")
    /\ UNCHANGED <<database, others, req, rest, ent>>

(* resolveWritable. *)
GetPlan(p) ==
    /\ pc[p] = "getEntitlement"
    /\ GetEntitlement(p)
    /\ IF ent'[p] = EntitlementFree THEN Goto(p, "getWritable") ELSE Finish(p, "Writable")
    /\ UNCHANGED <<database, others, req, held, rest>>

GetWritable(p) ==
    /\ pc[p] = "getWritable"
    /\ ConnFree
    /\ Finish(p, IF req[p].id \in WritableIDs(apiaries, req[p].user, FreeMaxApiaries)
                 THEN "Writable" ELSE "ReadOnlyView")
    /\ UNCHANGED <<database, others, locals>>

WritablePlan(p) ==
    /\ pc[p] = "writableEntitlement"
    /\ GetEntitlement(p)
    /\ IF ent'[p] = EntitlementFree THEN Goto(p, "writableIDs") ELSE Finish(p, "Unrestricted")
    /\ UNCHANGED <<database, others, req, held, rest>>

(* ids[0], the oldest of the writable rows, or no id. *)
Oldest(ids) == {i \in ids : \A j \in ids \ {i} : Before(apiaries[i], apiaries[j])}
WritableApiaryID(p) ==
    LET ids == WritableIDs(apiaries, req[p].user, FreeMaxApiaries) IN
    /\ pc[p] = "writableIDs"
    /\ ConnFree
    /\ \/ ids = {} /\ Finish(p, "None") /\ UNCHANGED held
       \/ \E i \in Oldest(ids) : /\ held' = [held EXCEPT ![p] = apiaries[i]]
                                 /\ Finish(p, "Writable")
    /\ UNCHANGED <<database, others, req, rest, ent>>

ReadStep(p) ==
    \/ GetRow(p) \/ GetPlan(p) \/ GetWritable(p)
    \/ WritablePlan(p) \/ WritableApiaryID(p)
=============================================================================
