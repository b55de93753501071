----------------------------- MODULE UpdateApiary -----------------------------
(***************************************************************************)
(* PUT /api/v1/apiaries/{apiaryId}: Handler.Update, Service.Update.  The   *)
(* row is read first and written back last, with four calls in between and *)
(* no transaction around them.                                             *)
(***************************************************************************)
EXTENDS ApiaryBase

UpdateGet(p) ==
    LET row == GetByID(apiaries, req[p].user, req[p].id) IN
    /\ pc[p] = "updateGet"
    /\ ConnFree
    /\ held' = [held EXCEPT ![p] = row]
    /\ IF row = NoRow THEN Finish(p, "NotFound") ELSE Goto(p, "updateEntitlement")
    /\ UNCHANGED <<database, others, req, rest, ent>>

UpdateEntitlement(p) ==
    /\ pc[p] = "updateEntitlement"
    /\ GetEntitlement(p)
    /\ Goto(p, IF ent'[p] = EntitlementFree THEN "updateWritable" ELSE "updateVerify")
    /\ UNCHANGED <<database, others, req, held, rest>>

(* Fault: the check was forgotten. *)
isWritableAny(u, i) == TRUE
(* Among the oldest FreeMaxApiaries of the user. *)
isWritable(u, i) == i \in WritableIDs(apiaries, u, FreeMaxApiaries)

UpdateWritable(p) ==
    /\ pc[p] = "updateWritable"
    /\ ConnFree
    /\ IF isWritable(req[p].user, req[p].id)
       THEN Goto(p, "updateVerify")
       ELSE Finish(p, "ReadOnly")
    /\ UNCHANGED <<database, others, locals>>

(* Fault: a request without images empties the row's. *)
SetFieldsAsked(p, ids) ==
    held' = [held EXCEPT ![p].name = req[p].name, ![p].images = dedupeImages(req[p].images)]
(* The photo checks run only when the request names images; the fields of  *)
(* the row in hand are then replaced.                                      *)
SetFields(p, ids) ==
    held' = [held EXCEPT ![p].name = req[p].name, ![p].images = ids]

UpdateVerify(p) ==
    LET ids == dedupeImages(req[p].images) IN
    /\ pc[p] = "updateVerify"
    /\ \/ /\ req[p].images = Nil
          /\ SetFields(p, held[p].images)
          /\ Goto(p, "updateWrite")
       \/ /\ req[p].images # Nil /\ TooManyImages(ids)
          /\ Finish(p, "MediaLimit")
          /\ UNCHANGED held
       \/ /\ req[p].images # Nil /\ ~TooManyImages(ids)
          /\ ~VerifyOwnership(req[p].user, ids)
          /\ Finish(p, "ImageNotFound")
          /\ UNCHANGED held
       \/ /\ req[p].images # Nil /\ ~TooManyImages(ids)
          /\ VerifyOwnership(req[p].user, ids)
          /\ SetFields(p, ids)
          /\ Goto(p, "updateWrite")
    /\ UNCHANGED <<database, others, req, rest, ent>>

(* Fault: an upsert. *)
UpdateOrInsert(p) ==
    /\ pc[p] = "updateWrite"
    /\ ConnFree /\ ~NamePending(p)
    /\ apiaries' = Insert(apiaries, held[p])
    /\ ThenFinish(p, "Updated")
    /\ UNCHANGED <<lock, clock, limited, removed, others, locals>>
(* Only a row that is there has a name to wait for. *)
UpdateWrite(p) ==
    /\ pc[p] = "updateWrite"
    /\ ConnFree /\ (Updatable(apiaries, held[p]) => ~NamePending(p))
    /\ IF ~Updatable(apiaries, held[p])
       THEN Finish(p, "NotFound") /\ UNCHANGED apiaries
       ELSE IF NameClash(apiaries, held[p])
            THEN Finish(p, "NameTaken") /\ UNCHANGED apiaries
            ELSE apiaries' = Update(apiaries, held[p]) /\ ThenFinish(p, "Updated")
    /\ UNCHANGED <<lock, clock, limited, removed, others, locals>>

UpdateStep(p) ==
    \/ UpdateGet(p) \/ UpdateEntitlement(p) \/ UpdateWritable(p)
    \/ UpdateVerify(p) \/ UpdateWrite(p)
=============================================================================
