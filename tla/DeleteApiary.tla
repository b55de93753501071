----------------------------- MODULE DeleteApiary -----------------------------
(***************************************************************************)
(* DELETE /api/v1/apiaries/{apiaryId}, DELETE /api/v1/apiaries and         *)
(* DELETE /internal/api/v1/users/{userID}.  The first two run the same     *)
(* cascade over three other services, the row last; nothing is rolled back *)
(* when a call fails.  The third only deletes rows.                        *)
(***************************************************************************)
EXTENDS ApiaryBase

(* Fault: the error of GetByID is not looked at. *)
DeleteGetUnchecked(p) ==
    /\ pc[p] = "deleteGet"
    /\ ConnFree
    /\ held' = [held EXCEPT ![p] = GetByID(apiaries, req[p].user, req[p].id)]
    /\ Goto(p, "cascadeHives")
    /\ UNCHANGED <<database, others, req, rest, ent>>
DeleteGet(p) ==
    LET row == GetByID(apiaries, req[p].user, req[p].id) IN
    /\ pc[p] = "deleteGet"
    /\ ConnFree
    /\ held' = [held EXCEPT ![p] = row]
    /\ IF row = NoRow THEN Finish(p, "NotFound") ELSE Goto(p, "cascadeHives")
    /\ UNCHANGED <<database, others, req, rest, ent>>

(* The loop of DeleteAllByUser, oldest row first. *)
NextApiary(p, rows) ==
    \/ /\ rows = {}
       /\ Finish(p, "DeletedAll")
       /\ UNCHANGED <<held, rest>>
    \/ \E a \in rows :
        /\ \A b \in rows \ {a} : ~Before(b, a)
        /\ held' = [held EXCEPT ![p] = a]
        /\ rest' = [rest EXCEPT ![p] = rows \ {a}]
        /\ Goto(p, "cascadeHives")

DeleteAllList(p) ==
    /\ pc[p] = "deleteAllList"
    /\ ConnFree
    /\ NextApiary(p, ListAllByUser(apiaries, req[p].user))
    /\ UNCHANGED <<database, others, req, ent>>

(* hive-service deletes the hives and everything under them, media-service *)
(* those of the files that are the caller's, notification-service the      *)
(* reminders.                                                              *)
DeleteByApiary(i) == hives' = hives \ {i}
DeleteByIDs(u, ids) ==
    media' = [m \in Media |-> IF m \in ids /\ media[m] = u THEN NoUser ELSE media[m]]
CleanupReminders(i) == reminders' = reminders \ {i}

(* Fault: a single photo is overlooked. *)
SkipSinglePhoto(p) == IF Cardinality(held[p].images) > 1 THEN "cascadeMedia" ELSE "cascadeReminders"
AfterHives(p) == IF held[p].images # {} THEN "cascadeMedia" ELSE "cascadeReminders"

(* Fault: the cascade goes on after an error. *)
CascadeHivesAnyway(p) ==
    /\ pc[p] = "cascadeHives"
    /\ DeleteByApiary(held[p].id) \/ (MayFail /\ UNCHANGED hives)
    /\ Goto(p, AfterHives(p))
    /\ UNCHANGED <<database, entitlement, media, reminders, confirmed, locals>>
CascadeHives(p) ==
    /\ pc[p] = "cascadeHives"
    /\ DeleteByApiary(held[p].id)
    /\ ThenGoto(p, AfterHives(p))
    /\ UNCHANGED <<database, entitlement, media, reminders, confirmed, locals>>

CascadeMedia(p) ==
    /\ pc[p] = "cascadeMedia"
    /\ DeleteByIDs(req[p].user, held[p].images)
    /\ ThenGoto(p, "cascadeReminders")
    /\ UNCHANGED <<database, entitlement, hives, reminders, confirmed, locals>>

(* Fault: the cascade goes on after an error. *)
CascadeRemindersAnyway(p) ==
    /\ pc[p] = "cascadeReminders"
    /\ CleanupReminders(held[p].id) \/ (MayFail /\ UNCHANGED reminders)
    /\ Goto(p, "cascadeRow")
    /\ UNCHANGED <<database, entitlement, media, hives, confirmed, locals>>
CascadeReminders(p) ==
    /\ pc[p] = "cascadeReminders"
    /\ CleanupReminders(held[p].id)
    /\ ThenGoto(p, "cascadeRow")
    /\ UNCHANGED <<database, entitlement, media, hives, confirmed, locals>>

(* Fault: the handler does not clean up again. *)
NoSecondCleanup(p) ==
    IF req[p].kind = "delete"
    THEN Finish(p, "Deleted") /\ UNCHANGED <<held, rest>>
    ELSE NextApiary(p, rest[p])
(* Fault: a return inside the loop. *)
AfterOneRow(p) ==
    IF req[p].kind = "delete"
    THEN Goto(p, "cleanup") /\ UNCHANGED <<held, rest>>
    ELSE NextApiary(p, {})
(* After the row of a single delete the handler cleans the reminders up    *)
(* once more; a delete of the account goes on with the next row.           *)
AfterRow(p) ==
    IF req[p].kind = "delete"
    THEN Goto(p, "cleanup") /\ UNCHANGED <<held, rest>>
    ELSE NextApiary(p, rest[p])

CascadeRow(p) ==
    /\ pc[p] = "cascadeRow"
    /\ ConnFree
    /\ IF held[p].id \notin RowsOf(apiaries, req[p].user)
       THEN /\ Finish(p, "NotFound")
            /\ UNCHANGED <<apiaries, removed, held, rest>>
       ELSE /\ apiaries' = DeleteRows(apiaries, {held[p].id})
            /\ removed' = removed \cup {held[p].id}
            /\ AfterRow(p) \/ (Lost(p) /\ UNCHANGED <<held, rest>>)
    /\ UNCHANGED <<lock, clock, limited, others, req, ent>>

(* Best effort: an error, or an answer that was lost, is only logged. *)
Cleanup(p) ==
    /\ pc[p] = "cleanup"
    /\ \/ CleanupReminders(held[p].id) /\ Finish(p, "Deleted")
       \/ /\ MayFail /\ (CleanupReminders(held[p].id) \/ UNCHANGED reminders)
          /\ Finish(p, "DeletedWarned")
    /\ UNCHANGED <<database, entitlement, media, hives, confirmed, locals>>

DeleteUserData(p) ==
    LET ids == RowsOf(apiaries, req[p].user) IN
    /\ pc[p] = "deleteUser"
    /\ ConnFree
    /\ apiaries' = DeleteRows(apiaries, ids)
    /\ removed' = removed \cup ids
    /\ ThenFinish(p, "UserDeleted")
    /\ UNCHANGED <<lock, clock, limited, others, locals>>

DeleteStep(p) ==
    \/ DeleteGet(p) \/ DeleteAllList(p)
    \/ CascadeHives(p) \/ CascadeMedia(p) \/ CascadeReminders(p)
    \/ CascadeRow(p) \/ Cleanup(p)
    \/ DeleteUserData(p)
=============================================================================
