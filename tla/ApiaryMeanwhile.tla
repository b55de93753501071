---------------------------- MODULE ApiaryMeanwhile ----------------------------
(***************************************************************************)
(* What a request may suffer from the others.  Nothing locks an apiary or  *)
(* an account between two calls of a request, so several promises of the   *)
(* service can be broken by what comes in between.  This module adds to    *)
(* the service a history variable that no step reads, and with it says     *)
(* exactly what that can be, and in which window: nothing else breaks the  *)
(* promise.                                                                *)
(***************************************************************************)
EXTENDS ApiaryService

VARIABLE meanwhile   \* for each request, what has come in between its calls

mvars == <<vars, meanwhile>>

(* Calls after the one that has made the check or the cleanup.             *)
PastHives     == {"cascadeMedia", "cascadeReminders", "cascadeRow"}
PastReminders == {"cascadeRow"}
PastWritable  == {"updateVerify", "updateWrite"}
PastCount     == {"txInsert", "txCommit"}
Editing       == {"updateEntitlement", "updateWritable", "updateVerify", "updateWrite"}

InHandIds(p) == {a.id : a \in InHand(p)}
NewRows(u) == RowsOf(apiaries', u) \ Present(apiaries)
ImagesChanged == {i \in Present(apiaries) \cap Present(apiaries') :
                 apiaries'[i].images # apiaries[i].images}
Overrun(u) == /\ entitlement[u] = EntitlementFree
              /\ CountByUser(apiaries', u) > FreeMaxApiaries
Facts(kind, ids) == {kind} \X ids

(* hive, reminder: one was added to the apiary at hand;                    *)
(* stale: a reminder was added on an old answer that the apiary exists;    *)
(* photo: an update changed the photos of an apiary at hand;               *)
(* row: the account being deleted gained an apiary;                        *)
(* late: the account, counted, gained one that is not counted under Free;  *)
(* over: it gained one that takes it over the limit of its Free plan;      *)
(* plan: the plan changed after it was read.                               *)
Between(p) ==
    Facts("hive", {i \in hives' \ hives : pc[p] \in PastHives /\ i = held[p].id})
    \cup Facts("reminder", {i \in reminders' \ reminders :
                               pc[p] \in PastReminders /\ i = held[p].id})
    \cup Facts("stale", {i \in (reminders' \ reminders) \cap confirmed :
                            out[p] = "Deleted" /\ i = req[p].id})
    \cup Facts("photo", {i \in ImagesChanged : pc[p] \in Cascading \cup Editing /\ i \in InHandIds(p)})
    \cup Facts("row", {i \in ApiaryId : pc[p] \in Cascading /\ i \in NewRows(req[p].user)})
    \cup Facts("late", {i \in ApiaryId \ limited' :
                           pc[p] \in PastCount /\ i \in NewRows(req[p].user)})
    \cup Facts("over", {i \in ApiaryId : /\ pc[p] \in PastWritable
                                         /\ i \in NewRows(req[p].user)
                                         /\ Overrun(req[p].user)})
    \cup Facts("plan", {u \in User : /\ ent[p] # "none" /\ u = req[p].user
                                     /\ entitlement'[u] # entitlement[u]})

MInit == Init /\ meanwhile = [p \in Proc |-> {}]
MNext ==
    /\ Next
    /\ meanwhile' = [p \in Proc |-> IF pc'[p] = "idle" THEN {} ELSE meanwhile[p] \cup Between(p)]

(* Every behaviour of the service, annotated.                              *)
MSpec == MInit /\ [][MNext]_mvars

Met(p, kind, x) == <<kind, x>> \in meanwhile[p]
MetAny(p, kind) == \E i \in ApiaryId : Met(p, kind, i)

-----------------------------------------------------------------------------
(* Deleting.  A row goes while its apiary has hives only if hive-service   *)
(* added one after the cascade had deleted them.                           *)
OnlyNewHives ==
    [][\A p \in Proc : Moved(p) => \A i \in RemovedBy(p) \cap hives : Met(p, "hive", i)]_mvars

(* A row goes while one of its files is left only if an update put other   *)
(* photos into the row after the delete had read it.                       *)
OnlyNewPhotos ==
    [][\A p \in Proc : Moved(p) =>
         \A i \in RemovedBy(p) :
            (\E m \in apiaries[i].images : media[m] # NoUser) => Met(p, "photo", i)]_mvars

(* A row goes while its apiary has reminders only if one was added between *)
(* the cleanup and the delete of the row.                                  *)
OnlyNewReminders ==
    [][\A p \in Proc : Moved(p) => \A i \in RemovedBy(p) \cap reminders : Met(p, "reminder", i)]_mvars

(* After a delete that ended without a warning its apiary has a reminder   *)
(* only if notification-service acted, after the second cleanup, on an     *)
(* answer it got while the apiary existed.                                 *)
OnlyStaleReminders ==
    \A p \in Proc : pc[p] = "reply" /\ out[p] = "Deleted" /\ req[p].id \in reminders =>
                        Met(p, "stale", req[p].id)

(* The rows that a successful delete of an account leaves are those, every *)
(* one, that were created after it had listed the account.                 *)
OnlyNewRows ==
    [][\A p \in Proc : out[p] = "none" /\ out'[p] \in {"DeletedAll", "UserDeleted"} =>
         \A i \in RowsOf(apiaries', req[p].user) : Met(p, "row", i)]_mvars

-----------------------------------------------------------------------------
(* Updating.  An update that names no images changes those of its row only *)
(* if another update changed them after it had read the row.               *)
OnlyRacingImages ==
    [][\A p \in Proc : Moved(p) /\ req[p].kind = "update" /\ req[p].images = Nil =>
         \A i \in ImagesChanged : Met(p, "photo", i)]_mvars

(* A user on the Free plan is taken over its limit only by a create that   *)
(* found the plan to be another, or that counted before a create that did  *)
(* stored its row: never by creates that were all counted.                 *)
OnlyLateRows ==
    [][\A p \in Proc : Moved(p) /\ NewRows(req[p].user) # {} /\ Overrun(req[p].user) =>
         Met(p, "plan", req[p].user) \/ MetAny(p, "late")]_mvars

(* An update reaches a row that may not be edited only if the plan changed *)
(* after it was read, or if, after the row was found writable, another     *)
(* took the user over the limit.                                           *)
OnlyRacingPlans ==
    [][\A p \in Proc : Moved(p) =>
         \A i \in Present(apiaries) :
            apiaries'[i] \notin {apiaries[i], NoRow} /\ ~MayEdit(apiaries, req[p].user, i) =>
                Met(p, "plan", req[p].user) \/ MetAny(p, "over")]_mvars
=============================================================================
