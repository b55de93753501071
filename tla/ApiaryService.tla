---------------------------- MODULE ApiaryService ----------------------------
(***************************************************************************)
(* The whole service: requests received, run and answered concurrently     *)
(* over one table, next to the services it calls; and what it promises.    *)
(***************************************************************************)
EXTENDS CreateApiary, UpdateApiary, DeleteApiary, ReadApiary, Externals

Init ==
    /\ \E s \in Seed : /\ apiaries = s.apiaries
                       /\ entitlement = s.entitlement
                       /\ media = s.media
                       /\ hives = s.hives
                       /\ reminders = s.reminders
    /\ confirmed = {}
    /\ lock = [k \in LockKey |-> NoProc]
    /\ clock = 1
    /\ limited = {} /\ removed = {}
    /\ pc = [p \in Proc |-> "idle"]
    /\ req = [p \in Proc |-> NoRequest]
    /\ held = [p \in Proc |-> NoRow]
    /\ rest = [p \in Proc |-> {}]
    /\ ent = [p \in Proc |-> "none"]
    /\ out = [p \in Proc |-> "none"]

(* The routes, and the first call of each handler. *)
FirstCallOf(kind) ==
    CASE kind = "create"     -> "createEntitlement"
      [] kind = "update"     -> "updateGet"
      [] kind = "delete"     -> "deleteGet"
      [] kind = "deleteAll"  -> "deleteAllList"
      [] kind = "deleteUser" -> "deleteUser"
      [] kind = "get"        -> "getRow"
      [] kind = "writable"   -> "writableEntitlement"

(* Bound: creates wait at the door until an id is left for each.           *)
FreshIdLeft ==
    Cardinality({q \in Proc : pc[q] \in {"createEntitlement", "createCount", "createVerify"}})
        < Cardinality(ApiaryId \ UsedIds)

Receive(p) ==
    /\ pc[p] = "idle"
    /\ \E r \in Request :
        /\ r.kind = "create" => FreshIdLeft
        /\ req' = [req EXCEPT ![p] = r]
        /\ Goto(p, FirstCallOf(r.kind))
    /\ UNCHANGED <<database, others, held, rest, ent>>

Reply(p) ==
    /\ pc[p] = "reply"
    /\ pc' = [pc EXCEPT ![p] = "idle"]
    /\ req' = [req EXCEPT ![p] = NoRequest]
    /\ held' = [held EXCEPT ![p] = NoRow]
    /\ rest' = [rest EXCEPT ![p] = {}]
    /\ ent' = [ent EXCEPT ![p] = "none"]
    /\ out' = [out EXCEPT ![p] = "none"]
    /\ UNCHANGED <<database, others>>

(* Any call may fail without effect: an error, a timeout, a cancelled      *)
(* context.  Without photos to verify there is no call to fail, and an     *)
(* error of the last two calls is dropped by the code.                     *)
CanFail(p) ==
    /\ pc[p] \in Calls \ {"txRollback", "cleanup"}
    /\ pc[p] \in {"createVerify", "updateVerify"} =>
        /\ dedupeImages(req[p].images) # {}
        /\ ~TooManyImages(dedupeImages(req[p].images))

CallFails(p) ==
    /\ MayFail /\ CanFail(p)
    /\ IF pc[p] \in TxHolds THEN FailTx(p, "Internal") ELSE Finish(p, "Internal")
    /\ UNCHANGED <<database, others, locals>>

Step(p) == \/ CreateStep(p) \/ UpdateStep(p) \/ DeleteStep(p) \/ ReadStep(p)
           \/ CallFails(p) \/ Reply(p)

(* The process dies: every request is lost, and PostgreSQL rolls open      *)
(* transactions back, which frees their locks.                             *)
Crash ==
    /\ "crash" \in Events
    /\ \E p \in Proc : pc[p] # "idle"
    /\ lock' = [k \in LockKey |-> NoProc]
    /\ pc' = [p \in Proc |-> "idle"]
    /\ req' = [p \in Proc |-> NoRequest]
    /\ held' = [p \in Proc |-> NoRow]
    /\ rest' = [p \in Proc |-> {}]
    /\ ent' = [p \in Proc |-> "none"]
    /\ out' = [p \in Proc |-> "none"]
    /\ UNCHANGED <<apiaries, clock, limited, removed, others>>

Next == \/ \E p \in Proc : Receive(p) \/ Step(p)
        \/ ExternalStep
        \/ Crash

Spec == Init /\ [][Next]_vars

(* The pool and PostgreSQL's lock queue serve waiters in order, so a       *)
(* request that keeps getting a chance to run does run.                    *)
FairSpec == Spec /\ \A p \in Proc : SF_vars(Step(p))

(* A client that repeats the delete of an account whatever it is answered, *)
(* and a world in which no call fails for ever: a call tried again and     *)
(* again succeeds again and again.  Crashes may go on.                     *)
Again(p) == Receive(p) /\ req'[p].kind = "deleteAll"
Succeeds(p, label) == pc[p] = label /\ Step(p) /\ out'[p] # "Internal"
RetrySpec == Spec /\ \E p \in Proc :
    /\ SF_vars(Again(p))
    /\ \A label \in Cascading \cup {"deleteGet", "deleteAllList", "reply"} :
           SF_vars(Succeeds(p, label))

-----------------------------------------------------------------------------
(* Type invariant, with what each label says about the locals.             *)
TypeOK ==
    /\ apiaries \in Table
    /\ lock \in [LockKey -> Proc \cup {NoProc}]
    /\ clock \in Nat
    /\ limited \subseteq ApiaryId /\ removed \subseteq ApiaryId
    /\ entitlement \in [User -> Entitlement]
    /\ media \in [Media -> User \cup {NoUser}]
    /\ hives \subseteq ApiaryId /\ reminders \subseteq ApiaryId
    /\ confirmed \subseteq ApiaryId
    /\ pc \in [Proc -> Label]
    /\ req \in [Proc -> Request \cup {NoRequest}]
    /\ held \in [Proc -> Row \cup {NoRow}]
    /\ rest \in [Proc -> SUBSET Row]
    /\ ent \in [Proc -> Entitlement \cup {"none"}]
    /\ out \in [Proc -> Outcome]
    /\ \A p \in Proc : /\ pc[p] # "idle" => req[p] \in Request
                       /\ pc[p] \in HoldsRow => held[p] # NoRow

-----------------------------------------------------------------------------
(* The Free quota.  A user never owns more active apiaries created under   *)
(* the Free plan than the plan allows, however many creates run at once,   *)
(* fail half-way or lose their answer (the advisory lock and count of      *)
(* CreateWithLimit); apiaries created under Pro are not counted.           *)
LimitedOf(u) == Active(apiaries, u) \cap limited
FreeQuota == \A u \in User : Cardinality(LimitedOf(u)) <= FreeMaxApiaries

(* The inductive invariant behind it: who is between TxLock and the end of *)
(* its transaction holds its user's lock,                                  *)
LockDiscipline ==
    \A p \in Proc : pc[p] \in {"txCount", "txInsert", "txCommit"} =>
                        lock[LockKeyOf(p)] = p
(* what it counted still leaves room for its row,                          *)
RoomLeft ==
    \A p \in Proc : pc[p] \in {"txInsert", "txCommit"} =>
                        Cardinality(LimitedOf(held[p].user)) < FreeMaxApiaries
(* and the row about to be inserted has an id of its own.                  *)
FreshIds ==
    /\ limited \subseteq Present(apiaries) \cup removed
    /\ \A p \in Proc : pc[p] \in Inserting =>
        /\ held[p].id \notin Present(apiaries) \cup removed
        /\ \A q \in Proc \ {p} : pc[q] \in Inserting => held[q].id # held[p].id
QuotaInv == FreeQuota /\ LockDiscipline /\ RoomLeft /\ FreshIds
-----------------------------------------------------------------------------
(* Names.  Two active apiaries of one user, stored or waiting for their    *)
(* commit, never share a name, although nothing in the service checks it:  *)
(* the partial unique index does, across limited and unlimited creates,    *)
(* updates and deletes.                                                    *)
UniqueActiveNames ==
    /\ UniqueNames(apiaries)
    /\ \A p \in Proc : pc[p] = "txCommit" =>
        ~NamePending(p) /\ ~NameClash(apiaries, held[p])

(* What a create answers is what happened.  201 means the row was stored   *)
(* (it may have been deleted since), and a refusal, as opposed to an       *)
(* internal error, means that it never was.                                *)
AnswersTrue ==
    \A p \in Proc : pc[p] = "reply" /\ req[p].kind = "create" =>
        /\ out[p] = "Created" => held[p].id \in Present(apiaries) \cup removed
        /\ out[p] \in Failure \ {"Internal"} /\ held[p] # NoRow =>
               held[p].id \notin Present(apiaries) \cup removed

(* The rows.  Once a row is deleted nothing brings it back: an update or a *)
(* create under way when it goes must not write it again.                  *)
StaysRemoved == removed \cap Present(apiaries) = {}

(* The rows a request works on, now or later.                              *)
InHand(p) == rest[p] \cup {a \in {held[p]} : a # NoRow}

(* Whatever races with the checks of create and update, an apiary, stored  *)
(* or in hand, names at most MaxMediaAttachments files, and never another  *)
(* user's.                                                                 *)
ImagesAdmissible ==
    /\ \A i \in Present(apiaries) : Admissible(apiaries[i], media)
    /\ \A p \in Proc : \A a \in InHand(p) : Admissible(a, media)

(* No request ever has another user's row in hand, be it one left over     *)
(* from the request before, ...                                            *)
OwnRowsOnly ==
    \A p \in Proc : /\ \A a \in InHand(p) : a.user = req[p].user
                    /\ pc[p] = "idle" => InHand(p) = {}

(* ... and a row changes only by a step of a request of the user who owned *)
(* it before the step and owns it after (README, Ownership).               *)
Moved(p) == pc[p] # "idle" /\ pc'[p] # pc[p]
OwnWrites ==
    [][\A i \in ApiaryId : apiaries'[i] # apiaries[i] =>
         \E p \in Proc :
            /\ Moved(p)
            /\ apiaries[i] # NoRow => apiaries[i].user = req[p].user
            /\ apiaries'[i] # NoRow => apiaries'[i].user = req[p].user]_vars

-----------------------------------------------------------------------------
(* Writability.  An edit reaches the table only while its apiary may be    *)
(* edited: its owner has Pro, or it is one of the oldest FreeMaxApiaries   *)
(* (the comment at the end of Service.Update).                             *)
MayEdit(t, u, i) == \/ entitlement[u] # EntitlementFree
                    \/ i \in WritableIDs(t, u, FreeMaxApiaries)
EditsWritable ==
    [][\A i \in Present(apiaries) :
         apiaries'[i] \notin {apiaries[i], NoRow} => MayEdit(apiaries, apiaries[i].user, i)]_vars

(* An apiary just created may be edited, as the answer to the create says  *)
(* (the comment at the end of Service.Create).                             *)
CreatedWritable ==
    [][\A i \in ApiaryId \ Present(apiaries) :
         apiaries'[i] # NoRow => MayEdit(apiaries', apiaries'[i].user, i)]_vars

(* An update without images leaves the images of its row as they are.      *)
NilImagesUntouched ==
    [][\A p \in Proc : Moved(p) /\ req[p].kind = "update" /\ req[p].images = Nil =>
         \A i \in Present(apiaries) :
            apiaries'[i] # NoRow => apiaries'[i].images = apiaries[i].images]_vars

-----------------------------------------------------------------------------
(* Deleting.  The cascade removes a row only when its hives and its files  *)
(* are gone, so nothing is left that the row was the last reference to     *)
(* (Repository.HardDelete).                                                *)
RemovedBy(p) == {i \in Present(apiaries) : pc[p] = "cascadeRow" /\ apiaries'[i] = NoRow}
HivesGoFirst ==
    [][\A p \in Proc : Moved(p) => RemovedBy(p) \cap hives = {}]_vars
FilesGoFirst ==
    [][\A p \in Proc : Moved(p) =>
         \A i \in RemovedBy(p) : \A m \in apiaries[i].images : media[m] = NoUser]_vars

(* A delete that ends without a warning leaves no reminder of its apiary,  *)
(* not even one created between its first cleanup and the delete of the    *)
(* row (the second cleanup of Handler.Delete).                             *)
RemindersSwept ==
    \A p \in Proc : pc[p] = "reply" /\ out[p] = "Deleted" => req[p].id \notin reminders

(* An account delete that succeeds leaves the user without rows, and in    *)
(* particular without soft-deleted ones.                                   *)
AccountSwept ==
    [][\A p \in Proc :
         out[p] = "none" /\ out'[p] \in {"DeletedAll", "UserDeleted"} =>
            RowsOf(apiaries', req[p].user) = {}]_vars

-----------------------------------------------------------------------------
(* What it all amounts to.  The table and the answers are those of a store *)
(* that serves each request in one instant: an effect happens once and as  *)
(* asked, nothing happens after a refusal, and every definite answer, the  *)
(* 404 to a delete sent again included, was true when it was decided.      *)
Store == INSTANCE ApiaryStore WITH
             rows <- apiaries, asked <- req, answer <- out,
             Initial <- {s.apiaries : s \in Seed}, Stamp <- 0..MaxClock
Implements == Store!StoreSpec

-----------------------------------------------------------------------------
(* Every request is answered: no create waits for ever for the advisory    *)
(* lock, a connection or an uncommitted name.                              *)
Responds == \A p \in Proc : pc[p] # "idle" ~> pc[p] = "idle"

(* An account delete that is repeated empties the account in the end, in   *)
(* spite of failed calls, lost answers, crashes and deletes beside it: at  *)
(* no point has the cascade removed a row that it would still need to find *)
(* the hives and files under it (the order of deleteCascade, the           *)
(* soft-deleted rows of ListAllByUser).  For instances in which every file *)
(* is in a row.  A reminder added while the row goes may stay (README).    *)
Emptied == Present(apiaries) = {} /\ hives = {} /\ \A m \in Media : media[m] = NoUser
AccountEmptied == <>[]Emptied
=============================================================================
