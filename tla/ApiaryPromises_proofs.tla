------------------------ MODULE ApiaryPromises_proofs ------------------------
(***************************************************************************)
(* What can break the promises of the service, and that nothing else can,  *)
(* for every number of requests in flight.                                 *)
(*                                                                         *)
(* Nothing locks an apiary or an account while a request works on it, so   *)
(* several promises hold only as long as nobody interferes.  Each is       *)
(* proved twice.  First without any hypothesis, of the annotated service   *)
(* (MSpec): where the promise is broken, one named thing came in between   *)
(* two named calls of the request.  Then, of the service itself (Spec),    *)
(* under the hypothesis that this thing does not happen: the promise.      *)
(*                                                                         *)
(* The invariants speak of requests in flight: what a request has not yet  *)
(* dealt with, past the call that dealt with it, it has met since.         *)
(***************************************************************************)
EXTENDS ApiaryStore_proofs, ApiaryMeanwhile

(* Every part of the invariant holds in every state, whatever the calls of *)
(* the requests in flight do.                                              *)
THEOREM ServiceInvHolds == Spec => []ServiceInv
<1>1. /\ TypeOK /\ QuotaInv /\ UniqueActiveNames /\ OwnRowsOnly /\ ImagesAdmissible /\ StaysRemoved
      /\ Linked
      => ServiceInv
  BY DEF ServiceInv
<1> QED
  BY <1>1, TypeCorrect, QuotaInductive, NamesUnique, OwnRowsHeld, ImagesStayAdmissible,
     RemovedForGood, LinkedHolds, PTL

(* An annotated step is a step of the service; what a request has met it   *)
(* remembers, and it meets what comes in between in its windows.           *)
LEMMA Annotated == [MNext]_mvars => [Next]_vars
BY DEF MNext, mvars

LEMMA MeanwhileInv == MSpec => []ServiceInv
<1>1. MInit => Init
  BY DEF MInit
<1>2. [MNext]_mvars => [Next]_vars
  BY Annotated
<1> QED
  BY <1>1, <1>2, ServiceInvHolds, PTL DEF MSpec, Spec

LEMMA Remembered ==
    ASSUME [MNext]_mvars, NEW p \in Proc, pc'[p] # "idle", NEW kind, NEW i,
           Met(p, kind, i) \/ (~UNCHANGED vars /\ <<kind, i>> \in Between(p))
    PROVE  Met(p, kind, i)'
BY DEF MNext, mvars, Met

LEMMA Fact == ASSUME NEW kind, NEW S, NEW i \in S PROVE <<kind, i>> \in Facts(kind, S)
BY DEF Facts

(* A hive or a reminder that comes too late is recorded.                   *)
LEMMA HiveMet ==
    ASSUME [MNext]_mvars, NEW p \in Proc, pc'[p] # "idle", pc[p] \in PastHives,
           NEW i \in hives' \ hives, i = held[p].id
    PROVE  Met(p, "hive", i)'
<1>1. <<"hive", i>> \in Between(p)
  BY Fact DEF Between
<1> QED
  BY <1>1, Remembered DEF vars, others

LEMMA ReminderMet ==
    ASSUME [MNext]_mvars, NEW p \in Proc, pc'[p] # "idle", pc[p] \in PastReminders,
           NEW i \in reminders' \ reminders, i = held[p].id
    PROVE  Met(p, "reminder", i)'
<1>1. <<"reminder", i>> \in Between(p)
  BY Fact DEF Between
<1> QED
  BY <1>1, Remembered DEF vars, others

(* Only a delete enters the cascade or moves on in it.                     *)
LEMMA IntoCascade ==
    ASSUME TypeOK, NEW p \in Proc, Receive(p) \/ Step(p), pc'[p] \in Cascading
    PROVE  DeleteStep(p)
<1> USE DEF TypeOK, Goto, Finish, ThenFinish, Lost, FailTx, Cascading
<1>1. CASE Receive(p)
  BY <1>1, RequestFields DEF Receive, FirstCallOf, Kind
<1>2. CASE CreateStep(p)
  BY <1>2 DEF CreateStep, CreateEntitlement, CreateCount, CreateVerify, CreateUnlimited, TxBegin,
              TxLock, TxCount, TxInsert, TxCommit, TxRollback
<1>3. CASE UpdateStep(p)
  BY <1>3 DEF UpdateStep, UpdateGet, UpdateEntitlement, UpdateWritable, UpdateVerify, UpdateWrite
<1>4. CASE ReadStep(p)
  BY <1>4 DEF ReadStep, GetRow, GetPlan, GetWritable, WritablePlan, WritableApiaryID
<1>5. CASE CallFails(p) \/ Reply(p)
  BY <1>5 DEF CallFails, Reply
<1> QED
  BY <1>1, <1>2, <1>3, <1>4, <1>5 DEF Step

-----------------------------------------------------------------------------
(* Hives. *)

(* Past the deletion of its hives, and of its reminders, an apiary has     *)
(* those that have been added since.                                       *)
LEMMA PastFrom ==
    ASSUME TypeOK, [Next]_vars, NEW p \in Proc, pc'[p] \in PastHives
    PROVE  /\ held'[p] = held[p]
           /\ pc[p] \in PastHives \/ held[p].id \notin hives'
           /\ pc'[p] \in PastReminders => pc[p] \in PastReminders \/ held[p].id \notin reminders'
<1> USE DEF PastHives, PastReminders
<1>1. CASE pc'[p] = pc[p] /\ held'[p] = held[p]
  BY <1>1
<1>2. CASE Receive(p) \/ Step(p)
  <2>1. DeleteStep(p)
    BY <1>2, IntoCascade DEF Cascading
  <2>2. CASE CascadeHives(p)
    BY <2>2 DEF CascadeHives, DeleteByApiary, ThenGoto, Goto, Lost, Finish, AfterHives, locals, TypeOK
  <2>3. CASE CascadeMedia(p)
    BY <2>3 DEF CascadeMedia, ThenGoto, Goto, Lost, Finish, locals, TypeOK
  <2>4. CASE CascadeReminders(p)
    BY <2>4 DEF CascadeReminders, CleanupReminders, locals
  <2> QED
    BY <2>1, <2>2, <2>3, <2>4 DEF DeleteStep, DeleteGet, DeleteAllList, CascadeRow, AfterRow,
                        NextApiary, Cleanup, DeleteUserData, ThenFinish, Finish, Goto, Lost, TypeOK
<1>3. ASSUME NEW q \in Proc \ {p}, Receive(q) \/ Step(q)
      PROVE  pc'[p] = pc[p] /\ held'[p] = held[p]
  BY <1>3, StepWrites DEF Writes, Alone, TypeOK
<1>4. CASE ExternalStep
  BY <1>1, <1>4 DEF ExternalStep, SubscriptionChanges, MediaDeleted, HiveAdded, ExistsAnswered,
                    ReminderAdded, locals
<1>5. CASE Crash
  BY <1>5 DEF Crash
<1> QED
  BY <1>1, <1>2, <1>3, <1>4, <1>5 DEF Next, vars, locals

(* The row that a step of the cascade removes is the one in hand.          *)
LEMMA RemovedRow ==
    ASSUME TypeOK, [Next]_vars, NEW p \in Proc, Moved(p), NEW i \in RemovedBy(p)
    PROVE  pc[p] = "cascadeRow" /\ i = held[p].id /\ i \in Present(apiaries)
<1>1. pc[p] = "cascadeRow" /\ i \in Present(apiaries) /\ apiaries' # apiaries /\ pc'[p] # pc[p]
  BY NoRowAssumption DEF RemovedBy, Present, Moved
<1>2. Receive(p) \/ Step(p)
  <2>1. PICK q \in Proc : Receive(q) \/ Step(q)
    BY <1>1 DEF Next, ExternalStep, SubscriptionChanges, MediaDeleted, HiveAdded, ExistsAnswered,
                ReminderAdded, Crash, vars, database
  <2>2. q = p
    BY <1>1, <2>1, StepWrites DEF Writes, Alone, TypeOK
  <2> QED
    BY <2>1, <2>2
<1>3. CascadeRow(p)
  <2>1. ~(Receive(p) \/ CallFails(p) \/ Reply(p))
    BY <1>1 DEF Receive, CallFails, Reply, database
  <2>2. ~CreateStep(p)
    BY <1>1 DEF CreateStep, CreateEntitlement, CreateCount, CreateVerify, CreateUnlimited, TxBegin,
                TxLock, TxCount, TxInsert, TxCommit, TxRollback
  <2>3. ~UpdateStep(p) /\ ~ReadStep(p)
    BY <1>1 DEF UpdateStep, UpdateGet, UpdateEntitlement, UpdateWritable, UpdateVerify, UpdateWrite,
                ReadStep, GetRow, GetPlan, GetWritable, WritablePlan, WritableApiaryID
  <2> QED
    BY <1>1, <1>2, <2>1, <2>2, <2>3
       DEF Step, DeleteStep, DeleteGet, DeleteAllList, CascadeHives, CascadeMedia, CascadeReminders,
           Cleanup, DeleteUserData
<1> QED
  BY <1>1, <1>3 DEF CascadeRow, DeleteRows, RemovedBy, Present

HivesMet ==
    \A p \in Proc : pc[p] \in PastHives /\ held[p].id \in hives => Met(p, "hive", held[p].id)
RemindersMet ==
    \A p \in Proc : pc[p] \in PastReminders /\ held[p].id \in reminders =>
                        Met(p, "reminder", held[p].id)

(* What is left past its cleanup has been met since, after every step too. *)
LEMMA HivesMetNext ==
    TypeOK /\ HivesMet /\ RemindersMet /\ [MNext]_mvars => HivesMet' /\ RemindersMet'
<1> SUFFICES ASSUME TypeOK, HivesMet, RemindersMet, [MNext]_mvars,
                    NEW p \in Proc, pc'[p] \in PastHives, NEW i, i = held'[p].id
             PROVE  /\ i \in hives' => Met(p, "hive", i)'
                    /\ pc'[p] \in PastReminders /\ i \in reminders' => Met(p, "reminder", i)'
  BY DEF HivesMet, RemindersMet, PastHives, PastReminders
<1>1. [Next]_vars /\ pc'[p] # "idle"
  BY Annotated DEF PastHives
<1>2. held'[p] = held[p]
  BY <1>1, PastFrom
<1>3. ASSUME i \in hives' PROVE Met(p, "hive", i)'
  <2>1. pc[p] \in PastHives
    BY <1>1, <1>2, <1>3, PastFrom
  <2>2. i \in hives => Met(p, "hive", i)
    BY <1>2, <2>1 DEF HivesMet
  <2> QED
    BY <1>1, <1>2, <1>3, <2>1, <2>2, HiveMet, Remembered
<1>4. ASSUME pc'[p] \in PastReminders, i \in reminders' PROVE Met(p, "reminder", i)'
  <2>1. pc[p] \in PastReminders
    BY <1>1, <1>2, <1>4, PastFrom
  <2>2. i \in reminders => Met(p, "reminder", i)
    BY <1>2, <2>1 DEF RemindersMet
  <2> QED
    BY <1>1, <1>2, <1>4, <2>1, <2>2, ReminderMet, Remembered
<1> QED
  BY <1>3, <1>4

LEMMA HivesMetInit == MInit => HivesMet /\ RemindersMet
BY DEF MInit, Init, HivesMet, RemindersMet, PastHives, PastReminders

(* Whatever else happens, a row goes while its apiary has hives only if    *)
(* hive-service added one after the cascade had deleted them.              *)
THEOREM HivesLeftAreNew == MSpec => OnlyNewHives
<1> DEFINE Met1 == \A p \in Proc : Moved(p) =>
                       \A i \in RemovedBy(p) \cap hives : Met(p, "hive", i)
<1>1. TypeOK /\ HivesMet /\ [MNext]_mvars => [Met1]_mvars
  BY Annotated, RemovedRow DEF HivesMet, PastHives
<1> QED
  BY <1>1, HivesMetInit, HivesMetNext, MeanwhileInv, PTL DEF MSpec, OnlyNewHives, ServiceInv

(* It goes while its apiary has reminders only if one was added between    *)
(* their cleanup and the delete of the row.                                *)
THEOREM RemindersLeftAreNew == MSpec => OnlyNewReminders
<1> DEFINE Met1 == \A p \in Proc : Moved(p) =>
                       \A i \in RemovedBy(p) \cap reminders : Met(p, "reminder", i)
<1>1. TypeOK /\ RemindersMet /\ [MNext]_mvars => [Met1]_mvars
  BY Annotated, RemovedRow DEF RemindersMet, PastReminders
<1> QED
  BY <1>1, HivesMetInit, HivesMetNext, MeanwhileInv, PTL DEF MSpec, OnlyNewReminders, ServiceInv

(* Unless hive-service adds hives, those of an apiary are gone once the    *)
(* cascade is past them.                                                   *)
HivesOnlyGo == hives' \subseteq hives
HivesGone == \A p \in Proc : pc[p] \in PastHives => held[p].id \notin hives

(* Without hive-service adding any, hives only go.                         *)
LEMMA HivesGo == TypeOK /\ "hive" \notin Events /\ [Next]_vars => HivesOnlyGo
<1> SUFFICES ASSUME TypeOK, "hive" \notin Events, [Next]_vars PROVE HivesOnlyGo
  OBVIOUS
<1>1. CASE UNCHANGED hives
  BY <1>1 DEF HivesOnlyGo
<1>2. ASSUME NEW p \in Proc, Receive(p) \/ Step(p) PROVE HivesOnlyGo
  <2>1. CASE CascadeHives(p)
    BY <2>1 DEF CascadeHives, DeleteByApiary, HivesOnlyGo
  <2>2. CASE Receive(p) \/ CallFails(p) \/ Reply(p)
    BY <1>1, <2>2 DEF Receive, CallFails, Reply, others
  <2>3. CASE CreateStep(p)
    BY <1>1, <2>3 DEF CreateStep, CreateEntitlement, CreateCount, CreateVerify, CreateUnlimited,
                      TxBegin, TxLock, TxCount, TxInsert, TxCommit, TxRollback, others
  <2>4. CASE UpdateStep(p) \/ ReadStep(p)
    BY <1>1, <2>4 DEF UpdateStep, UpdateGet, UpdateEntitlement, UpdateWritable, UpdateVerify,
                      UpdateWrite, ReadStep, GetRow, GetPlan, GetWritable, WritablePlan,
                      WritableApiaryID, others
  <2>5. CASE DeleteStep(p)
    BY <1>1, <2>1, <2>5 DEF DeleteStep, DeleteGet, DeleteAllList, CascadeMedia, CascadeReminders,
                            CascadeRow, Cleanup, DeleteUserData, others
  <2> QED
    BY <1>2, <2>2, <2>3, <2>4, <2>5 DEF Step
<1>3. CASE ExternalStep
  BY <1>1, <1>3 DEF ExternalStep, SubscriptionChanges, MediaDeleted, HiveAdded, ExistsAnswered,
                    ReminderAdded
<1> QED
  BY <1>1, <1>2, <1>3 DEF Next, Crash, vars, others

LEMMA HivesGoneNext == TypeOK /\ HivesOnlyGo /\ HivesGone /\ [Next]_vars => HivesGone'
BY PastFrom DEF HivesGone, HivesOnlyGo

(* Unless it does, the cascade removes a row only when its hives are gone  *)
(* (the finding leaked_hive shows that it may).                            *)
THEOREM HivesRemovedFirst == "hive" \notin Events => (Spec => HivesGoFirst)
<1> SUFFICES ASSUME "hive" \notin Events PROVE Spec => HivesGoFirst
  OBVIOUS
<1> DEFINE First == \A p \in Proc : Moved(p) => RemovedBy(p) \cap hives = {}
<1>1. Init => HivesGone
  BY DEF Init, HivesGone, PastHives
<1>2. TypeOK /\ HivesGone /\ [Next]_vars => HivesGone'
  BY HivesGo, HivesGoneNext
<1>3. TypeOK /\ HivesGone /\ [Next]_vars => [First]_vars
  BY RemovedRow DEF HivesGone, PastHives
<1> QED
  BY <1>1, <1>2, <1>3, TypeCorrect, PTL DEF Spec, HivesGoFirst

-----------------------------------------------------------------------------
(* Files. *)

(* A row in hand still has the files that its apiary has, unless an update *)
(* changes them.                                                           *)
Depicted(a) ==
    \/ a.id \in removed
    \/ a.id \in Present(apiaries) /\ apiaries[a.id].images = a.images

(* A row in hand agrees with the table on its photos until the table       *)
(* changes them.                                                           *)
LEMMA DepictedOn ==
    ASSUME ServiceInv, [Next]_vars, NEW a, Depicted(a), a.id \notin ImagesChanged
    PROVE  Depicted(a)'
<1>0. TypeOK /\ QuotaInv
  BY DEF ServiceInv
<1>1. removed \subseteq removed' /\ Present(apiaries) \subseteq Present(apiaries') \cup removed'
  <2>1. CASE UNCHANGED <<apiaries, removed>>
    BY <2>1
  <2>2. ASSUME NEW p \in Proc, Receive(p) \/ Step(p)
        PROVE  /\ removed \subseteq removed'
               /\ Present(apiaries) \subseteq Present(apiaries') \cup removed'
    <3>1. CASE NoWrite(p)
      BY <3>1 DEF NoWrite
    <3>2. CASE Inserts(p)
      BY <1>0, <3>2, InsertFresh, InsertRows DEF Inserts, Inserting
    <3>3. CASE Edits(p)
      BY <1>0, <3>3, HoldsRowType, UpdateRows DEF Edits, HoldsRow
    <3>4. ASSUME NEW ids \in SUBSET ApiaryId, Deletes(p, ids)
          PROVE  /\ removed \subseteq removed'
                 /\ Present(apiaries) \subseteq Present(apiaries') \cup removed'
      BY <3>4, DeletedRows DEF Deletes
    <3> QED
      BY <1>0, <2>2, <3>1, <3>2, <3>3, <3>4, StepWrites DEF Writes
  <2>3. CASE ExternalStep \/ Crash
    BY <2>1, <2>3 DEF ExternalStep, SubscriptionChanges, MediaDeleted, HiveAdded, ExistsAnswered,
                      ReminderAdded, Crash, database
  <2> QED
    BY <2>1, <2>2, <2>3 DEF Next, vars, database
<1> QED
  BY <1>1 DEF Depicted, ImagesChanged

(* Only the calls of an update lead to a call that edits.                  *)
LEMMA IntoEditing ==
    ASSUME TypeOK, NEW p \in Proc, Receive(p) \/ Step(p), pc'[p] \in Editing
    PROVE  UpdateStep(p)
<1> USE DEF TypeOK, Goto, Finish, ThenGoto, ThenFinish, Lost, FailTx, Editing
<1>1. CASE Receive(p)
  BY <1>1, RequestFields DEF Receive, FirstCallOf, Kind
<1>2. CASE CreateStep(p)
  BY <1>2 DEF CreateStep, CreateEntitlement, CreateCount, CreateVerify, CreateUnlimited, TxBegin,
              TxLock, TxCount, TxInsert, TxCommit, TxRollback
<1>3. CASE DeleteStep(p)
  BY <1>3 DEF DeleteStep, DeleteGet, DeleteAllList, CascadeHives, CascadeMedia, CascadeReminders,
              CascadeRow, Cleanup, DeleteUserData, NextApiary, AfterRow, AfterHives
<1>4. CASE ReadStep(p)
  BY <1>4 DEF ReadStep, GetRow, GetPlan, GetWritable, WritablePlan, WritableApiaryID
<1>5. CASE CallFails(p) \/ Reply(p)
  BY <1>5 DEF CallFails, Reply
<1> QED
  BY <1>1, <1>2, <1>3, <1>4, <1>5 DEF Step

(* Rows read from the table have its files. *)
LEMMA TableDepicted ==
    ASSUME TypeOK, NEW u
    PROVE  /\ \A i : GetByID(apiaries, u, i) # NoRow => Depicted(GetByID(apiaries, u, i))
           /\ \A a \in ListAllByUser(apiaries, u) : Depicted(a)
BY DEF GetByID, Active, RowsOf, Present, ListAllByUser, Depicted, TypeOK, Table

(* What an update that names no images, or a delete, has in hand for its   *)
(* next call has the files it was read with.                               *)
LEMMA EditingFrom ==
    ASSUME ServiceInv, NEW p \in Proc, UpdateStep(p), req[p].images = Nil, pc'[p] \in Editing
    PROVE  \A a \in InHand(p)' :
               \/ Depicted(a) /\ UNCHANGED apiaries
               \/ /\ pc[p] \in Editing
                  /\ \E b \in InHand(p) : b.id = a.id /\ b.images = a.images
<1> USE DEF Editing
<1>0. TypeOK /\ Linked
  BY DEF ServiceInv
<1>1. CASE UpdateGet(p)
  <2>1. /\ rest'[p] = {} /\ held'[p] = GetByID(apiaries, req[p].user, req[p].id)
        /\ UNCHANGED apiaries
    BY <1>0, <1>1 DEF UpdateGet, TypeOK, Linked, LinkedAt, Followed, Cascading, database
  <2> QED
    BY <1>0, <2>1, TableDepicted DEF InHand
<1>2. CASE UpdateEntitlement(p) \/ UpdateWritable(p)
  BY <1>2 DEF UpdateEntitlement, UpdateWritable, InHand, locals
<1>3. CASE UpdateVerify(p)
  <2>1. pc[p] = "updateVerify" /\ UNCHANGED rest /\ held[p] \in InHand(p) /\ held[p] \in Row
    BY <1>0, <1>3 DEF UpdateVerify, TypeOK, HoldsRow, InHand
  <2>2. SetFields(p, held[p].images)
    BY <1>3 DEF UpdateVerify
  <2>3. held'[p].id = held[p].id /\ held'[p].images = held[p].images
    BY <1>0, <2>1, <2>2 DEF TypeOK, SetFields, Row
  <2> QED
    BY <2>1, <2>3 DEF InHand
<1>4. CASE UpdateWrite(p)
  BY <1>0, <1>4 DEF UpdateWrite, ThenFinish, Finish, Lost, TypeOK
<1> QED
  BY <1>1, <1>2, <1>3, <1>4 DEF UpdateStep

(* What the cascade has in hand it has just read, or had in hand before.   *)
LEMMA CascadeFrom ==
    ASSUME ServiceInv, NEW p \in Proc, DeleteStep(p), pc'[p] \in Cascading
    PROVE  \A a \in InHand(p)' :
               \/ Depicted(a) /\ UNCHANGED apiaries
               \/ pc[p] \in Cascading /\ a \in InHand(p)
<1>0. TypeOK /\ Linked
  BY DEF ServiceInv
<1>a. ASSUME NEW rows, NextApiary(p, rows) PROVE InHand(p)' \subseteq rows
  <2>1. ~Finish(p, "DeletedAll")
    BY <1>0 DEF Finish, TypeOK, Cascading
  <2> QED
    BY <1>0, <1>a, <2>1 DEF NextApiary, InHand, TypeOK
<1>1. CASE DeleteGet(p)
  <2>1. /\ rest'[p] = {} /\ held'[p] = GetByID(apiaries, req[p].user, req[p].id)
        /\ UNCHANGED apiaries
    BY <1>0, <1>1 DEF DeleteGet, TypeOK, Linked, LinkedAt, Followed, Cascading, database
  <2> QED
    BY <1>0, <2>1, TableDepicted DEF InHand
<1>2. CASE DeleteAllList(p)
  BY <1>0, <1>2, <1>a, TableDepicted DEF DeleteAllList, database
<1>3. CASE CascadeHives(p) \/ CascadeMedia(p) \/ CascadeReminders(p)
  BY <1>3 DEF CascadeHives, CascadeMedia, CascadeReminders, InHand, locals, Cascading
<1>4. CASE CascadeRow(p)
  <2>1. pc[p] \in Cascading
    BY <1>4 DEF CascadeRow, Cascading
  <2>2. UNCHANGED <<held, rest>> \/ NextApiary(p, rest[p])
    BY <1>4 DEF CascadeRow, AfterRow
  <2> QED
    BY <1>a, <2>1, <2>2 DEF InHand
<1>5. CASE Cleanup(p) \/ DeleteUserData(p)
  BY <1>0, <1>5 DEF Cleanup, DeleteUserData, ThenFinish, Finish, Lost, TypeOK, Cascading
<1> QED
  BY <1>1, <1>2, <1>3, <1>4, <1>5 DEF DeleteStep

(* Requests that rely on the files of the rows they have in hand.          *)
Relies(p) == pc[p] \in Cascading \/ (pc[p] \in Editing /\ req[p].images = Nil)

(* The same for every request that relies on the photos of a row in hand.  *)
LEMMA RowsFrom ==
    ASSUME ServiceInv, [Next]_vars, NEW p \in Proc, Relies(p)', NEW a \in InHand(p)'
    PROVE  \/ Depicted(a) /\ UNCHANGED apiaries
           \/ Relies(p) /\ \E b \in InHand(p) : b.id = a.id /\ b.images = a.images
<1>0. TypeOK
  BY DEF ServiceInv
<1>1. CASE pc'[p] = pc[p] /\ req'[p] = req[p] /\ held'[p] = held[p] /\ rest'[p] = rest[p]
  BY <1>1 DEF Relies, InHand
<1>2. CASE Receive(p) \/ Step(p)
  <2>1. CASE pc'[p] \in Cascading
    BY <1>0, <1>2, <2>1, IntoCascade, CascadeFrom DEF Relies
  <2>2. CASE pc'[p] \in Editing
    <3>1. UpdateStep(p)
      BY <1>0, <1>2, <2>2, IntoEditing
    <3>2. UNCHANGED req
      BY <3>1 DEF UpdateStep, UpdateGet, UpdateEntitlement, UpdateWritable, UpdateVerify,
                  UpdateWrite, locals
    <3>3. pc'[p] \notin Cascading
      BY <2>2 DEF Editing, Cascading
    <3>4. req[p].images = Nil
      BY <3>2, <3>3 DEF Relies
    <3> QED
      BY <2>2, <3>1, <3>4, EditingFrom DEF Relies
  <2> QED
    BY <2>1, <2>2 DEF Relies
<1>3. ASSUME NEW q \in Proc \ {p}, Receive(q) \/ Step(q)
      PROVE  pc'[p] = pc[p] /\ req'[p] = req[p] /\ held'[p] = held[p] /\ rest'[p] = rest[p]
  BY <1>0, <1>3, StepWrites DEF Writes, Alone, TypeOK
<1>4. CASE ExternalStep
  BY <1>1, <1>4 DEF ExternalStep, SubscriptionChanges, MediaDeleted, HiveAdded, ExistsAnswered,
                    ReminderAdded, locals
<1>5. CASE Crash
  BY <1>5 DEF Crash, Relies, Cascading, Editing
<1> QED
  BY <1>1, <1>2, <1>3, <1>4, <1>5 DEF Next, vars, locals

(* Only the write of an update changes the images of a row.                *)
LEMMA ChangedBy ==
    ASSUME ServiceInv, [Next]_vars, NEW i \in ImagesChanged
    PROVE  \E p \in Proc : /\ Writes(p) /\ pc[p] = "updateWrite" /\ i = held[p].id
                          /\ held[p] \in InHand(p) /\ ~Depicted(held[p])
<1>0. TypeOK /\ QuotaInv /\ StaysRemoved
  BY DEF ServiceInv
<1>1. PICK p \in Proc : Receive(p) \/ Step(p)
  BY DEF Next, ExternalStep, SubscriptionChanges, MediaDeleted, HiveAdded, ExistsAnswered,
         ReminderAdded, Crash, vars, database, ImagesChanged
<1>2. Writes(p)
  BY <1>0, <1>1, StepWrites
<1>3. Edits(p)
  <2>1. ~NoWrite(p)
    BY DEF NoWrite, ImagesChanged
  <2>2. ~Inserts(p)
    BY <1>0, InsertFresh, InsertRows DEF Inserts, Inserting, ImagesChanged, Present
  <2>3. ~\E ids \in SUBSET ApiaryId : Deletes(p, ids)
    BY DeletedRows DEF Deletes, ImagesChanged, Present
  <2> QED
    BY <1>2, <2>1, <2>2, <2>3 DEF Writes
<1>4. /\ held[p] \in Row /\ held[p].id \in Present(apiaries)
      /\ apiaries'[held[p].id].images = held[p].images
      /\ \A j \in ApiaryId \ {held[p].id} : apiaries'[j] = apiaries[j]
  BY <1>0, <1>3, HoldsRowType, UpdateRows DEF Edits, HoldsRow
<1>5. i = held[p].id
  BY <1>4 DEF ImagesChanged, Present
<1> QED
  BY <1>0, <1>2, <1>3, <1>4, <1>5, NoRowAssumption
     DEF Edits, InHand, Depicted, StaysRemoved, ImagesChanged

PhotosMet ==
    \A p \in Proc : Relies(p) => \A a \in InHand(p) : Depicted(a) \/ Met(p, "photo", a.id)

(* What ApiaryMeanwhile records, kind by kind: first a change of photos.   *)
LEMMA PhotoMet ==
    ASSUME [MNext]_mvars, NEW p \in Proc, pc'[p] # "idle", Relies(p),
           NEW i \in ImagesChanged \cap InHandIds(p)
    PROVE  Met(p, "photo", i)'
<1>1. <<"photo", i>> \in Between(p)
  BY Fact DEF Between, Relies
<1> QED
  BY <1>1, Remembered DEF vars, database, ImagesChanged

LEMMA PhotosMetNext == ServiceInv /\ PhotosMet /\ [MNext]_mvars => PhotosMet'
<1> SUFFICES ASSUME ServiceInv, PhotosMet, [MNext]_mvars,
                    NEW p \in Proc, Relies(p)', NEW a \in InHand(p)'
             PROVE  Depicted(a)' \/ Met(p, "photo", a.id)'
  BY DEF PhotosMet
<1>0. [Next]_vars /\ pc'[p] # "idle"
  BY Annotated DEF Relies, Cascading, Editing
<1>1. CASE Depicted(a) /\ UNCHANGED apiaries
  BY <1>0, <1>1, DepictedOn DEF ImagesChanged
<1>2. CASE Relies(p) /\ \E b \in InHand(p) : b.id = a.id /\ b.images = a.images
  <2>1. a.id \in InHandIds(p) /\ (Depicted(a) \/ Met(p, "photo", a.id))
    BY <1>2 DEF PhotosMet, Depicted, InHandIds
  <2> QED
    BY <1>0, <1>2, <2>1, DepictedOn, PhotoMet, Remembered
<1> QED
  BY <1>0, <1>1, <1>2, RowsFrom

LEMMA PhotosMetInit == MInit => PhotosMet
BY DEF MInit, Init, PhotosMet, Relies, Cascading, Editing

(* Whatever else happens, an update that names no images changes those of  *)
(* its row only if another update did after it had read the row.           *)
THEOREM ImagesRaced == MSpec => OnlyRacingImages
<1> DEFINE Raced == \A p \in Proc : Moved(p) /\ req[p].kind = "update" /\ req[p].images = Nil =>
                        \A i \in ImagesChanged : Met(p, "photo", i)
<1>1. ServiceInv /\ PhotosMet /\ [MNext]_mvars => [Raced]_mvars
  <2> SUFFICES ASSUME ServiceInv, PhotosMet, [MNext]_mvars, NEW p \in Proc, Moved(p),
                      req[p].images = Nil, NEW i \in ImagesChanged
               PROVE  Met(p, "photo", i)
    OBVIOUS
  <2>1. PICK q \in Proc : /\ Writes(q) /\ pc[q] = "updateWrite" /\ i = held[q].id
                          /\ held[q] \in InHand(q) /\ ~Depicted(held[q])
    BY Annotated, ChangedBy
  <2>2. q = p
    BY <2>1 DEF Writes, Alone, Moved, ServiceInv, TypeOK
  <2> QED
    BY <2>1, <2>2 DEF PhotosMet, Relies, Editing
<1> QED
  BY <1>1, PhotosMetInit, PhotosMetNext, MeanwhileInv, PTL DEF MSpec, OnlyRacingImages

NoPhotoEdits == \A r \in Request : r.kind = "update" => r.images = Nil
PhotosKept == \A p \in Proc : Relies(p) => \A a \in InHand(p) : Depicted(a)

(* If no update names images, none changes any.                            *)
LEMMA PhotosKeptNext ==
    ServiceInv /\ NoPhotoEdits /\ PhotosKept /\ [Next]_vars => PhotosKept'
<1> SUFFICES ASSUME ServiceInv, NoPhotoEdits, PhotosKept, [Next]_vars PROVE PhotosKept'
  OBVIOUS
<1>1. ASSUME NEW i \in ImagesChanged PROVE FALSE
  <2>1. PICK p \in Proc : pc[p] = "updateWrite" /\ held[p] \in InHand(p) /\ ~Depicted(held[p])
    BY ChangedBy
  <2>2. req[p].images = Nil
    BY <2>1 DEF ServiceInv, TypeOK, Linked, LinkedAt, Routed, OnRoute, NoPhotoEdits, Inserting,
                Cascading
  <2> QED
    BY <2>1, <2>2 DEF PhotosKept, Relies, Editing
<1>2. ASSUME NEW p \in Proc, Relies(p)', NEW a \in InHand(p)' PROVE Depicted(a)'
  <2>1. Depicted(a)
    BY <1>2, RowsFrom DEF PhotosKept, Depicted
  <2> QED
    BY <1>1, <2>1, DepictedOn
<1> QED
  BY <1>1, <1>2 DEF PhotosKept

(* The files of a row in hand are gone before the cascade gets to its row.  *)
FilesGone ==
    \A p \in Proc : pc[p] \in {"cascadeReminders", "cascadeRow"} =>
                        \A m \in held[p].images : media[m] = NoUser

LEMMA FilesGoneNext == ServiceInv /\ FilesGone /\ [Next]_vars => FilesGone'
<1> SUFFICES ASSUME ServiceInv, FilesGone, [Next]_vars,
                    NEW p \in Proc, pc'[p] \in {"cascadeReminders", "cascadeRow"},
                    NEW m \in held'[p].images
             PROVE  media'[m] = NoUser
  BY DEF FilesGone
<1>0. TypeOK /\ FilesOnlyGo
  BY FilesGo DEF ServiceInv
<1>1. CASE pc'[p] = pc[p] /\ held'[p] = held[p]
  <2>1. media[m] = NoUser
    BY <1>1 DEF FilesGone
  <2>2. held[p] \in Row
    BY <1>0, <1>1, HoldsRowType DEF HoldsRow, Cascading
  <2> QED
    BY <1>0, <1>1, <2>1, <2>2 DEF FilesOnlyGo, Row
<1>2. CASE Receive(p) \/ Step(p)
  <2>1. DeleteStep(p)
    BY <1>0, <1>2, IntoCascade DEF Cascading
  <2>2. pc[p] \in Cascading => held[p] \in Row /\ held[p] \in InHand(p)
    BY <1>0, HoldsRowType, NoRowAssumption DEF HoldsRow, InHand
  <2>3. CASE CascadeHives(p)
    BY <1>0, <2>3 DEF CascadeHives, ThenGoto, Goto, Lost, Finish, AfterHives, locals, TypeOK
  <2>4. CASE CascadeMedia(p)
    <3>1. held[p] \in Row /\ held'[p] = held[p] /\ held[p].user = req[p].user
          /\ Admissible(held[p], media)
      BY <2>2, <2>4 DEF CascadeMedia, Cascading, locals, ServiceInv, OwnRowsOnly, ImagesAdmissible
    <3>2. m \in Media /\ media[m] \in {req[p].user, NoUser}
      BY <3>1 DEF Row, Admissible
    <3> QED
      BY <2>4, <3>1, <3>2 DEF CascadeMedia, DeleteByIDs
  <2>5. CASE CascadeReminders(p)
    BY <2>5 DEF CascadeReminders, locals, others, FilesGone
  <2> QED
    BY <1>0, <2>1, <2>3, <2>4, <2>5
       DEF DeleteStep, DeleteGet, DeleteAllList, CascadeRow, AfterRow, NextApiary, Cleanup,
           DeleteUserData, ThenFinish, Finish, Goto, Lost, TypeOK
<1>3. ASSUME NEW q \in Proc \ {p}, Receive(q) \/ Step(q)
      PROVE  pc'[p] = pc[p] /\ held'[p] = held[p]
  BY <1>0, <1>3, StepWrites DEF Writes, Alone, TypeOK
<1>4. CASE ExternalStep
  BY <1>1, <1>4 DEF ExternalStep, SubscriptionChanges, MediaDeleted, HiveAdded, ExistsAnswered,
                    ReminderAdded, locals
<1>5. CASE Crash
  BY <1>5 DEF Crash
<1> QED
  BY <1>1, <1>2, <1>3, <1>4, <1>5 DEF Next, vars, locals

(* The row that goes was in hand, and its files were deleted unless its    *)
(* photos are others by now.                                               *)
LEMMA RemovedFiles ==
    ASSUME ServiceInv, FilesGone, [Next]_vars, NEW p \in Proc, Moved(p), NEW i \in RemovedBy(p),
           \E m \in apiaries[i].images : media[m] # NoUser
    PROVE  Relies(p) /\ held[p] \in InHand(p) /\ held[p].id = i /\ ~Depicted(held[p])
<1>1. pc[p] = "cascadeRow" /\ i = held[p].id /\ i \in Present(apiaries)
  BY RemovedRow DEF ServiceInv
<1>2. held[p] \in InHand(p) /\ i \notin removed
  BY <1>1 DEF ServiceInv, TypeOK, HoldsRow, Cascading, InHand, StaysRemoved
<1> QED
  BY <1>1, <1>2 DEF FilesGone, Relies, Cascading, Depicted

(* Whatever else happens, a row goes while a file of it is left only if an *)
(* update put other photos into it after the delete had read it.           *)
THEOREM PhotosLeftAreNew == MSpec => OnlyNewPhotos
<1> DEFINE Met1 == \A p \in Proc : Moved(p) => \A i \in RemovedBy(p) :
                       (\E m \in apiaries[i].images : media[m] # NoUser) => Met(p, "photo", i)
<1>1. MInit => FilesGone
  BY DEF MInit, Init, FilesGone
<1>2. ServiceInv /\ FilesGone /\ [MNext]_mvars => FilesGone'
  BY Annotated, FilesGoneNext
<1>3. ServiceInv /\ PhotosMet /\ FilesGone /\ [MNext]_mvars => [Met1]_mvars
  BY Annotated, RemovedFiles DEF PhotosMet
<1> QED
  BY <1>1, <1>2, <1>3, PhotosMetInit, PhotosMetNext, MeanwhileInv, PTL DEF MSpec, OnlyNewPhotos

(* So the cascade removes a row only when all its files are gone, if no    *)
(* update names images.                                                    *)
THEOREM FilesRemovedFirst == NoPhotoEdits => (Spec => FilesGoFirst)
<1> SUFFICES ASSUME NoPhotoEdits PROVE Spec => FilesGoFirst
  OBVIOUS
<1> DEFINE First == \A p \in Proc : Moved(p) =>
                        \A i \in RemovedBy(p) : \A m \in apiaries[i].images : media[m] = NoUser
<1>1. Init => PhotosKept /\ FilesGone
  BY DEF Init, PhotosKept, FilesGone, Relies, Cascading, Editing
<1>2. ServiceInv /\ PhotosKept /\ FilesGone /\ [Next]_vars => PhotosKept' /\ FilesGone'
  BY PhotosKeptNext, FilesGoneNext
<1>3. ServiceInv /\ PhotosKept /\ FilesGone /\ [Next]_vars => [First]_vars
  BY RemovedFiles DEF PhotosKept
<1> QED
  BY <1>1, <1>2, <1>3, ServiceInvHolds, PTL DEF Spec, FilesGoFirst

-----------------------------------------------------------------------------
(* Accounts. *)

(* A row does not change hands, and nothing but a create makes a new one.  *)
LEMMA OwnersStay ==
    ASSUME ServiceInv, [Next]_vars, NEW i \in Present(apiaries) \cap Present(apiaries')
    PROVE  apiaries'[i].user = apiaries[i].user
<1>0. TypeOK /\ QuotaInv
  BY DEF ServiceInv
<1>1. CASE UNCHANGED apiaries
  BY <1>1
<1>2. ASSUME NEW p \in Proc, Receive(p) \/ Step(p) PROVE apiaries'[i].user = apiaries[i].user
  <2>1. CASE NoWrite(p)
    BY <2>1 DEF NoWrite
  <2>2. CASE Inserts(p)
    BY <1>0, <2>2, InsertFresh, InsertRows DEF Inserts, Inserting, Present
  <2>3. CASE Edits(p)
    <3>1. /\ apiaries'[held[p].id].user = apiaries[held[p].id].user
          /\ \A j \in ApiaryId \ {held[p].id} : apiaries'[j] = apiaries[j]
      BY <1>0, <2>3, HoldsRowType, UpdateRows DEF Edits, HoldsRow
    <3> QED
      BY <3>1 DEF Present
  <2>4. ASSUME NEW ids \in SUBSET ApiaryId, Deletes(p, ids) PROVE apiaries'[i].user = apiaries[i].user
    BY <2>4, DeletedRows DEF Deletes, Present
  <2> QED
    BY <1>0, <1>2, <2>1, <2>2, <2>3, <2>4, StepWrites DEF Writes
<1>3. CASE ExternalStep \/ Crash
  BY <1>1, <1>3 DEF ExternalStep, SubscriptionChanges, MediaDeleted, HiveAdded, ExistsAnswered,
                    ReminderAdded, Crash, database
<1> QED
  BY <1>1, <1>2, <1>3 DEF Next, vars, database

(* A new row is inserted by a request that had it in hand.                 *)
LEMMA InsertedBy ==
    ASSUME ServiceInv, [Next]_vars, NEW i \in Present(apiaries') \ Present(apiaries)
    PROVE  \E p \in Proc : Writes(p) /\ Inserts(p) /\ (Receive(p) \/ Step(p)) /\ i = held[p].id
<1>0. TypeOK /\ QuotaInv
  BY DEF ServiceInv
<1>1. PICK p \in Proc : Receive(p) \/ Step(p)
  BY DEF Next, ExternalStep, SubscriptionChanges, MediaDeleted, HiveAdded, ExistsAnswered,
         ReminderAdded, Crash, vars, database
<1>2. Writes(p)
  BY <1>0, <1>1, StepWrites
<1>3. ~NoWrite(p)
  BY DEF NoWrite
<1>4. ~Edits(p)
  BY <1>0, HoldsRowType, UpdateRows DEF Edits, HoldsRow
<1>5. ~\E ids \in SUBSET ApiaryId : Deletes(p, ids)
  BY DeletedRows DEF Deletes
<1>6. Inserts(p)
  BY <1>2, <1>3, <1>4, <1>5 DEF Writes
<1> QED
  BY <1>0, <1>1, <1>2, <1>6, InsertFresh, InsertRows DEF Inserts, Inserting

(* What a delete of the account has not in hand, it had not before, or it  *)
(* is new.                                                                 *)
Missed(p) == RowsOf(apiaries, req[p].user) \ InHandIds(p)
Sweeping(p) == pc[p] \in Cascading /\ req[p].kind = "deleteAll"

(* Where the loop of DeleteAllByUser goes on, it has the rows in hand that *)
(* it was given; where it ends there were none.                            *)
LEMMA LoopCovers ==
    ASSUME TypeOK, NEW p \in Proc, NEW rows \in SUBSET Row, NextApiary(p, rows)
    PROVE  \/ rows = {} /\ Finish(p, "DeletedAll")
           \/ {a.id : a \in rows} \subseteq InHandIds(p)' /\ pc'[p] = "cascadeHives" /\ UNCHANGED out
<1>1. ASSUME NEW a \in rows, held' = [held EXCEPT ![p] = a],
             rest' = [rest EXCEPT ![p] = rows \ {a}], Goto(p, "cascadeHives")
      PROVE  /\ {b.id : b \in rows} \subseteq InHandIds(p)'
             /\ pc'[p] = "cascadeHives" /\ UNCHANGED out
  <2>1. InHand(p)' = rows
    BY <1>1, NoRowAssumption DEF TypeOK, InHand
  <2> QED
    BY <1>1, <2>1 DEF TypeOK, InHandIds, Goto
<1> QED
  BY <1>1 DEF NextApiary

(* The list of an account covers its rows.                                 *)
LEMMA ListCovers ==
    ASSUME TypeOK, NEW u
    PROVE  /\ ListAllByUser(apiaries, u) \in SUBSET Row
           /\ RowsOf(apiaries, u) \subseteq {a.id : a \in ListAllByUser(apiaries, u)}
BY DEF ListAllByUser, RowsOf, Present, TypeOK, Table

(* The row that is deleted leaves those that the loop has still to visit.  *)
LEMMA RowLeaves ==
    ASSUME NEW p \in Proc, CascadeRow(p), held[p].id \in RowsOf(apiaries, req[p].user)
    PROVE  RowsOf(apiaries', req[p].user) \subseteq Missed(p) \cup {a.id : a \in rest[p]}
<1>1. RowsOf(apiaries', req[p].user) \subseteq RowsOf(apiaries, req[p].user) \ {held[p].id}
  BY DEF CascadeRow, DeleteRows, RowsOf, Present
<1>2. InHandIds(p) \subseteq {held[p].id} \cup {a.id : a \in rest[p]}
  BY DEF InHandIds, InHand
<1> QED
  BY <1>1, <1>2 DEF Missed

(* A row the sweep would miss it missed before, or was created just now.   *)
LEMMA MissedFrom ==
    ASSUME ServiceInv, [Next]_vars, NEW p \in Proc, Sweeping(p)', NEW i \in Missed(p)'
    PROVE  /\ Sweeping(p) /\ req'[p] = req[p]
           /\ i \in Missed(p) \cup NewRows(req[p].user)
<1>0. TypeOK /\ Linked /\ pc'[p] \in Cascading
  BY DEF ServiceInv, Sweeping
<1> USE DEF Sweeping, Missed
<1>1. CASE pc'[p] = pc[p] /\ req'[p] = req[p] /\ InHand(p)' = InHand(p)
  <2>1. ASSUME i \in Present(apiaries) PROVE i \in RowsOf(apiaries, req[p].user)
    BY <1>0, <1>1, <2>1, OwnersStay DEF RowsOf, Present
  <2> QED
    BY <1>1, <2>1 DEF InHandIds, NewRows
<1>2. CASE Receive(p) \/ Step(p)
  <2>1. DeleteStep(p)
    BY <1>0, <1>2, IntoCascade
  <2>2. CASE DeleteGet(p)
    BY <1>0, <2>2 DEF DeleteGet, Linked, LinkedAt, Routed, OnRoute, Inserting, Cascading
  <2>3. CASE DeleteAllList(p)
    <3>1. NextApiary(p, ListAllByUser(apiaries, req[p].user)) /\ UNCHANGED <<apiaries, req>>
      BY <2>3 DEF DeleteAllList, database
    <3>2. ~Finish(p, "DeletedAll")
      BY <1>0 DEF Finish, TypeOK, Cascading
    <3> QED
      BY <1>0, <3>1, <3>2, ListCovers, LoopCovers
  <2>4. CASE CascadeHives(p) \/ CascadeMedia(p) \/ CascadeReminders(p)
    <3>1. pc[p] \in Cascading /\ UNCHANGED <<apiaries, req>> /\ InHand(p)' = InHand(p)
      BY <2>4 DEF CascadeHives, CascadeMedia, CascadeReminders, InHand, locals, database, Cascading
    <3> QED
      BY <3>1 DEF InHandIds
  <2>5. CASE CascadeRow(p)
    <3>1. UNCHANGED req /\ ~Finish(p, "NotFound") /\ ~Lost(p) /\ ~Finish(p, "DeletedAll")
      BY <1>0, <2>5 DEF CascadeRow, Finish, Lost, TypeOK, Cascading
    <3>2. held[p].id \in RowsOf(apiaries, req[p].user) /\ NextApiary(p, rest[p])
      BY <2>5, <3>1 DEF CascadeRow, AfterRow
    <3>3. rest[p] \in SUBSET Row
      BY <1>0 DEF TypeOK
    <3>4. {a.id : a \in rest[p]} \subseteq InHandIds(p)'
      BY <1>0, <3>1, <3>2, <3>3, LoopCovers
    <3>5. RowsOf(apiaries', req[p].user) \subseteq Missed(p) \cup {a.id : a \in rest[p]}
      BY <2>5, <3>2, RowLeaves
    <3> QED
      BY <2>5, <3>1, <3>4, <3>5 DEF CascadeRow, Cascading
  <2>6. CASE Cleanup(p) \/ DeleteUserData(p)
    BY <1>0, <2>6 DEF Cleanup, DeleteUserData, ThenFinish, Finish, Lost, TypeOK, Cascading
  <2> QED
    BY <2>1, <2>2, <2>3, <2>4, <2>5, <2>6 DEF DeleteStep
<1>3. ASSUME NEW q \in Proc \ {p}, Receive(q) \/ Step(q)
      PROVE  pc'[p] = pc[p] /\ req'[p] = req[p] /\ InHand(p)' = InHand(p)
  BY <1>0, <1>3, StepWrites DEF Writes, Alone, TypeOK, InHand
<1>4. CASE ExternalStep
  BY <1>1, <1>4 DEF ExternalStep, SubscriptionChanges, MediaDeleted, HiveAdded, ExistsAnswered,
                    ReminderAdded, locals, InHand
<1>5. CASE Crash
  BY <1>5 DEF Crash, Cascading
<1> QED
  BY <1>1, <1>2, <1>3, <1>4, <1>5 DEF Next, vars, locals, InHand

(* Only a delete answers that an account is empty. *)
LEMMA SweepAnswer ==
    ASSUME ServiceInv, [Next]_vars, NEW p \in Proc,
           out[p] = "none", out'[p] \in {"DeletedAll", "UserDeleted"}
    PROVE  DeleteStep(p)
<1> USE DEF TypeOK, Goto, Finish, ThenFinish, Lost, FailTx
<1>0. TypeOK /\ QuotaInv /\ OwnRowsOnly /\ Linked
  BY DEF ServiceInv
<1>1. PICK q \in Proc : Receive(q) \/ Step(q)
  BY DEF Next, ExternalStep, SubscriptionChanges, MediaDeleted, HiveAdded, ExistsAnswered,
         ReminderAdded, Crash, vars
<1>2. CASE Receive(q) \/ CallFails(q) \/ Reply(q)
  BY <1>0, <1>2 DEF Receive, CallFails, Reply
<1>3. CASE CreateStep(q)
  BY <1>0, <1>3 DEF CreateStep, CreateEntitlement, CreateCount, CreateVerify, CreateUnlimited, TxBegin,
              TxLock, TxCount, TxInsert, TxCommit, TxRollback
<1>4. CASE UpdateStep(q)
  BY <1>0, <1>4 DEF UpdateStep, UpdateGet, UpdateEntitlement, UpdateWritable, UpdateVerify, UpdateWrite
<1>5. CASE ReadStep(q)
  BY <1>0, <1>5 DEF ReadStep, GetRow, GetPlan, GetWritable, WritablePlan, WritableApiaryID
<1>6. CASE DeleteStep(q)
  BY <1>0, <1>6, DeleteLinks DEF Links
<1> QED
  BY <1>1, <1>2, <1>3, <1>4, <1>5, <1>6 DEF Step

(* The rows a successful delete of the account leaves are those it missed. *)
LEMMA SweepLeaves ==
    ASSUME ServiceInv, [Next]_vars, NEW p \in Proc,
           out[p] = "none", out'[p] \in {"DeletedAll", "UserDeleted"},
           NEW i \in RowsOf(apiaries', req[p].user)
    PROVE  Sweeping(p) /\ i \in Missed(p)
<1>0. DeleteStep(p) /\ TypeOK /\ Linked
  BY SweepAnswer DEF ServiceInv
<1>1. CASE DeleteAllList(p)
  <2>1. NextApiary(p, ListAllByUser(apiaries, req[p].user)) /\ UNCHANGED apiaries /\ ~UNCHANGED out
    BY <1>1 DEF DeleteAllList, database
  <2> QED
    BY <1>0, <2>1, ListCovers, LoopCovers
<1>2. CASE CascadeRow(p)
  <2>1. ~Finish(p, "NotFound") /\ ~Lost(p) /\ ~UNCHANGED out
    BY <1>0 DEF Finish, Lost, TypeOK
  <2>2. /\ held[p].id \in RowsOf(apiaries, req[p].user)
        /\ req[p].kind # "delete" /\ NextApiary(p, rest[p])
    BY <1>2, <2>1 DEF CascadeRow, AfterRow, Goto
  <2>3. req[p].kind = "deleteAll" /\ pc[p] \in Cascading
    BY <1>0, <1>2, <2>2 DEF CascadeRow, Linked, LinkedAt, Routed, OnRoute, Inserting, Cascading
  <2>4. rest[p] = {}
    BY <1>0, <2>1, <2>2, LoopCovers DEF TypeOK
  <2> QED
    BY <1>2, <2>2, <2>3, <2>4, RowLeaves DEF Sweeping
<1>3. CASE DeleteUserData(p)
  BY <1>3 DEF DeleteUserData, DeleteRows, RowsOf, Present
<1>4. ~(DeleteGet(p) \/ CascadeHives(p) \/ CascadeMedia(p) \/ CascadeReminders(p) \/ Cleanup(p))
  BY <1>0 DEF DeleteGet, CascadeHives, CascadeMedia, CascadeReminders, Cleanup, ThenGoto, Goto,
              Lost, Finish, TypeOK
<1> QED
  BY <1>0, <1>1, <1>2, <1>3, <1>4 DEF DeleteStep

RowsMet == \A p \in Proc : Sweeping(p) => \A i \in Missed(p) : Met(p, "row", i)

(* A row that an account being deleted gains is recorded.                  *)
LEMMA RowMet ==
    ASSUME [MNext]_mvars, NEW p \in Proc, pc'[p] # "idle", pc[p] \in Cascading,
           NEW i \in NewRows(req[p].user)
    PROVE  Met(p, "row", i)'
<1>1. <<"row", i>> \in Between(p)
  BY Fact DEF Between, NewRows, RowsOf, Present
<1>2. ~UNCHANGED vars
  BY DEF vars, database, NewRows, RowsOf
<1> QED
  BY <1>1, <1>2, Remembered

LEMMA RowsMetNext == ServiceInv /\ RowsMet /\ [MNext]_mvars => RowsMet'
<1> SUFFICES ASSUME ServiceInv, RowsMet, [MNext]_mvars,
                    NEW p \in Proc, Sweeping(p)', NEW i \in Missed(p)'
             PROVE  Met(p, "row", i)'
  BY DEF RowsMet
<1>1. [Next]_vars /\ pc'[p] # "idle"
  BY Annotated DEF Sweeping, Cascading
<1>2. Sweeping(p) /\ i \in Missed(p) \cup NewRows(req[p].user)
  BY <1>1, MissedFrom
<1> QED
  BY <1>1, <1>2, RowMet, Remembered DEF RowsMet, Sweeping

(* Whatever else happens, every row that a successful delete of an account *)
(* leaves was created after it had listed the account.                     *)
THEOREM RowsLeftAreNew == MSpec => OnlyNewRows
<1> DEFINE New == \A p \in Proc : out[p] = "none" /\ out'[p] \in {"DeletedAll", "UserDeleted"} =>
                      \A i \in RowsOf(apiaries', req[p].user) : Met(p, "row", i)
<1>1. MInit => RowsMet
  BY DEF MInit, Init, RowsMet, Sweeping, Cascading
<1>2. ServiceInv /\ RowsMet /\ [MNext]_mvars => [New]_mvars
  BY Annotated, SweepLeaves DEF RowsMet
<1> QED
  BY <1>1, <1>2, RowsMetNext, MeanwhileInv, PTL DEF MSpec, OnlyNewRows

NoCreates == \A r \in Request : r.kind # "create"
NoneMissed == \A p \in Proc : Sweeping(p) => Missed(p) = {}

(* Without creates there are no new rows.                                  *)
LEMMA NoneNew ==
    ASSUME ServiceInv, NoCreates, [Next]_vars PROVE Present(apiaries') \subseteq Present(apiaries)
<1>1. ASSUME NEW p \in Proc, Inserts(p) PROVE FALSE
  BY <1>1 DEF ServiceInv, Inserts, TypeOK, Linked, LinkedAt, Routed, OnRoute, Inserting, Cascading,
              NoCreates
<1> QED
  BY <1>1, InsertedBy

(* A delete of the account, by its owner or by user-service, that succeeds *)
(* leaves the user without rows, if no create comes in between.            *)
THEOREM AccountsSwept == NoCreates => (Spec => AccountSwept)
<1> SUFFICES ASSUME NoCreates PROVE Spec => AccountSwept
  OBVIOUS
<1> DEFINE Sweeps == \A p \in Proc :
               out[p] = "none" /\ out'[p] \in {"DeletedAll", "UserDeleted"} =>
                   RowsOf(apiaries', req[p].user) = {}
<1>1. Init => NoneMissed
  BY DEF Init, NoneMissed, Sweeping, Cascading
<1>2. ServiceInv /\ NoneMissed /\ [Next]_vars => NoneMissed'
  BY NoneNew, MissedFrom DEF NoneMissed, NewRows, RowsOf
<1>3. ServiceInv /\ NoneMissed /\ [Next]_vars => [Sweeps]_vars
  BY SweepLeaves DEF NoneMissed
<1> QED
  BY <1>1, <1>2, <1>3, ServiceInvHolds, PTL DEF Spec, AccountSwept

-----------------------------------------------------------------------------
(* Reminders. *)

(* A reminder is only ever added to an apiary that exists or that an       *)
(* answer said to exist.                                                   *)
LEMMA RemindersGrow ==
    ASSUME TypeOK, [Next]_vars
    PROVE  /\ reminders' \subseteq reminders \cup Present(apiaries) \cup confirmed
           /\ "exists" \notin Events => confirmed' \subseteq confirmed
<1> DEFINE Grow == /\ reminders' \subseteq reminders \cup Present(apiaries) \cup confirmed
                   /\ "exists" \notin Events => confirmed' \subseteq confirmed
<1>1. CASE UNCHANGED <<confirmed, reminders>>
  BY <1>1
<1>2. ASSUME NEW p \in Proc, Receive(p) \/ Step(p) PROVE Grow
  <2>1. CASE CascadeReminders(p) \/ Cleanup(p)
    BY <2>1 DEF CascadeReminders, Cleanup, CleanupReminders
  <2>2. CASE Receive(p) \/ CallFails(p) \/ Reply(p)
    BY <1>1, <2>2 DEF Receive, CallFails, Reply, others
  <2>3. CASE CreateStep(p)
    BY <1>1, <2>3 DEF CreateStep, CreateEntitlement, CreateCount, CreateVerify, CreateUnlimited,
                      TxBegin, TxLock, TxCount, TxInsert, TxCommit, TxRollback, others
  <2>4. CASE UpdateStep(p) \/ ReadStep(p)
    BY <1>1, <2>4 DEF UpdateStep, UpdateGet, UpdateEntitlement, UpdateWritable, UpdateVerify,
                      UpdateWrite, ReadStep, GetRow, GetPlan, GetWritable, WritablePlan,
                      WritableApiaryID, others
  <2>5. CASE DeleteStep(p)
    BY <1>1, <2>1, <2>5 DEF DeleteStep, DeleteGet, DeleteAllList, CascadeHives, CascadeMedia,
                            CascadeRow, DeleteUserData, others
  <2> QED
    BY <1>2, <2>2, <2>3, <2>4, <2>5 DEF Step
<1>3. CASE ExternalStep
  BY <1>1, <1>3 DEF ExternalStep, SubscriptionChanges, MediaDeleted, HiveAdded, ExistsAnswered,
                    ReminderAdded, ActiveIds
<1> QED
  BY <1>1, <1>2, <1>3 DEF Next, Crash, vars, others

(* Only the second cleanup tells that an apiary was deleted, and no warning. *)
LEMMA DeletedAnswer ==
    ASSUME ServiceInv, AnswersInv, [Next]_vars, NEW p \in Proc, pc'[p] = "reply", out'[p] = "Deleted"
    PROVE  \/ pc[p] = "reply" /\ out[p] = "Deleted" /\ req'[p] = req[p]
           \/ Cleanup(p)
<1>0. TypeOK /\ QuotaInv /\ OwnRowsOnly /\ Linked
  BY DEF ServiceInv
<1>1. CASE UNCHANGED <<pc, req, out>>
  BY <1>1
<1>2. ASSUME NEW q \in Proc \ {p}, Receive(q) \/ Step(q)
      PROVE  pc'[p] = pc[p] /\ req'[p] = req[p] /\ out'[p] = out[p]
  <2>1. pc'[p] = pc[p] /\ req'[p] = req[p]
    BY <1>0, <1>2, StepWrites DEF Writes, Alone, TypeOK
  <2>2. \E o : out' = [out EXCEPT ![q] = o]
    <3>1. CASE Receive(q) \/ CallFails(q) \/ Reply(q)
      BY <1>0, <3>1 DEF Receive, CallFails, Reply, Goto, Finish, FailTx, TypeOK
    <3>2. CASE CreateStep(q) \/ UpdateStep(q) \/ ReadStep(q) \/ DeleteStep(q)
      <4>1. Links(q)
        BY <1>0, <3>2, CreateLinks, UpdateLinks, ReadLinks, DeleteLinks
      <4> QED
        BY <4>1 DEF Links
    <3> QED
      BY <1>2, <3>1, <3>2 DEF Step
  <2> QED
    BY <1>0, <2>1, <2>2 DEF TypeOK
<1> USE DEF TypeOK, Goto, Finish, ThenFinish, ThenGoto, Lost, FailTx
<1>3. CASE Receive(p) \/ CallFails(p) \/ Reply(p)
  BY <1>0, <1>3, RequestFields DEF Receive, CallFails, Reply, FirstCallOf, Kind
<1>4. CASE CreateStep(p)
  <2>1. CASE TxRollback(p)
    BY <1>0, <2>1 DEF TxRollback, AnswersInv, Failure
  <2> QED
    BY <1>0, <1>4, <2>1 DEF CreateStep, CreateEntitlement, CreateCount, CreateVerify,
                            CreateUnlimited, TxBegin, TxLock, TxCount, TxInsert, TxCommit
<1>5. CASE UpdateStep(p)
  BY <1>0, <1>5 DEF UpdateStep, UpdateGet, UpdateEntitlement, UpdateWritable, UpdateVerify, UpdateWrite
<1>6. CASE ReadStep(p)
  BY <1>0, <1>6 DEF ReadStep, GetRow, GetPlan, GetWritable, WritablePlan, WritableApiaryID
<1>7. CASE DeleteStep(p)
  <2>1. CASE DeleteGet(p) \/ CascadeHives(p) \/ CascadeMedia(p) \/ CascadeReminders(p)
    BY <1>0, <2>1 DEF DeleteGet, CascadeHives, AfterHives, CascadeMedia,
                             CascadeReminders
  <2>2. CASE DeleteAllList(p)
    BY <1>0, <2>2 DEF DeleteAllList, NextApiary
  <2>3. CASE CascadeRow(p)
    BY <1>0, <2>3 DEF CascadeRow, AfterRow, NextApiary
  <2>4. CASE DeleteUserData(p)
    BY <1>0, <2>4 DEF DeleteUserData
  <2> QED
    BY <1>7, <2>1, <2>2, <2>3, <2>4 DEF DeleteStep
<1>8. CASE ExternalStep
  BY <1>1, <1>8 DEF ExternalStep, SubscriptionChanges, MediaDeleted, HiveAdded, ExistsAnswered,
                    ReminderAdded, locals
<1>9. CASE Crash
  BY <1>9 DEF Crash
<1> QED
  BY <1>1, <1>2, <1>3, <1>4, <1>5, <1>6, <1>7, <1>8, <1>9 DEF Next, Step, vars, locals

(* A removed id stays removed.                                             *)
LEMMA RemovedGrow == ASSUME TypeOK, [Next]_vars PROVE removed \subseteq removed'
<1>1. ASSUME NEW q \in Proc, Receive(q) \/ Step(q) PROVE removed \subseteq removed'
  BY <1>1, StepWrites DEF Writes, NoWrite, Inserts, Edits, Deletes
<1>2. CASE ExternalStep
  BY <1>2 DEF ExternalStep, SubscriptionChanges, MediaDeleted, HiveAdded, ExistsAnswered,
              ReminderAdded, database
<1> QED
  BY <1>1, <1>2 DEF Next, Crash, vars, database

(* When a delete has ended without a warning its row is gone, and so are   *)
(* the reminders, but for one added since on an old answer.                *)
Deleted(p) == pc[p] = "reply" /\ out[p] = "Deleted"
RowGone == \A p \in Proc : Deleted(p) => req[p].id \in removed

(* A delete that has answered without a warning has just made its second   *)
(* cleanup, or the only reminder since comes from an old answer.           *)
LEMMA DeletedFrom ==
    ASSUME ServiceInv, AnswersInv, RowGone, [Next]_vars, NEW p \in Proc, Deleted(p)'
    PROVE  /\ req'[p] = req[p] /\ req[p].id \in removed'
           /\ \/ req[p].id \notin reminders'
              \/ /\ Deleted(p)
                 /\ req[p].id \in reminders \/ req[p].id \in (reminders' \ reminders) \cap confirmed
<1>0. TypeOK /\ Linked /\ StaysRemoved
  BY DEF ServiceInv
<1>1. CASE pc[p] = "reply" /\ out[p] = "Deleted" /\ req'[p] = req[p]
  <2>1. req[p].id \in removed
    BY <1>1 DEF RowGone, Deleted
  <2> QED
    BY <1>0, <1>1, <2>1, RemovedGrow, RemindersGrow DEF StaysRemoved, Deleted
<1>2. CASE Cleanup(p)
  <2>1. req'[p] = req[p] /\ pc[p] = "cleanup" /\ CleanupReminders(held[p].id) /\ UNCHANGED removed
    BY <1>0, <1>2 DEF Cleanup, Finish, locals, database, TypeOK, Deleted
  <2>2. req[p].id \in removed /\ held[p].id = req[p].id
    BY <1>0, <2>1 DEF Linked, LinkedAt, Routed, OnRoute, Followed, AsAsked, HoldsRow, Cascading,
                      Inserting
  <2> QED
    BY <2>1, <2>2 DEF CleanupReminders
<1> QED
  BY <1>1, <1>2, DeletedAnswer DEF Deleted

LEMMA RowGoneNext == ServiceInv /\ AnswersInv /\ RowGone /\ [Next]_vars => RowGone'
BY DeletedFrom DEF RowGone

LEMMA DeletedInit == Init => AnswersInv /\ RowGone /\ RemindersSwept
BY AnswersInit DEF Init, RowGone, Deleted, RemindersSwept

(* A reminder added on an old answer is recorded.                          *)
LEMMA StaleMet ==
    ASSUME [MNext]_mvars, NEW p \in Proc, pc'[p] # "idle", Deleted(p),
           NEW i \in (reminders' \ reminders) \cap confirmed, i = req[p].id
    PROVE  Met(p, "stale", i)'
<1>1. <<"stale", i>> \in Between(p)
  BY Fact DEF Between, Deleted
<1> QED
  BY <1>1, Remembered DEF vars, others

(* So a reminder that is there has been recorded.                          *)
LEMMA StaleNext ==
    ServiceInv /\ AnswersInv /\ RowGone /\ OnlyStaleReminders /\ [MNext]_mvars => OnlyStaleReminders'
<1> SUFFICES ASSUME ServiceInv, AnswersInv, RowGone, OnlyStaleReminders, [MNext]_mvars,
                    NEW p \in Proc, Deleted(p)', NEW i, i = req'[p].id, i \in reminders'
             PROVE  Met(p, "stale", i)'
  BY DEF OnlyStaleReminders, Deleted
<1>1. [Next]_vars /\ pc'[p] # "idle"
  BY Annotated DEF Deleted
<1>2. /\ i = req[p].id /\ Deleted(p)
      /\ i \in reminders \/ i \in (reminders' \ reminders) \cap confirmed
  BY <1>1, DeletedFrom
<1>3. i \in reminders => Met(p, "stale", i)
  BY <1>2 DEF OnlyStaleReminders, Deleted
<1> QED
  BY <1>1, <1>2, <1>3, StaleMet, Remembered

(* Whatever else happens, an apiary deleted without a warning has a        *)
(* reminder only if notification-service acted, after the second cleanup,  *)
(* on an answer that had gone stale.                                       *)
THEOREM RemindersLeftAreStale == MSpec => []OnlyStaleReminders
<1>1. MInit => AnswersInv /\ RowGone /\ OnlyStaleReminders
  BY DeletedInit DEF MInit, OnlyStaleReminders, RemindersSwept
<1>2. ServiceInv /\ AnswersInv /\ RowGone /\ [MNext]_mvars => AnswersInv' /\ RowGone'
  BY Annotated, AnswersNext, RowGoneNext DEF ServiceInv
<1> QED
  BY <1>1, <1>2, StaleNext, MeanwhileInv, PTL DEF MSpec

(* So none has, if none is added on the strength of an old answer.         *)
THEOREM RemindersStaySwept == "exists" \notin Events => (Spec => []RemindersSwept)
<1> SUFFICES ASSUME "exists" \notin Events PROVE Spec => []RemindersSwept
  OBVIOUS
<1> DEFINE None == confirmed = {}
<1>1. Init => None
  BY DEF Init
<1>2. ServiceInv /\ None /\ [Next]_vars => None'
  BY RemindersGrow DEF ServiceInv
<1>3. ServiceInv /\ AnswersInv /\ RowGone /\ [Next]_vars => AnswersInv' /\ RowGone'
  BY AnswersNext, RowGoneNext DEF ServiceInv
<1>4. ServiceInv /\ AnswersInv /\ RowGone /\ None /\ RemindersSwept /\ [Next]_vars => RemindersSwept'
  BY DeletedFrom DEF RemindersSwept, Deleted
<1> QED
  BY <1>1, <1>2, <1>3, <1>4, DeletedInit, ServiceInvHolds, PTL DEF Spec

-----------------------------------------------------------------------------
(* Plans. *)

(* What a request knows of its user's plan at each of its calls.           *)
EntAt(p) ==
    /\ pc[p] = "idle" => ent[p] = "none"
    /\ pc[p] \in {"createCount", "createVerify", "updateWritable"} \cup PastWritable => ent[p] # "none"
    /\ pc[p] = "createUnlimited" => ent[p] \notin {"none", EntitlementFree}
    /\ pc[p] \in {"txBegin", "txLock"} \cup InTx => ent[p] = EntitlementFree
EntKnown == \A p \in Proc : EntAt(p)

(* What the count found, and what isWritable did.                          *)
HasRoom(p) == CountByUser(apiaries, req[p].user) < FreeMaxApiaries
StillWritable(p) ==
    req[p].id \in Active(apiaries, req[p].user) => isWritable(req[p].user, req[p].id)

(* Who has no more apiaries than the limit may edit them all.              *)
LEMMA FewAreWritable ==
    ASSUME NEW t \in Table, NEW u, CountByUser(t, u) <= FreeMaxApiaries, NEW i \in Active(t, u)
    PROVE  i \in WritableIDs(t, u, FreeMaxApiaries)
<1> DEFINE A == Active(t, u)
           B == {j \in A : Before(t[j], t[i])}
<1>1. t[i] \in Row /\ t[i].created \in Nat /\ t[i].id \in Nat
  BY IdsAssumption DEF Active, RowsOf, Present, Table, Row
<1>2. i \notin B
  BY <1>1 DEF Before
<1>3. IsFiniteSet(A) /\ Cardinality(A) \in Nat
  BY ActiveFinite
<1>4. IsFiniteSet(B) /\ Cardinality(B) \in Nat
  BY <1>3, FS_Subset, FS_CardinalityType
<1>5. Cardinality(B) < Cardinality(A)
  <2>1. B \subseteq A /\ B # A
    BY <1>2
  <2>2. Cardinality(B) <= Cardinality(A) /\ Cardinality(B) # Cardinality(A)
    BY <1>3, <2>1, FS_Subset
  <2> QED
    BY <1>3, <1>4, <2>2
<1> QED
  BY <1>3, <1>4, <1>5, LimitAssumption DEF WritableIDs, CountByUser

(* A write that adds no row to a user's leaves room where there was, and   *)
(* writable what was.                                                      *)
AddsNone(u) ==
    \A i \in Active(apiaries', u) : /\ i \in Active(apiaries, u)
                                    /\ apiaries'[i].created = apiaries[i].created
                                    /\ apiaries'[i].id = apiaries[i].id

(* Where nothing is added, a writable apiary stays writable.               *)
LEMMA WritableStays ==
    ASSUME NEW u, AddsNone(u)
    PROVE  /\ CountByUser(apiaries', u) <= CountByUser(apiaries, u)
           /\ \A i \in Active(apiaries', u) :
                 i \in WritableIDs(apiaries, u, FreeMaxApiaries) =>
                     i \in WritableIDs(apiaries', u, FreeMaxApiaries)
<1>1. IsFiniteSet(Active(apiaries, u)) /\ Active(apiaries', u) \subseteq Active(apiaries, u)
  BY ActiveFinite DEF AddsNone
<1>2. CountByUser(apiaries', u) <= CountByUser(apiaries, u)
  BY <1>1, FS_Subset DEF CountByUser
<1>3. ASSUME NEW i \in Active(apiaries', u), i \in WritableIDs(apiaries, u, FreeMaxApiaries)
      PROVE  i \in WritableIDs(apiaries', u, FreeMaxApiaries)
  <2> DEFINE B == {j \in Active(apiaries, u) : Before(apiaries[j], apiaries[i])}
             C == {j \in Active(apiaries', u) : Before(apiaries'[j], apiaries'[i])}
  <2>1. C \subseteq B
    BY <1>3 DEF AddsNone, Before
  <2>2. IsFiniteSet(B)
    BY <1>1, FS_Subset
  <2>3. Cardinality(C) <= Cardinality(B) /\ Cardinality(C) \in Nat /\ Cardinality(B) \in Nat
    BY <2>1, <2>2, FS_Subset, FS_CardinalityType
  <2>4. Cardinality(B) < FreeMaxApiaries
    BY <1>3, LimitAssumption DEF WritableIDs
  <2> HIDE DEF B
  <2>5. Cardinality(C) < FreeMaxApiaries
    BY <2>3, <2>4, LimitAssumption
  <2> QED
    BY <1>3, <2>5 DEF WritableIDs
<1> QED
  BY <1>2, <1>3

(* A row is added to a user's by a create of that user, and only one.      *)
LEMMA InsertAdds ==
    ASSUME ServiceInv, NEW p \in Proc, Inserts(p)
    PROVE  /\ held[p].id \in NewRows(req[p].user) /\ held[p].id \notin limited
           /\ CountByUser(apiaries', req[p].user) <= CountByUser(apiaries, req[p].user) + 1
           /\ \A u : u # req[p].user => AddsNone(u) /\ NewRows(u) = {}
<1> DEFINE u == req[p].user
<1>0. TypeOK /\ QuotaInv /\ OwnRowsOnly
  BY DEF ServiceInv
<1>1. /\ held[p] \in Row /\ held[p].id \notin Present(apiaries) /\ held[p].id \notin removed
      /\ held[p].user = u /\ held[p].id \in ApiaryId
  <2>1. /\ held[p] \in Row /\ held[p].id \notin Present(apiaries) /\ held[p].id \notin removed
    BY <1>0, InsertFresh DEF Inserts, Inserting
  <2> QED
    BY <1>0, <2>1, NoRowAssumption DEF OwnRowsOnly, InHand, Row
<1>2. /\ Present(apiaries') = Present(apiaries) \cup {held[p].id}
      /\ apiaries'[held[p].id] = held[p]
      /\ \A i \in ApiaryId \ {held[p].id} : apiaries'[i] = apiaries[i]
  BY <1>0, <1>1, InsertRows DEF Inserts
<1>3. held[p].id \notin limited
  BY <1>0, <1>1 DEF QuotaInv, FreshIds
<1>4. CountByUser(apiaries', u) <= CountByUser(apiaries, u) + 1
  <2>1. Active(apiaries', u) \subseteq Active(apiaries, u) \cup {held[p].id}
    BY <1>1, <1>2 DEF Active, RowsOf, Present
  <2> DEFINE S == Active(apiaries, u)
  <2>2. IsFiniteSet(S) /\ Cardinality(S) \in Nat
    BY ActiveFinite
  <2>3. /\ IsFiniteSet(S \cup {held[p].id})
        /\ Cardinality(S \cup {held[p].id}) \in Nat
        /\ Cardinality(S \cup {held[p].id}) <= Cardinality(S) + 1
    BY <2>2, OneMore
  <2>4. CountByUser(apiaries', u) <= Cardinality(S \cup {held[p].id})
        /\ CountByUser(apiaries', u) \in Nat
    BY <2>1, <2>3, FS_Subset, ActiveFinite DEF CountByUser
  <2> QED
    BY <2>2, <2>3, <2>4 DEF CountByUser
<1>5. held[p].id \in NewRows(u)
  BY <1>1, <1>2 DEF NewRows, RowsOf
<1>6. ASSUME NEW v, v # u PROVE AddsNone(v) /\ NewRows(v) = {}
  BY <1>1, <1>2, <1>6 DEF AddsNone, NewRows, Active, RowsOf, Present
<1> QED
  BY <1>3, <1>4, <1>5, <1>6

LEMMA StepAdds ==
    ASSUME ServiceInv, NEW p \in Proc, Receive(p) \/ Step(p), NEW u
    PROVE  AddsNone(u) \/ (u = req[p].user /\ Inserts(p))
<1>0. TypeOK /\ QuotaInv
  BY DEF ServiceInv
<1>1. CASE NoWrite(p)
  BY <1>1 DEF NoWrite, AddsNone
<1>2. CASE Inserts(p)
  BY <1>2, InsertAdds
<1>3. CASE Edits(p)
  <2>1. held[p] \in Row /\ apiaries \in Table
    BY <1>0, <1>3, HoldsRowType DEF Edits, HoldsRow, TypeOK
  <2>2. /\ Present(apiaries') = Present(apiaries) /\ held[p].id \in Present(apiaries)
        /\ apiaries'[held[p].id].user = apiaries[held[p].id].user
        /\ \A i \in ApiaryId \ {held[p].id} : apiaries'[i] = apiaries[i]
    BY <1>0, <1>3, <2>1, UpdateRows DEF Edits
  <2>3. /\ apiaries'[held[p].id].created = apiaries[held[p].id].created
        /\ apiaries'[held[p].id].id = apiaries[held[p].id].id
    <3>1. apiaries[held[p].id] \in Row /\ held[p].id \in ApiaryId
      BY <2>1, <2>2 DEF Present, Table
    <3> DEFINE b == [[apiaries[held[p].id] EXCEPT !.name = held[p].name] EXCEPT !.images = held[p].images]
    <3>2. apiaries'[held[p].id] = b
      BY <1>3, <2>1, <3>1 DEF Edits, Update, Table
    <3>3. b.created = apiaries[held[p].id].created /\ b.id = apiaries[held[p].id].id
      BY <3>1 DEF Row
    <3> QED
      BY <3>2, <3>3
  <2>4. ~apiaries[held[p].id].deleted
    BY <1>3 DEF Edits, Updatable, Active
  <2> QED
    BY <2>2, <2>3, <2>4 DEF AddsNone, Active, RowsOf, Present
<1>4. ASSUME NEW ids \in SUBSET ApiaryId, Deletes(p, ids) PROVE AddsNone(u)
  BY <1>4, DeletedRows DEF Deletes, AddsNone, Active, RowsOf, Present
<1> QED
  BY <1>0, <1>1, <1>2, <1>3, <1>4, StepWrites DEF Writes

(* A create under Pro is not counted; two counted creates of one user      *)
(* never have their transactions open at once.                             *)
LEMMA UncountedInsert ==
    ASSUME ServiceInv, NEW q \in Proc, Receive(q) \/ Step(q), Inserts(q),
           NEW p \in Proc \ {q}, pc[p] \in PastCount, req[p].user = req[q].user
    PROVE  pc[q] = "createUnlimited" /\ held[q].id \in NewRows(req[p].user) \ limited'
<1>0. TypeOK /\ QuotaInv /\ OwnRowsOnly
  BY DEF ServiceInv
<1>1. pc[q] # "txCommit"
  <2> SUFFICES ASSUME pc[q] = "txCommit" PROVE FALSE
    OBVIOUS
  <2>1. held[p].user = held[q].user
    BY <1>0 DEF TypeOK, HoldsRow, Inserting, OwnRowsOnly, InHand, PastCount
  <2>2. lock[LockKeyOf(p)] = p /\ lock[LockKeyOf(q)] = q
    BY <1>0 DEF QuotaInv, LockDiscipline, PastCount
  <2> QED
    BY <2>1, <2>2 DEF LockKeyOf
<1>2. pc[q] = "createUnlimited"
  BY <1>1 DEF Inserts
<1>3. UNCHANGED limited
  BY <1>2 DEF Step, Receive, CallFails, Reply, CreateStep, CreateEntitlement, CreateCount, CreateVerify,
        CreateUnlimited, TxBegin, TxLock, TxCount, TxInsert, TxCommit, TxRollback, UpdateStep, UpdateGet,
        UpdateEntitlement, UpdateWritable, UpdateVerify, UpdateWrite, ReadStep, GetRow, GetPlan,
        GetWritable, WritablePlan, WritableApiaryID, DeleteStep, DeleteGet, DeleteAllList, CascadeHives,
        CascadeMedia, CascadeReminders, CascadeRow, Cleanup, DeleteUserData, database
<1> QED
  BY <1>2, <1>3, InsertAdds

(* What a request has read of a plan is its own.                           *)
LEMMA OthersPlan ==
    ASSUME TypeOK, NEW p \in Proc, Receive(p) \/ Step(p), NEW q \in Proc \ {p}
    PROVE  ent'[q] = ent[q]
<1> USE DEF TypeOK, locals
<1>1. CASE Receive(p) \/ CallFails(p) \/ Reply(p)
  BY <1>1 DEF Receive, CallFails, Reply
<1>2. CASE CreateStep(p)
  BY <1>2 DEF CreateStep, CreateEntitlement, CreateCount, CreateVerify, CreateUnlimited, TxBegin,
              TxLock, TxCount, TxInsert, TxCommit, TxRollback, GetEntitlement
<1>3. CASE UpdateStep(p)
  BY <1>3 DEF UpdateStep, UpdateGet, UpdateEntitlement, UpdateWritable, UpdateVerify, UpdateWrite,
              GetEntitlement
<1>4. CASE DeleteStep(p)
  BY <1>4 DEF DeleteStep, DeleteGet, DeleteAllList, CascadeHives, CascadeMedia, CascadeReminders,
              CascadeRow, Cleanup, DeleteUserData
<1>5. CASE ReadStep(p)
  BY <1>5 DEF ReadStep, GetRow, GetPlan, GetWritable, WritablePlan, WritableApiaryID, GetEntitlement
<1> QED
  BY <1>1, <1>2, <1>3, <1>4, <1>5 DEF Step

LEMMA EntKept ==
    ASSUME ServiceInv, EntKnown, NEW p \in Proc, Receive(p) \/ Step(p)
    PROVE  EntAt(p)'
<1>0. TypeOK
  BY DEF ServiceInv
<1>9. pc[p] # "idle" => entitlement[req[p].user] # "none"
  BY <1>0, RequestFields DEF TypeOK, Entitlement, EntitlementFree, EntitlementPro
<1> USE DEF TypeOK, Goto, Finish, ThenFinish, Lost, FailTx, EntAt, EntKnown, InTx, PastWritable, locals
<1>1. CASE Receive(p)
  <2>1. PICK r \in Request : Goto(p, FirstCallOf(r.kind))
    BY <1>1 DEF Receive
  <2>2. FirstCallOf(r.kind) \in FirstCall
    BY <2>1, RequestFields DEF FirstCallOf, Kind, FirstCall
  <2> QED
    BY <1>0, <2>1, <2>2 DEF FirstCall
<1>2. CASE CreateEntitlement(p) \/ CreateCount(p) \/ CreateVerify(p)
  <2>1. CASE CreateEntitlement(p) \/ CreateCount(p)
    BY <1>0, <1>9, <2>1 DEF CreateEntitlement, GetEntitlement, CreateCount
  <2>2. CASE CreateVerify(p)
    BY <1>0, <2>2 DEF CreateVerify
  <2> QED
    BY <1>2, <2>1, <2>2
<1>3. CASE CreateUnlimited(p) \/ TxBegin(p) \/ TxLock(p) \/ TxCount(p)
  BY <1>0, <1>3 DEF CreateUnlimited, TxBegin, TxLock, TxCount
<1>4. CASE TxInsert(p) \/ TxCommit(p) \/ TxRollback(p)
  BY <1>0, <1>4 DEF TxInsert, TxCommit, TxRollback
<1>5. CASE UpdateStep(p)
  <2>1. CASE UpdateEntitlement(p)
    BY <1>0, <1>9, <2>1 DEF UpdateEntitlement, GetEntitlement
  <2>2. CASE UpdateGet(p) \/ UpdateWritable(p) \/ UpdateVerify(p) \/ UpdateWrite(p)
    BY <1>0, <2>2 DEF UpdateGet, UpdateWritable, UpdateVerify, UpdateWrite
  <2> QED
    BY <1>5, <2>1, <2>2 DEF UpdateStep
<1>6. CASE DeleteStep(p)
  BY <1>0, <1>6 DEF DeleteStep, DeleteGet, DeleteAllList, CascadeHives, CascadeMedia,
        CascadeReminders, CascadeRow, AfterRow, NextApiary, AfterHives, Cleanup, DeleteUserData,
        ThenGoto
<1>7. CASE ReadStep(p)
  BY <1>0, <1>7 DEF ReadStep, GetRow, GetPlan, GetWritable, WritablePlan, WritableApiaryID
<1>8. CASE CallFails(p) \/ Reply(p)
  BY <1>0, <1>8 DEF CallFails, Reply
<1> QED
  BY <1>1, <1>2, <1>3, <1>4, <1>5, <1>6, <1>7, <1>8 DEF Step, CreateStep

LEMMA EntKnownNext == ServiceInv /\ EntKnown /\ [Next]_vars => EntKnown'
<1> SUFFICES ASSUME ServiceInv, EntKnown, [Next]_vars, NEW p \in Proc PROVE EntAt(p)'
  BY DEF EntKnown
<1>1. CASE pc'[p] = pc[p] /\ ent'[p] = ent[p]
  BY <1>1 DEF EntKnown, EntAt
<1>2. ASSUME NEW q \in Proc, Receive(q) \/ Step(q) PROVE EntAt(p)'
  <2>1. CASE q = p
    BY <1>2, <2>1, EntKept
  <2>2. CASE q # p
    BY <1>1, <1>2, <2>2, StepWrites, OthersPlan DEF Writes, Alone, ServiceInv, TypeOK
  <2> QED
    BY <2>1, <2>2
<1>3. CASE ExternalStep
  BY <1>1, <1>3 DEF ExternalStep, SubscriptionChanges, MediaDeleted, HiveAdded, ExistsAnswered,
                    ReminderAdded, locals
<1>4. CASE Crash
  BY <1>4 DEF Crash, EntAt, PastWritable, InTx
<1> QED
  BY <1>1, <1>2, <1>3, <1>4 DEF Next, vars, locals

(* Where what a request relies on comes from: its own reads, or what it     *)
(* relied on before, undone by a row added or a plan changed in between.   *)
LEMMA EntFrom ==
    ASSUME ServiceInv, EntKnown, [Next]_vars, NEW p \in Proc, ent'[p] # "none"
    PROVE  /\ req'[p] = req[p]
           /\ ent'[p] = ent[p] \/ (ent'[p] = entitlement[req[p].user] /\ UNCHANGED entitlement)
<1>0. TypeOK
  BY DEF ServiceInv
<1>1. CASE UNCHANGED locals
  BY <1>1 DEF locals
<1>2. CASE Receive(p) \/ Step(p)
  <2> USE DEF TypeOK, locals, others
  <2>1. CASE Receive(p)
    BY <1>0, <2>1 DEF Receive, EntKnown, EntAt
  <2>2. CASE CallFails(p) \/ Reply(p)
    BY <1>0, <2>2 DEF CallFails, Reply
  <2>3. CASE CreateStep(p)
    BY <1>0, <2>3 DEF CreateStep, CreateEntitlement, CreateCount, CreateVerify, CreateUnlimited,
                TxBegin, TxLock, TxCount, TxInsert, TxCommit, TxRollback, GetEntitlement
  <2>4. CASE UpdateStep(p)
    BY <1>0, <2>4 DEF UpdateStep, UpdateGet, UpdateEntitlement, UpdateWritable, UpdateVerify,
                UpdateWrite, GetEntitlement
  <2>5. CASE DeleteStep(p)
    BY <1>0, <2>5 DEF DeleteStep, DeleteGet, DeleteAllList, CascadeHives, CascadeMedia,
                CascadeReminders, CascadeRow, Cleanup, DeleteUserData
  <2>6. CASE ReadStep(p)
    BY <1>0, <2>6 DEF ReadStep, GetRow, GetPlan, GetWritable, WritablePlan, WritableApiaryID,
                GetEntitlement
  <2> QED
    BY <1>2, <2>1, <2>2, <2>3, <2>4, <2>5, <2>6 DEF Step
<1>3. ASSUME NEW q \in Proc \ {p}, Receive(q) \/ Step(q) PROVE req'[p] = req[p] /\ ent'[p] = ent[p]
  BY <1>0, <1>3, StepWrites, OthersPlan DEF Writes, Alone, TypeOK
<1>4. CASE ExternalStep
  BY <1>1, <1>4 DEF ExternalStep, SubscriptionChanges, MediaDeleted, HiveAdded, ExistsAnswered,
                    ReminderAdded
<1>5. CASE Crash
  BY <1>5 DEF Crash
<1> QED
  BY <1>1, <1>2, <1>3, <1>4, <1>5 DEF Next, vars

(* The room that the count found holds until a create under Pro stores its *)
(* row.                                                                    *)
LEMMA RoomFrom ==
    ASSUME ServiceInv, [Next]_vars, NEW p \in Proc, pc'[p] \in PastCount
    PROVE  /\ req'[p] = req[p]
           /\ \/ HasRoom(p)'
              \/ /\ pc[p] \in PastCount
                 /\ \/ ~HasRoom(p)
                    \/ \E q \in Proc : /\ pc[q] = "createUnlimited" /\ req[q].user = req[p].user
                                      /\ held[q].id \in NewRows(req[p].user) \ limited'
<1> DEFINE u == req[p].user
<1>0. TypeOK /\ QuotaInv /\ OwnRowsOnly
  BY DEF ServiceInv
<1>1. CASE UNCHANGED apiaries /\ pc'[p] = pc[p] /\ req'[p] = req[p]
  BY <1>1 DEF HasRoom
<1>2. CASE Receive(p) \/ Step(p)
  <2> USE DEF TypeOK, Goto, Finish, ThenFinish, Lost, FailTx, PastCount
  <2>1. CASE TxCount(p)
    <3>1. held[p].user = u
      BY <1>0, <2>1 DEF TxCount, OwnRowsOnly, InHand, HoldsRow, Inserting
    <3>2. UNCHANGED <<apiaries, req>> /\ ~AtLimit(CountByUser(apiaries, held[p].user), FreeMaxApiaries)
      BY <1>0, <2>1 DEF TxCount, database, locals
    <3>3. CountByUser(apiaries, u) \in Nat
      BY ActiveFinite DEF CountByUser
    <3> QED
      BY <3>1, <3>2, <3>3, LimitAssumption DEF AtLimit, HasRoom
  <2>2. CASE TxInsert(p)
    BY <1>0, <2>2 DEF TxInsert, database, locals, HasRoom
  <2>3. CASE Receive(p)
    BY <2>3, RequestFields DEF Receive, FirstCallOf, Kind
  <2>4. CASE CallFails(p) \/ Reply(p)
    BY <1>0, <2>4 DEF CallFails, Reply
  <2>5. CASE CreateStep(p)
    BY <1>0, <2>1, <2>2, <2>5 DEF CreateStep, CreateEntitlement, CreateCount, CreateVerify,
              CreateUnlimited, TxBegin, TxLock, TxCommit, TxRollback
  <2>6. CASE UpdateStep(p) \/ ReadStep(p)
    BY <1>0, <2>6 DEF UpdateStep, UpdateGet, UpdateEntitlement, UpdateWritable, UpdateVerify,
              UpdateWrite, ReadStep, GetRow, GetPlan, GetWritable, WritablePlan, WritableApiaryID
  <2>7. CASE DeleteStep(p)
    BY <1>0, <2>7 DEF DeleteStep, DeleteGet, DeleteAllList, CascadeHives, CascadeMedia,
              CascadeReminders, CascadeRow, AfterRow, NextApiary, AfterHives, Cleanup, DeleteUserData,
              ThenGoto
  <2> QED
    BY <1>2, <2>3, <2>4, <2>5, <2>6, <2>7 DEF Step
<1>3. ASSUME NEW q \in Proc \ {p}, Receive(q) \/ Step(q)
      PROVE  /\ req'[p] = req[p]
             /\ \/ HasRoom(p)'
                \/ /\ pc[p] \in PastCount
                   /\ \/ ~HasRoom(p)
                      \/ /\ pc[q] = "createUnlimited" /\ req[q].user = u
                         /\ held[q].id \in NewRows(u) \ limited'
  <2>1. pc'[p] = pc[p] /\ req'[p] = req[p]
    BY <1>0, <1>3, StepWrites DEF Writes, Alone, TypeOK
  <2>2. CASE AddsNone(u)
    <3>1. /\ CountByUser(apiaries', u) <= CountByUser(apiaries, u)
          /\ CountByUser(apiaries', u) \in Nat /\ CountByUser(apiaries, u) \in Nat
      BY <2>2, WritableStays, ActiveFinite DEF CountByUser
    <3> QED
      BY <2>1, <3>1, LimitAssumption DEF HasRoom
  <2>3. CASE u = req[q].user /\ Inserts(q)
    BY <1>3, <2>1, <2>3, UncountedInsert
  <2> QED
    BY <1>3, <2>2, <2>3, StepAdds
<1>4. CASE ExternalStep
  BY <1>1, <1>4 DEF ExternalStep, SubscriptionChanges, MediaDeleted, HiveAdded, ExistsAnswered,
                    ReminderAdded, locals, database
<1>5. CASE Crash
  BY <1>5 DEF Crash, PastCount
<1> QED
  BY <1>1, <1>2, <1>3, <1>4, <1>5 DEF Next, vars, locals, database

(* What isWritable found holds until the user gains a row.                 *)
LEMMA WritableFrom ==
    ASSUME ServiceInv, [Next]_vars, NEW p \in Proc, pc'[p] \in PastWritable
    PROVE  /\ req'[p] = req[p]
           /\ \/ ent'[p] # EntitlementFree
              \/ StillWritable(p)'
              \/ /\ pc[p] \in PastWritable /\ ent'[p] = ent[p]
                 /\ \/ ~StillWritable(p)
                    \/ /\ NewRows(req[p].user) # {}
                       /\ CountByUser(apiaries', req[p].user) > FreeMaxApiaries
<1> DEFINE u == req[p].user
<1>0. TypeOK
  BY DEF ServiceInv
<1>1. CASE UNCHANGED apiaries /\ pc'[p] = pc[p] /\ req'[p] = req[p] /\ ent'[p] = ent[p]
  BY <1>1 DEF StillWritable, isWritable
<1>2. CASE Receive(p) \/ Step(p)
  <2>1. UpdateStep(p)
    BY <1>0, <1>2, IntoEditing DEF Editing, PastWritable
  <2> USE DEF TypeOK, Goto, Finish, ThenFinish, Lost, PastWritable, StillWritable, isWritable, locals,
              database
  <2>2. CASE UpdateGet(p) \/ UpdateWrite(p)
    BY <1>0, <2>2 DEF UpdateGet, UpdateWrite
  <2>3. CASE UpdateEntitlement(p)
    BY <1>0, <2>3 DEF UpdateEntitlement
  <2>4. CASE UpdateWritable(p)
    BY <1>0, <2>4 DEF UpdateWritable
  <2>5. CASE UpdateVerify(p)
    BY <1>0, <2>5 DEF UpdateVerify
  <2> QED
    BY <2>1, <2>2, <2>3, <2>4, <2>5 DEF UpdateStep
<1>3. ASSUME NEW q \in Proc \ {p}, Receive(q) \/ Step(q)
      PROVE  /\ req'[p] = req[p] /\ pc'[p] = pc[p] /\ ent'[p] = ent[p]
             /\ \/ StillWritable(p)' \/ ~StillWritable(p)
                \/ NewRows(u) # {} /\ CountByUser(apiaries', u) > FreeMaxApiaries
  <2>1. pc'[p] = pc[p] /\ req'[p] = req[p] /\ ent'[p] = ent[p]
    BY <1>0, <1>3, StepWrites, OthersPlan DEF Writes, Alone, TypeOK
  <2>2. CASE CountByUser(apiaries', u) <= FreeMaxApiaries
    <3>1. apiaries' \in Table
      BY <1>0, NextType DEF TypeOK
    <3> QED
      BY <2>1, <2>2, <3>1, FewAreWritable DEF StillWritable, isWritable
  <2>3. CASE AddsNone(u)
    BY <2>1, <2>3, WritableStays DEF StillWritable, isWritable, AddsNone
  <2>4. CASE u = req[q].user /\ Inserts(q) /\ ~(CountByUser(apiaries', u) <= FreeMaxApiaries)
    <3>1. NewRows(u) # {}
      BY <2>4, InsertAdds
    <3>2. CountByUser(apiaries', u) \in Nat
      BY ActiveFinite DEF CountByUser
    <3> QED
      BY <2>1, <2>4, <3>1, <3>2, LimitAssumption
  <2> QED
    BY <1>3, <2>2, <2>3, <2>4, StepAdds
<1>4. CASE ExternalStep
  BY <1>1, <1>4 DEF ExternalStep, SubscriptionChanges, MediaDeleted, HiveAdded, ExistsAnswered,
                    ReminderAdded, locals, database
<1>5. CASE Crash
  BY <1>5 DEF Crash, PastWritable
<1> QED
  BY <1>1, <1>2, <1>3, <1>4, <1>5 DEF Next, vars, locals, database

(* Who can take a user over the limit of the Free plan, ...                *)
LEMMA OverrunBy ==
    ASSUME ServiceInv, EntKnown, [Next]_vars, NEW u, NewRows(u) # {}, Overrun(u)
    PROVE  \E p \in Proc : /\ Writes(p) /\ req[p].user = u
                          /\ \/ ent[p] \notin {"none", entitlement[u]}
                             \/ pc[p] \in PastCount /\ ~HasRoom(p)
<1>1. PICK i : i \in NewRows(u)
  OBVIOUS
<1>2. PICK p \in Proc : Writes(p) /\ Inserts(p)
  BY <1>1, InsertedBy DEF NewRows, RowsOf
<1>3. u = req[p].user
  BY <1>1, <1>2, InsertAdds
<1>4. CASE pc[p] = "createUnlimited"
  BY <1>2, <1>3, <1>4 DEF EntKnown, EntAt, Overrun
<1>5. CASE pc[p] = "txCommit"
  <2>1. CountByUser(apiaries', u) <= CountByUser(apiaries, u) + 1
    BY <1>2, <1>3, InsertAdds
  <2>2. CountByUser(apiaries', u) \in Nat /\ CountByUser(apiaries, u) \in Nat
    BY ActiveFinite DEF CountByUser
  <2>3. ~HasRoom(p)
    BY <1>3, <2>1, <2>2, LimitAssumption DEF HasRoom, Overrun
  <2> QED
    BY <1>2, <1>3, <1>5, <2>3 DEF PastCount
<1> QED
  BY <1>2, <1>4, <1>5 DEF Inserts

(* ... and who edits a row. *)
LEMMA EditedBy ==
    ASSUME ServiceInv, [Next]_vars, NEW i \in Present(apiaries), apiaries'[i] \notin {apiaries[i], NoRow}
    PROVE  \E p \in Proc : /\ Writes(p) /\ pc[p] = "updateWrite" /\ req[p].id = i
                          /\ i \in Active(apiaries, req[p].user) /\ apiaries[i].user = req[p].user
<1>0. TypeOK /\ QuotaInv /\ OwnRowsOnly /\ Linked /\ i \in ApiaryId
  BY DEF ServiceInv, Present
<1>1. PICK p \in Proc : Receive(p) \/ Step(p)
  BY DEF Next, ExternalStep, SubscriptionChanges, MediaDeleted, HiveAdded, ExistsAnswered,
         ReminderAdded, Crash, vars, database
<1>2. Writes(p)
  BY <1>0, <1>1, StepWrites
<1>3. Edits(p) /\ i = held[p].id
  <2>1. ~NoWrite(p)
    BY DEF NoWrite
  <2>2. ~Inserts(p)
    BY <1>0, InsertFresh, InsertRows DEF Inserts, Inserting
  <2>3. ~\E ids \in SUBSET ApiaryId : Deletes(p, ids)
    BY <1>0, DeletedRows DEF Deletes
  <2>4. Edits(p)
    BY <1>2, <2>1, <2>2, <2>3 DEF Writes
  <2> QED
    BY <1>0, <2>4, HoldsRowType, UpdateRows DEF Edits, HoldsRow
<1>4. held[p].user = req[p].user /\ held[p].id = req[p].id
  <2>1. pc[p] = "updateWrite" /\ pc[p] \in HoldsRow
    BY <1>3 DEF Edits, HoldsRow
  <2>2. OnRoute(req[p].kind, "updateWrite")
    BY <1>0, <2>1 DEF Linked, LinkedAt, Routed
  <2>3. req[p].kind = "update"
    BY <2>2 DEF OnRoute, Inserting, Cascading
  <2>4. held[p].id = req[p].id
    BY <1>0, <2>1, <2>3 DEF Linked, LinkedAt, AsAsked
  <2> QED
    BY <1>0, <2>1, <2>4 DEF TypeOK, OwnRowsOnly, InHand
<1> QED
  BY <1>2, <1>3, <1>4 DEF Edits, Updatable, Active, RowsOf

(* What a request read, counted or found writable is so still, or it has   *)
(* met what undid it.                                                      *)
PlanMet(p) == Met(p, "plan", req[p].user)
PlansMet ==
    \A p \in Proc :
        /\ ent[p] # "none" => ent[p] = entitlement[req[p].user] \/ PlanMet(p)
        /\ pc[p] \in PastCount => HasRoom(p) \/ MetAny(p, "late")
        /\ pc[p] \in PastWritable => \/ ent[p] # EntitlementFree \/ StillWritable(p)
                                     \/ PlanMet(p) \/ MetAny(p, "over")

(* A change of plan, an uncounted row and an overrun are recorded.         *)
LEMMA PlanChangeMet ==
    ASSUME [MNext]_mvars, NEW p \in Proc, pc'[p] # "idle", ent[p] # "none",
           NEW u \in User, u = req[p].user, entitlement'[u] # entitlement[u]
    PROVE  Met(p, "plan", u)'
<1>1. <<"plan", u>> \in Between(p)
  BY Fact DEF Between
<1> QED
  BY <1>1, Remembered DEF vars, others

LEMMA LateMet ==
    ASSUME [MNext]_mvars, NEW p \in Proc, pc'[p] # "idle", pc[p] \in PastCount,
           NEW i \in NewRows(req[p].user) \ limited'
    PROVE  MetAny(p, "late")'
<1>1. i \in ApiaryId /\ ~UNCHANGED vars
  BY DEF NewRows, RowsOf, Present, vars, database
<1>2. <<"late", i>> \in Between(p)
  BY <1>1, Fact DEF Between
<1> QED
  BY <1>1, <1>2, Remembered DEF MetAny

LEMMA OverMet ==
    ASSUME [MNext]_mvars, NEW p \in Proc, pc'[p] # "idle", pc[p] \in PastWritable,
           NewRows(req[p].user) # {}, Overrun(req[p].user)
    PROVE  MetAny(p, "over")'
<1>1. PICK i : i \in NewRows(req[p].user)
  OBVIOUS
<1>2. i \in ApiaryId /\ ~UNCHANGED vars
  BY <1>1 DEF NewRows, RowsOf, Present, vars, database
<1>3. <<"over", i>> \in Between(p)
  BY <1>1, <1>2, Fact DEF Between
<1> QED
  BY <1>2, <1>3, Remembered DEF MetAny

(* What is recorded stays so until the request ends.                       *)
LEMMA MetAnyStays ==
    ASSUME [MNext]_mvars, NEW p \in Proc, pc'[p] # "idle", NEW kind, MetAny(p, kind)
    PROVE  MetAny(p, kind)'
BY Remembered DEF MetAny

(* The invariant of plans, one part for each value that a request relies   *)
(* on.                                                                     *)
LEMMA PlansMetNext == ServiceInv /\ EntKnown /\ PlansMet /\ [MNext]_mvars => PlansMet'
<1> SUFFICES ASSUME ServiceInv, EntKnown, PlansMet, [MNext]_mvars, NEW p \in Proc
             PROVE  /\ ent'[p] # "none" => ent'[p] = entitlement'[req'[p].user] \/ PlanMet(p)'
                    /\ pc'[p] \in PastCount => HasRoom(p)' \/ MetAny(p, "late")'
                    /\ pc'[p] \in PastWritable => \/ ent'[p] # EntitlementFree \/ StillWritable(p)'
                                                  \/ PlanMet(p)' \/ MetAny(p, "over")'
  BY DEF PlansMet
<1> DEFINE u == req[p].user
<1>0. [Next]_vars /\ TypeOK /\ EntKnown'
  BY Annotated, EntKnownNext DEF ServiceInv
<1>1. ASSUME pc'[p] # "idle", req'[p] = req[p], PlanMet(p) PROVE PlanMet(p)'
  BY <1>1, Remembered DEF PlanMet
<1>2. ASSUME ent'[p] # "none" PROVE ent'[p] = entitlement'[req'[p].user] \/ PlanMet(p)'
  <2>1. pc'[p] # "idle"
    BY <1>0, <1>2 DEF EntKnown, EntAt
  <2>2. /\ req'[p] = req[p]
        /\ ent'[p] = ent[p] \/ (ent'[p] = entitlement[u] /\ UNCHANGED entitlement)
    BY <1>0, <1>2, EntFrom
  <2>3. CASE ent'[p] = ent[p] /\ entitlement'[u] = entitlement[u]
    BY <1>1, <1>2, <2>1, <2>2, <2>3 DEF PlansMet
  <2>4. CASE ent'[p] = ent[p] /\ entitlement'[u] # entitlement[u]
    <3>1. pc[p] # "idle"
      BY <1>2, <2>4 DEF EntKnown, EntAt
    <3>2. u \in User
      BY <1>0, <3>1, RequestFields DEF TypeOK
    <3> QED
      BY <1>2, <2>1, <2>2, <2>4, <3>2, PlanChangeMet DEF PlanMet
  <2> QED
    BY <2>2, <2>3, <2>4
<1>3. ASSUME pc'[p] \in PastCount, ~HasRoom(p)' PROVE MetAny(p, "late")'
  <2>1. pc[p] \in PastCount /\ (~HasRoom(p) \/ NewRows(u) \ limited' # {})
    BY <1>0, <1>3, RoomFrom
  <2>2. pc'[p] # "idle"
    BY <1>3 DEF PastCount
  <2> QED
    BY <2>1, <2>2, LateMet, MetAnyStays DEF PlansMet
<1>4. ASSUME pc'[p] \in PastWritable, ent'[p] = EntitlementFree, ~StillWritable(p)'
      PROVE  PlanMet(p)' \/ MetAny(p, "over")'
  <2>1. /\ req'[p] = req[p] /\ pc[p] \in PastWritable /\ ent[p] = EntitlementFree
        /\ \/ ~StillWritable(p)
           \/ NewRows(u) # {} /\ CountByUser(apiaries', u) > FreeMaxApiaries
    BY <1>0, <1>4, WritableFrom
  <2>2. pc'[p] # "idle"
    BY <1>4 DEF PastWritable
  <2>3. CASE ~StillWritable(p) \/ entitlement[u] # EntitlementFree
    BY <1>1, <2>1, <2>2, <2>3, MetAnyStays DEF PlansMet, EntitlementFree
  <2>4. CASE NewRows(u) # {} /\ CountByUser(apiaries', u) > FreeMaxApiaries /\ entitlement[u] = EntitlementFree
    BY <2>1, <2>2, <2>4, OverMet DEF Overrun
  <2> QED
    BY <2>1, <2>3, <2>4
<1> QED
  BY <1>2, <1>3, <1>4

LEMMA EntKnownInit == Init => EntKnown
BY DEF Init, EntKnown, EntAt, PastWritable, InTx

LEMMA PlansMetHolds == MSpec => [](EntKnown /\ PlansMet)
<1>1. MInit => EntKnown /\ PlansMet
  BY EntKnownInit DEF MInit, Init, PlansMet, PastCount, PastWritable
<1>2. ServiceInv /\ EntKnown /\ PlansMet /\ [MNext]_mvars => EntKnown' /\ PlansMet'
  BY Annotated, EntKnownNext, PlansMetNext
<1> QED
  BY <1>1, <1>2, MeanwhileInv, PTL DEF MSpec

(* Whatever else happens, a user on the Free plan is taken over its limit  *)
(* only by a create under another plan, or by one that counted before such *)
(* a create stored its row.                                                *)
THEOREM OverrunsAreLate == MSpec => OnlyLateRows
<1> DEFINE Late == \A p \in Proc : Moved(p) /\ NewRows(req[p].user) # {} /\ Overrun(req[p].user) =>
                       Met(p, "plan", req[p].user) \/ MetAny(p, "late")
<1>1. ServiceInv /\ EntKnown /\ PlansMet /\ [MNext]_mvars => [Late]_mvars
  <2> SUFFICES ASSUME ServiceInv, EntKnown, PlansMet, [MNext]_mvars, NEW p \in Proc, Moved(p),
                      NewRows(req[p].user) # {}, Overrun(req[p].user)
               PROVE  Met(p, "plan", req[p].user) \/ MetAny(p, "late")
    OBVIOUS
  <2>1. PICK q \in Proc : /\ Writes(q) /\ req[q].user = req[p].user
                          /\ \/ ent[q] \notin {"none", entitlement[req[p].user]}
                             \/ pc[q] \in PastCount /\ ~HasRoom(q)
    BY Annotated, OverrunBy
  <2>2. q = p
    BY <2>1 DEF Writes, Alone, Moved, ServiceInv, TypeOK
  <2> QED
    BY <2>1, <2>2 DEF PlansMet, PlanMet
<1> QED
  BY <1>1, PlansMetHolds, MeanwhileInv, PTL DEF MSpec, OnlyLateRows

(* Whatever else happens, an update reaches a row that may not be edited   *)
(* only if the plan changed after it was read, or the user was taken over  *)
(* the limit after the row was found writable.                             *)
THEOREM EditsRaced == MSpec => OnlyRacingPlans
<1> DEFINE Raced == \A p \in Proc : Moved(p) =>
               \A i \in Present(apiaries) :
                   apiaries'[i] \notin {apiaries[i], NoRow} /\ ~MayEdit(apiaries, req[p].user, i) =>
                       Met(p, "plan", req[p].user) \/ MetAny(p, "over")
<1>1. ServiceInv /\ EntKnown /\ PlansMet /\ [MNext]_mvars => [Raced]_mvars
  <2> SUFFICES ASSUME ServiceInv, EntKnown, PlansMet, [MNext]_mvars, NEW p \in Proc, Moved(p),
                      NEW i \in Present(apiaries), apiaries'[i] \notin {apiaries[i], NoRow},
                      ~MayEdit(apiaries, req[p].user, i)
               PROVE  Met(p, "plan", req[p].user) \/ MetAny(p, "over")
    OBVIOUS
  <2>1. PICK q \in Proc : /\ Writes(q) /\ pc[q] = "updateWrite" /\ req[q].id = i
                          /\ i \in Active(apiaries, req[q].user)
    BY Annotated, EditedBy
  <2>2. q = p
    BY <2>1 DEF Writes, Alone, Moved, ServiceInv, TypeOK
  <2>3. ~StillWritable(p) /\ entitlement[req[p].user] = EntitlementFree
    BY <2>1, <2>2 DEF MayEdit, StillWritable, isWritable
  <2>4. ent[p] # "none" /\ pc[p] \in PastWritable
    BY <2>1, <2>2 DEF EntKnown, EntAt, PastWritable
  <2> QED
    BY <2>3, <2>4 DEF PlansMet, PlanMet
<1> QED
  BY <1>1, PlansMetHolds, MeanwhileInv, PTL DEF MSpec, OnlyRacingPlans

-----------------------------------------------------------------------------
(* While no plan changes, what a request has read of its user's plan is so *)
(* still; a limited create has room for one more, and an update past its   *)
(* check works on a row that is writable, if it is there at all.           *)
PlanInv ==
    /\ EntKnown
    /\ \A p \in Proc :
        /\ ent[p] # "none" => ent[p] = entitlement[req[p].user]
        /\ pc[p] \in PastCount => HasRoom(p)
        /\ pc[p] \in PastWritable => ent[p] # EntitlementFree \/ StillWritable(p)

(* No step of a request changes a plan. *)
LEMMA PlanFixed == "subscription" \notin Events /\ [Next]_vars => UNCHANGED entitlement
<1> SUFFICES ASSUME "subscription" \notin Events, [Next]_vars PROVE UNCHANGED entitlement
  OBVIOUS
<1> USE DEF others
<1>1. ASSUME NEW p \in Proc, Receive(p) \/ CallFails(p) \/ Reply(p) PROVE UNCHANGED entitlement
  BY <1>1 DEF Receive, CallFails, Reply
<1>2. ASSUME NEW p \in Proc, CreateStep(p) PROVE UNCHANGED entitlement
  BY <1>2 DEF CreateStep, CreateEntitlement, CreateCount, CreateVerify, CreateUnlimited, TxBegin,
              TxLock, TxCount, TxInsert, TxCommit, TxRollback
<1>3. ASSUME NEW p \in Proc, UpdateStep(p) \/ ReadStep(p) PROVE UNCHANGED entitlement
  BY <1>3 DEF UpdateStep, UpdateGet, UpdateEntitlement, UpdateWritable, UpdateVerify, UpdateWrite,
              ReadStep, GetRow, GetPlan, GetWritable, WritablePlan, WritableApiaryID
<1>4. ASSUME NEW p \in Proc, DeleteStep(p) PROVE UNCHANGED entitlement
  BY <1>4 DEF DeleteStep, DeleteGet, DeleteAllList, CascadeHives, CascadeMedia, CascadeReminders,
              CascadeRow, Cleanup, DeleteUserData
<1>5. CASE ExternalStep \/ Crash
  BY <1>5 DEF ExternalStep, SubscriptionChanges, MediaDeleted, HiveAdded, ExistsAnswered,
              ReminderAdded, Crash
<1> QED
  BY <1>1, <1>2, <1>3, <1>4, <1>5 DEF Next, Step, vars

(* Where no plan changes, the invariant of plans is kept and nobody is     *)
(* taken over the limit.                                                   *)
LEMMA PlanNext ==
    "subscription" \notin Events /\ ServiceInv /\ PlanInv /\ [Next]_vars
    => PlanInv' /\ \A u : ~(NewRows(u) # {} /\ Overrun(u))
<1> SUFFICES ASSUME "subscription" \notin Events, ServiceInv, PlanInv, [Next]_vars
             PROVE  PlanInv' /\ \A u : ~(NewRows(u) # {} /\ Overrun(u))
  OBVIOUS
<1>1. UNCHANGED entitlement /\ EntKnown /\ EntKnown'
  BY PlanFixed, EntKnownNext DEF PlanInv
<1>2. ASSUME NEW u, NewRows(u) # {}, Overrun(u) PROVE FALSE
  BY <1>1, <1>2, OverrunBy DEF PlanInv
<1>3. ASSUME NEW p \in Proc, ent'[p] # "none" PROVE ent'[p] = entitlement'[req'[p].user]
  BY <1>1, <1>3, EntFrom DEF PlanInv
<1>4. ASSUME NEW p \in Proc, pc'[p] \in PastCount, ~HasRoom(p)' PROVE FALSE
  <2>1. PICK q \in Proc : pc[p] \in PastCount /\ pc[q] = "createUnlimited" /\ req[q].user = req[p].user
    BY <1>4, RoomFrom DEF PlanInv
  <2>2. ent[q] \notin {"none", EntitlementFree} /\ ent[p] = EntitlementFree
    BY <1>1, <2>1 DEF EntKnown, EntAt, PastCount, InTx
  <2> QED
    BY <2>1, <2>2 DEF PlanInv, EntitlementFree
<1>5. ASSUME NEW p \in Proc, pc'[p] \in PastWritable, ent'[p] = EntitlementFree, ~StillWritable(p)'
      PROVE  FALSE
  <2>1. /\ pc[p] \in PastWritable /\ ent[p] = EntitlementFree
        /\ ~StillWritable(p) \/ (/\ NewRows(req[p].user) # {}
                                 /\ CountByUser(apiaries', req[p].user) > FreeMaxApiaries)
    BY <1>5, WritableFrom
  <2>2. entitlement[req[p].user] = EntitlementFree /\ StillWritable(p)
    BY <2>1 DEF PlanInv, EntitlementFree
  <2> QED
    BY <1>2, <2>1, <2>2 DEF Overrun
<1> QED
  BY <1>1, <1>2, <1>3, <1>4, <1>5 DEF PlanInv

LEMMA PlanHolds == "subscription" \notin Events => (Spec => []PlanInv)
<1> SUFFICES ASSUME "subscription" \notin Events PROVE Spec => []PlanInv
  OBVIOUS
<1>1. Init => PlanInv
  BY EntKnownInit DEF Init, PlanInv, PastCount, PastWritable
<1>2. ServiceInv /\ PlanInv /\ [Next]_vars => PlanInv'
  BY PlanNext
<1> QED
  BY <1>1, <1>2, ServiceInvHolds, PTL DEF Spec

(* While no plan changes, an edit reaches the table only if its apiary may *)
(* be edited: its owner has Pro, or it is one of the oldest the Free plan  *)
(* allows; creates and deletes beside it do not take that away (the        *)
(* finding edited_read_only shows that a change of plan does).             *)
THEOREM EditsAllowed == "subscription" \notin Events => (Spec => EditsWritable)
<1> DEFINE Ok == \A i \in Present(apiaries) :
              apiaries'[i] \notin {apiaries[i], NoRow} => MayEdit(apiaries, apiaries[i].user, i)
<1>1. ServiceInv /\ PlanInv /\ [Next]_vars => Ok
  <2> SUFFICES ASSUME ServiceInv, PlanInv, [Next]_vars, NEW i \in Present(apiaries),
                      apiaries'[i] \notin {apiaries[i], NoRow}
               PROVE  MayEdit(apiaries, apiaries[i].user, i)
    OBVIOUS
  <2>1. PICK p \in Proc : /\ pc[p] = "updateWrite" /\ req[p].id = i
                          /\ i \in Active(apiaries, req[p].user) /\ apiaries[i].user = req[p].user
    BY EditedBy
  <2>2. ent[p] = entitlement[req[p].user]
    BY <2>1 DEF PlanInv, EntKnown, EntAt, PastWritable
  <2>3. ent[p] # EntitlementFree \/ StillWritable(p)
    BY <2>1 DEF PlanInv, PastWritable
  <2> QED
    BY <2>1, <2>2, <2>3 DEF MayEdit, StillWritable, isWritable
<1>2. "subscription" \notin Events => (Spec => []PlanInv)
  BY PlanHolds
<1> QED
  BY <1>1, <1>2, ServiceInvHolds, PTL DEF Spec, EditsWritable

(* While no plan changes, an apiary just created may be edited, as the     *)
(* answer to the create says.                                              *)
THEOREM CreatesAllowed == "subscription" \notin Events => (Spec => CreatedWritable)
<1> SUFFICES ASSUME "subscription" \notin Events PROVE Spec => CreatedWritable
  OBVIOUS
<1> DEFINE Ok == \A i \in ApiaryId \ Present(apiaries) :
              apiaries'[i] # NoRow => MayEdit(apiaries', apiaries'[i].user, i)
<1>1. ServiceInv /\ PlanInv /\ [Next]_vars => Ok
  <2> SUFFICES ASSUME ServiceInv, PlanInv, [Next]_vars, NEW i \in ApiaryId \ Present(apiaries),
                      apiaries'[i] # NoRow
               PROVE  MayEdit(apiaries', apiaries'[i].user, i)
    OBVIOUS
  <2> DEFINE u == apiaries'[i].user
  <2>0. TypeOK /\ QuotaInv /\ Linked
    BY DEF ServiceInv
  <2>1. PICK p \in Proc : Inserts(p) /\ i = held[p].id
    BY InsertedBy DEF Present
  <2>2. apiaries'[i] = held[p] /\ ~held[p].deleted
    <3>1. held[p] \in Row /\ held[p].id \notin Present(apiaries)
      BY <2>0, <2>1, InsertFresh DEF Inserts, Inserting
    <3>2. RowAsked(p)
      BY <2>0, <2>1 DEF Linked, LinkedAt, AsAsked, Inserts, Inserting
    <3> QED
      BY <2>0, <2>1, <3>1, <3>2, InsertRows DEF RowAsked, Inserts
  <2>3. i \in Active(apiaries', u) /\ i \in NewRows(u)
    BY <2>2 DEF Active, NewRows, RowsOf, Present
  <2>4. ~Overrun(u) /\ UNCHANGED entitlement
    BY <2>3, PlanNext, PlanFixed
  <2>5. CASE entitlement[u] # EntitlementFree
    BY <2>4, <2>5 DEF MayEdit
  <2>6. CASE CountByUser(apiaries', u) <= FreeMaxApiaries
    <3>1. apiaries' \in Table
      BY <2>0, NextType DEF TypeOK
    <3> QED
      BY <2>3, <2>6, <3>1, FewAreWritable DEF MayEdit
  <2>7. CountByUser(apiaries', u) \in Nat
    BY ActiveFinite DEF CountByUser
  <2> QED
    BY <2>4, <2>5, <2>6, <2>7, LimitAssumption DEF Overrun
<1> QED
  BY <1>1, PlanHolds, ServiceInvHolds, PTL DEF Spec, CreatedWritable
=============================================================================
