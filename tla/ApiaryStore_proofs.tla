-------------------------- MODULE ApiaryStore_proofs --------------------------
(***************************************************************************)
(* The service implements the store of ApiaryStore, for every number of    *)
(* requests in flight, and what a create is answered is what happened.     *)
(*                                                                         *)
(* A step of the detailed specification can be matched with one of the     *)
(* store only when it is known which request the calling process is in and *)
(* that what it has in hand is what that request asked for.  Linked says   *)
(* so; it is the inductive invariant of this module.                       *)
(***************************************************************************)
EXTENDS ApiaryRows_proofs

-----------------------------------------------------------------------------
(* A request makes the calls of its own handler only, ... *)
OnRoute(kind, label) ==
    \/ label = "reply"
    \/ kind = "create" /\ label \in {"createEntitlement", "createCount", "createVerify",
                                     "txRollback"} \cup Inserting
    \/ kind = "update" /\ label \in {"updateGet", "updateEntitlement", "updateWritable",
                                     "updateVerify", "updateWrite"}
    \/ kind = "delete" /\ label \in {"deleteGet"} \cup Cascading
    \/ kind = "deleteAll" /\ label \in {"deleteAllList"} \cup (Cascading \ {"cleanup"})
    \/ kind = "deleteUser" /\ label = "deleteUser"
    \/ kind = "get" /\ label \in {"getRow", "getEntitlement", "getWritable"}
    \/ kind = "writable" /\ label \in {"writableEntitlement", "writableIDs"}

Routed(p) == IF pc[p] = "idle" THEN req[p] = NoRequest ELSE OnRoute(req[p].kind, pc[p])

(* ... has an outcome when it is about to be answered and not before, ...  *)
Told(p) == out[p] # "none" <=> pc[p] \in {"reply", "txRollback"}

(* ... has in hand the row it asked for: to be inserted, ...               *)
RowAsked(p) ==
    /\ held[p].user = req[p].user /\ held[p].name = req[p].name
    /\ held[p].images = dedupeImages(req[p].images)
    /\ ~TooManyImages(held[p].images)
    /\ held[p].created <= MaxClock /\ ~held[p].deleted

AsAsked(p) ==
    /\ pc[p] \in Inserting => RowAsked(p)
    (* to be edited or deleted,                                            *)
    /\ pc[p] \in HoldsRow /\ req[p].kind \in {"update", "delete"} => held[p].id = req[p].id
    (* or edited already;                                                  *)
    /\ pc[p] = "updateWrite" =>
          /\ held[p].name = req[p].name
          /\ req[p].images # Nil => held[p].images = dedupeImages(req[p].images)

(* and what it is to delete is a row of its user or has been deleted.      *)
Lives(a) == a.id \in RowsOf(apiaries, a.user) \cup removed
Followed(p) ==
    /\ pc[p] \in Cascading => \A a \in InHand(p) : Lives(a)
    /\ pc[p] \notin Cascading \cup {"reply"} => rest[p] = {}
    /\ pc[p] = "cleanup" => req[p].id \in removed

LinkedAt(p) == Routed(p) /\ Told(p) /\ AsAsked(p) /\ Followed(p)
Linked == clock <= MaxClock /\ \A p \in Proc : LinkedAt(p)

-----------------------------------------------------------------------------
LEMMA LinkedInit == Init => Linked
BY BoundAssumption DEF Init, Linked, LinkedAt, Routed, Told, AsAsked, Followed,
                       HoldsRow, Inserting, Cascading

(* Rows never change owner, and those that go are recorded as removed.     *)
LEMMA LivesOn ==
    ASSUME TypeOK, QuotaInv, NEW p \in Proc, Writes(p), NEW a, Lives(a)
    PROVE  Lives(a)'
<1> USE DEF Lives, RowsOf
<1>1. CASE NoWrite(p)
  BY <1>1 DEF NoWrite
<1>2. CASE Inserts(p)
  BY <1>2, InsertFresh, InsertRows DEF Inserts, Inserting, Present
<1>3. CASE Edits(p)
  <2>1. /\ held[p] \in Row /\ Present(apiaries') = Present(apiaries)
        /\ apiaries[held[p].id].user = apiaries'[held[p].id].user
        /\ \A i \in ApiaryId \ {held[p].id} : apiaries'[i] = apiaries[i]
    BY <1>3, HoldsRowType, UpdateRows DEF Edits, HoldsRow
  <2> QED
    BY <1>3, <2>1 DEF Edits, Present
<1>4. ASSUME NEW ids \in SUBSET ApiaryId, Deletes(p, ids) PROVE Lives(a)'
  BY <1>4, DeletedRows DEF Deletes, Present
<1> QED
  BY <1>1, <1>2, <1>3, <1>4 DEF Writes

(* What a step of p must establish for Linked to survive it.               *)
Links(p) ==
    /\ clock' <= MaxClock
    /\ out' = [out EXCEPT ![p] = out'[p]]
    /\ LinkedAt(p)'

LEMMA LinksNext ==
    ASSUME TypeOK, QuotaInv, Linked, NEW p \in Proc, Writes(p), Links(p)
    PROVE  Linked'
<1> SUFFICES ASSUME NEW q \in Proc \ {p} PROVE LinkedAt(q)'
  BY DEF Links, Linked
<1>1. /\ pc'[q] = pc[q] /\ held'[q] = held[q] /\ rest'[q] = rest[q] /\ req'[q] = req[q]
      /\ out'[q] = out[q] /\ LinkedAt(q)
  BY DEF Writes, Alone, Links, Linked, TypeOK
<1>2. Routed(q)' /\ Told(q)' /\ AsAsked(q)'
  BY <1>1 DEF LinkedAt, Routed, Told, AsAsked, RowAsked
<1>3. removed \subseteq removed'
  BY DEF Writes, NoWrite, Inserts, Edits, Deletes
<1>4. InHand(q)' = InHand(q)
  BY <1>1 DEF InHand
<1> QED
  BY <1>1, <1>2, <1>3, <1>4, LivesOn DEF LinkedAt, Followed

LEMMA CreateLinks ==
    ASSUME TypeOK, Linked, NEW p \in Proc, CreateStep(p)
    PROVE  Links(p)
<1> USE DEF TypeOK, database, others, locals, Goto, Finish, ThenFinish, Lost, FailTx
<1> USE DEF Links, Linked, LinkedAt, Routed, OnRoute, Told, Inserting, Cascading
<1>1. CASE CreateEntitlement(p)
  BY <1>1 DEF CreateEntitlement, AsAsked, Followed, HoldsRow
<1>2. CASE CreateCount(p)
  BY <1>2 DEF CreateCount, AsAsked, Followed, HoldsRow
<1>3. CASE CreateVerify(p)
  BY <1>3 DEF CreateVerify, NewApiary, AsAsked, RowAsked, Followed, HoldsRow
<1>4. CASE CreateUnlimited(p)
  BY <1>4 DEF CreateUnlimited, AsAsked, Followed, HoldsRow
<1>5. CASE TxBegin(p)
  BY <1>5 DEF TxBegin, AsAsked, RowAsked, Followed, HoldsRow
<1>6. CASE TxLock(p)
  BY <1>6 DEF TxLock, AsAsked, RowAsked, Followed, HoldsRow
<1>7. CASE TxCount(p)
  BY <1>7 DEF TxCount, AsAsked, RowAsked, Followed, HoldsRow
<1>8. CASE TxInsert(p)
  BY <1>8 DEF TxInsert, AsAsked, RowAsked, Followed, HoldsRow
<1>9. CASE TxCommit(p)
  BY <1>9 DEF TxCommit, AsAsked, Followed, HoldsRow
<1>10. CASE TxRollback(p)
  BY <1>10 DEF TxRollback, AsAsked, Followed, HoldsRow
<1> QED
  BY <1>1, <1>2, <1>3, <1>4, <1>5, <1>6, <1>7, <1>8, <1>9, <1>10 DEF CreateStep

(* The row that GetByID finds is the one asked for. *)
LEMMA GetByIDFinds ==
    ASSUME TypeOK, NEW p \in Proc, NEW row, row = GetByID(apiaries, req[p].user, req[p].id),
           row # NoRow
    PROVE  /\ row \in Row /\ row.id = req[p].id /\ row.user = req[p].user
           /\ row.id \in RowsOf(apiaries, req[p].user)
BY DEF GetByID, Active, RowsOf, Present, TypeOK, Table

LEMMA UpdateLinks ==
    ASSUME TypeOK, Linked, NEW p \in Proc, UpdateStep(p)
    PROVE  Links(p)
<1> USE DEF TypeOK, database, others, locals, Goto, Finish, ThenFinish, Lost
<1> USE DEF Links, Linked, LinkedAt, Routed, OnRoute, Told, Inserting, Cascading
<1>1. CASE UpdateGet(p)
  <2>1. pc'[p] = "reply" \/ held'[p].id = req[p].id
    BY <1>1, GetByIDFinds DEF UpdateGet
  <2> QED
    BY <1>1, <2>1 DEF UpdateGet, AsAsked, Followed, HoldsRow
<1>2. CASE UpdateEntitlement(p)
  BY <1>2 DEF UpdateEntitlement, AsAsked, Followed, HoldsRow
<1>3. CASE UpdateWritable(p)
  BY <1>3 DEF UpdateWritable, AsAsked, Followed, HoldsRow
<1>4. CASE UpdateVerify(p)
  <2>1. /\ held[p] \in Row /\ held[p].id = req[p].id
        /\ pc'[p] \in {"reply", "updateWrite"} /\ UNCHANGED <<clock, req, rest>>
        /\ out' = [out EXCEPT ![p] = out'[p]] /\ (out'[p] = "none" <=> pc'[p] = "updateWrite")
        /\ pc[p] = "updateVerify"
    BY <1>4 DEF UpdateVerify, HoldsRow, AsAsked
  <2>2. CASE pc'[p] = "reply"
    BY <1>4, <2>1, <2>2 DEF UpdateVerify, AsAsked, Followed, HoldsRow
  <2>3. CASE pc'[p] = "updateWrite"
    <3>1. PICK ids : /\ SetFields(p, ids)
                     /\ req[p].images # Nil => ids = dedupeImages(req[p].images)
      BY <1>4, <2>3 DEF UpdateVerify
    <3>2. /\ held'[p].id = held[p].id /\ held'[p].name = req[p].name
          /\ held'[p].images = ids
      BY <2>1, <3>1 DEF SetFields, Row
    <3> QED
      BY <2>1, <2>3, <3>1, <3>2 DEF AsAsked, Followed, HoldsRow
  <2> QED
    BY <2>1, <2>2, <2>3
<1>5. CASE UpdateWrite(p)
  BY <1>5 DEF UpdateWrite, AsAsked, Followed, HoldsRow
<1> QED
  BY <1>1, <1>2, <1>3, <1>4, <1>5 DEF UpdateStep

LEMMA ReadLinks ==
    ASSUME TypeOK, Linked, NEW p \in Proc, ReadStep(p)
    PROVE  Links(p)
<1> USE DEF TypeOK, database, others, locals, Goto, Finish
<1> USE DEF Links, Linked, LinkedAt, Routed, OnRoute, Told, Inserting, Cascading
<1>1. CASE GetRow(p)
  BY <1>1 DEF GetRow, AsAsked, Followed, HoldsRow
<1>2. CASE GetPlan(p)
  BY <1>2 DEF GetPlan, AsAsked, Followed, HoldsRow
<1>3. CASE GetWritable(p)
  BY <1>3 DEF GetWritable, AsAsked, Followed, HoldsRow
<1>4. CASE WritablePlan(p)
  BY <1>4 DEF WritablePlan, AsAsked, Followed, HoldsRow
<1>5. CASE WritableApiaryID(p)
  BY <1>5 DEF WritableApiaryID, AsAsked, Followed, HoldsRow
<1> QED
  BY <1>1, <1>2, <1>3, <1>4, <1>5 DEF ReadStep

LEMMA NextApiaryLinks ==
    ASSUME TypeOK, Linked, NEW p \in Proc, NEW rows \in SUBSET Row, NextApiary(p, rows),
           pc[p] \in {"deleteAllList", "cascadeRow"}, req[p].kind = "deleteAll",
           \A a \in rows : Lives(a)', UNCHANGED <<clock, req>>
    PROVE  Links(p)
<1> USE DEF TypeOK, Links, Linked, LinkedAt, Routed, OnRoute, Told, Inserting, Cascading
<1>1. CASE rows = {} /\ Finish(p, "DeletedAll") /\ UNCHANGED <<held, rest>>
  BY <1>1 DEF Finish, AsAsked, Followed, HoldsRow
<1>2. ASSUME NEW a \in rows, held' = [held EXCEPT ![p] = a],
             rest' = [rest EXCEPT ![p] = rows \ {a}], Goto(p, "cascadeHives")
      PROVE  Links(p)
  <2>1. \A b \in InHand(p)' : Lives(b)'
    BY <1>2 DEF InHand
  <2> QED
    BY <1>2, <2>1 DEF Goto, AsAsked, Followed, HoldsRow
<1> QED
  BY <1>1, <1>2 DEF NextApiary

LEMMA DeleteLinks ==
    ASSUME TypeOK, QuotaInv, OwnRowsOnly, Linked, NEW p \in Proc, DeleteStep(p)
    PROVE  Links(p)
<1> USE DEF TypeOK, database, others, locals, Goto, Finish, ThenGoto, ThenFinish, Lost
<1> USE DEF Links, Linked, LinkedAt, Routed, OnRoute, Told, Inserting, Cascading
<1>0. \A a \in InHand(p) : pc[p] \in Cascading => Lives(a)'
  <2>1. Writes(p)
    BY StepWrites DEF Step
  <2> QED
    BY <2>1, LivesOn DEF Followed
<1>1. CASE DeleteGet(p)
  <2>1. held'[p] # NoRow => held'[p].id \in RowsOf(apiaries', held'[p].user)
                            /\ held'[p].id = req[p].id
    BY <1>1, GetByIDFinds DEF DeleteGet
  <2>2. \A a \in InHand(p)' : Lives(a)'
    BY <1>1, <2>1 DEF DeleteGet, InHand, Lives, Followed
  <2> QED
    BY <1>1, <2>1, <2>2 DEF DeleteGet, AsAsked, Followed, HoldsRow
<1>2. CASE DeleteAllList(p)
  <2>1. ListAllByUser(apiaries, req[p].user) \subseteq Row
    BY DEF ListAllByUser, RowsOf, Present, Table
  <2>2. \A a \in ListAllByUser(apiaries, req[p].user) : Lives(a)'
    BY <1>2 DEF DeleteAllList, ListAllByUser, RowsOf, Present, Table, Lives
  <2> QED
    BY <1>2, <2>1, <2>2, NextApiaryLinks DEF DeleteAllList
<1>3. CASE CascadeHives(p)
  BY <1>0, <1>3 DEF CascadeHives, AfterHives, AsAsked, Followed, HoldsRow, InHand
<1>4. CASE CascadeMedia(p)
  BY <1>0, <1>4 DEF CascadeMedia, AsAsked, Followed, HoldsRow, InHand
<1>5. CASE CascadeReminders(p)
  BY <1>0, <1>5 DEF CascadeReminders, AsAsked, Followed, HoldsRow, InHand
<1>6. CASE CascadeRow(p)
  <2>1. CASE pc'[p] = "reply" /\ UNCHANGED <<held, rest>>
    BY <1>6, <2>1 DEF CascadeRow, AfterRow, NextApiary, AsAsked, Followed, HoldsRow
  <2>2. CASE Goto(p, "cleanup") /\ UNCHANGED <<held, rest>>
    BY <1>0, <1>6, <2>2 DEF CascadeRow, AfterRow, NextApiary, AsAsked, Followed, HoldsRow, InHand
  <2>3. CASE req[p].kind # "delete" /\ NextApiary(p, rest[p])
    BY <1>0, <1>6, <2>3, NextApiaryLinks DEF CascadeRow, InHand
  <2> QED
    BY <1>6, <2>1, <2>2, <2>3 DEF CascadeRow, AfterRow
<1>7. CASE Cleanup(p)
  BY <1>7 DEF Cleanup, AsAsked, Followed, HoldsRow
<1>8. CASE DeleteUserData(p)
  BY <1>8 DEF DeleteUserData, AsAsked, Followed, HoldsRow
<1> QED
  BY <1>1, <1>2, <1>3, <1>4, <1>5, <1>6, <1>7, <1>8 DEF DeleteStep

LEMMA LinkedNext == TypeOK /\ QuotaInv /\ OwnRowsOnly /\ Linked /\ [Next]_vars => Linked'
<1> SUFFICES ASSUME TypeOK, QuotaInv, OwnRowsOnly, Linked, [Next]_vars PROVE Linked'
  OBVIOUS
<1>1. CASE UNCHANGED <<database, pc, locals, out>>
  BY <1>1 DEF database, locals, Linked, LinkedAt, Routed, Told, AsAsked, RowAsked, Followed,
              InHand, Lives
<1>2. ASSUME NEW p \in Proc, Receive(p) \/ Step(p) PROVE Linked'
  <2> USE DEF TypeOK, Links, Linked, LinkedAt, Routed, OnRoute, Told, Inserting, Cascading
  <2>1. CASE Receive(p)
    <3>1. PICK r \in Request : req' = [req EXCEPT ![p] = r] /\ Goto(p, FirstCallOf(r.kind))
      BY <2>1 DEF Receive
    <3>2. r.kind \in Kind
      BY RequestFields
    <3>3. r.kind \in Kind => OnRoute(r.kind, FirstCallOf(r.kind))
      BY DEF FirstCallOf, Kind
    <3>4. FirstCallOf(r.kind) \in FirstCall
      BY <3>2 DEF FirstCallOf, Kind, FirstCall
    <3> HIDE DEF OnRoute
    <3>5. Links(p)
      BY <2>1, <3>1, <3>2, <3>3, <3>4
         DEF Receive, Goto, FirstCall, AsAsked, Followed, HoldsRow, database, locals
    <3> QED
      BY <2>1, <3>5, StepWrites, LinksNext
  <2>2. CASE Reply(p)
    <3>1. Links(p)
      BY <2>2 DEF Reply, AsAsked, Followed, HoldsRow, database
    <3> QED
      BY <2>2, <3>1, StepWrites, LinksNext DEF Step
  <2>3. CASE CallFails(p)
    <3>1. Links(p)
      BY <2>3 DEF CallFails, CanFail, FailTx, Finish, TxHolds, Calls, FirstCall, AsAsked, Followed,
                  HoldsRow, database, locals
    <3> QED
      BY <2>3, <3>1, StepWrites, LinksNext DEF Step
  <2> QED
    BY <1>2, <2>1, <2>2, <2>3, StepWrites, LinksNext, CreateLinks, UpdateLinks, ReadLinks,
       DeleteLinks DEF Step
<1>3. CASE ExternalStep
  BY <1>1, <1>3 DEF ExternalStep, SubscriptionChanges, MediaDeleted, HiveAdded, ExistsAnswered,
                    ReminderAdded
<1>4. CASE Crash
  BY <1>4 DEF Crash, Linked, LinkedAt, Routed, Told, AsAsked, Followed, HoldsRow, Inserting,
              Cascading
<1> QED
  BY <1>1, <1>2, <1>3, <1>4 DEF Next, vars

(* Which request a process is in shows in its next call, and what it has   *)
(* in hand is what that request asked for.                                 *)
THEOREM LinkedHolds == Spec => []Linked
<1>1. Init => Linked
  BY LinkedInit
<1>2. TypeOK /\ QuotaInv /\ OwnRowsOnly /\ Linked /\ [Next]_vars => Linked'
  BY LinkedNext
<1> QED
  BY <1>1, <1>2, TypeCorrect, QuotaInductive, OwnRowsHeld, PTL DEF Spec

-----------------------------------------------------------------------------
(* Answers to creates. *)

(* A create that was refused with its row already made.                    *)
Refused(p) ==
    /\ pc[p] \in {"txRollback", "reply"} /\ req[p].kind = "create" /\ held[p] # NoRow
    /\ out[p] \in Failure \ {"Internal"}

(* AnswersTrue is not inductive: the id of a refused row must stay out of  *)
(* use until the answer, and no row may be in hand before one is made.     *)
AnswersInv ==
    \A p \in Proc :
        /\ pc[p] = "reply" /\ req[p].kind = "create" /\ out[p] = "Created" => held[p].id \in Taken
        /\ Refused(p) => /\ held[p].id \notin Taken
                         /\ \A q \in Proc \ {p} : pc[q] \in Inserting => held[q].id # held[p].id
        /\ pc[p] = "txRollback" => out[p] \in Failure
        /\ pc[p] \in {"createEntitlement", "createCount", "createVerify"} => held[p] = NoRow

LEMMA AnswersImplied == AnswersInv => AnswersTrue
BY DEF AnswersInv, AnswersTrue, Refused, Taken

(* What a step of p must establish for AnswersInv to survive it.           *)
Tells(p) ==
    /\ out' = [out EXCEPT ![p] = out'[p]]
    /\ pc'[p] = "reply" /\ req'[p].kind = "create" /\ out'[p] = "Created" =>
          held[p].id \in Taken' /\ held'[p] = held[p]
    /\ Refused(p)' => /\ held'[p].id \notin Taken'
                      /\ \A q \in Proc \ {p} : pc[q] \in Inserting => held[q].id # held'[p].id
    /\ pc'[p] = "txRollback" => out'[p] \in Failure
    /\ pc'[p] \in {"createEntitlement", "createCount", "createVerify"} => held'[p] = NoRow
    /\ pc'[p] \in Inserting => \/ pc[p] \in Inserting /\ held'[p] = held[p]
                               \/ held'[p].id \notin UsedIds

(* A row on its way in has an id that no other one has.                    *)
LEMMA OwnId ==
    ASSUME QuotaInv, NEW p \in Proc, pc[p] \in Inserting
    PROVE  /\ held[p].id \notin Taken
           /\ \A q \in Proc \ {p} : pc[q] \in Inserting => held[q].id # held[p].id
BY DEF QuotaInv, FreshIds, Taken

LEMMA InsertTaken ==
    ASSUME TypeOK, QuotaInv, NEW p \in Proc, pc[p] \in Inserting,
           apiaries' = Insert(apiaries, held[p]), UNCHANGED removed
    PROVE  held[p].id \in Taken'
BY InsertFresh, InsertRows DEF Taken

LEMMA CreateTells ==
    ASSUME TypeOK, QuotaInv, Linked, AnswersInv, NEW p \in Proc, CreateStep(p)
    PROVE  Tells(p)
<1> USE DEF TypeOK, database, others, locals, Goto, Finish, ThenFinish, Lost, FailTx
<1> USE DEF Tells, Refused, Inserting, Failure
<1>0. UNCHANGED <<apiaries, removed>> => Taken' = Taken
  BY DEF Taken
<1>1. CASE CreateEntitlement(p)
  BY <1>1 DEF CreateEntitlement, AnswersInv
<1>2. CASE CreateCount(p)
  BY <1>2 DEF CreateCount, AnswersInv
<1>3. CASE CreateVerify(p)
  <2>1. ASSUME NEW o \in {"MediaLimit", "ImageNotFound"}, Finish(p, o), UNCHANGED held
        PROVE  Tells(p)
    <3>1. held'[p] = NoRow /\ pc'[p] = "reply" /\ out'[p] = o
      BY <1>3, <2>1 DEF CreateVerify, AnswersInv
    <3> QED
      BY <2>1, <3>1
  <2>2. ASSUME NEW label \in {"txBegin", "createUnlimited"}, Goto(p, label),
               NewApiary(p, dedupeImages(req[p].images))
        PROVE  Tells(p)
    BY <1>3, <2>2 DEF CreateVerify, NewApiary
  <2> QED
    BY <1>3, <2>1, <2>2 DEF CreateVerify
<1>4. CASE CreateUnlimited(p)
  BY <1>0, <1>4, OwnId, InsertTaken DEF CreateUnlimited
<1>5. CASE TxBegin(p)
  BY <1>5 DEF TxBegin
<1>6. CASE TxLock(p)
  BY <1>6 DEF TxLock
<1>7. CASE TxCount(p)
  BY <1>0, <1>7, OwnId DEF TxCount
<1>8. CASE TxInsert(p)
  BY <1>0, <1>8, OwnId DEF TxInsert
<1>9. CASE TxCommit(p)
  BY <1>9, InsertTaken DEF TxCommit
<1>10. CASE TxRollback(p)
  BY <1>0, <1>10 DEF TxRollback, AnswersInv, Linked, LinkedAt, Routed, OnRoute, Told
<1> QED
  BY <1>1, <1>2, <1>3, <1>4, <1>5, <1>6, <1>7, <1>8, <1>9, <1>10 DEF CreateStep

LEMMA OtherTells ==
    ASSUME TypeOK, QuotaInv, OwnRowsOnly, Linked, NEW p \in Proc,
           UpdateStep(p) \/ DeleteStep(p) \/ ReadStep(p)
    PROVE  Tells(p)
<1>1. Links(p)
  BY UpdateLinks, DeleteLinks, ReadLinks
<1>2. CASE UpdateStep(p)
  <2>1. pc[p] \in {"updateGet", "updateEntitlement", "updateWritable", "updateVerify",
                   "updateWrite"} /\ UNCHANGED req
    BY <1>2 DEF UpdateStep, UpdateGet, UpdateEntitlement, UpdateWritable, UpdateVerify, UpdateWrite,
                locals
  <2> QED
    BY <1>1, <2>1 DEF Linked, Links, LinkedAt, Routed, OnRoute, Told, Tells, Refused,
                      Inserting, Cascading
<1>3. CASE DeleteStep(p)
  <2>1. pc[p] \in {"deleteGet", "deleteAllList", "deleteUser"} \cup Cascading /\ UNCHANGED req
    BY <1>3 DEF DeleteStep, DeleteGet, DeleteAllList, CascadeHives, CascadeMedia, CascadeReminders,
                CascadeRow, Cleanup, DeleteUserData, Cascading, locals
  <2> QED
    BY <1>1, <2>1 DEF Linked, Links, LinkedAt, Routed, OnRoute, Told, Tells, Refused, Inserting,
                      Cascading
<1>4. CASE ReadStep(p)
  <2>1. pc[p] \in {"getRow", "getEntitlement", "getWritable", "writableEntitlement",
                   "writableIDs"} /\ UNCHANGED req
    BY <1>4 DEF ReadStep, GetRow, GetPlan, GetWritable, WritablePlan, WritableApiaryID, locals
  <2> QED
    BY <1>1, <2>1 DEF Linked, Links, LinkedAt, Routed, OnRoute, Told, Tells, Refused,
                      Inserting, Cascading
<1> QED
  BY <1>2, <1>3, <1>4

LEMMA TellsNext ==
    ASSUME TypeOK, QuotaInv, AnswersInv, NEW p \in Proc, Writes(p), Tells(p)
    PROVE  AnswersInv'
<1>1. /\ Taken \subseteq Taken'
      /\ pc[p] \notin Inserting => Taken' = Taken
      /\ pc[p] \in Inserting => Taken' \subseteq Taken \cup {held[p].id}
  <2>1. CASE NoWrite(p)
    BY <2>1 DEF NoWrite, Taken
  <2>2. CASE Inserts(p)
    BY <2>2, InsertFresh, InsertRows DEF Inserts, Inserting, Taken
  <2>3. CASE Edits(p)
    BY <2>3, HoldsRowType, UpdateRows DEF Edits, HoldsRow, Taken
  <2>4. ASSUME NEW ids \in SUBSET ApiaryId, Deletes(p, ids)
        PROVE  Taken' = Taken
    BY <2>4, DeletedRows DEF Deletes, Taken, RowsOf
  <2> QED
    BY <2>1, <2>2, <2>3, <2>4 DEF Writes
<1>2. /\ \A q \in Proc \ {p} : /\ pc'[q] = pc[q] /\ req'[q] = req[q]
                              /\ held'[q] = held[q] /\ out'[q] = out[q]
      /\ \A q \in Proc : Refused(q)' => held'[q] # NoRow
  BY DEF Writes, Alone, Tells, TypeOK, Refused
<1>3. ASSUME NEW q \in Proc \ {p}, Refused(q)
      PROVE  /\ held[q].id \notin Taken'
             /\ pc'[p] \in Inserting => held'[p].id # held[q].id
  <2>1. held[q].id \notin Taken /\ (pc[p] \in Inserting => held[p].id # held[q].id)
    BY <1>3 DEF AnswersInv
  <2>2. held[q].id \in UsedIds
    BY <1>3 DEF Refused, UsedIds
  <2> QED
    BY <1>1, <2>1, <2>2 DEF Tells
<1>4. \A q \in Proc \ {p} : Refused(q)' <=> Refused(q)
  BY <1>2 DEF Refused
<1>5. ASSUME NEW q \in Proc
      PROVE  Refused(q)' => /\ held'[q].id \notin Taken'
                            /\ \A r \in Proc \ {q} : pc'[r] \in Inserting => held'[r].id # held'[q].id
  <2>1. CASE q = p
    BY <1>2, <2>1 DEF Tells
  <2>2. CASE q # p
    BY <1>2, <1>3, <1>4, <2>2 DEF AnswersInv
  <2> QED
    BY <2>1, <2>2
<1> QED
  BY <1>1, <1>2, <1>5 DEF AnswersInv, Tells

LEMMA AnswersInit == Init => AnswersInv
BY DEF Init, AnswersInv, Refused

LEMMA AnswersNext ==
    TypeOK /\ QuotaInv /\ OwnRowsOnly /\ Linked /\ AnswersInv /\ [Next]_vars => AnswersInv'
<1> SUFFICES ASSUME TypeOK, QuotaInv, OwnRowsOnly, Linked, AnswersInv, [Next]_vars
             PROVE  AnswersInv'
  OBVIOUS
<1>1. CASE UNCHANGED <<database, pc, locals, out>>
  BY <1>1 DEF database, locals, AnswersInv, Refused, Taken
<1>2. ASSUME NEW p \in Proc, Receive(p) \/ Step(p) PROVE AnswersInv'
  <2>1. CASE Receive(p)
    <3>1. held[p] = NoRow /\ held' = held /\ out' = out /\ pc'[p] \in FirstCall
      BY <2>1, RequestFields DEF Receive, Goto, FirstCallOf, FirstCall, Kind, OwnRowsOnly, InHand,
                                 TypeOK
    <3>2. Tells(p)
      BY <3>1 DEF Tells, Refused, FirstCall, Inserting, TypeOK
    <3> QED
      BY <2>1, <3>2, StepWrites, TellsNext
  <2>2. CASE Reply(p)
    <3>1. Tells(p)
      BY <2>2 DEF Reply, Tells, Refused, Inserting, TypeOK
    <3> QED
      BY <2>2, <3>1, StepWrites, TellsNext DEF Step
  <2>3. CASE CallFails(p)
    <3>1. Tells(p)
      BY <2>3 DEF CallFails, FailTx, Finish, Tells, Refused, Inserting, Failure, TypeOK, locals
    <3> QED
      BY <2>3, <3>1, StepWrites, TellsNext DEF Step
  <2> QED
    BY <1>2, <2>1, <2>2, <2>3, StepWrites, TellsNext, CreateTells, OtherTells DEF Step
<1>3. CASE ExternalStep
  BY <1>1, <1>3 DEF ExternalStep, SubscriptionChanges, MediaDeleted, HiveAdded, ExistsAnswered,
                    ReminderAdded
<1>4. CASE Crash
  BY <1>4 DEF Crash, AnswersInv, Refused
<1> QED
  BY <1>1, <1>2, <1>3, <1>4 DEF Next, vars

(* What a create answers is what happened: 201 means that the row was      *)
(* stored, a refusal that it never was.                                    *)
THEOREM CreatesAnswered == Spec => []AnswersTrue
<1>1. Init => AnswersInv
  BY AnswersInit
<1>2. TypeOK /\ QuotaInv /\ OwnRowsOnly /\ Linked /\ AnswersInv /\ [Next]_vars => AnswersInv'
  BY AnswersNext
<1>3. AnswersInv => AnswersTrue
  BY AnswersImplied
<1> QED
  BY <1>1, <1>2, <1>3, TypeCorrect, QuotaInductive, OwnRowsHeld, LinkedHolds, PTL DEF Spec

-----------------------------------------------------------------------------
(* The refinement. *)

(* The store reads and writes its table with the same operators.           *)
LEMMA StoreCounts ==
    ASSUME NEW S
    PROVE  Store!Cardinality(S) = Cardinality(S)
BY DEF Store!Cardinality, Cardinality

LEMMA StoreReads ==
    ASSUME NEW t, NEW u, NEW a, NEW n
    PROVE  /\ Store!Present(t) = Present(t) /\ Store!RowsOf(t, u) = RowsOf(t, u)
           /\ Store!Active(t, u) = Active(t, u)
           /\ Store!WritableIDs(t, u, n) = WritableIDs(t, u, n)
           /\ Store!CountByUser(t, u) = CountByUser(t, u)
           /\ Store!NameClash(t, a) <=> NameClash(t, a)
<1>1. Store!Present(t) = Present(t)
  BY DEF Store!Present, Present
<1>2. \A v : Store!Active(t, v) = Active(t, v) /\ Store!RowsOf(t, v) = RowsOf(t, v)
  BY <1>1 DEF Store!RowsOf, RowsOf, Store!Active, Active
<1>3. \A i, j : Store!Before(t[j], t[i]) <=> Before(t[j], t[i])
  BY DEF Store!Before, Before
<1>4. \A i : Store!Cardinality({j \in Active(t, u) : Store!Before(t[j], t[i])})
             = Cardinality({j \in Active(t, u) : Before(t[j], t[i])})
  BY <1>3, StoreCounts
<1>5. Store!WritableIDs(t, u, n) = WritableIDs(t, u, n)
  BY <1>2, <1>4 DEF Store!WritableIDs, WritableIDs
<1>6. Store!CountByUser(t, u) = CountByUser(t, u)
  BY <1>2, StoreCounts DEF Store!CountByUser, CountByUser
<1> QED
  BY <1>1, <1>2, <1>5, <1>6 DEF Store!NameClash, NameClash

LEMMA StoreWrites ==
    ASSUME NEW t, NEW a, NEW ids
    PROVE  /\ Store!Insert(t, a) = Insert(t, a)
           /\ Store!DeleteRows(t, ids) = DeleteRows(t, ids)
           /\ Store!dedupeImages(ids) = dedupeImages(ids)
           /\ Store!TooManyImages(ids) <=> TooManyImages(ids)
<1>1. Store!TooManyImages(ids) <=> TooManyImages(ids)
  BY StoreCounts DEF Store!TooManyImages, TooManyImages
<1> QED
  BY <1>1 DEF Store!Insert, Insert, Store!DeleteRows, DeleteRows, Store!dedupeImages, dedupeImages

(* The store the service is mapped to meets the assumptions of ApiaryStore. *)
LEMMA StoreAssumed ==
    /\ 0..MaxClock \subseteq Nat
    /\ \A t \in {s.apiaries : s \in Seed} : t \in Table /\ UniqueNames(t)
BY SeedAssumption, BoundAssumption DEF World

LEMMA StoreStarts == Init => Store!StoreInit
<1> SUFFICES ASSUME Init PROVE Store!StoreInit
  OBVIOUS
<1>1. apiaries \in {s.apiaries : s \in Seed}
  BY DEF Init
<1> QED
  BY <1>1 DEF Init, Store!StoreInit

(* Everything proved so far, of which the refinement needs each part.      *)
ServiceInv ==
    /\ TypeOK /\ QuotaInv /\ UniqueActiveNames /\ OwnRowsOnly /\ ImagesAdmissible /\ StaysRemoved
    /\ Linked

Served(p) == Store!Serve(p) \/ UNCHANGED Store!store

LEMMA Silent ==
    ASSUME UNCHANGED <<apiaries, limited, removed, req, out>>, NEW p
    PROVE  Served(p)
BY DEF Served, Store!store

(* Where a request is when its client waits for an answer.                 *)
Waits(p) == pc[p] \notin {"idle", "reply", "txRollback"}

LEMMA Waiting ==
    ASSUME TypeOK, Linked, NEW p \in Proc, Waits(p)
    PROVE  Store!Open(p) /\ req[p] \in Request
BY RequestAssumption DEF Waits, TypeOK, Linked, LinkedAt, Told, Store!Open

LEMMA Answers ==
    ASSUME TypeOK, Linked, NEW p \in Proc, Waits(p), NEW o \in Outcome \ {"none"},
           Store!Truthful(req[p], o), Finish(p, o) \/ FailTx(p, o),
           UNCHANGED <<apiaries, limited, removed, req>>
    PROVE  Served(p)
<1>1. o \in Store!Outcome \ {"none"}
  BY DEF Outcome, Success, Failure, Store!Outcome, Store!Success, Store!Failure
<1>2. Store!Answer(p)
  BY <1>1, Waiting DEF Store!Answer, Store!Say, Finish, FailTx
<1> QED
  BY <1>2 DEF Served, Store!Serve

LEMMA FailureAnswers ==
    ASSUME TypeOK, Linked, NEW p \in Proc, Waits(p),
           Finish(p, "Internal") \/ FailTx(p, "Internal"),
           UNCHANGED <<apiaries, limited, removed, req>>
    PROVE  Served(p)
<1>1. "Internal" \in Outcome \ {"none"}
  BY DEF Outcome, Failure
<1> QED
  BY <1>1, Answers DEF Store!Truthful

(* The row in hand when it is inserted is the row the store creates.       *)
LEMMA RowCreated ==
    ASSUME ServiceInv, NEW p \in Proc, pc[p] \in Inserting, ~NameClash(apiaries, held[p]),
           apiaries' = Insert(apiaries, held[p]), UNCHANGED <<removed, req>>,
           \/ UNCHANGED limited
           \/ /\ limited' = limited \cup {held[p].id}
              /\ Cardinality(LimitedOf(held[p].user)) < FreeMaxApiaries,
           ThenFinish(p, "Created")
    PROVE  Served(p)
<1> DEFINE r == req[p]
           a == held[p]
<1>1. Store!Open(p) /\ r.kind = "create" /\ RowAsked(p)
  BY Waiting DEF ServiceInv, Waits, Linked, LinkedAt, Routed, OnRoute, AsAsked, Inserting, Cascading
<1>2. a \in Row /\ a.id \in ApiaryId /\ a.id \notin Present(apiaries) \cup removed
  BY InsertFresh DEF ServiceInv, Row
<1>3. a.created \in 0..MaxClock
  BY <1>1, <1>2, BoundAssumption DEF RowAsked, Row
<1>4. a = [id |-> a.id, user |-> r.user, name |-> r.name, images |-> Store!dedupeImages(r.images),
           created |-> a.created, deleted |-> FALSE]
  BY <1>1, <1>2, StoreWrites DEF RowAsked, Row
<1>5. ~Store!TooManyImages(Store!dedupeImages(r.images))
  BY <1>1, StoreWrites DEF RowAsked
<1>6. /\ ~Store!NameClash(apiaries, a) /\ apiaries' = Store!Insert(apiaries, a)
      /\ Store!Present(apiaries) = Present(apiaries)
  BY StoreReads, StoreWrites
<1>7. \/ UNCHANGED limited
      \/ /\ Store!Cardinality(Store!Active(apiaries, a.user) \cap limited) < FreeMaxApiaries
         /\ limited' = limited \cup {a.id}
  BY StoreReads, StoreCounts DEF LimitedOf
<1>8. Store!Confirm(p, "Created")
  BY DEF ThenFinish, Finish, Lost, Store!Confirm, Store!Say
<1>9. Store!CreateRow(p)
  BY <1>1, <1>2, <1>3, <1>4, <1>5, <1>6, <1>7, <1>8 DEF Store!CreateRow
<1> QED
  BY <1>9 DEF Served, Store!Serve

(* A photo check that fails had a photo to check.                          *)
LEMMA SomeImage ==
    ASSUME NEW u, NEW ids, ~VerifyOwnership(u, ids)
    PROVE  ids # {}
BY DEF VerifyOwnership

LEMMA NameRefused ==
    ASSUME ServiceInv, NEW p \in Proc, Waits(p), pc[p] \in Inserting \cup {"updateWrite"},
           NameClash(apiaries, held[p]),
           Finish(p, "NameTaken") \/ FailTx(p, "NameTaken"),
           UNCHANGED <<apiaries, limited, removed, req>>
    PROVE  Served(p)
<1>1. /\ held[p].user = req[p].user /\ held[p].name = req[p].name
      /\ req[p].kind \in {"create", "update"}
      /\ req[p].kind = "update" => held[p].id = req[p].id
  <2>1. CASE pc[p] \in Inserting
    BY <2>1 DEF ServiceInv, Linked, LinkedAt, Routed, OnRoute, AsAsked, RowAsked, Inserting, Cascading
  <2>2. CASE pc[p] = "updateWrite"
    <3>1. held[p] \in Row /\ held[p] \in InHand(p)
      BY <2>2, HoldsRowType, NoRowAssumption DEF ServiceInv, HoldsRow, InHand
    <3> QED
      BY <2>2, <3>1 DEF ServiceInv, OwnRowsOnly, Linked, LinkedAt, Routed, OnRoute, AsAsked, HoldsRow,
                        Inserting, Cascading
  <2> QED
    BY <2>1, <2>2
<1>2. Store!NameInUse(req[p])
  <2>1. PICK j \in Active(apiaries, req[p].user) : j # held[p].id /\ apiaries[j].name = req[p].name
    BY <1>1 DEF NameClash
  <2>2. j \in Store!Active(apiaries, req[p].user)
    BY <2>1, StoreReads
  <2> QED
    BY <1>1, <2>1, <2>2 DEF Store!NameInUse
<1>3. Store!Truthful(req[p], "NameTaken") /\ "NameTaken" \in Outcome \ {"none"}
  BY <1>1, <1>2 DEF Store!Truthful, Outcome, Failure
<1> QED
  BY <1>3, Answers DEF ServiceInv

LEMMA CreateServed ==
    ASSUME ServiceInv, NEW p \in Proc, CreateStep(p)
    PROVE  Served(p)
<1> USE DEF database, others, locals
<1> DEFINE ids == dedupeImages(req[p].images)
<1>0. /\ TypeOK /\ Linked
      /\ pc[p] \in Inserting => /\ req[p].kind = "create" /\ held[p].user = req[p].user
      /\ {"LimitReached", "MediaLimit", "ImageNotFound"} \subseteq Outcome \ {"none"}
  BY DEF ServiceInv, Linked, LinkedAt, Routed, OnRoute, AsAsked, RowAsked, Inserting, Cascading,
         Outcome, Failure
<1>1. CASE CreateEntitlement(p)
  BY <1>1, Silent DEF CreateEntitlement, Goto
<1>2. CASE CreateCount(p)
  <2>1. CASE out' = out
    BY <1>2, <2>1, Silent DEF CreateCount
  <2>2. CASE AtLimit(CountByUser(apiaries, req[p].user), FreeMaxApiaries) /\ Finish(p, "LimitReached")
    <3>1. pc[p] = "createCount" /\ req[p].kind = "create"
      BY <1>0, <1>2 DEF CreateCount, Linked, LinkedAt, Routed, OnRoute, Inserting, Cascading
    <3>2. Store!Truthful(req[p], "LimitReached")
      BY <2>2, <3>1, StoreReads DEF Store!Truthful, Store!AtLimit, AtLimit
    <3> QED
      BY <1>0, <1>2, <2>2, <3>1, <3>2, Answers DEF CreateCount, Waits
  <2> QED
    BY <1>2, <2>1, <2>2 DEF CreateCount, Goto
<1>3. CASE CreateVerify(p)
  <2>0. pc[p] = "createVerify" /\ req[p].kind = "create"
    BY <1>0, <1>3 DEF CreateVerify, Linked, LinkedAt, Routed, OnRoute, Inserting, Cascading
  <2>1. CASE TooManyImages(ids) /\ Finish(p, "MediaLimit")
    <3>1. Store!Truthful(req[p], "MediaLimit")
      BY <2>0, <2>1, StoreWrites DEF Store!Truthful
    <3> QED
      BY <1>0, <1>3, <2>0, <2>1, <3>1, Answers DEF CreateVerify, Waits
  <2>2. CASE ~VerifyOwnership(req[p].user, ids) /\ Finish(p, "ImageNotFound")
    <3>1. Store!Truthful(req[p], "ImageNotFound")
      BY <2>0, <2>2, SomeImage, StoreWrites DEF Store!Truthful
    <3> QED
      BY <1>0, <1>3, <2>0, <2>2, <3>1, Answers DEF CreateVerify, Waits
  <2>3. CASE out' = out
    BY <1>3, <2>3, Silent DEF CreateVerify
  <2> QED
    BY <1>3, <2>1, <2>2, <2>3 DEF CreateVerify, Goto
<1>4. CASE CreateUnlimited(p)
  BY <1>4, RowCreated, NameRefused DEF CreateUnlimited, Inserting, Waits
<1>5. CASE TxBegin(p) \/ TxLock(p) \/ TxRollback(p)
  BY <1>5, Silent DEF TxBegin, TxLock, TxRollback, Goto
<1>6. CASE TxCount(p)
  <2>1. CASE out' = out
    BY <1>6, <2>1, Silent DEF TxCount
  <2>2. CASE AtLimit(CountByUser(apiaries, held[p].user), FreeMaxApiaries) /\ FailTx(p, "LimitReached")
    <3>1. Store!Truthful(req[p], "LimitReached")
      BY <1>0, <1>6, <2>2, StoreReads DEF TxCount, Inserting, Store!Truthful, Store!AtLimit, AtLimit
    <3> QED
      BY <1>0, <1>6, <2>2, <3>1, Answers DEF TxCount, Waits
  <2> QED
    BY <1>6, <2>1, <2>2 DEF TxCount, Goto
<1>7. CASE TxInsert(p)
  <2>1. CASE out' = out
    BY <1>7, <2>1, Silent DEF TxInsert
  <2>2. CASE NameClash(apiaries, held[p]) /\ FailTx(p, "NameTaken")
    BY <1>7, <2>2, NameRefused DEF TxInsert, Inserting, Waits
  <2> QED
    BY <1>7, <2>1, <2>2 DEF TxInsert, Goto
<1>8. CASE TxCommit(p)
  <2>1. ~NameClash(apiaries, held[p]) /\ Cardinality(LimitedOf(held[p].user)) < FreeMaxApiaries
    BY <1>8 DEF TxCommit, ServiceInv, UniqueActiveNames, QuotaInv, RoomLeft
  <2> QED
    BY <1>8, <2>1, RowCreated DEF TxCommit, Inserting
<1> QED
  BY <1>1, <1>2, <1>3, <1>4, <1>5, <1>6, <1>7, <1>8 DEF CreateStep

LEMMA RowEdited ==
    ASSUME ServiceInv, NEW p \in Proc, pc[p] = "updateWrite",
           Updatable(apiaries, held[p]), ~NameClash(apiaries, held[p]),
           apiaries' = Update(apiaries, held[p]), UNCHANGED <<limited, removed, req>>,
           ThenFinish(p, "Updated")
    PROVE  Served(p)
<1> DEFINE r == req[p]
           a == held[p]
           b == [apiaries[r.id] EXCEPT !.name = r.name, !.images = a.images]
<1>1. Store!Open(p) /\ r.kind = "update"
  BY Waiting DEF ServiceInv, Waits, Linked, LinkedAt, Routed, OnRoute, Inserting, Cascading
<1>2. /\ a \in Row /\ a.id = r.id /\ a.user = r.user /\ a.name = r.name
      /\ r.images # Nil => a.images = dedupeImages(r.images)
      /\ Admissible(a, media)
  <2>1. a \in Row /\ a \in InHand(p)
    BY HoldsRowType, NoRowAssumption DEF ServiceInv, HoldsRow, InHand
  <2> QED
    BY <1>1, <2>1 DEF ServiceInv, OwnRowsOnly, ImagesAdmissible, Linked, LinkedAt, AsAsked, HoldsRow
<1>3. r.id \in Store!Active(apiaries, r.user)
  BY <1>2, StoreReads DEF Updatable
<1>4. /\ a.images \in SUBSET Media
      /\ r.images # Nil => a.images = Store!dedupeImages(r.images)
  BY <1>2, StoreWrites DEF Row
<1>5. ~Store!TooManyImages(a.images)
  BY <1>2, StoreWrites, FS_CardinalityType, LimitAssumption DEF Admissible, TooManyImages
<1>6. /\ apiaries \in Table /\ r.id \in ApiaryId /\ apiaries[r.id] \in Row
      /\ apiaries[r.id].user = r.user /\ apiaries[r.id].id = r.id
  BY <1>2 DEF ServiceInv, TypeOK, Updatable, Active, RowsOf, Present, Table
<1>7. apiaries' = [apiaries EXCEPT ![r.id] = b]
  BY <1>2, <1>6 DEF Update, Table
<1>8. ~Store!NameClash(apiaries, b)
  <2>1. b.user = a.user /\ b.id = a.id /\ b.name = a.name
    BY <1>2, <1>6 DEF Row
  <2>2. ~NameClash(apiaries, b)
    BY <2>1 DEF NameClash
  <2> QED
    BY <2>2, StoreReads
<1>9. Store!Confirm(p, "Updated")
  BY DEF ThenFinish, Finish, Lost, Store!Confirm, Store!Say
<1>10. Store!EditRow(p)
  BY <1>1, <1>3, <1>4, <1>5, <1>7, <1>8, <1>9 DEF Store!EditRow
<1> QED
  BY <1>10 DEF Served, Store!Serve

LEMMA UpdateServed ==
    ASSUME ServiceInv, NEW p \in Proc, UpdateStep(p)
    PROVE  Served(p)
<1> USE DEF database, others, locals
<1> DEFINE ids == dedupeImages(req[p].images)
<1>0. /\ TypeOK /\ Linked
      /\ pc[p] \in {"updateGet", "updateWritable", "updateVerify", "updateWrite"} =>
            Waits(p) /\ req[p].kind = "update"
      /\ {"NotFound", "ReadOnly", "MediaLimit", "ImageNotFound"} \subseteq Outcome \ {"none"}
  BY DEF ServiceInv, Linked, LinkedAt, Routed, OnRoute, Inserting, Cascading, Outcome, Failure, Waits
<1>1. CASE UpdateGet(p)
  <2>1. CASE out' = out
    BY <1>1, <2>1, Silent DEF UpdateGet
  <2>2. CASE GetByID(apiaries, req[p].user, req[p].id) = NoRow /\ Finish(p, "NotFound")
    <3>1. req[p].id \notin Active(apiaries, req[p].user)
      BY <2>2 DEF GetByID, Active, RowsOf, Present
    <3>2. Store!Truthful(req[p], "NotFound")
      BY <1>0, <1>1, <3>1, StoreReads DEF UpdateGet, Store!Truthful, Store!Absent
    <3> QED
      BY <1>0, <1>1, <2>2, <3>2, Answers DEF UpdateGet
  <2> QED
    BY <1>1, <2>1, <2>2 DEF UpdateGet, Goto
<1>2. CASE UpdateEntitlement(p)
  BY <1>2, Silent DEF UpdateEntitlement, Goto
<1>3. CASE UpdateWritable(p)
  <2>1. CASE out' = out
    BY <1>3, <2>1, Silent DEF UpdateWritable
  <2>2. CASE ~isWritable(req[p].user, req[p].id) /\ Finish(p, "ReadOnly")
    <3>1. Store!Truthful(req[p], "ReadOnly")
      BY <1>0, <1>3, <2>2, StoreReads DEF UpdateWritable, isWritable, Store!Truthful, Store!ReadOnlyNow
    <3> QED
      BY <1>0, <1>3, <2>2, <3>1, Answers DEF UpdateWritable
  <2> QED
    BY <1>3, <2>1, <2>2 DEF UpdateWritable, Goto
<1>4. CASE UpdateVerify(p)
  <2>1. CASE TooManyImages(ids) /\ Finish(p, "MediaLimit")
    <3>1. Store!Truthful(req[p], "MediaLimit")
      BY <1>0, <1>4, <2>1, StoreWrites DEF UpdateVerify, Store!Truthful
    <3> QED
      BY <1>0, <1>4, <2>1, <3>1, Answers DEF UpdateVerify
  <2>2. CASE ~VerifyOwnership(req[p].user, ids) /\ Finish(p, "ImageNotFound")
    <3>1. Store!Truthful(req[p], "ImageNotFound")
      BY <1>0, <1>4, <2>2, SomeImage, StoreWrites DEF UpdateVerify, Store!Truthful
    <3> QED
      BY <1>0, <1>4, <2>2, <3>1, Answers DEF UpdateVerify
  <2>3. CASE out' = out
    BY <1>4, <2>3, Silent DEF UpdateVerify
  <2> QED
    BY <1>4, <2>1, <2>2, <2>3 DEF UpdateVerify, Goto
<1>5. CASE UpdateWrite(p)
  <2>1. CASE ~Updatable(apiaries, held[p]) /\ Finish(p, "NotFound") /\ UNCHANGED apiaries
    <3>1. held[p] \in InHand(p) /\ held[p].id = req[p].id
      BY <1>0, <1>5 DEF UpdateWrite, TypeOK, Linked, LinkedAt, AsAsked, HoldsRow, InHand
    <3>2. req[p].id \notin Store!Active(apiaries, req[p].user)
      BY <2>1, <3>1, StoreReads DEF ServiceInv, OwnRowsOnly, Updatable
    <3>3. Store!Truthful(req[p], "NotFound")
      BY <1>0, <1>5, <3>2 DEF UpdateWrite, Store!Truthful, Store!Absent
    <3> QED
      BY <1>0, <1>5, <2>1, <3>3, Answers DEF UpdateWrite
  <2>2. CASE NameClash(apiaries, held[p]) /\ Finish(p, "NameTaken") /\ UNCHANGED apiaries
    BY <1>0, <1>5, <2>2, NameRefused DEF UpdateWrite
  <2> QED
    BY <1>5, <2>1, <2>2, RowEdited DEF UpdateWrite
<1> QED
  BY <1>1, <1>2, <1>3, <1>4, <1>5 DEF UpdateStep

LEMMA ReadServed ==
    ASSUME ServiceInv, NEW p \in Proc, ReadStep(p)
    PROVE  Served(p)
<1> USE DEF database, others, locals
<1> DEFINE ids == WritableIDs(apiaries, req[p].user, FreeMaxApiaries)
<1>0. /\ TypeOK /\ Linked
      /\ pc[p] \in {"getRow", "getEntitlement", "getWritable"} => Waits(p) /\ req[p].kind = "get"
      /\ pc[p] \in {"writableEntitlement", "writableIDs"} => Waits(p) /\ req[p].kind = "writable"
      /\ {"NotFound", "Writable", "ReadOnlyView", "Unrestricted", "None"} \subseteq Outcome \ {"none"}
  BY DEF ServiceInv, Linked, LinkedAt, Routed, OnRoute, Inserting, Cascading, Outcome, Success,
         Failure, Waits
<1>1. CASE GetRow(p)
  <2>1. CASE out' = out
    BY <1>1, <2>1, Silent DEF GetRow
  <2>2. CASE GetByID(apiaries, req[p].user, req[p].id) = NoRow /\ Finish(p, "NotFound")
    <3>1. req[p].id \notin Active(apiaries, req[p].user)
      BY <2>2 DEF GetByID, Active, RowsOf, Present
    <3>2. Store!Truthful(req[p], "NotFound")
      BY <1>0, <1>1, <3>1, StoreReads DEF GetRow, Store!Truthful, Store!Absent
    <3> QED
      BY <1>0, <1>1, <2>2, <3>2, Answers DEF GetRow
  <2> QED
    BY <1>1, <2>1, <2>2 DEF GetRow, Goto
<1>2. CASE GetPlan(p)
  <2>1. pc[p] = "getEntitlement" => Store!Truthful(req[p], "Writable")
    BY <1>0 DEF Store!Truthful
  <2> QED
    BY <1>0, <1>2, <2>1, Answers, Silent DEF GetPlan, Goto
<1>3. CASE GetWritable(p)
  <2>1. pc[p] = "getWritable" => /\ Store!Truthful(req[p], "Writable")
                                 /\ req[p].id \notin ids => Store!Truthful(req[p], "ReadOnlyView")
    BY <1>0, StoreReads DEF Store!Truthful, Store!ReadOnlyNow
  <2> QED
    BY <1>0, <1>3, <2>1, Answers DEF GetWritable
<1>4. CASE WritablePlan(p)
  <2>1. pc[p] = "writableEntitlement" => Store!Truthful(req[p], "Unrestricted")
    BY <1>0 DEF Store!Truthful
  <2> QED
    BY <1>0, <1>4, <2>1, Answers, Silent DEF WritablePlan, Goto
<1>5. CASE WritableApiaryID(p)
  <2>1. CASE ids = {} /\ Finish(p, "None")
    <3>1. Store!Truthful(req[p], "None")
      BY <1>0, <1>5, <2>1, StoreReads DEF WritableApiaryID, Store!Truthful
    <3> QED
      BY <1>0, <1>5, <2>1, <3>1, Answers DEF WritableApiaryID
  <2>2. ASSUME NEW i \in Oldest(ids), Finish(p, "Writable")
        PROVE  Served(p)
    <3>1. i \in Active(apiaries, req[p].user)
      BY DEF Oldest, WritableIDs
    <3>2. Store!Truthful(req[p], "Writable")
      BY <1>0, <1>5, <3>1, StoreReads DEF WritableApiaryID, Store!Truthful
    <3> QED
      BY <1>0, <1>5, <2>2, <3>2, Answers DEF WritableApiaryID
  <2> QED
    BY <1>5, <2>1, <2>2 DEF WritableApiaryID
<1> QED
  BY <1>1, <1>2, <1>3, <1>4, <1>5 DEF ReadStep

LEMMA DeleteServed ==
    ASSUME ServiceInv, NEW p \in Proc, DeleteStep(p)
    PROVE  Served(p)
<1> USE DEF database, others, locals
<1> DEFINE u == req[p].user
<1>0. /\ TypeOK /\ Linked
      /\ pc[p] \in {"deleteGet", "deleteAllList", "deleteUser"} \cup Cascading => Waits(p)
      /\ pc[p] \in Cascading => req[p].kind \in {"delete", "deleteAll"}
      /\ pc[p] \in {"deleteGet", "cleanup"} => req[p].kind = "delete"
      /\ pc[p] = "deleteAllList" => req[p].kind = "deleteAll"
      /\ pc[p] = "deleteUser" => req[p].kind = "deleteUser"
      /\ {"NotFound", "Deleted", "DeletedWarned", "DeletedAll"} \subseteq Outcome \ {"none"}
  BY DEF ServiceInv, Linked, LinkedAt, Routed, OnRoute, Inserting, Cascading, Outcome, Success,
         Failure, Waits
<1>1. CASE DeleteGet(p)
  <2>1. CASE out' = out
    BY <1>1, <2>1, Silent DEF DeleteGet
  <2>2. CASE GetByID(apiaries, u, req[p].id) = NoRow /\ Finish(p, "NotFound")
    <3>1. req[p].id \notin Active(apiaries, u)
      BY <2>2 DEF GetByID, Active, RowsOf, Present
    <3>2. Store!Truthful(req[p], "NotFound")
      BY <1>0, <1>1, <3>1, StoreReads DEF DeleteGet, Store!Truthful, Store!Absent
    <3> QED
      BY <1>0, <1>1, <2>2, <3>2, Answers DEF DeleteGet
  <2> QED
    BY <1>1, <2>1, <2>2 DEF DeleteGet, Goto
<1>2. CASE DeleteAllList(p)
  <2>1. CASE out' = out
    BY <1>2, <2>1, Silent DEF DeleteAllList
  <2>2. CASE ListAllByUser(apiaries, u) = {} /\ Finish(p, "DeletedAll")
    <3>1. RowsOf(apiaries, u) = {}
      BY <2>2 DEF ListAllByUser
    <3>2. Store!Truthful(req[p], "DeletedAll")
      BY <1>0, <1>2, <3>1, StoreReads DEF DeleteAllList, Store!Truthful
    <3> QED
      BY <1>0, <1>2, <2>2, <3>2, Answers DEF DeleteAllList
  <2> QED
    BY <1>2, <2>1, <2>2 DEF DeleteAllList, NextApiary, Goto
<1>3. CASE CascadeHives(p) \/ CascadeMedia(p) \/ CascadeReminders(p)
  <2>1. pc[p] \in Cascading /\ (out' = out \/ Finish(p, "Internal"))
    BY <1>3 DEF CascadeHives, CascadeMedia, CascadeReminders, ThenGoto, Lost, Goto, Cascading
  <2> QED
    BY <1>0, <1>3, <2>1, Silent, FailureAnswers DEF CascadeHives, CascadeMedia, CascadeReminders
<1>4. CASE CascadeRow(p)
  <2>0. /\ pc[p] = "cascadeRow" /\ pc[p] \in Cascading
        /\ held[p] \in InHand(p) /\ held[p].user = u /\ Lives(held[p])
        /\ req[p].kind = "delete" => held[p].id = req[p].id
    <3>1. pc[p] = "cascadeRow" /\ pc[p] \in Cascading /\ held[p] \in InHand(p)
      BY <1>0, <1>4 DEF CascadeRow, Cascading, TypeOK, HoldsRow, InHand
    <3> QED
      BY <1>0, <3>1 DEF ServiceInv, OwnRowsOnly, Linked, LinkedAt, AsAsked, Followed, HoldsRow
  <2>1. CASE held[p].id \notin RowsOf(apiaries, u) /\ Finish(p, "NotFound") /\ UNCHANGED <<apiaries, removed>>
    <3>1. Store!Truthful(req[p], "NotFound")
      <4>1. CASE req[p].kind = "delete"
        BY <2>0, <2>1, <4>1, StoreReads DEF Store!Truthful, Store!Absent, Active
      <4>2. CASE req[p].kind = "deleteAll"
        BY <2>0, <2>1, <4>2 DEF Store!Truthful, Lives
      <4> QED
        BY <1>0, <2>0, <4>1, <4>2
    <3> QED
      BY <1>0, <1>4, <2>0, <2>1, <3>1, Answers DEF CascadeRow
  <2>2. CASE held[p].id \in RowsOf(apiaries, u)
    <3>1. /\ held[p].id \in Store!RowsOf(apiaries, u)
          /\ apiaries' = Store!DeleteRows(apiaries, {held[p].id})
          /\ removed' = removed \cup {held[p].id} /\ UNCHANGED <<limited, req>>
      BY <1>4, <2>2, StoreReads, StoreWrites DEF CascadeRow
    <3>2. \/ UNCHANGED out
          \/ req[p].kind = "deleteAll" /\ Finish(p, "DeletedAll")
          \/ Finish(p, "Internal")
      BY <1>0, <1>4, <2>0, <2>2 DEF CascadeRow, AfterRow, NextApiary, Goto, Lost
    <3>3. \/ UNCHANGED <<req, out>>
          \/ req[p].kind = "deleteAll" /\ Store!Confirm(p, "DeletedAll")
          \/ Store!Say(p, "Internal") /\ UNCHANGED req
      BY <3>1, <3>2 DEF Finish, Store!Confirm, Store!Say
    <3>4. Store!RemoveRow(p)
      BY <1>0, <2>0, <3>1, <3>3, Waiting DEF Store!RemoveRow
    <3> QED
      BY <3>4 DEF Served, Store!Serve
  <2> QED
    BY <1>4, <2>1, <2>2 DEF CascadeRow
<1>5. CASE Cleanup(p)
  <2>1. pc[p] = "cleanup" /\ pc[p] \in Cascading /\ req[p].id \in removed
    BY <1>0, <1>5 DEF Cleanup, Cascading, Linked, LinkedAt, Followed
  <2>2. Store!Truthful(req[p], "Deleted") /\ Store!Truthful(req[p], "DeletedWarned")
    BY <1>0, <2>1 DEF Store!Truthful
  <2> QED
    BY <1>0, <1>5, <2>1, <2>2, Answers DEF Cleanup
<1>6. CASE DeleteUserData(p)
  <2>1. Store!Open(p) /\ req[p].kind = "deleteUser"
    BY <1>0, <1>6, Waiting DEF DeleteUserData
  <2>2. /\ apiaries' = Store!DeleteRows(apiaries, Store!RowsOf(apiaries, u))
        /\ removed' = removed \cup Store!RowsOf(apiaries, u) /\ UNCHANGED <<limited, req>>
    BY <1>6, StoreReads, StoreWrites DEF DeleteUserData
  <2>3. Store!Confirm(p, "UserDeleted")
    BY <1>6 DEF DeleteUserData, ThenFinish, Finish, Lost, Store!Confirm, Store!Say
  <2>4. Store!RemoveAll(p)
    BY <2>1, <2>2, <2>3 DEF Store!RemoveAll
  <2> QED
    BY <2>4 DEF Served, Store!Serve
<1> QED
  BY <1>1, <1>2, <1>3, <1>4, <1>5, <1>6 DEF DeleteStep

(* Every step is a step of the store, or none that its clients see.        *)
LEMMA StepServed == ServiceInv /\ [Next]_vars => [Store!StoreNext]_Store!store
<1> SUFFICES ASSUME ServiceInv, [Next]_vars PROVE [Store!StoreNext]_Store!store
  OBVIOUS
<1>1. CASE UNCHANGED <<apiaries, limited, removed, req, out>>
  BY <1>1 DEF Store!store
<1>2. ASSUME NEW p \in Proc, Receive(p) PROVE Store!Ask(p)
  <2>1. req[p] = NoRequest /\ out[p] = "none"
    BY <1>2 DEF Receive, ServiceInv, TypeOK, Linked, LinkedAt, Routed, Told
  <2> QED
    BY <1>2, <2>1 DEF Receive, Goto, database, Store!Ask
<1>3. ASSUME NEW p \in Proc, Reply(p) PROVE Store!Close(p)
  <2>1. out[p] # "none"
    BY <1>3 DEF Reply, ServiceInv, Linked, LinkedAt, Told
  <2> QED
    BY <1>3, <2>1 DEF Reply, database, Store!Close, Store!Say
<1>4. ASSUME NEW p \in Proc, CallFails(p) PROVE Served(p)
  <2>1. Waits(p)
    BY <1>4 DEF CallFails, CanFail, Waits, Calls, FirstCall, HoldsRow, Inserting, Cascading
  <2>2. Finish(p, "Internal") \/ FailTx(p, "Internal")
    BY <1>4 DEF CallFails
  <2> QED
    BY <1>4, <2>1, <2>2, FailureAnswers DEF ServiceInv, CallFails, database, locals
<1>5. ASSUME NEW p \in Proc, Receive(p) \/ Step(p) PROVE Served(p)
  BY <1>2, <1>3, <1>4, <1>5, CreateServed, UpdateServed, DeleteServed, ReadServed
     DEF Step, Served, Store!Serve
<1>6. CASE ExternalStep
  BY <1>1, <1>6 DEF ExternalStep, SubscriptionChanges, MediaDeleted, HiveAdded, ExistsAnswered,
                    ReminderAdded, database, locals
<1>7. CASE Crash
  BY <1>7 DEF Crash, Store!StoreNext, Store!Abandon
<1> QED
  BY <1>1, <1>5, <1>6, <1>7 DEF Next, Served, Store!StoreNext, vars, database, locals

(* The service implements the store: the table and the answers are those   *)
(* of a store that serves each request in one instant.                     *)
THEOREM ServiceImplements == Spec => Implements
<1>1. Init => Store!StoreInit
  BY StoreStarts
<1>2. ServiceInv /\ [Next]_vars => [Store!StoreNext]_Store!store
  BY StepServed
<1>3. TypeOK /\ QuotaInv /\ UniqueActiveNames /\ OwnRowsOnly /\ ImagesAdmissible /\ StaysRemoved
      /\ Linked => ServiceInv
  BY DEF ServiceInv
<1> QED
  BY <1>1, <1>2, <1>3, TypeCorrect, QuotaInductive, NamesUnique, OwnRowsHeld, ImagesStayAdmissible,
     RemovedForGood, LinkedHolds, PTL DEF Spec, Implements, Store!StoreSpec
=============================================================================
