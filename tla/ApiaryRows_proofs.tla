-------------------------- MODULE ApiaryRows_proofs --------------------------
(***************************************************************************)
(* What happens to the rows, for every number of users and requests in     *)
(* flight: their names are unique, they do not come back, they are read    *)
(* and written by their owner, and what files they name.                   *)
(*                                                                         *)
(* Two lemmas carry all of it.  StepWrites says what one step of a request *)
(* may do to the table, and under which checks of the database; StepHands  *)
(* says where the rows it goes on to work with come from.                  *)
(***************************************************************************)
EXTENDS ApiaryService_proofs

-----------------------------------------------------------------------------
(* The table after a step of p. *)

(* A step moves no request but its own. *)
Alone(p) ==
    /\ pc' = [pc EXCEPT ![p] = pc'[p]] /\ pc'[p] # pc[p]
    /\ \A q \in Proc \ {p} : held'[q] = held[q] /\ rest'[q] = rest[q] /\ req'[q] = req[q]

NoWrite(p) ==
    /\ UNCHANGED <<apiaries, removed>>
    /\ pc'[p] = "txCommit" => /\ ~NamePending(p) /\ ~NameClash(apiaries, held[p])
                              /\ held'[p] = held[p]

Inserts(p) ==
    /\ pc[p] \in {"createUnlimited", "txCommit"} /\ pc'[p] # "txCommit"
    /\ apiaries' = Insert(apiaries, held[p])
    /\ UNCHANGED <<removed, held, req>>
    /\ pc[p] # "txCommit" => ~NamePending(p) /\ ~NameClash(apiaries, held[p])

Edits(p) ==
    /\ pc[p] = "updateWrite" /\ pc'[p] # "txCommit"
    /\ Updatable(apiaries, held[p]) /\ apiaries' = Update(apiaries, held[p])
    /\ UNCHANGED <<removed, held, req>>
    /\ ~NamePending(p) /\ ~NameClash(apiaries, held[p])

Deletes(p, ids) ==
    /\ pc[p] \notin {"idle", "txCommit"} /\ pc'[p] # "txCommit"
    /\ ids \subseteq RowsOf(apiaries, req[p].user)
    /\ apiaries' = DeleteRows(apiaries, ids)
    /\ removed' = removed \cup ids
    /\ UNCHANGED req

Writes(p) ==
    Alone(p) /\ (NoWrite(p) \/ Inserts(p) \/ Edits(p) \/ \E ids \in SUBSET ApiaryId : Deletes(p, ids))

LEMMA CreateWrites ==
    ASSUME TypeOK, NEW p \in Proc, CreateStep(p)
    PROVE  Writes(p)
<1> USE DEF TypeOK, database, others, locals, Goto, Finish, ThenFinish, Lost, FailTx
<1> USE DEF Writes, Alone, NoWrite
<1>1. CASE CreateEntitlement(p)
  BY <1>1 DEF CreateEntitlement
<1>2. CASE CreateCount(p)
  BY <1>2 DEF CreateCount
<1>3. CASE CreateVerify(p)
  BY <1>3 DEF CreateVerify, NewApiary
<1>4. CASE CreateUnlimited(p)
  BY <1>4 DEF CreateUnlimited, Inserts, Inserting
<1>5. CASE TxBegin(p)
  BY <1>5 DEF TxBegin
<1>6. CASE TxLock(p)
  BY <1>6 DEF TxLock
<1>7. CASE TxCount(p)
  BY <1>7 DEF TxCount
<1>8. CASE TxInsert(p)
  BY <1>8 DEF TxInsert
<1>9. CASE TxCommit(p)
  BY <1>9 DEF TxCommit, Inserts, Inserting
<1>10. CASE TxRollback(p)
  BY <1>10 DEF TxRollback
<1> QED
  BY <1>1, <1>2, <1>3, <1>4, <1>5, <1>6, <1>7, <1>8, <1>9, <1>10 DEF CreateStep

LEMMA UpdateWrites ==
    ASSUME TypeOK, NEW p \in Proc, UpdateStep(p)
    PROVE  Writes(p)
<1> USE DEF TypeOK, database, others, locals, Goto, Finish, ThenFinish, Lost
<1> USE DEF Writes, Alone, NoWrite
<1>1. CASE UpdateGet(p)
  BY <1>1 DEF UpdateGet
<1>2. CASE UpdateEntitlement(p)
  BY <1>2 DEF UpdateEntitlement
<1>3. CASE UpdateWritable(p)
  BY <1>3 DEF UpdateWritable
<1>4. CASE UpdateVerify(p)
  BY <1>4 DEF UpdateVerify, SetFields
<1>5. CASE UpdateWrite(p)
  BY <1>5 DEF UpdateWrite, Edits
<1> QED
  BY <1>1, <1>2, <1>3, <1>4, <1>5 DEF UpdateStep

LEMMA DeleteWrites ==
    ASSUME TypeOK, NEW p \in Proc, DeleteStep(p)
    PROVE  Writes(p)
<1> USE DEF TypeOK, database, others, locals, Goto, Finish, ThenGoto, ThenFinish, Lost
<1> USE DEF Writes, Alone, NoWrite
<1>1. CASE DeleteGet(p)
  BY <1>1 DEF DeleteGet
<1>2. CASE DeleteAllList(p)
  BY <1>2 DEF DeleteAllList, NextApiary
<1>3. CASE CascadeHives(p)
  BY <1>3 DEF CascadeHives, AfterHives
<1>4. CASE CascadeMedia(p)
  BY <1>4 DEF CascadeMedia
<1>5. CASE CascadeReminders(p)
  BY <1>5 DEF CascadeReminders
<1>6. CASE CascadeRow(p)
  <2>1. Alone(p) /\ pc[p] \notin {"idle", "txCommit"} /\ pc'[p] # "txCommit" /\ UNCHANGED req
    BY <1>6 DEF CascadeRow, AfterRow, NextApiary
  <2>2. CASE UNCHANGED <<apiaries, removed>>
    BY <2>1, <2>2
  <2>3. CASE ~UNCHANGED <<apiaries, removed>>
    <3>1. Deletes(p, {held[p].id}) /\ {held[p].id} \in SUBSET ApiaryId
      BY <1>6, <2>1, <2>3 DEF CascadeRow, Deletes, RowsOf, Present
    <3> QED
      BY <2>1, <3>1
  <2> QED
    BY <2>2, <2>3
<1>7. CASE Cleanup(p)
  BY <1>7 DEF Cleanup
<1>8. CASE DeleteUserData(p)
  <2>1. Alone(p) /\ Deletes(p, RowsOf(apiaries, req[p].user))
    BY <1>8 DEF DeleteUserData, Deletes
  <2>2. RowsOf(apiaries, req[p].user) \in SUBSET ApiaryId
    BY DEF RowsOf, Present
  <2> QED
    BY <2>1, <2>2
<1> QED
  BY <1>1, <1>2, <1>3, <1>4, <1>5, <1>6, <1>7, <1>8 DEF DeleteStep

(* What any step of a request may do to the table. *)
LEMMA StepWrites ==
    ASSUME TypeOK, NEW p \in Proc, Receive(p) \/ Step(p)
    PROVE  Writes(p)
<1> USE DEF database, others, locals
<1>1. CASE Receive(p)
  <2>1. PICK r \in Request : Goto(p, FirstCallOf(r.kind))
    BY <1>1 DEF Receive
  <2>2. FirstCallOf(r.kind) \notin {"txCommit", "idle"}
    BY RequestFields DEF FirstCallOf, Kind
  <2> QED
    BY <1>1, <2>1, <2>2 DEF TypeOK, Receive, Goto, Writes, Alone, NoWrite
<1>2. CASE ReadStep(p)
  BY <1>2 DEF TypeOK, ReadStep, GetRow, GetPlan, GetWritable, WritablePlan, WritableApiaryID,
              Goto, Finish, Writes, Alone, NoWrite
<1>3. CASE CallFails(p)
  BY <1>3 DEF TypeOK, CallFails, CanFail, FailTx, Finish, Writes, Alone, NoWrite,
              Calls, HoldsRow, Inserting, Cascading, FirstCall
<1>4. CASE Reply(p)
  BY <1>4 DEF TypeOK, Reply, Writes, Alone, NoWrite
<1> QED
  BY <1>1, <1>2, <1>3, <1>4, CreateWrites, UpdateWrites, DeleteWrites DEF Step

-----------------------------------------------------------------------------
(* The rows after each kind of write. *)

LEMMA InsertRows ==
    ASSUME TypeOK, NEW a \in Row, a.id \notin Present(apiaries),
           apiaries' = Insert(apiaries, a)
    PROVE  /\ Present(apiaries') = Present(apiaries) \cup {a.id}
           /\ apiaries'[a.id] = a
           /\ \A i \in ApiaryId \ {a.id} : apiaries'[i] = apiaries[i]
BY NoRowAssumption DEF TypeOK, Table, Row, Insert, Present

LEMMA UpdateRows ==
    ASSUME TypeOK, NEW a \in Row, Updatable(apiaries, a),
           apiaries' = Update(apiaries, a)
    PROVE  /\ Present(apiaries') = Present(apiaries)
           /\ a.id \in Present(apiaries) /\ apiaries[a.id].user = a.user
           /\ apiaries'[a.id].user = a.user /\ ~apiaries'[a.id].deleted
           /\ apiaries'[a.id].name = a.name /\ apiaries'[a.id].images = a.images
           /\ \A i \in ApiaryId \ {a.id} : apiaries'[i] = apiaries[i]
<1>1. apiaries \in Table /\ apiaries' \in Table
  BY UpdateType DEF TypeOK
<1>2. /\ a.id \in Present(apiaries) /\ apiaries[a.id] \in Row
      /\ apiaries[a.id].user = a.user /\ ~apiaries[a.id].deleted
  BY <1>1 DEF Updatable, Active, RowsOf, Present, Table
<1>3. apiaries' = [apiaries EXCEPT ![a.id] =
                     [[apiaries[a.id] EXCEPT !.name = a.name] EXCEPT !.images = a.images]]
  BY <1>1, <1>2 DEF Update, Table, Present
<1>4. apiaries'[a.id] = [[apiaries[a.id] EXCEPT !.name = a.name] EXCEPT !.images = a.images]
  BY <1>1, <1>2, <1>3 DEF Table, Present
<1>5. /\ apiaries'[a.id] \in Row
      /\ apiaries'[a.id].user = a.user /\ ~apiaries'[a.id].deleted
      /\ apiaries'[a.id].name = a.name /\ apiaries'[a.id].images = a.images
  BY <1>2, <1>4 DEF Row
<1>6. \A i \in ApiaryId \ {a.id} : apiaries'[i] = apiaries[i]
  BY <1>1, <1>3 DEF Table
<1>7. Present(apiaries') = Present(apiaries)
  BY <1>2, <1>5, <1>6, NoRowAssumption DEF Present
<1> QED
  BY <1>2, <1>5, <1>6, <1>7

LEMMA DeletedRows ==
    ASSUME NEW ids \in SUBSET ApiaryId, apiaries' = DeleteRows(apiaries, ids)
    PROVE  /\ Present(apiaries') = Present(apiaries) \ ids
           /\ \A i \in ApiaryId \ ids : apiaries'[i] = apiaries[i]
           /\ \A i \in ids : apiaries'[i] = NoRow
BY DEF DeleteRows, Present

LEMMA InsertFresh ==
    ASSUME TypeOK, QuotaInv, NEW p \in Proc, pc[p] \in Inserting
    PROVE  /\ held[p] \in Row
           /\ held[p].id \notin Present(apiaries) /\ held[p].id \notin removed
BY HoldsRowType DEF HoldsRow, QuotaInv, FreshIds

-----------------------------------------------------------------------------
LEMMA RemovedInit == Init => StaysRemoved
BY DEF Init, StaysRemoved

LEMMA RemovedNext == TypeOK /\ QuotaInv /\ StaysRemoved /\ [Next]_vars => StaysRemoved'
<1> SUFFICES ASSUME TypeOK, QuotaInv, StaysRemoved, [Next]_vars PROVE StaysRemoved'
  OBVIOUS
<1> USE DEF StaysRemoved
<1>1. CASE UNCHANGED <<apiaries, removed>>
  BY <1>1
<1>2. ASSUME NEW p \in Proc, Receive(p) \/ Step(p) PROVE StaysRemoved'
  <2>1. CASE NoWrite(p)
    BY <1>1, <2>1 DEF NoWrite
  <2>2. CASE Inserts(p)
    BY <2>2, InsertFresh, InsertRows DEF Inserts, Inserting
  <2>3. CASE Edits(p)
    BY <2>3, HoldsRowType, UpdateRows DEF Edits, HoldsRow
  <2>4. ASSUME NEW ids \in SUBSET ApiaryId, Deletes(p, ids) PROVE StaysRemoved'
    BY <2>4, DeletedRows DEF Deletes
  <2> QED
    BY <1>2, <2>1, <2>2, <2>3, <2>4, StepWrites DEF Writes
<1>3. CASE ExternalStep \/ Crash
  BY <1>1, <1>3 DEF ExternalStep, SubscriptionChanges, MediaDeleted, HiveAdded, ExistsAnswered, ReminderAdded,
                    Crash, database
<1> QED
  BY <1>1, <1>2, <1>3 DEF Next, vars, database

(* A deleted apiary never comes back: neither the update of a row read     *)
(* before the delete nor a create under way writes it again.               *)
THEOREM RemovedForGood == Spec => []StaysRemoved
<1>1. Init => StaysRemoved
  BY RemovedInit
<1>2. TypeOK /\ QuotaInv /\ StaysRemoved /\ [Next]_vars => StaysRemoved'
  BY RemovedNext
<1> QED
  BY <1>1, <1>2, TypeCorrect, QuotaInductive, PTL DEF Spec

-----------------------------------------------------------------------------
(* Names. *)

LEMMA NamesInit == Init => UniqueActiveNames
<1> SUFFICES ASSUME Init PROVE UniqueActiveNames
  OBVIOUS
<1>1. PICK s \in Seed : apiaries = s.apiaries
  BY DEF Init
<1>2. UniqueNames(apiaries)
  BY <1>1, SeedAssumption
<1>3. \A p \in Proc : pc[p] # "txCommit"
  BY DEF Init
<1> QED
  BY <1>2, <1>3 DEF UniqueActiveNames

(* A write of row a, insert or update, that passed the checks of the index.*)
LEMMA WrittenName ==
    ASSUME TypeOK, UniqueActiveNames, NEW p \in Proc, NEW a \in Row, Alone(p),
           pc'[p] # "txCommit",
           ~NameClash(apiaries, a),
           \A q \in Proc \ {p} : pc[q] = "txCommit" =>
                ~(held[q].user = a.user /\ held[q].name = a.name),
           Present(apiaries') = Present(apiaries) \cup {a.id},
           apiaries'[a.id].user = a.user, apiaries'[a.id].name = a.name,
           \A i \in ApiaryId \ {a.id} : apiaries'[i] = apiaries[i]
    PROVE  UniqueActiveNames'
<1>1. \A j \in Present(apiaries) : j # a.id /\ apiaries[j].user = a.user /\ ~apiaries[j].deleted
                                  => apiaries[j].name # a.name
  BY DEF NameClash, Active, RowsOf
<1>2. Present(apiaries) \subseteq ApiaryId
  BY DEF Present
<1>3. UniqueNames(apiaries')
  BY <1>1, <1>2 DEF UniqueActiveNames, UniqueNames
<1>4. ASSUME NEW q \in Proc, pc'[q] = "txCommit"
      PROVE  ~NamePending(q)' /\ ~NameClash(apiaries, held[q])'
  <2>1. /\ q # p /\ pc[q] = "txCommit" /\ held'[q] = held[q]
        /\ \A r \in Proc : pc'[r] = "txCommit" => pc[r] = "txCommit" /\ held'[r] = held[r]
    BY <1>4 DEF Alone, TypeOK
  <2>2. ~NamePending(q)'
    BY <2>1 DEF UniqueActiveNames, NamePending
  <2>3. Active(apiaries', held[q].user) \subseteq Active(apiaries, held[q].user) \cup {a.id}
    BY <1>2 DEF Active, RowsOf, Present
  <2>4. a.id \in Active(apiaries', held[q].user) => a.user = held[q].user
    BY DEF Active, RowsOf
  <2>5. ~NameClash(apiaries, held[q])
    BY <2>1 DEF UniqueActiveNames
  <2>6. \A j \in Active(apiaries, held[q].user) : j \in ApiaryId
    BY DEF Active, RowsOf, Present
  <2> QED
    BY <2>1, <2>2, <2>3, <2>4, <2>5, <2>6 DEF NameClash
<1> QED
  BY <1>3, <1>4 DEF UniqueActiveNames

LEMMA NamesNext ==
    TypeOK /\ QuotaInv /\ UniqueActiveNames /\ [Next]_vars => UniqueActiveNames'
<1> SUFFICES ASSUME TypeOK, QuotaInv, UniqueActiveNames, [Next]_vars
             PROVE  UniqueActiveNames'
  OBVIOUS
<1>1. CASE UNCHANGED <<apiaries, held, pc>>
  BY <1>1 DEF UniqueActiveNames, NamePending
<1>2. ASSUME NEW p \in Proc, Alone(p), NoWrite(p) PROVE UniqueActiveNames'
  <2>1. UniqueNames(apiaries')
    BY <1>2 DEF NoWrite, UniqueActiveNames
  <2>2. ASSUME NEW q \in Proc, pc'[q] = "txCommit"
        PROVE  ~NamePending(q)' /\ ~NameClash(apiaries, held[q])'
    <3>1. CASE q = p
      BY <1>2, <2>2, <3>1 DEF Alone, NoWrite, NamePending, TypeOK
    <3>2. CASE q # p
      BY <1>2, <2>2, <3>2 DEF Alone, NoWrite, NamePending, TypeOK, UniqueActiveNames
    <3> QED
      BY <3>1, <3>2
  <2> QED
    BY <2>1, <2>2 DEF UniqueActiveNames
<1>3. ASSUME NEW p \in Proc, Alone(p), Inserts(p) PROVE UniqueActiveNames'
  <2>1. /\ held[p] \in Row /\ Present(apiaries') = Present(apiaries) \cup {held[p].id}
        /\ apiaries'[held[p].id] = held[p]
        /\ \A i \in ApiaryId \ {held[p].id} : apiaries'[i] = apiaries[i]
    BY <1>3, InsertFresh, InsertRows DEF Inserts, Inserting
  <2>2. ~NamePending(p) /\ ~NameClash(apiaries, held[p])
    BY <1>3 DEF Inserts, UniqueActiveNames
  <2> QED
    BY <1>3, <2>1, <2>2, WrittenName DEF Inserts, NamePending
<1>4. ASSUME NEW p \in Proc, Alone(p), Edits(p) PROVE UniqueActiveNames'
  <2>1. /\ held[p] \in Row /\ Present(apiaries') = Present(apiaries) \cup {held[p].id}
        /\ apiaries'[held[p].id].user = held[p].user
        /\ apiaries'[held[p].id].name = held[p].name
        /\ \A i \in ApiaryId \ {held[p].id} : apiaries'[i] = apiaries[i]
    BY <1>4, HoldsRowType, UpdateRows DEF Edits, HoldsRow
  <2> QED
    BY <1>4, <2>1, WrittenName DEF Edits, NamePending
<1>5. ASSUME NEW p \in Proc, NEW ids \in SUBSET ApiaryId, Alone(p), Deletes(p, ids)
      PROVE  UniqueActiveNames'
  <2>1. /\ Present(apiaries') \subseteq Present(apiaries)
        /\ \A i \in Present(apiaries') : apiaries'[i] = apiaries[i]
    BY <1>5, DeletedRows DEF Deletes, Present
  <2>2. UniqueNames(apiaries')
    BY <2>1 DEF UniqueActiveNames, UniqueNames
  <2>3. \A q \in Proc : pc'[q] = "txCommit" => pc[q] = "txCommit" /\ held'[q] = held[q]
    BY <1>5 DEF Alone, Deletes, TypeOK
  <2>4. \A u : Active(apiaries', u) \subseteq Active(apiaries, u)
    BY <2>1 DEF Active, RowsOf
  <2>5. \A u : \A i \in Active(apiaries', u) : apiaries'[i] = apiaries[i]
    BY <2>1 DEF Active, RowsOf
  <2> QED
    BY <2>2, <2>3, <2>4, <2>5 DEF UniqueActiveNames, NamePending, NameClash
<1>6. CASE ExternalStep
  BY <1>1, <1>6 DEF ExternalStep, SubscriptionChanges, MediaDeleted, HiveAdded, ExistsAnswered, ReminderAdded,
                    database, locals
<1>7. CASE Crash
  BY <1>7 DEF Crash, UniqueActiveNames
<1> QED
  BY <1>1, <1>2, <1>3, <1>4, <1>5, <1>6, <1>7, StepWrites
     DEF Next, Writes, vars, database, locals

(* Two active apiaries of one user never share a name.                     *)
THEOREM NamesUnique == Spec => []UniqueActiveNames
<1>1. Init => UniqueActiveNames
  BY NamesInit
<1>2. TypeOK /\ QuotaInv /\ UniqueActiveNames /\ [Next]_vars => UniqueActiveNames'
  BY NamesNext
<1> QED
  BY <1>1, <1>2, TypeCorrect, QuotaInductive, PTL DEF Spec

-----------------------------------------------------------------------------
(* Where the rows come from that p works on after its step: it had them in *)
(* hand, read them among its user's rows, or has had their files verified. *)
Verified(p, ids) ==
    IsFiniteSet(ids) /\ ~TooManyImages(ids) /\ VerifyOwnership(req[p].user, ids)

Known(p) == InHand(p) \cup {apiaries[i] : i \in RowsOf(apiaries, req[p].user)}

TakesUp(p) ==
    /\ UNCHANGED req /\ pc'[p] # "idle"
    /\ \A a \in InHand(p)' :
        /\ a.user = req[p].user
        /\ Verified(p, a.images) \/ \E b \in Known(p) : a.images = b.images

LEMMA KeepsHand ==
    ASSUME TypeOK, OwnRowsOnly, NEW p \in Proc, pc'[p] # "idle", UNCHANGED req,
           InHand(p)' \subseteq Known(p)
    PROVE  TakesUp(p)
<1>1. \A a \in InHand(p) : a.user = req[p].user
  BY DEF OwnRowsOnly
<1>2. \A i \in RowsOf(apiaries, req[p].user) : apiaries[i].user = req[p].user
  BY DEF RowsOf
<1> QED
  BY <1>1, <1>2 DEF TakesUp, Known

LEMMA SameHand ==
    ASSUME TypeOK, OwnRowsOnly, NEW p \in Proc, pc'[p] # "idle", UNCHANGED <<req, held, rest>>
    PROVE  TakesUp(p)
BY KeepsHand DEF Known, InHand

LEMMA GetByIDKnown ==
    ASSUME TypeOK, NEW p \in Proc, UNCHANGED rest,
           held' = [held EXCEPT ![p] = GetByID(apiaries, req[p].user, req[p].id)]
    PROVE  InHand(p)' \subseteq Known(p)
<1>1. held'[p] = GetByID(apiaries, req[p].user, req[p].id)
  BY DEF TypeOK
<1>2. held'[p] # NoRow => /\ req[p].id \in RowsOf(apiaries, req[p].user)
                          /\ held'[p] = apiaries[req[p].id]
  BY <1>1 DEF GetByID, Active
<1> QED
  BY <1>2 DEF InHand, Known

LEMMA NextApiaryKnown ==
    ASSUME TypeOK, NEW p \in Proc, NEW rows, NextApiary(p, rows), rows \subseteq Known(p),
           held[p] # NoRow => held[p] \in Known(p), rest[p] \subseteq Known(p)
    PROVE  InHand(p)' \subseteq Known(p) /\ pc'[p] # "idle"
<1> USE DEF TypeOK, InHand
<1>1. CASE UNCHANGED <<held, rest>> /\ Finish(p, "DeletedAll")
  BY <1>1 DEF Finish
<1>2. ASSUME NEW a \in rows, held' = [held EXCEPT ![p] = a],
             rest' = [rest EXCEPT ![p] = rows \ {a}], Goto(p, "cascadeHives")
      PROVE  InHand(p)' \subseteq Known(p) /\ pc'[p] # "idle"
  BY <1>2 DEF Goto
<1> QED
  BY <1>1, <1>2 DEF NextApiary

LEMMA DedupeFinite ==
    ASSUME TypeOK, NEW p \in Proc, pc[p] # "idle"
    PROVE  IsFiniteSet(dedupeImages(req[p].images))
<1> DEFINE s == req[p].images
<1>1. s = Nil \/ s \in Seq(Media)
  BY RequestAssumption DEF TypeOK, RequestType
<1>2. CASE s = Nil
  BY <1>2, FS_EmptySet DEF dedupeImages
<1>3. CASE s # Nil
  <2>1. s \in [1..Len(s) -> Media] /\ Len(s) \in Nat
    BY <1>1, <1>3
  <2>2. dedupeImages(s) = {s[k] : k \in 1..Len(s)}
    BY <1>3, <2>1 DEF dedupeImages
  <2>3. s \in Surjection(1..Len(s), dedupeImages(s))
    BY <2>1, <2>2 DEF Surjection
  <2> QED
    BY <2>1, <2>3, FS_Interval, FS_Surjection DEF ExistsSurjection
<1> QED
  BY <1>2, <1>3

LEMMA CreateHands ==
    ASSUME TypeOK, OwnRowsOnly, NEW p \in Proc, CreateStep(p)
    PROVE  TakesUp(p)
<1> USE DEF TypeOK, database, others, locals, Goto, Finish, ThenFinish, Lost, FailTx
<1>1. CASE CreateVerify(p)
  <2> DEFINE ids == dedupeImages(req[p].images)
  <2>1. CASE UNCHANGED held
    BY <1>1, <2>1, SameHand DEF CreateVerify
  <2>2. CASE Verified(p, ids) /\ NewApiary(p, ids)
    <3>1. /\ UNCHANGED <<req, rest>> /\ pc'[p] # "idle"
          /\ held'[p].user = req[p].user /\ held'[p].images = ids
      BY <1>1, <2>2 DEF CreateVerify, NewApiary
    <3>2. \A a \in InHand(p)' : a \in InHand(p) \/ a = held'[p]
      BY <3>1 DEF InHand
    <3> QED
      BY <2>2, <3>1, <3>2 DEF TakesUp, Known, OwnRowsOnly
  <2> QED
    BY <1>1, <2>1, <2>2, DedupeFinite DEF CreateVerify, Verified
<1>2. CASE CreateEntitlement(p)
  BY <1>2, SameHand DEF CreateEntitlement
<1>3. CASE CreateCount(p)
  BY <1>3, SameHand DEF CreateCount
<1>4. CASE CreateUnlimited(p)
  BY <1>4, SameHand DEF CreateUnlimited
<1>5. CASE TxBegin(p) \/ TxLock(p)
  BY <1>5, SameHand DEF TxBegin, TxLock
<1>6. CASE TxCount(p) \/ TxInsert(p)
  BY <1>6, SameHand DEF TxCount, TxInsert
<1>7. CASE TxCommit(p) \/ TxRollback(p)
  BY <1>7, SameHand DEF TxCommit, TxRollback
<1> QED
  BY <1>1, <1>2, <1>3, <1>4, <1>5, <1>6, <1>7 DEF CreateStep

LEMMA UpdateHands ==
    ASSUME TypeOK, OwnRowsOnly, NEW p \in Proc, UpdateStep(p)
    PROVE  TakesUp(p)
<1> USE DEF TypeOK, database, others, locals, Goto, Finish, ThenFinish, Lost
<1>1. CASE UpdateGet(p)
  BY <1>1, GetByIDKnown, KeepsHand DEF UpdateGet
<1>2. CASE UpdateEntitlement(p)
  BY <1>2, SameHand DEF UpdateEntitlement
<1>3. CASE UpdateWritable(p)
  BY <1>3, SameHand DEF UpdateWritable
<1>4. CASE UpdateVerify(p)
  <2>1. CASE UNCHANGED held
    BY <1>4, <2>1, SameHand DEF UpdateVerify
  <2>2. ASSUME NEW ids, SetFields(p, ids), Verified(p, ids) \/ ids = held[p].images
        PROVE  TakesUp(p)
    <3>1. held[p] \in Row /\ held[p] \in InHand(p) /\ held[p].user = req[p].user
      BY <1>4, NoRowAssumption DEF UpdateVerify, HoldsRow, InHand, OwnRowsOnly
    <3>2. /\ UNCHANGED <<req, rest>> /\ pc'[p] # "idle"
          /\ held'[p].user = req[p].user /\ held'[p].images = ids
      BY <1>4, <2>2, <3>1 DEF UpdateVerify, SetFields, Row
    <3>3. \A a \in InHand(p)' : a \in InHand(p) \/ a = held'[p]
      BY <3>2 DEF InHand
    <3> QED
      BY <2>2, <3>1, <3>2, <3>3 DEF TakesUp, Known, OwnRowsOnly
  <2> QED
    BY <1>4, <2>1, <2>2, DedupeFinite DEF UpdateVerify, Verified
<1>5. CASE UpdateWrite(p)
  BY <1>5, SameHand DEF UpdateWrite
<1> QED
  BY <1>1, <1>2, <1>3, <1>4, <1>5 DEF UpdateStep

LEMMA DeleteHands ==
    ASSUME TypeOK, OwnRowsOnly, NEW p \in Proc, DeleteStep(p)
    PROVE  TakesUp(p)
<1> USE DEF TypeOK, database, others, locals, Goto, Finish, ThenGoto, ThenFinish, Lost
<1>0. (held[p] # NoRow => held[p] \in Known(p)) /\ rest[p] \subseteq Known(p)
  BY DEF Known, InHand
<1>1. CASE DeleteGet(p)
  BY <1>1, GetByIDKnown, KeepsHand DEF DeleteGet
<1>2. CASE DeleteAllList(p)
  <2>1. ListAllByUser(apiaries, req[p].user) \subseteq Known(p)
    BY DEF ListAllByUser, Known
  <2>2. InHand(p)' \subseteq Known(p) /\ pc'[p] # "idle"
    BY <1>0, <1>2, <2>1, NextApiaryKnown DEF DeleteAllList
  <2> QED
    BY <1>2, <2>2, KeepsHand DEF DeleteAllList
<1>3. CASE CascadeHives(p)
  BY <1>3, SameHand DEF CascadeHives, AfterHives
<1>4. CASE CascadeMedia(p) \/ CascadeReminders(p)
  BY <1>4, SameHand DEF CascadeMedia, CascadeReminders
<1>5. CASE CascadeRow(p)
  <2>1. CASE UNCHANGED <<held, rest>>
    <3>1. pc'[p] # "idle" /\ UNCHANGED req
      BY <1>5 DEF CascadeRow, AfterRow, NextApiary
    <3> QED
      BY <2>1, <3>1, SameHand
  <2>2. CASE NextApiary(p, rest[p])
    BY <1>0, <1>5, <2>2, NextApiaryKnown, KeepsHand DEF CascadeRow
  <2> QED
    BY <1>5, <2>1, <2>2 DEF CascadeRow, AfterRow
<1>6. CASE Cleanup(p) \/ DeleteUserData(p)
  BY <1>6, SameHand DEF Cleanup, DeleteUserData
<1> QED
  BY <1>1, <1>2, <1>3, <1>4, <1>5, <1>6 DEF DeleteStep

LEMMA ReadHands ==
    ASSUME TypeOK, OwnRowsOnly, NEW p \in Proc, ReadStep(p)
    PROVE  TakesUp(p)
<1> USE DEF TypeOK, database, others, locals, Goto, Finish
<1>1. CASE GetRow(p)
  BY <1>1, GetByIDKnown, KeepsHand DEF GetRow
<1>2. CASE GetPlan(p) \/ GetWritable(p) \/ WritablePlan(p)
  BY <1>2, SameHand DEF GetPlan, GetWritable, WritablePlan
<1>3. CASE WritableApiaryID(p)
  <2>1. CASE UNCHANGED held
    BY <1>3, <2>1, SameHand DEF WritableApiaryID
  <2>2. ASSUME NEW i \in Oldest(WritableIDs(apiaries, req[p].user, FreeMaxApiaries)),
               held' = [held EXCEPT ![p] = apiaries[i]]
        PROVE  TakesUp(p)
    <3>1. i \in RowsOf(apiaries, req[p].user)
      BY DEF Oldest, WritableIDs, Active
    <3>2. InHand(p)' \subseteq Known(p)
      BY <1>3, <2>2, <3>1 DEF WritableApiaryID, InHand, Known
    <3> QED
      BY <1>3, <3>2, KeepsHand DEF WritableApiaryID
  <2> QED
    BY <1>3, <2>1, <2>2 DEF WritableApiaryID
<1> QED
  BY <1>1, <1>2, <1>3 DEF ReadStep

(* What a request may have in hand after any of its steps but the answer.  *)
LEMMA StepHands ==
    ASSUME TypeOK, OwnRowsOnly, NEW p \in Proc, Step(p), ~Reply(p)
    PROVE  TakesUp(p)
<1>1. CASE CallFails(p)
  BY <1>1, SameHand DEF TypeOK, CallFails, CanFail, FailTx, Finish, locals
<1> QED
  BY <1>1, CreateHands, UpdateHands, DeleteHands, ReadHands DEF Step

-----------------------------------------------------------------------------
(* Ownership. *)

LEMMA OwnInit == Init => OwnRowsOnly
BY DEF Init, OwnRowsOnly, InHand

LEMMA OwnNext == TypeOK /\ OwnRowsOnly /\ [Next]_vars => OwnRowsOnly'
<1> SUFFICES ASSUME TypeOK, OwnRowsOnly, [Next]_vars PROVE OwnRowsOnly'
  OBVIOUS
<1>1. CASE UNCHANGED <<pc, locals>>
  BY <1>1 DEF locals, OwnRowsOnly, InHand
<1>2. ASSUME NEW p \in Proc, Receive(p) \/ Step(p) PROVE OwnRowsOnly'
  <2>1. Alone(p)
    BY <1>2, StepWrites DEF Writes
  <2>2. \A q \in Proc \ {p} : pc'[q] = pc[q] /\ InHand(q)' = InHand(q) /\ req'[q] = req[q]
    BY <2>1 DEF Alone, InHand, TypeOK
  <2>3. CASE Receive(p)
    <3>1. InHand(p)' = {} /\ pc'[p] # "idle"
      BY <2>1, <2>3 DEF Receive, OwnRowsOnly, InHand, locals, Alone
    <3> QED
      BY <2>2, <3>1 DEF OwnRowsOnly
  <2>4. CASE Reply(p)
    <3>1. InHand(p)' = {}
      BY <2>4 DEF TypeOK, Reply, InHand
    <3> QED
      BY <2>2, <3>1 DEF OwnRowsOnly
  <2>5. CASE Step(p) /\ ~Reply(p)
    BY <2>2, <2>5, StepHands DEF TakesUp, OwnRowsOnly
  <2> QED
    BY <1>2, <2>3, <2>4, <2>5
<1>3. CASE ExternalStep
  BY <1>1, <1>3 DEF ExternalStep, SubscriptionChanges, MediaDeleted, HiveAdded, ExistsAnswered, ReminderAdded
<1>4. CASE Crash
  BY <1>4 DEF Crash, OwnRowsOnly, InHand
<1> QED
  BY <1>1, <1>2, <1>3, <1>4 DEF Next, vars

(* No request ever has another user's row in hand.                         *)
THEOREM OwnRowsHeld == Spec => []OwnRowsOnly
<1>1. Init => OwnRowsOnly
  BY OwnInit
<1>2. TypeOK /\ OwnRowsOnly /\ [Next]_vars => OwnRowsOnly'
  BY OwnNext
<1> QED
  BY <1>1, <1>2, TypeCorrect, PTL DEF Spec

(* The write of a row is a step of a request of the user who owns it.      *)
OwnWrite ==
    \A i \in ApiaryId : apiaries'[i] # apiaries[i] =>
        \E p \in Proc :
            /\ Moved(p)
            /\ apiaries[i] # NoRow => apiaries[i].user = req[p].user
            /\ apiaries'[i] # NoRow => apiaries'[i].user = req[p].user

LEMMA OwnWriteStep == TypeOK /\ QuotaInv /\ OwnRowsOnly /\ [Next]_vars => OwnWrite
<1> SUFFICES ASSUME TypeOK, QuotaInv, OwnRowsOnly, [Next]_vars PROVE OwnWrite
  OBVIOUS
<1>1. CASE UNCHANGED apiaries
  BY <1>1 DEF OwnWrite
<1>2. ASSUME NEW p \in Proc, Receive(p) \/ Step(p) PROVE OwnWrite
  <2>1. Alone(p)
    BY <1>2, StepWrites DEF Writes
  <2>2. pc[p] \in HoldsRow => held[p] \in Row /\ held[p].user = req[p].user
    BY HoldsRowType, NoRowAssumption DEF OwnRowsOnly, InHand
  <2>3. CASE Inserts(p)
    <3>1. /\ Moved(p) /\ held[p].user = req[p].user
          /\ held[p].id \notin Present(apiaries) /\ apiaries'[held[p].id] = held[p]
          /\ \A i \in ApiaryId \ {held[p].id} : apiaries'[i] = apiaries[i]
      BY <2>1, <2>2, <2>3, InsertFresh, InsertRows
         DEF Inserts, Inserting, HoldsRow, Alone, Moved
    <3>2. \A i \in ApiaryId : apiaries'[i] # apiaries[i] => apiaries[i] = NoRow
      BY <3>1 DEF Present
    <3> QED
      BY <3>1, <3>2 DEF OwnWrite
  <2>4. CASE Edits(p)
    <3>1. Moved(p)
      BY <2>1, <2>4 DEF Edits, Alone, Moved
    <3>2. /\ apiaries[held[p].id].user = req[p].user
          /\ apiaries'[held[p].id].user = req[p].user
          /\ \A i \in ApiaryId \ {held[p].id} : apiaries'[i] = apiaries[i]
      BY <2>2, <2>4, UpdateRows DEF Edits, HoldsRow
    <3> QED
      BY <3>1, <3>2 DEF OwnWrite
  <2>5. ASSUME NEW ids \in SUBSET ApiaryId, Deletes(p, ids) PROVE OwnWrite
    <3>1. Moved(p)
      BY <2>1, <2>5 DEF Alone, Moved, Deletes
    <3>2. \A i \in ids : apiaries[i].user = req[p].user /\ apiaries'[i] = NoRow
      BY <2>5, DeletedRows DEF Deletes, RowsOf
    <3> QED
      BY <2>5, <3>1, <3>2, DeletedRows DEF OwnWrite, Deletes
  <2> QED
    BY <1>1, <1>2, <2>3, <2>4, <2>5, StepWrites DEF Writes, NoWrite
<1>3. CASE ExternalStep \/ Crash
  BY <1>1, <1>3 DEF ExternalStep, SubscriptionChanges, MediaDeleted, HiveAdded, ExistsAnswered, ReminderAdded,
                    Crash, database
<1> QED
  BY <1>1, <1>2, <1>3 DEF Next, vars, database

(* A row changes only by a step of a request of the user who owned it      *)
(* before the step and owns it after.                                      *)
THEOREM RowsWrittenByOwner == Spec => OwnWrites
<1>1. TypeOK /\ QuotaInv /\ OwnRowsOnly /\ [Next]_vars => [OwnWrite]_vars
  BY OwnWriteStep
<1> QED
  BY <1>1, TypeCorrect, QuotaInductive, OwnRowsHeld, PTL DEF Spec, OwnWrites, OwnWrite

-----------------------------------------------------------------------------
(* Files. *)

(* A file may disappear but never gets another owner, ...                  *)
FilesOnlyGo == \A m \in Media : media'[m] \in {media[m], NoUser}

LEMMA FilesGo == TypeOK /\ [Next]_vars => FilesOnlyGo
<1> SUFFICES ASSUME TypeOK, [Next]_vars PROVE FilesOnlyGo
  OBVIOUS
<1>1. CASE UNCHANGED media
  BY <1>1 DEF FilesOnlyGo
<1>2. ASSUME NEW p \in Proc, Receive(p) \/ Step(p) PROVE FilesOnlyGo
  <2>1. CASE CascadeMedia(p)
    BY <2>1 DEF CascadeMedia, DeleteByIDs, FilesOnlyGo
  <2>2. CASE Receive(p) \/ CallFails(p) \/ Reply(p)
    BY <1>1, <2>2 DEF Receive, CallFails, Reply, others
  <2>3. CASE CreateStep(p)
    BY <1>1, <2>3 DEF CreateStep, CreateEntitlement, CreateCount, CreateVerify, CreateUnlimited,
                      TxBegin, TxLock, TxCount, TxInsert, TxCommit, TxRollback, others
  <2>4. CASE UpdateStep(p) \/ ReadStep(p)
    BY <1>1, <2>4 DEF UpdateStep, UpdateGet, UpdateEntitlement, UpdateWritable, UpdateVerify,
                      UpdateWrite, ReadStep, GetRow, GetPlan, GetWritable, WritablePlan,
                      WritableApiaryID, others
  <2>5. CASE DeleteStep(p)
    BY <1>1, <2>1, <2>5 DEF DeleteStep, DeleteGet, DeleteAllList, CascadeHives,
                            CascadeReminders, CascadeRow, Cleanup, DeleteUserData, others
  <2> QED
    BY <1>2, <2>2, <2>3, <2>4, <2>5 DEF Step
<1>3. CASE ExternalStep
  BY <1>1, <1>3 DEF ExternalStep, SubscriptionChanges, MediaDeleted, HiveAdded, ExistsAnswered, ReminderAdded,
                    FilesOnlyGo, TypeOK
<1> QED
  BY <1>1, <1>2, <1>3 DEF Next, Crash, vars, others

(* ... so what was admissible remains so.                                  *)
LEMMA StaysAdmissible ==
    ASSUME NEW a, NEW b, a.images \in SUBSET Media, b.images = a.images, b.user = a.user,
           Admissible(a, media), FilesOnlyGo
    PROVE  Admissible(b, media')
BY DEF Admissible, FilesOnlyGo

LEMMA ImagesInit == Init => ImagesAdmissible
<1> SUFFICES ASSUME Init PROVE ImagesAdmissible
  OBVIOUS
<1>1. PICK s \in Seed : apiaries = s.apiaries /\ media = s.media
  BY DEF Init
<1>2. \A i \in Present(apiaries) : Admissible(apiaries[i], media)
  BY <1>1, SeedAssumption
<1> QED
  BY <1>2 DEF Init, ImagesAdmissible, InHand

LEMMA RowImages ==
    ASSUME TypeOK
    PROVE  /\ \A i \in Present(apiaries) : apiaries[i].images \in SUBSET Media
           /\ \A p \in Proc : \A a \in InHand(p) : a.images \in SUBSET Media
BY DEF TypeOK, Table, Row, Present, InHand

LEMMA StoredAdmissible ==
    ASSUME TypeOK, QuotaInv, OwnRowsOnly, ImagesAdmissible, FilesOnlyGo,
           NEW p \in Proc, Writes(p)
    PROVE  \A i \in Present(apiaries') : Admissible(apiaries'[i], media')
<1>1. pc[p] \in HoldsRow => held[p] \in InHand(p)
  BY DEF TypeOK, InHand
<1>2. \A i \in Present(apiaries) : Admissible(apiaries[i], media')
  BY RowImages, StaysAdmissible DEF ImagesAdmissible
<1>3. \A a \in InHand(p) : \A b : b.images = a.images /\ b.user = a.user => Admissible(b, media')
  BY RowImages, StaysAdmissible DEF ImagesAdmissible
<1>4. CASE NoWrite(p)
  BY <1>2, <1>4 DEF NoWrite
<1>5. CASE Inserts(p)
  <2>1. pc[p] \in HoldsRow
    BY <1>5 DEF Inserts, Inserting, HoldsRow
  <2>2. Admissible(held[p], media')
    BY <1>1, <1>3, <2>1
  <2> QED
    BY <1>2, <1>5, <2>2, InsertFresh, InsertRows DEF Inserts, Inserting, Present
<1>6. CASE Edits(p)
  <2>1. held[p] \in InHand(p) /\ held[p] \in Row
    BY <1>1, <1>6, HoldsRowType DEF Edits, HoldsRow
  <2>2. Admissible(apiaries'[held[p].id], media')
    BY <1>3, <1>6, <2>1, UpdateRows DEF Edits
  <2> QED
    BY <1>2, <1>6, <2>1, <2>2, UpdateRows DEF Edits, Present
<1>7. ASSUME NEW ids \in SUBSET ApiaryId, Deletes(p, ids)
      PROVE  \A i \in Present(apiaries') : Admissible(apiaries'[i], media')
  BY <1>2, <1>7, DeletedRows DEF Deletes, Present
<1> QED
  BY <1>4, <1>5, <1>6, <1>7 DEF Writes

LEMMA HandAdmissible ==
    ASSUME TypeOK, TypeOK', OwnRowsOnly, ImagesAdmissible, FilesOnlyGo,
           NEW p \in Proc, TakesUp(p)
    PROVE  \A a \in InHand(p)' : Admissible(a, media')
<1> SUFFICES ASSUME NEW a \in InHand(p)' PROVE Admissible(a, media')
  OBVIOUS
<1>1. a.user = req[p].user /\ a.images \in SUBSET Media
  BY DEF TakesUp, TypeOK, InHand, Row
<1>2. CASE Verified(p, a.images)
  <2>1. Cardinality(a.images) <= MaxMediaAttachments
    BY <1>2, FS_CardinalityType, LimitAssumption DEF Verified, TooManyImages
  <2> QED
    BY <1>1, <1>2, <2>1 DEF Verified, VerifyOwnership, Admissible, FilesOnlyGo
<1>3. ASSUME NEW b \in Known(p), a.images = b.images
      PROVE  Admissible(a, media')
  <2>1. b.user = req[p].user /\ Admissible(b, media)
    BY <1>3 DEF Known, OwnRowsOnly, ImagesAdmissible, RowsOf
  <2> QED
    BY <1>1, <1>3, <2>1, StaysAdmissible
<1> QED
  BY <1>2, <1>3 DEF TakesUp

LEMMA ImagesNext ==
    /\ TypeOK /\ TypeOK' /\ QuotaInv /\ OwnRowsOnly /\ ImagesAdmissible /\ [Next]_vars
    => ImagesAdmissible'
<1> SUFFICES ASSUME TypeOK, TypeOK', QuotaInv, OwnRowsOnly, ImagesAdmissible, [Next]_vars
             PROVE  ImagesAdmissible'
  OBVIOUS
<1>0. FilesOnlyGo
  BY FilesGo
<1>a. \A p \in Proc : \A a \in InHand(p) : Admissible(a, media')
  BY <1>0, RowImages, StaysAdmissible DEF ImagesAdmissible
<1>b. \A i \in Present(apiaries) : Admissible(apiaries[i], media')
  BY <1>0, RowImages, StaysAdmissible DEF ImagesAdmissible
<1>1. CASE UNCHANGED <<apiaries, locals>>
  BY <1>1, <1>a, <1>b DEF ImagesAdmissible, InHand, locals
<1>2. ASSUME NEW p \in Proc, Receive(p) \/ Step(p) PROVE ImagesAdmissible'
  <2>1. Writes(p)
    BY <1>2, StepWrites
  <2>2. \A i \in Present(apiaries') : Admissible(apiaries'[i], media')
    BY <1>0, <2>1, StoredAdmissible
  <2>3. \A q \in Proc \ {p} : InHand(q)' = InHand(q)
    BY <2>1 DEF Writes, Alone, InHand
  <2>4. \A a \in InHand(p)' : Admissible(a, media')
    <3>1. CASE Receive(p)
      BY <1>a, <3>1 DEF Receive, InHand
    <3>2. CASE Reply(p)
      BY <3>2 DEF Reply, TypeOK, InHand
    <3>3. CASE Step(p) /\ ~Reply(p)
      BY <1>0, <3>3, StepHands, HandAdmissible
    <3> QED
      BY <1>2, <3>1, <3>2, <3>3
  <2> QED
    BY <1>a, <2>2, <2>3, <2>4 DEF ImagesAdmissible
<1>3. CASE ExternalStep
  BY <1>1, <1>3 DEF ExternalStep, SubscriptionChanges, MediaDeleted, HiveAdded, ExistsAnswered, ReminderAdded,
                    database
<1>4. CASE Crash
  BY <1>b, <1>4 DEF Crash, ImagesAdmissible, InHand
<1> QED
  BY <1>1, <1>2, <1>3, <1>4 DEF Next, vars, database

(* Whatever races with the checks of create and update, an apiary names at *)
(* most MaxMediaAttachments files, and never another user's.               *)
THEOREM ImagesStayAdmissible == Spec => []ImagesAdmissible
<1>1. Init => ImagesAdmissible
  BY ImagesInit
<1>2. /\ TypeOK /\ TypeOK' /\ QuotaInv /\ OwnRowsOnly /\ ImagesAdmissible /\ [Next]_vars
      => ImagesAdmissible'
  BY ImagesNext
<1> QED
  BY <1>1, <1>2, TypeCorrect, QuotaInductive, OwnRowsHeld, PTL DEF Spec
=============================================================================
