------------------------- MODULE ApiaryService_proofs -------------------------
(***************************************************************************)
(* Theorems about ApiaryService, for every number of requests in flight,   *)
(* users, ids, connections and every value of the limits: its types, and   *)
(* the Free quota.                                                         *)
(***************************************************************************)
EXTENDS ApiaryService, FiniteSetTheorems, TLAPS

-----------------------------------------------------------------------------
(* The table: every statement keeps its shape.                             *)

LEMMA InsertType ==
    ASSUME NEW t \in Table, NEW a \in Row
    PROVE  Insert(t, a) \in Table
BY NoRowAssumption DEF Insert, Table, Row

LEMMA UpdateType ==
    ASSUME NEW t \in Table, NEW a \in Row, Updatable(t, a)
    PROVE  Update(t, a) \in Table
<1>1. a.id \in ApiaryId /\ t[a.id] # NoRow
  BY DEF Updatable, Active, RowsOf, Present
<1>2. t[a.id] \in Row /\ t[a.id].id = a.id
  BY <1>1 DEF Table
<1> DEFINE b == [[t[a.id] EXCEPT !.name = a.name] EXCEPT !.images = a.images]
<1>3. b \in Row /\ b.id = a.id
  BY <1>2 DEF Row
<1>4. Update(t, a) = [t EXCEPT ![a.id] = b]
  BY <1>1 DEF Update, Table
<1> QED
  BY <1>1, <1>3, <1>4, NoRowAssumption DEF Table

LEMMA DeleteType ==
    ASSUME NEW t \in Table, NEW ids
    PROVE  DeleteRows(t, ids) \in Table
BY DEF DeleteRows, Table

LEMMA GetByIDType ==
    ASSUME NEW t \in Table, NEW u, NEW i
    PROVE  /\ GetByID(t, u, i) \in Row \cup {NoRow}
           /\ GetByID(t, u, i) # NoRow => GetByID(t, u, i).user = u
BY DEF GetByID, Active, RowsOf, Present, Table

LEMMA ListType ==
    ASSUME NEW t \in Table, NEW u
    PROVE  ListAllByUser(t, u) \subseteq {r \in Row : r.user = u}
BY DEF ListAllByUser, RowsOf, Present, Table

LEMMA ActiveFinite ==
    ASSUME NEW t, NEW u
    PROVE  IsFiniteSet(Active(t, u)) /\ Cardinality(Active(t, u)) \in Nat
<1>1. Active(t, u) \subseteq ApiaryId
  BY DEF Active, RowsOf, Present
<1> QED
  BY <1>1, IdsAssumption, FS_Subset, FS_CardinalityType

(* What a request carries. *)
LEMMA RequestFields ==
    ASSUME NEW r \in Request
    PROVE  /\ r.kind \in Kind /\ r.user \in User /\ r.id \in ApiaryId /\ r.name \in Name
           /\ dedupeImages(r.images) \in SUBSET Media
<1>1. r \in RequestType
  BY RequestAssumption
<1>2. r.images \in Seq(Media) \cup {Nil}
  BY <1>1 DEF RequestType
<1>3. dedupeImages(r.images) \in SUBSET Media
  BY <1>2 DEF dedupeImages
<1> QED
  BY <1>1, <1>3 DEF RequestType

-----------------------------------------------------------------------------
(* Type correctness, one lemma per component.                              *)

LEMMA InitType == Init => TypeOK
<1> SUFFICES ASSUME Init PROVE TypeOK
  OBVIOUS
<1>1. PICK s \in Seed : /\ apiaries = s.apiaries /\ entitlement = s.entitlement
                        /\ media = s.media /\ hives = s.hives
                        /\ reminders = s.reminders
  BY DEF Init
<1>2. s \in World
  BY SeedAssumption
<1> QED
  BY <1>1, <1>2 DEF Init, TypeOK, World, Label, Outcome, HoldsRow, Inserting, Cascading

LEMMA CreateType ==
    ASSUME TypeOK, NEW p \in Proc, CreateStep(p)
    PROVE  TypeOK'
<1> USE DEF TypeOK, database, others, locals, Goto, Finish, ThenFinish, Lost, FailTx,
            Label, Calls, FirstCall, HoldsRow, Inserting, Cascading, TxHolds
<1> USE DEF Outcome, Success, Failure
<1>0. pc[p] # "idle" => /\ req[p] \in Request /\ req[p].user \in User /\ req[p].name \in Name
                        /\ dedupeImages(req[p].images) \in SUBSET Media
  BY RequestFields
<1>1. CASE CreateEntitlement(p)
  BY <1>0, <1>1 DEF CreateEntitlement, GetEntitlement, Entitlement
<1>2. CASE CreateCount(p)
  BY <1>0, <1>2 DEF CreateCount
<1>3. CASE CreateVerify(p)
  <2> DEFINE ids == dedupeImages(req[p].images)
  <2>1. CASE UNCHANGED <<held, clock>> /\ \E o \in Outcome : Finish(p, o)
    BY <1>0, <1>3, <2>1 DEF CreateVerify
  <2>2. CASE NewApiary(p, ids) /\ \E l \in {"txBegin", "createUnlimited"} : Goto(p, l)
    <3>1. PICK id \in ApiaryId, tick \in {0, 1} :
            /\ held' = [held EXCEPT ![p] =
                          [id |-> id, user |-> req[p].user, name |-> req[p].name,
                           images |-> ids, created |-> clock, deleted |-> FALSE]]
            /\ clock' = clock + tick
      BY <2>2 DEF NewApiary
    <3>2. held'[p] \in Row
      BY <1>0, <1>3, <3>1 DEF CreateVerify, Row
    <3>3. held' \in [Proc -> Row \cup {NoRow}] /\ held'[p] # NoRow
          /\ \A q \in Proc : q # p => held'[q] = held[q]
      BY <3>1, <3>2, NoRowAssumption
    <3>4. clock' \in Nat
      BY <3>1
    <3> QED
      BY <1>3, <2>2, <3>3, <3>4, ZenonT(40) DEF CreateVerify
  <2> QED
    BY <1>3, <2>1, <2>2 DEF CreateVerify
<1>4. CASE CreateUnlimited(p)
  <2>1. held[p] \in Row
    BY <1>4 DEF CreateUnlimited
  <2>2. apiaries' \in Table
    BY <1>4, <2>1, InsertType DEF CreateUnlimited
  <2> QED
    BY <1>4, <2>2 DEF CreateUnlimited
<1>5. CASE TxBegin(p)
  BY <1>5 DEF TxBegin
<1>6. CASE TxLock(p)
  BY <1>6 DEF TxLock
<1>7. CASE TxCount(p)
  BY <1>7 DEF TxCount
<1>8. CASE TxInsert(p)
  BY <1>8 DEF TxInsert
<1>9. CASE TxCommit(p)
  BY <1>9, InsertType DEF TxCommit, Unlock, Row
<1>10. CASE TxRollback(p)
  BY <1>10 DEF TxRollback, Unlock
<1> QED
  BY <1>1, <1>2, <1>3, <1>4, <1>5, <1>6, <1>7, <1>8, <1>9, <1>10 DEF CreateStep

LEMMA UpdateStepType ==
    ASSUME TypeOK, NEW p \in Proc, UpdateStep(p)
    PROVE  TypeOK'
<1> USE DEF TypeOK, database, others, locals, Goto, Finish, ThenFinish, Lost,
            Label, Calls, FirstCall, HoldsRow, Inserting, Cascading, TxHolds
<1> USE DEF Outcome, Success, Failure
<1>0. pc[p] # "idle" => /\ req[p] \in Request /\ req[p].user \in User /\ req[p].name \in Name
                        /\ dedupeImages(req[p].images) \in SUBSET Media
  BY RequestFields
<1>1. CASE UpdateGet(p)
  BY <1>1, GetByIDType DEF UpdateGet
<1>2. CASE UpdateEntitlement(p)
  BY <1>0, <1>2 DEF UpdateEntitlement, GetEntitlement, Entitlement
<1>3. CASE UpdateWritable(p)
  BY <1>3 DEF UpdateWritable
<1>4. CASE UpdateVerify(p)
  <2>1. held[p] \in Row
    BY <1>4 DEF UpdateVerify
  <2>2. CASE UNCHANGED held /\ \E o \in Outcome : Finish(p, o)
    BY <1>4, <2>2 DEF UpdateVerify
  <2>3. CASE \E ids \in SUBSET Media : SetFields(p, ids) /\ Goto(p, "updateWrite")
    <3>1. held' \in [Proc -> Row \cup {NoRow}] /\ held'[p] \in Row
          /\ \A q \in Proc : q # p => held'[q] = held[q]
      <4>1. PICK ids \in SUBSET Media : SetFields(p, ids)
        BY <2>3
      <4>2. held' = [held EXCEPT ![p] = [held[p] EXCEPT !.name = req[p].name, !.images = ids]]
        BY <1>0, <4>1 DEF SetFields
      <4>3. [held[p] EXCEPT !.name = req[p].name, !.images = ids] \in Row
        BY <1>0, <1>4, <2>1 DEF Row, UpdateVerify
      <4> QED
        BY <4>2, <4>3
    <3> QED
      BY <1>4, <2>3, <3>1, NoRowAssumption, ZenonT(40) DEF UpdateVerify
  <2>4. held[p].images \in SUBSET Media
    BY <2>1 DEF Row
  <2> QED
    BY <1>0, <1>4, <2>2, <2>3, <2>4 DEF UpdateVerify
<1>5. CASE UpdateWrite(p)
  <2>1. held[p] \in Row
    BY <1>5 DEF UpdateWrite
  <2>2. apiaries' \in Table
    BY <1>5, <2>1, UpdateType DEF UpdateWrite
  <2> QED
    BY <1>5, <2>2 DEF UpdateWrite
<1> QED
  BY <1>1, <1>2, <1>3, <1>4, <1>5 DEF UpdateStep

LEMMA DeleteStepType ==
    ASSUME TypeOK, NEW p \in Proc, DeleteStep(p)
    PROVE  TypeOK'
<1> USE DEF TypeOK, database, others, locals, Goto, Finish, ThenGoto, ThenFinish, Lost,
            Label, Calls, FirstCall, HoldsRow, Inserting, Cascading, TxHolds
<1> USE DEF Outcome, Success, Failure
<1>1. CASE DeleteGet(p)
  BY <1>1, GetByIDType DEF DeleteGet
<1>2. CASE DeleteAllList(p)
  <2>1. ListAllByUser(apiaries, req[p].user) \subseteq Row
    BY ListType
  <2> QED
    BY <1>2, <2>1, NoRowAssumption DEF DeleteAllList, NextApiary
<1>3. CASE CascadeHives(p)
  BY <1>3 DEF CascadeHives, AfterHives, DeleteByApiary
<1>4. CASE CascadeMedia(p)
  BY <1>4 DEF CascadeMedia, DeleteByIDs
<1>5. CASE CascadeReminders(p)
  BY <1>5 DEF CascadeReminders, CleanupReminders
<1>6. CASE CascadeRow(p)
  <2>1. held[p] \in Row /\ held[p].id \in ApiaryId
    BY <1>6 DEF CascadeRow, Row
  <2>2. apiaries' \in Table /\ removed' \subseteq ApiaryId
    BY <1>6, <2>1, DeleteType DEF CascadeRow
  <2>3. rest[p] \subseteq Row
    OBVIOUS
  <2>4. /\ held' \in [Proc -> Row \cup {NoRow}] /\ held'[p] # NoRow
        /\ \A q \in Proc : q # p => held'[q] = held[q]
        /\ rest' \in [Proc -> SUBSET Row]
    BY <1>6, <2>1, <2>3, NoRowAssumption DEF CascadeRow, AfterRow, NextApiary
  <2>5. /\ pc' \in [Proc -> Label] /\ out' \in [Proc -> Outcome]
        /\ \A q \in Proc : q # p => pc'[q] = pc[q]
    BY <1>6 DEF CascadeRow, AfterRow, NextApiary
  <2> QED
    BY <1>6, <2>2, <2>4, <2>5 DEF CascadeRow
<1>7. CASE Cleanup(p)
  BY <1>7 DEF Cleanup, CleanupReminders
<1>8. CASE DeleteUserData(p)
  <2>1. apiaries' \in Table /\ removed' \subseteq ApiaryId
    BY <1>8, DeleteType DEF DeleteUserData, RowsOf, Present
  <2> QED
    BY <1>8, <2>1 DEF DeleteUserData
<1> QED
  BY <1>1, <1>2, <1>3, <1>4, <1>5, <1>6, <1>7, <1>8 DEF DeleteStep

LEMMA ReadStepType ==
    ASSUME TypeOK, NEW p \in Proc, ReadStep(p)
    PROVE  TypeOK'
<1> USE DEF TypeOK, database, others, locals, Goto, Finish,
            Label, Calls, FirstCall, HoldsRow, Inserting, Cascading, TxHolds
<1> USE DEF Outcome, Success, Failure
<1>0. pc[p] # "idle" => req[p].user \in User
  BY RequestFields
<1>1. CASE GetRow(p)
  BY <1>1, GetByIDType DEF GetRow
<1>2. CASE GetPlan(p)
  BY <1>0, <1>2 DEF GetPlan, GetEntitlement, Entitlement
<1>3. CASE GetWritable(p)
  BY <1>3 DEF GetWritable
<1>4. CASE WritablePlan(p)
  BY <1>0, <1>4 DEF WritablePlan, GetEntitlement, Entitlement
<1>5. CASE WritableApiaryID(p)
  <2>1. \A i \in Oldest(WritableIDs(apiaries, req[p].user, FreeMaxApiaries)) :
            apiaries[i] \in Row
    BY DEF Oldest, WritableIDs, Active, RowsOf, Present, Table
  <2>2. held' \in [Proc -> Row \cup {NoRow}] /\ pc' = [pc EXCEPT ![p] = "reply"]
        /\ \A q \in Proc : q # p => held'[q] = held[q]
    BY <1>5, <2>1 DEF WritableApiaryID
  <2>3. out' \in [Proc -> Outcome]
    BY <1>5 DEF WritableApiaryID
  <2> QED
    BY <1>5, <2>2, <2>3 DEF WritableApiaryID
<1> QED
  BY <1>1, <1>2, <1>3, <1>4, <1>5 DEF ReadStep

LEMMA NextType == TypeOK /\ [Next]_vars => TypeOK'
<1> SUFFICES ASSUME TypeOK, [Next]_vars PROVE TypeOK'
  OBVIOUS
<1> USE DEF database, others, locals
<1>1. CASE UNCHANGED vars
  BY <1>1 DEF TypeOK, vars
<1>2. ASSUME NEW p \in Proc, Receive(p) PROVE TypeOK'
  <2>1. PICK r \in Request : /\ req' = [req EXCEPT ![p] = r]
                             /\ Goto(p, FirstCallOf(r.kind))
    BY <1>2 DEF Receive
  <2>2. FirstCallOf(r.kind) \in FirstCall
    BY RequestFields DEF FirstCallOf, FirstCall, Kind
  <2>3. FirstCall \subseteq Label /\ FirstCall \cap HoldsRow = {}
    BY DEF FirstCall, Label, Calls, HoldsRow, Inserting, Cascading
  <2> QED
    BY <1>2, <2>1, <2>2, <2>3 DEF TypeOK, Receive, Goto
<1>3. ASSUME NEW p \in Proc, CallFails(p) PROVE TypeOK'
  <2>1. "txRollback" \in Label /\ "reply" \in Label /\ "Internal" \in Outcome
    BY DEF Label, Calls, HoldsRow, Outcome, Failure
  <2>2. "reply" \notin HoldsRow /\ TxHolds \subseteq HoldsRow /\ "idle" \notin Calls
    BY DEF HoldsRow, TxHolds, Inserting, Cascading, Calls, FirstCall
  <2> QED
    BY <1>3, <2>1, <2>2 DEF TypeOK, CallFails, CanFail, FailTx, Finish
<1>4. ASSUME NEW p \in Proc, Reply(p) PROVE TypeOK'
  BY <1>4 DEF TypeOK, Reply, Label, Outcome, HoldsRow, Inserting, Cascading
<1>5. CASE ExternalStep
  <2>1. CASE SubscriptionChanges
    BY <2>1 DEF TypeOK, SubscriptionChanges
  <2>2. CASE MediaDeleted
    BY <2>2 DEF TypeOK, MediaDeleted
  <2>3. CASE HiveAdded
    BY <2>3 DEF TypeOK, HiveAdded, ActiveIds, Present
  <2>4. CASE ReminderAdded
    BY <2>4 DEF TypeOK, ReminderAdded, ActiveIds, Present
  <2>5. CASE ExistsAnswered
    BY <2>5 DEF TypeOK, ExistsAnswered, ActiveIds, Present
  <2> QED
    BY <1>5, <2>1, <2>2, <2>3, <2>4, <2>5 DEF ExternalStep
<1>6. CASE Crash
  BY <1>6 DEF TypeOK, Crash, Label, Outcome, HoldsRow, Inserting, Cascading
<1> QED
  BY <1>1, <1>2, <1>3, <1>4, <1>5, <1>6, CreateType, UpdateStepType, DeleteStepType,
     ReadStepType DEF Next, Step

(* Type correctness of the whole service. *)
THEOREM TypeCorrect == Spec => []TypeOK
<1>1. Init => TypeOK
  BY InitType
<1>2. TypeOK /\ [Next]_vars => TypeOK'
  BY NextType
<1> QED
  BY <1>1, <1>2, PTL DEF Spec

-----------------------------------------------------------------------------
(* The Free quota.  FreeQuota alone is not inductive: that a commit adds   *)
(* at most the row its transaction made room for needs the lock to have    *)
(* been held since the count (LockDiscipline), the count still to be good  *)
(* (RoomLeft), and the row not to be one already counted (FreshIds).       *)
InTx == {"txCount", "txInsert", "txCommit"}
Taken == Present(apiaries) \cup removed

(* One more element makes a set larger by one at most. *)
LEMMA OneMore ==
    ASSUME NEW S, NEW x, IsFiniteSet(S)
    PROVE  /\ IsFiniteSet(S \cup {x}) /\ Cardinality(S \cup {x}) \in Nat
           /\ Cardinality(S \cup {x}) <= Cardinality(S) + 1
<1>1. Cardinality(S) \in Nat
  BY FS_CardinalityType
<1>2. /\ IsFiniteSet(S \cup {x})
      /\ Cardinality(S \cup {x}) = IF x \in S THEN Cardinality(S) ELSE Cardinality(S) + 1
  BY FS_AddElement
<1> QED
  BY <1>1, <1>2

LEMMA LimitedFinite ==
    ASSUME NEW u
    PROVE  IsFiniteSet(LimitedOf(u)) /\ Cardinality(LimitedOf(u)) \in Nat
<1>1. LimitedOf(u) \subseteq ApiaryId
  BY DEF LimitedOf, Active, RowsOf, Present
<1> QED
  BY <1>1, IdsAssumption, FS_Subset, FS_CardinalityType

(* Nothing but the commit of a limited create adds to what is counted. *)
LEMMA Shrinks ==
    ASSUME NEW u, NEW S, S \subseteq LimitedOf(u)
    PROVE  /\ Cardinality(S) \in Nat
           /\ Cardinality(S) <= Cardinality(LimitedOf(u))
BY LimitedFinite, FS_Subset, FS_CardinalityType

(* A step that is no part of a limited create: it may delete or edit rows, *)
(* but neither inserts one nor touches a lock.                             *)
Quiet(p) ==
    /\ \A q \in Proc \ {p} : pc'[q] = pc[q] /\ held'[q] = held[q]
    /\ lock' = lock /\ limited' = limited /\ Taken' = Taken
    /\ \A u \in User : LimitedOf(u)' \subseteq LimitedOf(u)
    /\ pc'[p] \in Inserting =>
        pc[p] \in Inserting /\ pc'[p] \notin InTx /\ held'[p] = held[p]

LEMMA QuietStep ==
    ASSUME TypeOK, QuotaInv, NEW p \in Proc, Quiet(p)
    PROVE  QuotaInv'
<1> USE DEF InTx, Taken
<1>1. InTx \subseteq Inserting
  BY DEF Inserting
<1>2. \A q \in Proc : pc[q] \in Inserting => held[q].user \in User
  BY DEF TypeOK, Row, HoldsRow
<1>2a. \A u \in User : /\ Cardinality(LimitedOf(u)') \in Nat
                       /\ Cardinality(LimitedOf(u)) \in Nat
                       /\ Cardinality(LimitedOf(u)') <= Cardinality(LimitedOf(u))
  BY Shrinks, LimitedFinite DEF Quiet
<1>3. FreeQuota'
  BY <1>2a, LimitAssumption DEF QuotaInv, FreeQuota
<1>4. LockDiscipline'
  BY <1>1 DEF QuotaInv, LockDiscipline, LockKeyOf, Quiet
<1>5. RoomLeft'
  <2> SUFFICES ASSUME NEW q \in Proc, pc'[q] \in {"txInsert", "txCommit"}
               PROVE  Cardinality(LimitedOf(held[q].user)') < FreeMaxApiaries
    BY DEF RoomLeft
  <2>1. pc[q] = pc'[q] /\ held'[q] = held[q]
    BY <1>1 DEF Quiet
  <2>2. held[q].user \in User
    BY <1>1, <1>2, <2>1
  <2>3. Cardinality(LimitedOf(held[q].user)) < FreeMaxApiaries
    BY <2>1 DEF QuotaInv, RoomLeft
  <2> QED
    BY <1>2a, <2>1, <2>2, <2>3, LimitAssumption
<1>6. FreshIds'
  BY DEF QuotaInv, FreshIds, Quiet
<1> QED
  BY <1>3, <1>4, <1>5, <1>6 DEF QuotaInv

(* Steps that leave the table alone count the same rows as before. *)
LEMMA SameTable ==
    ASSUME UNCHANGED <<apiaries, limited, removed>>
    PROVE  Taken' = Taken /\ \A u \in User : LimitedOf(u)' \subseteq LimitedOf(u)
BY DEF Taken, LimitedOf

(* Deleted rows stay among the taken ids. *)
LEMMA DeleteQuiet ==
    ASSUME TypeOK, NEW ids \in SUBSET Present(apiaries),
           apiaries' = DeleteRows(apiaries, ids), removed' = removed \cup ids,
           limited' = limited
    PROVE  Taken' = Taken /\ \A u \in User : LimitedOf(u)' \subseteq LimitedOf(u)
<1>1. Present(apiaries') = Present(apiaries) \ ids
  BY DEF DeleteRows, Present
<1>2. \A i \in Present(apiaries') : apiaries'[i] = apiaries[i]
  BY DEF DeleteRows, Present
<1> QED
  BY <1>1, <1>2 DEF Taken, LimitedOf, Active, RowsOf

(* An update keeps the row's owner and its deletion mark. *)
LEMMA EditQuiet ==
    ASSUME TypeOK, NEW a \in Row, Updatable(apiaries, a),
           apiaries' = Update(apiaries, a), UNCHANGED <<removed, limited>>
    PROVE  Taken' = Taken /\ \A u \in User : LimitedOf(u)' \subseteq LimitedOf(u)
<1>1. apiaries \in Table /\ apiaries' \in Table
  BY UpdateType DEF TypeOK
<1>2. a.id \in Present(apiaries) /\ apiaries[a.id] \in Row
  BY <1>1 DEF Updatable, Active, RowsOf, Present, Table
<1>3. apiaries'[a.id] \in Row /\ apiaries'[a.id].user = apiaries[a.id].user
      /\ apiaries'[a.id].deleted = apiaries[a.id].deleted
  BY <1>1, <1>2 DEF Update, Table, Row, Present
<1>4. \A i \in ApiaryId : i # a.id => apiaries'[i] = apiaries[i]
  BY <1>1 DEF Update, Table
<1>5. Present(apiaries') = Present(apiaries)
  BY <1>2, <1>3, <1>4, NoRowAssumption DEF Present
<1> QED
  BY <1>2, <1>3, <1>4, <1>5 DEF Taken, LimitedOf, Active, RowsOf

LEMMA UpdateStepQuiet ==
    ASSUME TypeOK, NEW p \in Proc, UpdateStep(p)
    PROVE  Quiet(p)
<1> USE DEF TypeOK, database, others, locals, Goto, Finish, ThenFinish, Lost, Quiet
<1> USE DEF Inserting
<1>1. CASE UpdateGet(p)
  BY <1>1, SameTable DEF UpdateGet
<1>2. CASE UpdateEntitlement(p)
  BY <1>2, SameTable DEF UpdateEntitlement
<1>3. CASE UpdateWritable(p)
  BY <1>3, SameTable DEF UpdateWritable
<1>4. CASE UpdateVerify(p)
  BY <1>4, SameTable DEF UpdateVerify, SetFields
<1>5. CASE UpdateWrite(p)
  <2>1. held[p] \in Row
    BY <1>5 DEF UpdateWrite, HoldsRow
  <2>2. Taken' = Taken /\ \A u \in User : LimitedOf(u)' \subseteq LimitedOf(u)
    <3>1. CASE UNCHANGED apiaries
      BY <1>5, <3>1, SameTable DEF UpdateWrite
    <3>2. CASE Updatable(apiaries, held[p]) /\ apiaries' = Update(apiaries, held[p])
      BY <1>5, <2>1, <3>2, EditQuiet DEF UpdateWrite
    <3> QED
      BY <1>5, <3>1, <3>2 DEF UpdateWrite
  <2> QED
    BY <1>5, <2>2 DEF UpdateWrite
<1> QED
  BY <1>1, <1>2, <1>3, <1>4, <1>5 DEF UpdateStep

LEMMA DeleteStepQuiet ==
    ASSUME TypeOK, NEW p \in Proc, DeleteStep(p)
    PROVE  Quiet(p)
<1> USE DEF TypeOK, database, others, locals, Goto, Finish, ThenGoto, ThenFinish, Lost, Quiet
<1> USE DEF Inserting
<1>1. CASE DeleteGet(p)
  BY <1>1, SameTable DEF DeleteGet
<1>2. CASE DeleteAllList(p)
  BY <1>2, SameTable DEF DeleteAllList, NextApiary
<1>3. CASE CascadeHives(p)
  BY <1>3, SameTable DEF CascadeHives, AfterHives
<1>4. CASE CascadeMedia(p)
  BY <1>4, SameTable DEF CascadeMedia
<1>5. CASE CascadeReminders(p)
  BY <1>5, SameTable DEF CascadeReminders
<1>6. CASE CascadeRow(p)
  <2>1. Taken' = Taken /\ \A u \in User : LimitedOf(u)' \subseteq LimitedOf(u)
    <3>1. CASE UNCHANGED <<apiaries, removed>>
      BY <1>6, <3>1, SameTable DEF CascadeRow
    <3>2. CASE /\ held[p].id \in RowsOf(apiaries, req[p].user)
               /\ apiaries' = DeleteRows(apiaries, {held[p].id})
               /\ removed' = removed \cup {held[p].id}
      <4>1. {held[p].id} \in SUBSET Present(apiaries)
        BY <3>2 DEF RowsOf
      <4> QED
        BY <1>6, <3>2, <4>1, DeleteQuiet DEF CascadeRow
    <3> QED
      BY <1>6, <3>1, <3>2 DEF CascadeRow
  <2>2. \A q \in Proc \ {p} : pc'[q] = pc[q] /\ held'[q] = held[q]
    BY <1>6 DEF CascadeRow, AfterRow, NextApiary
  <2>3. pc'[p] \notin Inserting
    BY <1>6 DEF CascadeRow, AfterRow, NextApiary
  <2> QED
    BY <1>6, <2>1, <2>2, <2>3 DEF CascadeRow
<1>7. CASE Cleanup(p)
  BY <1>7, SameTable DEF Cleanup
<1>8. CASE DeleteUserData(p)
  <2>1. Taken' = Taken /\ \A u \in User : LimitedOf(u)' \subseteq LimitedOf(u)
    BY <1>8, DeleteQuiet DEF DeleteUserData, RowsOf
  <2> QED
    BY <1>8, <2>1 DEF DeleteUserData
<1> QED
  BY <1>1, <1>2, <1>3, <1>4, <1>5, <1>6, <1>7, <1>8 DEF DeleteStep

LEMMA ReadStepQuiet ==
    ASSUME TypeOK, NEW p \in Proc, ReadStep(p)
    PROVE  Quiet(p)
<1> USE DEF TypeOK, database, others, locals, Goto, Finish, Quiet, Inserting
<1>1. CASE GetRow(p)
  BY <1>1, SameTable DEF GetRow
<1>2. CASE GetPlan(p)
  BY <1>2, SameTable DEF GetPlan
<1>3. CASE GetWritable(p)
  BY <1>3, SameTable DEF GetWritable
<1>4. CASE WritablePlan(p)
  BY <1>4, SameTable DEF WritablePlan
<1>5. CASE WritableApiaryID(p)
  BY <1>5, SameTable DEF WritableApiaryID
<1> QED
  BY <1>1, <1>2, <1>3, <1>4, <1>5 DEF ReadStep

(* Receiving, answering and failing. *)
LEMMA PlumbingQuiet ==
    ASSUME TypeOK, NEW p \in Proc, Receive(p) \/ CallFails(p) \/ Reply(p)
    PROVE  Quiet(p)
<1> USE DEF TypeOK, database, others, locals, Goto, Finish, Quiet
<1>1. CASE Receive(p)
  <2>1. PICK r \in Request : Goto(p, FirstCallOf(r.kind))
    BY <1>1 DEF Receive
  <2>2. FirstCallOf(r.kind) \notin Inserting
    BY RequestFields DEF FirstCallOf, Kind, Inserting
  <2> QED
    BY <1>1, <2>1, <2>2, SameTable DEF Receive
<1>2. CASE CallFails(p)
  BY <1>2, SameTable DEF CallFails, FailTx, Inserting
<1>3. CASE Reply(p)
  BY <1>3, SameTable DEF Reply, Inserting
<1> QED
  BY <1>1, <1>2, <1>3

-----------------------------------------------------------------------------
(* The creates.                                                            *)

(* An inserted row is counted only if its insert is a limited one. *)
LEMMA InsertCounts ==
    ASSUME TypeOK, NEW a \in Row, a.id \notin Taken, limited \subseteq Taken,
           apiaries' = Insert(apiaries, a), UNCHANGED removed
    PROVE  /\ Taken' = Taken \cup {a.id}
           /\ limited' = limited => \A u \in User : LimitedOf(u)' \subseteq LimitedOf(u)
           /\ limited' = limited \cup {a.id} =>
                \A u \in User : LimitedOf(u)' \subseteq
                    (IF u = a.user THEN LimitedOf(u) \cup {a.id} ELSE LimitedOf(u))
<1>1. a.id \in ApiaryId /\ a # NoRow
  BY NoRowAssumption DEF Row
<1>2. /\ apiaries'[a.id] = a
      /\ \A i \in ApiaryId : i # a.id => apiaries'[i] = apiaries[i]
  BY <1>1 DEF Insert, TypeOK, Table
<1>3. Present(apiaries') = Present(apiaries) \cup {a.id}
  BY <1>1, <1>2 DEF Present
<1>4. Taken' = Taken \cup {a.id}
  BY <1>3 DEF Taken
<1>5. ASSUME NEW u \in User, NEW i \in Active(apiaries', u), i # a.id
      PROVE  i \in Active(apiaries, u)
  BY <1>2, <1>3, <1>5 DEF Active, RowsOf, Present
<1>6. \A u \in User : u # a.user => a.id \notin Active(apiaries', u)
  BY <1>2 DEF Active, RowsOf
<1>7. a.id \notin limited
  OBVIOUS
<1> QED
  BY <1>4, <1>5, <1>6, <1>7 DEF LimitedOf

LEMMA HoldsRowType ==
    ASSUME TypeOK, NEW p \in Proc, pc[p] \in HoldsRow
    PROVE  /\ held[p] \in Row /\ held[p].id \in ApiaryId
           /\ held[p].user \in User /\ LockKeyOf(p) \in LockKey
BY LockAssumption DEF TypeOK, Row, LockKeyOf

LEMMA CreateStepQuota ==
    ASSUME TypeOK, QuotaInv, NEW p \in Proc, CreateStep(p)
    PROVE  QuotaInv'
<1> USE DEF database, others, locals, Goto, Finish, ThenFinish, Lost, FailTx
<1>a. pc \in [Proc -> Label] /\ held \in [Proc -> Row \cup {NoRow}]
      /\ lock \in [LockKey -> Proc \cup {NoProc}] /\ out \in [Proc -> Outcome]
  BY DEF TypeOK
<1>b. Inserting \subseteq HoldsRow /\ InTx \subseteq Inserting
  BY DEF InTx, Inserting, HoldsRow
<1>1. CASE CreateEntitlement(p)
  BY <1>1, <1>a, SameTable, QuietStep DEF CreateEntitlement, Quiet, Inserting
<1>2. CASE CreateCount(p)
  BY <1>2, <1>a, SameTable, QuietStep DEF CreateCount, Quiet, Inserting
<1>3. CASE CreateVerify(p)
  <2>1. CASE \E o \in Outcome : Finish(p, o) /\ UNCHANGED held
    BY <1>3, <2>1, <1>a, SameTable, QuietStep DEF CreateVerify, Quiet, Inserting
  <2>2. CASE NewApiary(p, dedupeImages(req[p].images))
    <3>1. /\ held'[p].id \notin UsedIds
          /\ \A q \in Proc : q # p => held'[q] = held[q] /\ pc'[q] = pc[q]
          /\ pc'[p] \notin InTx
      BY <1>3, <2>2, <1>a DEF CreateVerify, NewApiary, InTx
    <3>2. UNCHANGED <<apiaries, limited, removed, lock>>
      BY <1>3 DEF CreateVerify
    <3>3. FreshIds'
      <4>1. \A q \in Proc : q # p /\ pc[q] \in Inserting => held'[p].id # held[q].id
        BY <1>b, <3>1 DEF UsedIds, TypeOK
      <4> QED
        BY <3>1, <3>2, <4>1 DEF QuotaInv, FreshIds, UsedIds
    <3>4. LockDiscipline' /\ RoomLeft'
      BY <3>1, <3>2 DEF QuotaInv, LockDiscipline, RoomLeft, LockKeyOf, LimitedOf, InTx
    <3>5. FreeQuota'
      BY <3>2 DEF QuotaInv, FreeQuota, LimitedOf
    <3> QED
      BY <3>3, <3>4, <3>5 DEF QuotaInv
  <2> QED
    BY <1>3, <2>1, <2>2 DEF CreateVerify, Outcome, Failure
<1>4. CASE CreateUnlimited(p)
  <2>1. held[p] \in Row /\ held[p].id \notin Taken /\ limited \subseteq Taken
    BY <1>4, HoldsRowType DEF CreateUnlimited, HoldsRow, Inserting, QuotaInv, FreshIds, Taken
  <2>2. CASE UNCHANGED apiaries
    BY <1>4, <2>2, <1>a, SameTable, QuietStep DEF CreateUnlimited, Quiet, Inserting
  <2>3. CASE apiaries' = Insert(apiaries, held[p])
    <3>1. /\ UNCHANGED <<lock, limited, removed, held>> /\ pc'[p] \notin Inserting
          /\ \A q \in Proc : q # p => pc'[q] = pc[q]
      BY <1>4, <1>a DEF CreateUnlimited, Inserting
    <3>2. /\ Taken' = Taken \cup {held[p].id}
          /\ \A u \in User : LimitedOf(u)' \subseteq LimitedOf(u)
      BY <2>1, <2>3, <3>1, InsertCounts
    <3>3. FreshIds'
      BY <1>4, <3>1, <3>2 DEF QuotaInv, FreshIds, Taken, CreateUnlimited, Inserting
    <3>4. LockDiscipline'
      BY <1>b, <3>1 DEF QuotaInv, LockDiscipline, LockKeyOf, InTx
    <3>5. \A u \in User : /\ Cardinality(LimitedOf(u)') \in Nat
                          /\ Cardinality(LimitedOf(u)) \in Nat
                          /\ Cardinality(LimitedOf(u)') <= Cardinality(LimitedOf(u))
      BY <3>2, Shrinks, LimitedFinite
    <3>6. FreeQuota'
      BY <3>5, LimitAssumption DEF QuotaInv, FreeQuota
    <3>7. RoomLeft'
      <4> SUFFICES ASSUME NEW q \in Proc, pc'[q] \in {"txInsert", "txCommit"}
                   PROVE  Cardinality(LimitedOf(held[q].user)') < FreeMaxApiaries
        BY DEF RoomLeft
      <4>1. pc[q] = pc'[q] /\ held'[q] = held[q] /\ pc[q] \in HoldsRow
        BY <1>b, <3>1 DEF InTx
      <4>2. held[q].user \in User
        BY <4>1, HoldsRowType
      <4>3. Cardinality(LimitedOf(held[q].user)) < FreeMaxApiaries
        BY <4>1 DEF QuotaInv, RoomLeft
      <4> QED
        BY <3>5, <4>1, <4>2, <4>3, LimitAssumption
    <3> QED
      BY <3>3, <3>4, <3>6, <3>7 DEF QuotaInv
  <2> QED
    BY <1>4, <2>2, <2>3 DEF CreateUnlimited
<1>5. CASE TxBegin(p)
  BY <1>5, <1>a, SameTable, QuietStep DEF TxBegin, Quiet, Inserting, InTx
<1>6. CASE TxLock(p)
  <2>1. LockKeyOf(p) \in LockKey
    BY <1>6, HoldsRowType DEF TxLock, HoldsRow, Inserting
  <2>2. UNCHANGED <<apiaries, limited, removed, held>>
    BY <1>6 DEF TxLock
  <2>3. LockDiscipline'
    BY <1>6, <1>a, <2>1, ProcAssumption DEF TxLock, LockFree, LockKeyOf, QuotaInv, LockDiscipline
  <2>4. FreshIds' /\ FreeQuota' /\ RoomLeft'
    BY <1>6, <1>a, <2>2 DEF TxLock, QuotaInv, FreshIds, FreeQuota, RoomLeft, LimitedOf, Inserting
  <2> QED
    BY <2>3, <2>4 DEF QuotaInv
<1>7. CASE TxCount(p)
  <2>1. UNCHANGED <<apiaries, limited, removed, held, lock>>
    BY <1>7 DEF TxCount
  <2>2. FreshIds' /\ FreeQuota' /\ LockDiscipline'
    BY <1>7, <1>a, <2>1 DEF TxCount, QuotaInv, FreshIds, FreeQuota, LockDiscipline,
                            LockKeyOf, LimitedOf, Inserting
  <2>3. Cardinality(LimitedOf(held[p].user)) <= CountByUser(apiaries, held[p].user)
    BY ActiveFinite, FS_Subset DEF LimitedOf, CountByUser
  <2>4. pc'[p] = "txInsert" => Cardinality(LimitedOf(held[p].user)) < FreeMaxApiaries
    BY <1>7, <1>a, <2>3, LimitedFinite, ActiveFinite, LimitAssumption
       DEF TxCount, AtLimit, CountByUser
  <2>5. RoomLeft'
    BY <1>7, <1>a, <2>1, <2>4 DEF TxCount, QuotaInv, RoomLeft, LimitedOf
  <2> QED
    BY <2>2, <2>5 DEF QuotaInv
<1>8. CASE TxInsert(p)
  BY <1>8, <1>a DEF TxInsert, QuotaInv, FreshIds, FreeQuota, LockDiscipline, RoomLeft,
                    LockKeyOf, LimitedOf, Inserting
<1>9. CASE TxCommit(p)
  <2>1. /\ held[p] \in Row /\ held[p].user \in User
        /\ held[p].id \notin Taken /\ limited \subseteq Taken
    BY <1>9, HoldsRowType DEF TxCommit, HoldsRow, Inserting, QuotaInv, FreshIds, Taken
  <2>2. /\ apiaries' = Insert(apiaries, held[p]) /\ limited' = limited \cup {held[p].id}
        /\ UNCHANGED <<removed, held>> /\ pc'[p] \notin Inserting
        /\ \A q \in Proc : q # p => pc'[q] = pc[q]
        /\ \A k \in LockKey : lock[k] # p => lock'[k] = lock[k]
    BY <1>9, <1>a DEF TxCommit, Unlock, Inserting
  <2>3. /\ Taken' = Taken \cup {held[p].id}
        /\ \A u \in User : u # held[p].user => LimitedOf(u)' \subseteq LimitedOf(u)
        /\ LimitedOf(held[p].user)' \subseteq LimitedOf(held[p].user) \cup {held[p].id}
    <3>1. \A u \in User : LimitedOf(u)' \subseteq
                (IF u = held[p].user THEN LimitedOf(u) \cup {held[p].id} ELSE LimitedOf(u))
      BY <2>1, <2>2, InsertCounts
    <3>2. Taken' = Taken \cup {held[p].id}
      BY <2>1, <2>2, InsertCounts
    <3> QED
      BY <2>1, <2>2, <3>1, <3>2
  <2>4. FreshIds'
    BY <1>9, <2>2, <2>3 DEF QuotaInv, FreshIds, Taken, TxCommit, Inserting
  <2>5. LockDiscipline'
    <3> SUFFICES ASSUME NEW q \in Proc, pc'[q] \in InTx
                 PROVE  lock'[LockKeyOf(q)'] = q
      BY DEF LockDiscipline, InTx
    <3>1. q # p /\ pc'[q] = pc[q] /\ pc[q] \in HoldsRow
      BY <1>b, <2>2
    <3>2. lock[LockKeyOf(q)] = q /\ LockKeyOf(q) \in LockKey
      BY <3>1, HoldsRowType DEF QuotaInv, LockDiscipline, InTx
    <3> QED
      BY <2>2, <3>1, <3>2 DEF LockKeyOf
  <2>6. \A u \in User \ {held[p].user} :
            /\ Cardinality(LimitedOf(u)') \in Nat
            /\ Cardinality(LimitedOf(u)) \in Nat
            /\ Cardinality(LimitedOf(u)') <= Cardinality(LimitedOf(u))
    BY <2>3, Shrinks, LimitedFinite
  <2>7. Cardinality(LimitedOf(held[p].user)') <= FreeMaxApiaries
    <3> DEFINE S == LimitedOf(held[p].user)
    <3>1. IsFiniteSet(S) /\ Cardinality(S) \in Nat
      BY LimitedFinite
    <3>2. /\ IsFiniteSet(S \cup {held[p].id}) /\ Cardinality(S \cup {held[p].id}) \in Nat
          /\ Cardinality(S \cup {held[p].id}) <= Cardinality(S) + 1
      BY <3>1, OneMore
    <3>3. Cardinality(S) < FreeMaxApiaries
      BY <1>9 DEF TxCommit, QuotaInv, RoomLeft
    <3>4. Cardinality(S') <= Cardinality(S \cup {held[p].id}) /\ Cardinality(S') \in Nat
      BY <2>3, <3>2, FS_Subset, FS_CardinalityType
    <3> HIDE DEF S
    <3>5. Cardinality(S') <= FreeMaxApiaries
      BY <3>1, <3>2, <3>3, <3>4, LimitAssumption
    <3> QED
      BY <3>5 DEF S
  <2>8. FreeQuota'
    <3> SUFFICES ASSUME NEW u \in User PROVE Cardinality(LimitedOf(u)') <= FreeMaxApiaries
      BY DEF FreeQuota
    <3>1. CASE u = held[p].user
      BY <2>2, <2>7, <3>1
    <3>2. CASE u # held[p].user
      BY <2>6, <3>2, LimitAssumption DEF QuotaInv, FreeQuota
    <3> QED
      BY <3>1, <3>2
  <2>9. RoomLeft'
    <3> SUFFICES ASSUME NEW q \in Proc, pc'[q] \in {"txInsert", "txCommit"}
                 PROVE  Cardinality(LimitedOf(held[q].user)') < FreeMaxApiaries
      BY DEF RoomLeft
    <3>1. q # p /\ pc'[q] = pc[q] /\ held'[q] = held[q] /\ pc[q] \in HoldsRow
      BY <1>b, <2>2 DEF InTx
    <3>2. held[q].user \in User /\ lock[LockKeyOf(q)] = q /\ lock[LockKeyOf(p)] = p
      BY <1>9, <3>1, HoldsRowType DEF TxCommit, QuotaInv, LockDiscipline
    <3>3. held[q].user # held[p].user
      BY <3>1, <3>2 DEF LockKeyOf
    <3>4. Cardinality(LimitedOf(held[q].user)) < FreeMaxApiaries
      BY <3>1 DEF QuotaInv, RoomLeft
    <3> QED
      BY <2>6, <3>1, <3>2, <3>3, <3>4, LimitAssumption
  <2> QED
    BY <2>4, <2>5, <2>8, <2>9 DEF QuotaInv
<1>10. CASE TxRollback(p)
  <2>1. /\ UNCHANGED <<apiaries, limited, removed, held>> /\ pc'[p] \notin Inserting
        /\ \A q \in Proc : q # p => pc'[q] = pc[q]
        /\ \A k \in LockKey : lock[k] # p => lock'[k] = lock[k]
    BY <1>10, <1>a DEF TxRollback, Unlock, Inserting
  <2>2. LockDiscipline'
    <3> SUFFICES ASSUME NEW q \in Proc, pc'[q] \in InTx
                 PROVE  lock'[LockKeyOf(q)'] = q
      BY DEF LockDiscipline, InTx
    <3>1. q # p /\ pc'[q] = pc[q] /\ pc[q] \in HoldsRow
      BY <1>b, <2>1
    <3>2. lock[LockKeyOf(q)] = q /\ LockKeyOf(q) \in LockKey
      BY <3>1, HoldsRowType DEF QuotaInv, LockDiscipline, InTx
    <3> QED
      BY <2>1, <3>1, <3>2 DEF LockKeyOf
  <2>3. FreshIds' /\ FreeQuota' /\ RoomLeft'
    BY <1>b, <2>1 DEF QuotaInv, FreshIds, FreeQuota, RoomLeft, LimitedOf, InTx
  <2> QED
    BY <2>2, <2>3 DEF QuotaInv
<1> QED
  BY <1>1, <1>2, <1>3, <1>4, <1>5, <1>6, <1>7, <1>8, <1>9, <1>10 DEF CreateStep

-----------------------------------------------------------------------------
LEMMA QuotaInit == Init => QuotaInv
<1> SUFFICES ASSUME Init PROVE QuotaInv
  OBVIOUS
<1>1. limited = {} /\ \A p \in Proc : pc[p] = "idle"
  BY DEF Init
<1>2. \A u \in User : LimitedOf(u) = {}
  BY <1>1 DEF LimitedOf
<1>3. FreeQuota
  BY <1>2, FS_EmptySet, LimitAssumption DEF FreeQuota
<1> QED
  BY <1>1, <1>3 DEF QuotaInv, LockDiscipline, RoomLeft, FreshIds, Inserting

LEMMA QuotaNext == TypeOK /\ QuotaInv /\ [Next]_vars => QuotaInv'
<1> SUFFICES ASSUME TypeOK, QuotaInv, [Next]_vars PROVE QuotaInv'
  OBVIOUS
<1> USE DEF database, others, locals
<1>1. CASE UNCHANGED vars
  BY <1>1 DEF vars, QuotaInv, FreeQuota, LockDiscipline, RoomLeft, FreshIds, LimitedOf, LockKeyOf
<1>2. ASSUME NEW p \in Proc, Receive(p) \/ Step(p) PROVE QuotaInv'
  <2>1. CASE CreateStep(p)
    BY <2>1, CreateStepQuota
  <2>2. CASE UpdateStep(p) \/ DeleteStep(p) \/ ReadStep(p)
    BY <2>2, UpdateStepQuiet, DeleteStepQuiet, ReadStepQuiet, QuietStep
  <2>3. CASE Receive(p) \/ CallFails(p) \/ Reply(p)
    BY <2>3, PlumbingQuiet, QuietStep
  <2> QED
    BY <1>2, <2>1, <2>2, <2>3 DEF Step
<1>3. CASE ExternalStep
  <2>1. UNCHANGED <<database, pc, locals>>
    BY <1>3 DEF ExternalStep, SubscriptionChanges, MediaDeleted, HiveAdded, ExistsAnswered, ReminderAdded
  <2> QED
    BY <2>1 DEF QuotaInv, FreeQuota, LockDiscipline, RoomLeft, FreshIds, LimitedOf, LockKeyOf
<1>4. CASE Crash
  <2>1. UNCHANGED <<apiaries, limited, removed>> /\ \A p \in Proc : pc'[p] = "idle"
    BY <1>4 DEF Crash
  <2> QED
    BY <2>1 DEF QuotaInv, FreeQuota, LockDiscipline, RoomLeft, FreshIds, LimitedOf, Inserting
<1> QED
  BY <1>1, <1>2, <1>3, <1>4 DEF Next

THEOREM QuotaInductive == Spec => []QuotaInv
<1>1. Init => QuotaInv
  BY QuotaInit
<1>2. TypeOK /\ QuotaInv /\ [Next]_vars => QuotaInv'
  BY QuotaNext
<1> QED
  BY <1>1, <1>2, TypeCorrect, PTL DEF Spec

(* However many creates run at once, fail, lose their answers or die with  *)
(* the server, a user never owns more apiaries created under the Free plan *)
(* than the plan allows.                                                   *)
THEOREM QuotaHolds == Spec => []FreeQuota
<1>1. QuotaInv => FreeQuota
  BY DEF QuotaInv
<1> QED
  BY <1>1, QuotaInductive, PTL
=============================================================================
