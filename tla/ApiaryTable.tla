----------------------------- MODULE ApiaryTable -----------------------------
(***************************************************************************)
(* The apiaries table and the statements the repository runs on it         *)
(* (internal/repository/postgres/apiary_repository.go), as operators on a  *)
(* table value t.  One operator is one SQL statement: PostgreSQL runs it   *)
(* atomically on the committed rows, and the modules that follow decide    *)
(* when each statement runs.                                               *)
(*                                                                         *)
(* A row keeps what the service's decisions depend on.  name stands for    *)
(* every field an update replaces unconditionally (name, location,         *)
(* description, lat, lon); images is the set of ids in the images column   *)
(* (their order only shows in responses); created is created_at; deleted   *)
(* says whether deleted_at is set, which no statement of this code does    *)
(* any more, but rows of earlier releases carry it.                        *)
(***************************************************************************)
EXTENDS Integers, FiniteSets

CONSTANTS
    User,      \* account ids
    ApiaryId,  \* apiary ids; their order stands for the order on UUIDs
    Name,      \* values of the replaceable fields
    Media,     \* media ids
    NoRow      \* "no such row"

ASSUME IdsAssumption == ApiaryId \subseteq Nat /\ IsFiniteSet(ApiaryId)

Row == [id : ApiaryId, user : User, name : Name, images : SUBSET Media,
        created : Nat, deleted : BOOLEAN]

ASSUME NoRowAssumption == NoRow \notin Row

(* The primary key is id. *)
Table == {t \in [ApiaryId -> Row \cup {NoRow}] :
             \A i \in ApiaryId : t[i] # NoRow => t[i].id = i}

Present(t) == {i \in ApiaryId : t[i] # NoRow}

RowsOf(t, u) == {i \in Present(t) : t[i].user = u}

(* user_id = $1 AND deleted_at IS NULL *)
Active(t, u) == {i \in RowsOf(t, u) : ~t[i].deleted}

(* ORDER BY created_at ASC, id ASC *)
Before(a, b) == \/ a.created < b.created
                \/ a.created = b.created /\ a.id < b.id

CountByUser(t, u) == Cardinality(Active(t, u))

(* Fault: one too many gets in. *)
AtLimitOffByOne(n, max) == n > max
(* count >= maxCount, in Service.Create and in CreateWithLimit.            *)
AtLimit(n, max) == n >= max

(* The first limit rows of the user in creation order, all without limit.  *)
WritableIDs(t, u, limit) ==
    {i \in Active(t, u) :
        \/ limit <= 0
        \/ Cardinality({j \in Active(t, u) : Before(t[j], t[i])}) < limit}

(* Fault: the query forgets user_id = $2. *)
GetByIDAnyUser(t, u, i) == IF i \in Present(t) /\ ~t[i].deleted THEN t[i] ELSE NoRow
GetByID(t, u, i) == IF i \in Active(t, u) THEN t[i] ELSE NoRow

(* Fault: the query filters on deleted_at. *)
ListActiveByUser(t, u) == {t[i] : i \in Active(t, u)}
(* Every row of the account, soft-deleted ones included.                   *)
ListAllByUser(t, u) == {t[i] : i \in RowsOf(t, u)}

(* Fault: the migration that creates the index was not run. *)
NameClashUnindexed(t, a) == FALSE
(* idx_apiaries_user_id_name_unique_active, for a row a about to be        *)
(* inserted or updated.                                                    *)
NameClash(t, a) == \E j \in Active(t, a.user) : j # a.id /\ t[j].name = a.name

Insert(t, a) == [t EXCEPT ![a.id] = a]

(* The UPDATE of row a finds nothing to write (RowsAffected() = 0) unless  *)
(* the row is still there and active; created_at is not among its columns. *)
Updatable(t, a) == a.id \in Active(t, a.user)
Update(t, a) == [t EXCEPT ![a.id].name = a.name, ![a.id].images = a.images]

(* DELETE of the rows whose ids are given. *)
DeleteRows(t, ids) == [i \in ApiaryId |-> IF i \in ids THEN NoRow ELSE t[i]]

(* Rows of one user never share a name among the active ones. *)
UniqueNames(t) ==
    \A i, j \in Present(t) :
        /\ t[i].user = t[j].user /\ t[i].name = t[j].name
        /\ ~t[i].deleted /\ ~t[j].deleted
        => i = j
=============================================================================
