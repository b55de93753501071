------------------------------ MODULE ApiaryBase ------------------------------
(***************************************************************************)
(* State shared by every component of the service, and the plumbing every  *)
(* request goes through.                                                   *)
(*                                                                         *)
(* A process of Proc is one in-flight HTTP request: the goroutine that     *)
(* runs a handler and the service method under it.  Between two calls out  *)
(* of the process (a SQL statement, a request to another service) the code *)
(* touches only its own variables, so a step is one such call together     *)
(* with the local code up to the next one.                                 *)
(***************************************************************************)
EXTENDS ApiaryApi

CONSTANTS
    Proc,                \* requests the server can have in flight
    LockKey, hashtext,   \* advisory-lock keys; hashtext[u] is the user's key
    MaxConns,            \* connections of the pgx pool
    MaxClock,            \* bound on the wall clock
    Seed,                \* the states the service may find when it starts
    Events,              \* what else may happen: see EventNames
    NoUser, NoProc

EntitlementFree == "free"
EntitlementPro  == "pro"
Entitlement == {EntitlementFree, EntitlementPro}

(* subscription, media, hive, reminder: another service changes its data;  *)
(* exists: it asks first whether the apiary exists, and acts on the answer *)
(* later; fail: any call may fail or lose its answer; crash: the server    *)
(* may die.                                                                *)
EventNames == {"subscription", "media", "hive", "reminder", "exists", "fail", "crash"}

World == [apiaries : Table, entitlement : [User -> Entitlement],
          media : [Media -> User \cup {NoUser}],
          hives : SUBSET ApiaryId, reminders : SUBSET ApiaryId]

(* A row names at most MaxMediaAttachments files, and each is the owner's  *)
(* or has been deleted since.                                              *)
Admissible(row, owner) ==
    /\ IsFiniteSet(row.images)
    /\ Cardinality(row.images) <= MaxMediaAttachments
    /\ \A m \in row.images : owner[m] \in {row.user, NoUser}

ASSUME ProcAssumption == IsFiniteSet(Proc) /\ NoProc \notin Proc
ASSUME LockAssumption == hashtext \in [User -> LockKey]
ASSUME BoundAssumption == MaxConns \in Nat \ {0} /\ MaxClock \in Nat \ {0}
ASSUME EventsAssumption == Events \subseteq EventNames
ASSUME NoUserAssumption == NoUser \notin User
ASSUME SeedAssumption ==
    /\ Seed \subseteq World
    /\ \A s \in Seed :
        /\ UniqueNames(s.apiaries)
        /\ \A i \in Present(s.apiaries) : Admissible(s.apiaries[i], s.media)
        /\ s.hives \cup s.reminders \subseteq Present(s.apiaries)

VARIABLES
    apiaries,     \* the committed rows
    lock,         \* holder of each advisory lock
    clock,        \* time.Now, as seen by apiary.New
    limited,      \* history: ids inserted under the Free limit
    removed,      \* history: ids whose row has been deleted
    entitlement,  \* subscription-service: each user's plan
    media,        \* media-service: owner of each file, NoUser when it is gone
    hives,        \* hive-service: apiaries that have hives
    reminders,    \* notification-service: apiaries that have reminders
    confirmed,    \* its answers from this service: apiaries that exist
    pc,           \* the next call of each request
    req,          \* what the client asked
    held,         \* the handler's *Apiary
    rest,         \* rows DeleteAllByUser has still to visit
    ent,          \* the entitlement this request resolved
    out           \* the outcome of the request

database == <<apiaries, lock, clock, limited, removed>>
others   == <<entitlement, media, hives, reminders, confirmed>>
locals   == <<req, held, rest, ent>>
vars     == <<database, others, pc, locals, out>>

-----------------------------------------------------------------------------
(* Where a request can be. *)
TxHolds     == {"txLock", "txCount", "txInsert", "txCommit", "txRollback"}
Inserting   == {"createUnlimited", "txBegin", "txLock", "txCount", "txInsert",
                "txCommit"}
Cascading   == {"cascadeHives", "cascadeMedia", "cascadeReminders",
                "cascadeRow", "cleanup"}
HoldsRow    == Inserting \cup Cascading \cup
               {"txRollback", "updateEntitlement", "updateWritable",
                "updateVerify", "updateWrite", "getEntitlement", "getWritable"}
FirstCall   == {"createEntitlement", "updateGet", "deleteGet", "deleteAllList",
                "deleteUser", "getRow", "writableEntitlement"}
Calls       == FirstCall \cup HoldsRow \cup
               {"createCount", "createVerify", "writableIDs"}
Label       == Calls \cup {"idle", "reply"}

MayFail == "fail" \in Events

(* A transaction owns one connection from Begin to Commit or Rollback; any *)
(* other statement takes one from the pool while it runs.                  *)
ConnFree == Cardinality({q \in Proc : pc[q] \in TxHolds}) < MaxConns

(* Ids stored, once stored, or about to be: uuid.New avoids them.          *)
UsedIds == Present(apiaries) \cup removed
           \cup {held[q].id : q \in {r \in Proc : held[r] # NoRow}}

Goto(p, label) == pc' = [pc EXCEPT ![p] = label] /\ UNCHANGED out
Finish(p, o) == pc' = [pc EXCEPT ![p] = "reply"] /\ out' = [out EXCEPT ![p] = o]

(* The call took effect, and its answer reached us, or was lost and the    *)
(* request ends in an internal error.                                      *)
Lost(p) == MayFail /\ Finish(p, "Internal")
ThenGoto(p, label) == Goto(p, label) \/ Lost(p)
ThenFinish(p, o) == Finish(p, o) \/ Lost(p)

-----------------------------------------------------------------------------
(* GetEntitlement, asked of subscription-service with the caller's token.  *)
GetEntitlement(p) == ent' = [ent EXCEPT ![p] = entitlement[req[p].user]]

(* Fault: the files are only known to exist. *)
VerifiesExistence(u, ids) == \A m \in ids : media[m] # NoUser
(* VerifyOwnership: media-service lists as many items as ids were asked.   *)
VerifyOwnership(u, ids) == \A m \in ids : media[m] = u

(* A statement that writes a name the index reserves waits while another   *)
(* transaction has inserted that name and not yet ended.                   *)
NamePending(p) ==
    \E q \in Proc \ {p} : /\ pc[q] = "txCommit"
                          /\ held[q].user = held[p].user
                          /\ held[q].name = held[p].name
=============================================================================
