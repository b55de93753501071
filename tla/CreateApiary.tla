----------------------------- MODULE CreateApiary -----------------------------
(***************************************************************************)
(* POST /api/v1/apiaries: Handler.Create, Service.Create and               *)
(* ApiaryRepository.CreateWithLimit.  A Free user is counted twice: once   *)
(* without a lock, to answer early, and once inside a transaction that     *)
(* holds the user's advisory lock until its commit.                        *)
(***************************************************************************)
EXTENDS ApiaryBase

CreateEntitlement(p) ==
    /\ pc[p] = "createEntitlement"
    /\ GetEntitlement(p)
    /\ Goto(p, IF ent'[p] = EntitlementFree THEN "createCount" ELSE "createVerify")
    /\ UNCHANGED <<database, others, req, held, rest>>

CreateCount(p) ==
    /\ pc[p] = "createCount"
    /\ ConnFree
    /\ IF AtLimit(CountByUser(apiaries, req[p].user), FreeMaxApiaries)
       THEN Finish(p, "LimitReached")
       ELSE Goto(p, "createVerify")
    /\ UNCHANGED <<database, others, locals>>

(* The photo checks, and then apiary.New: the id and created_at are fixed  *)
(* here, before the row is inserted.                                       *)
NewApiary(p, ids) ==
    \E id \in ApiaryId \ UsedIds, tick \in {0, 1} :
        /\ held' = [held EXCEPT ![p] =
                      [id |-> id, user |-> req[p].user, name |-> req[p].name,
                       images |-> ids, created |-> clock, deleted |-> FALSE]]
        /\ clock + tick <= MaxClock
        /\ clock' = clock + tick

CreateVerify(p) ==
    LET ids == dedupeImages(req[p].images) IN
    /\ pc[p] = "createVerify"
    /\ \/ /\ TooManyImages(ids)
          /\ Finish(p, "MediaLimit")
          /\ UNCHANGED <<held, clock>>
       \/ /\ ~TooManyImages(ids)
          /\ ~VerifyOwnership(req[p].user, ids)
          /\ Finish(p, "ImageNotFound")
          /\ UNCHANGED <<held, clock>>
       \/ /\ ~TooManyImages(ids)
          /\ VerifyOwnership(req[p].user, ids)
          /\ NewApiary(p, ids)
          /\ Goto(p, IF ent[p] = EntitlementFree THEN "txBegin" ELSE "createUnlimited")
    /\ UNCHANGED <<apiaries, lock, limited, removed, others, req, rest, ent>>

(* Fault: INSERT ... ON CONFLICT DO NOTHING. *)
CreateOrIgnore(p) ==
    /\ pc[p] = "createUnlimited"
    /\ ConnFree /\ ~NamePending(p)
    /\ apiaries' = IF NameClash(apiaries, held[p]) THEN apiaries
                   ELSE Insert(apiaries, held[p])
    /\ ThenFinish(p, "Created")
    /\ UNCHANGED <<lock, clock, limited, removed, others, locals>>
(* maxCount <= 0: Create, a single INSERT. *)
CreateUnlimited(p) ==
    /\ pc[p] = "createUnlimited"
    /\ ConnFree /\ ~NamePending(p)
    /\ IF NameClash(apiaries, held[p])
       THEN Finish(p, "NameTaken") /\ UNCHANGED apiaries
       ELSE apiaries' = Insert(apiaries, held[p]) /\ ThenFinish(p, "Created")
    /\ UNCHANGED <<lock, clock, limited, removed, others, locals>>

TxBegin(p) ==
    /\ pc[p] = "txBegin"
    /\ ConnFree
    /\ Goto(p, "txLock")
    /\ UNCHANGED <<database, others, locals>>

(* pg_advisory_xact_lock on the hash of the user id. *)
LockKeyOf(p) == hashtext[held[p].user]
(* Fault: pg_try_advisory_xact_lock, its result unread. *)
LockIgnored(k) == TRUE
LockFree(k) == lock[k] = NoProc

TxLock(p) ==
    /\ pc[p] = "txLock"
    /\ LockFree(LockKeyOf(p))
    /\ lock' = [lock EXCEPT ![LockKeyOf(p)] = p]
    /\ Goto(p, "txCount")
    /\ UNCHANGED <<apiaries, clock, limited, removed, others, locals>>

(* The deferred Rollback still has to run when CreateWithLimit returns.    *)
FailTx(p, o) ==
    /\ pc' = [pc EXCEPT ![p] = "txRollback"]
    /\ out' = [out EXCEPT ![p] = o]

(* Fault: r.CountByUser instead of a query on tx. *)
TxCountOnPool(p) ==
    /\ pc[p] = "txCount"
    /\ ConnFree
    /\ IF AtLimit(CountByUser(apiaries, held[p].user), FreeMaxApiaries)
       THEN FailTx(p, "LimitReached")
       ELSE Goto(p, "txInsert")
    /\ UNCHANGED <<database, others, locals>>
(* The count runs on the transaction's own connection. *)
TxCount(p) ==
    /\ pc[p] = "txCount"
    /\ IF AtLimit(CountByUser(apiaries, held[p].user), FreeMaxApiaries)
       THEN FailTx(p, "LimitReached")
       ELSE Goto(p, "txInsert")
    /\ UNCHANGED <<database, others, locals>>

(* The INSERT is checked against the index and then waits, invisible to    *)
(* everyone else, for the commit.                                          *)
TxInsert(p) ==
    /\ pc[p] = "txInsert"
    /\ ~NamePending(p)
    /\ IF NameClash(apiaries, held[p])
       THEN FailTx(p, "NameTaken")
       ELSE Goto(p, "txCommit")
    /\ UNCHANGED <<database, others, locals>>

(* Both ends of a transaction release its lock. *)
Unlock(p) == lock' = [k \in LockKey |-> IF lock[k] = p THEN NoProc ELSE lock[k]]

TxCommit(p) ==
    /\ pc[p] = "txCommit"
    /\ apiaries' = Insert(apiaries, held[p])
    /\ limited' = limited \cup {held[p].id}
    /\ Unlock(p)
    /\ ThenFinish(p, "Created")
    /\ UNCHANGED <<clock, removed, others, locals>>

(* Fault: no deferred Rollback. *)
NoRollback(p) ==
    /\ pc[p] = "txRollback"
    /\ Goto(p, "reply")
    /\ UNCHANGED <<database, others, locals>>
TxRollback(p) ==
    /\ pc[p] = "txRollback"
    /\ Unlock(p)
    /\ Goto(p, "reply")
    /\ UNCHANGED <<apiaries, clock, limited, removed, others, locals>>

CreateStep(p) ==
    \/ CreateEntitlement(p) \/ CreateCount(p) \/ CreateVerify(p)
    \/ CreateUnlimited(p)
    \/ TxBegin(p) \/ TxLock(p) \/ TxCount(p) \/ TxInsert(p)
    \/ TxCommit(p) \/ TxRollback(p)
=============================================================================
