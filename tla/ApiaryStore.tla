------------------------------ MODULE ApiaryStore ------------------------------
(***************************************************************************)
(* What the service promises about the table, whatever it takes to keep    *)
(* the promise: a request takes effect at one instant, as if it were the   *)
(* only one, and every definite answer was true at the instant it was      *)
(* decided.  There are no locks, transactions, retries or second reads     *)
(* here; ApiaryService is shown to implement this module (Implements).     *)
(***************************************************************************)
EXTENDS ApiaryApi

CONSTANTS
    Proc,      \* requests that can be open at once
    Stamp,     \* times of creation
    Initial    \* the tables the store may start with

ASSUME StampAssumption == Stamp \subseteq Nat
ASSUME InitialAssumption == \A t \in Initial : t \in Table /\ UniqueNames(t)

VARIABLES
    rows,      \* the table
    limited,   \* ids of the apiaries created under the Free limit
    removed,   \* ids of the rows deleted
    asked,     \* the request each client has open
    answer     \* what it has been told, "none" so far

store == <<rows, limited, removed, asked, answer>>

StoreInit ==
    /\ rows \in Initial
    /\ limited = {} /\ removed = {}
    /\ asked = [p \in Proc |-> NoRequest]
    /\ answer = [p \in Proc |-> "none"]

Open(p) == asked[p] # NoRequest /\ answer[p] = "none"

Ask(p) ==
    /\ asked[p] = NoRequest /\ answer[p] = "none"
    /\ \E r \in Request : asked' = [asked EXCEPT ![p] = r]
    /\ UNCHANGED <<rows, limited, removed, answer>>

Say(p, o) == answer' = [answer EXCEPT ![p] = o]

(* The answer to a request that took effect; an internal error leaves the  *)
(* client without knowing whether it did.                                  *)
Confirm(p, o) == (Say(p, o) \/ Say(p, "Internal")) /\ UNCHANGED asked

(* An apiary is created under an id that was never in use, with a name its *)
(* owner does not use, and under the Free limit only where there is room.  *)
CreateRow(p) ==
    /\ Open(p) /\ asked[p].kind = "create"
    /\ ~TooManyImages(dedupeImages(asked[p].images))
    /\ \E id \in ApiaryId \ (Present(rows) \cup removed), c \in Stamp :
        LET a == [id |-> id, user |-> asked[p].user, name |-> asked[p].name,
                  images |-> dedupeImages(asked[p].images), created |-> c,
                  deleted |-> FALSE]
        IN /\ ~NameClash(rows, a)
           /\ rows' = Insert(rows, a)
           /\ \/ UNCHANGED limited
              \/ /\ Cardinality(Active(rows, a.user) \cap limited) < FreeMaxApiaries
                 /\ limited' = limited \cup {id}
    /\ Confirm(p, "Created")
    /\ UNCHANGED removed

(* An edit replaces the fields and, if the request names images, those; if *)
(* it does not, an edit under way may restore earlier ones (README).       *)
EditRow(p) ==
    /\ Open(p) /\ asked[p].kind = "update"
    /\ asked[p].id \in Active(rows, asked[p].user)
    /\ \E ids \in SUBSET Media :
        LET a == [rows[asked[p].id] EXCEPT !.name = asked[p].name, !.images = ids]
        IN /\ asked[p].images # Nil => ids = dedupeImages(asked[p].images)
           /\ ~TooManyImages(ids)
           /\ ~NameClash(rows, a)
           /\ rows' = [rows EXCEPT ![asked[p].id] = a]
    /\ Confirm(p, "Updated")
    /\ UNCHANGED <<limited, removed>>

(* One row goes, of the request's user; a delete of the account takes as   *)
(* many of these as it has rows, and the last one may answer.              *)
RemoveRow(p) ==
    /\ Open(p) /\ asked[p].kind \in {"delete", "deleteAll"}
    /\ \E i \in RowsOf(rows, asked[p].user) :
        /\ asked[p].kind = "delete" => i = asked[p].id
        /\ rows' = DeleteRows(rows, {i})
        /\ removed' = removed \cup {i}
    /\ \/ UNCHANGED <<asked, answer>>
       \/ asked[p].kind = "deleteAll" /\ Confirm(p, "DeletedAll")
       \/ Say(p, "Internal") /\ UNCHANGED asked
    /\ UNCHANGED limited

RemoveAll(p) ==
    LET ids == RowsOf(rows, asked[p].user) IN
    /\ Open(p) /\ asked[p].kind = "deleteUser"
    /\ rows' = DeleteRows(rows, ids)
    /\ removed' = removed \cup ids
    /\ Confirm(p, "UserDeleted")
    /\ UNCHANGED limited

-----------------------------------------------------------------------------
(* What may be answered without an effect, and what must then be so.       *)
Absent(r) == r.id \notin Active(rows, r.user)
ReadOnlyNow(r) == r.id \notin WritableIDs(rows, r.user, FreeMaxApiaries)
NameInUse(r) == \E j \in Active(rows, r.user) :
                    /\ rows[j].name = r.name
                    /\ r.kind = "update" => j # r.id

Truthful(r, o) ==
    \/ o = "Internal"
    \/ o = "NotFound" /\ r.kind \in {"get", "update", "delete"} /\ Absent(r)
    \/ o = "NotFound" /\ r.kind = "deleteAll" /\ removed # {}
    \/ o = "NameTaken" /\ r.kind \in {"create", "update"} /\ NameInUse(r)
    \/ o = "LimitReached" /\ r.kind = "create"
       /\ AtLimit(CountByUser(rows, r.user), FreeMaxApiaries)
    \/ o = "ReadOnly" /\ r.kind = "update" /\ ReadOnlyNow(r)
    \/ o = "MediaLimit" /\ r.kind \in {"create", "update"}
       /\ TooManyImages(dedupeImages(r.images))
    \/ o = "ImageNotFound" /\ r.kind \in {"create", "update"}
       /\ dedupeImages(r.images) # {}
    \/ o \in {"Deleted", "DeletedWarned"} /\ r.kind = "delete" /\ r.id \in removed
    \/ o = "DeletedAll" /\ r.kind = "deleteAll" /\ RowsOf(rows, r.user) = {}
    \/ o = "Writable" /\ r.kind = "get"
    \/ o = "ReadOnlyView" /\ r.kind = "get" /\ ReadOnlyNow(r)
    \/ o = "Unrestricted" /\ r.kind = "writable"
    \/ o = "None" /\ r.kind = "writable"
       /\ WritableIDs(rows, r.user, FreeMaxApiaries) = {}
    \/ o = "Writable" /\ r.kind = "writable" /\ Active(rows, r.user) # {}

Answer(p) ==
    /\ Open(p)
    /\ \E o \in Outcome \ {"none"} : Truthful(asked[p], o) /\ Say(p, o)
    /\ UNCHANGED <<rows, limited, removed, asked>>

(* The client has its answer. *)
Close(p) ==
    /\ answer[p] # "none"
    /\ asked' = [asked EXCEPT ![p] = NoRequest]
    /\ Say(p, "none")
    /\ UNCHANGED <<rows, limited, removed>>

(* The server dies and no open request is ever answered.                   *)
Abandon ==
    /\ asked' = [p \in Proc |-> NoRequest]
    /\ answer' = [p \in Proc |-> "none"]
    /\ UNCHANGED <<rows, limited, removed>>

Serve(p) == \/ Ask(p) \/ CreateRow(p) \/ EditRow(p) \/ RemoveRow(p) \/ RemoveAll(p)
            \/ Answer(p) \/ Close(p)

StoreNext == (\E p \in Proc : Serve(p)) \/ Abandon

StoreSpec == StoreInit /\ [][StoreNext]_store
=============================================================================
