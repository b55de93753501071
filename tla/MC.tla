---------------------------------- MODULE MC ----------------------------------
(***************************************************************************)
(* Instances of ApiaryService for TLC.  Every .cfg takes its requests,     *)
(* initial states and events from here.                                    *)
(***************************************************************************)
EXTENDS ApiaryService, TLC

CONSTANTS u1, u2, n1, n2, n3, m1, m2, p1, p2, p3

ProcSymmetry == Permutations(Proc)

SameKey == [u \in User |-> "k"]      \* two users may hash to one key
Owner == [m \in Media |-> IF m = m2 /\ u2 \in User THEN u2 ELSE u1]

R(i, u, n, ids, c) == [id |-> i, user |-> u, name |-> n, images |-> ids,
                       created |-> c, deleted |-> FALSE]
SoftDeleted(row) == [row EXCEPT !.deleted = TRUE]
TableOf(rows) == [i \in ApiaryId |->
    IF \E a \in rows : a.id = i THEN CHOOSE a \in rows : a.id = i ELSE NoRow]

(* A world holding the given rows, each with hives and reminders.          *)
WorldOf(rows, plan) ==
    [apiaries |-> TableOf(rows), entitlement |-> plan, media |-> Owner,
     hives |-> {a.id : a \in rows}, reminders |-> {a.id : a \in rows}]

Plans == [User -> Entitlement]
Ask(kinds, ids, names, images) ==
    [kind : kinds, user : User, id : ids, name : names, images : images]

(* Creates, from nothing, and the end of the user.                         *)
Creates == Ask({"create"}, {1}, Name, {Nil}) \cup Ask({"deleteUser"}, {1}, {n1}, {Nil})
EmptySeed == {WorldOf({}, plan) : plan \in Plans}

(* Ownership: an apiary with a photo for each of two users, one of whom    *)
(* has Pro.                                                                *)
TwoOwners == {R(1, u1, n1, {m1}, 0), R(2, u2, n1, {m2}, 0)}
TwoOwnersSeed == {WorldOf(TwoOwners, plan) : plan \in {f \in Plans : f[u1] # f[u2]}}
OwnerRequests == Ask({"get", "delete", "writable"}, {1}, {n1}, {Nil})
                 \cup Ask({"create"}, {1}, {n2}, {<<m1, m1>>})
                 \cup Ask({"update"}, {1, 2}, {n2}, {Nil, <<m1>>, <<m1, m2>>})

(* Deleting: an active apiary with a photo, and a soft-deleted one.        *)
CascadeRows == {R(1, u1, n1, {m1}, 1), SoftDeleted(R(2, u1, n1, {m2}, 0))}
CascadeSeed == {WorldOf(CascadeRows, plan) : plan \in Plans}
SweepAndDelete == Ask({"delete"}, ApiaryId, {n1}, {Nil})
                  \cup Ask({"deleteAll"}, {1}, {n1}, {Nil})
CascadeEvents == {"fail", "crash", "reminder", "subscription"}

(* Disagreements. *)
OnePhoto == {WorldOf({R(1, u1, n1, {m1}, 0)}, plan) : plan \in Plans}
PhotoEdits == Ask({"update"}, {1}, {n1, n2}, {Nil, <<m2>>})
OneDelete == Ask({"delete"}, {1}, {n1}, {Nil})
(* Two apiaries from Pro times, the older with the greater id.             *)
ExProRows == {R(1, u1, n1, {}, 1), R(2, u1, n2, {}, 0)}
ExProSeed == {WorldOf(ExProRows, plan) : plan \in Plans}
Edits == Ask({"update"}, ApiaryId, {n3}, {Nil})

NoEvents == {}
Probes == {"exists"}
SubscriptionEvents == {"subscription"}
OwnerEvents == {"media", "hive"}
HiveEvents == {"hive"}
=============================================================================
