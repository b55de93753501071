-------------------------------- MODULE MCList --------------------------------
(***************************************************************************)
(* Instances of ListApiaries for TLC: apiaries of one user, two of them    *)
(* created in the same moment, and an id left for a create.                *)
(***************************************************************************)
EXTENDS ListApiaries

CONSTANTS u1, n1, n2, n3, p1

R(i, n, c) == [id |-> i, user |-> u1, name |-> n, images |-> {},
               created |-> c, deleted |-> FALSE]
TableOf(seeds) == {[i \in ApiaryId |->
    IF \E a \in seeds : a.id = i THEN CHOOSE a \in seeds : a.id = i ELSE NoRow]}
TwoRows == TableOf({R(1, n1, 1), R(2, n2, 1)})

W(kind, id, name) == [kind |-> kind, user |-> u1, id |-> id, name |-> name, images |-> Nil]
Writes == {W("create", 1, n3), W("update", 1, n3), W("delete", 2, n2)}

Q(searches, orders, without, limits) ==
    [user : {u1}, search : searches, sortOrder : orders, withoutHives : without,
     limit : limits]
Walks == Q({Nil}, {"desc"}, {FALSE}, {1}) \cup Q({{n2, n3}}, {Nil}, {TRUE}, {1})
AllChanges == {"hives", "plan", "fail"}
=============================================================================
