------------------------------ MODULE MCRequests ------------------------------
(***************************************************************************)
(* Instances of ApiaryRequests for TLC: lengths around the limits, in one- *)
(* and three-byte characters.                                              *)
(***************************************************************************)
EXTENDS ApiaryRequests

CONSTANTS m1, m2, m3, m4

T(c, b) == [chars |-> c, bytes |-> b, blank |-> FALSE]
Blank(c) == [chars |-> c, bytes |-> c, blank |-> TRUE]
Names == {Blank(0), Blank(2), T(1, 1), T(4, 4), T(5, 5), T(2, 6)}
Texts == {Blank(0), T(4, 4), T(5, 5)}
Terms == {Blank(0), T(2, 2), T(3, 3), T(4, 4), T(1, 3)}
Spelled == {<<m1, "canonical">>, <<m1, "other">>, <<m2, "canonical">>,
            <<m3, "other">>, <<m4, "canonical">>, Garbage}
Lists == {Nil, Null, <<>>} \cup UNION {[1..n -> Spelled] : n \in 1..4}

SomeBody == [name |-> T(1, 1), location |-> Blank(0), description |-> Blank(0),
             lat |-> Nil, lon |-> Nil, images |-> Nil]
Bodies == {Malformed} \cup {[SomeBody EXCEPT !.images = ids] : ids \in Lists}
          \cup {[SomeBody EXCEPT !.name = n, !.location = l, !.lat = x] :
                   n \in Names, l \in Texts, x \in {Nil, -91, -90, 90, 91}}
          \cup {[SomeBody EXCEPT !.description = d, !.lon = x] :
                   d \in Texts, x \in {-181, -180, 180, 181}}
SomeQuery == [validPage |-> TRUE, search |-> Blank(0), sortOrder |-> ""]
Queries == [validPage : BOOLEAN, search : Terms, sortOrder : {"", "asc", "desc", "else"}]

I(routes, users, paths, bodies, queries) ==
    [route : routes, authenticated : users, path : paths, body : bodies, query : queries]
Paths == {<<m1, "canonical">>, Garbage}
AllInputs == I(Route, BOOLEAN, Paths, {SomeBody}, {SomeQuery})
             \cup I(WithBody, {TRUE}, {<<m1, "canonical">>}, Bodies, {SomeQuery})
             \cup I({"list"}, {TRUE}, Paths, {SomeBody}, Queries)
=============================================================================
