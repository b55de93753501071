------------------------- MODULE ListApiaries_proofs -------------------------
(***************************************************************************)
(* What a client receives that asks for page after page, for every table,  *)
(* every page size, every query and every number of writers beside it.     *)
(*                                                                         *)
(* A row is followed by its rank: the number of rows of the list that come *)
(* before it.  Pages are stretches of ranks, so what has been received and *)
(* what is still to come can be told apart without the pages themselves.   *)
(***************************************************************************)
EXTENDS ListApiaries, FiniteSetTheorems, SequenceTheorems, TLAPS

-----------------------------------------------------------------------------
(* How many rows of S come before row i in the list asked for. *)
PriorIn(rs, q, i, S) == {j \in S : OrderedBefore(rs[j], rs[i], q)}
Prior(i, S) == PriorIn(rows, query, i, S)
Rank(i, S) == Cardinality(Prior(i, S))

WalkedIds == {walked[k].id : k \in DOMAIN walked}
ListedIds == {listed[k].id : k \in DOMAIN listed}
PageEnd == page * query.limit

(* The types, those of the table and of the requests that write it included. *)
ListTypes == ListTypeOK /\ rows \in Table /\ asked \in [Proc -> Request \cup {NoRequest}]

(* What the list without hives leaves out. *)
HiddenInv ==
    /\ query.withoutHives /\ lpc \in {"count", "select", "plan", "reply"} => keptHives \subseteq hidden
    /\ keptHives \subseteq hives
    /\ query.withoutHives /\ lpc \in {"plan", "reply"} => ListedIds \cap hidden = {}

(* While nothing changes, what the client has are the first rows of the    *)
(* list, up to where the page asked for begins, ...                        *)
Walked(ids) ==
    \A k \in DOMAIN walked :
        /\ walked[k].id \in ids /\ Rank(walked[k].id, ids) = k - 1
        /\ walked[k].writable = \/ plan[query.user] # "free"
                                \/ walked[k].id \in WritableSet
Listed(ids) ==
    /\ Offset(query) + Len(listed) = IF PageEnd < Cardinality(ids) THEN PageEnd ELSE Cardinality(ids)
    /\ \A k \in DOMAIN listed : /\ listed[k].id \in ids
                                /\ Rank(listed[k].id, ids) = Offset(query) + k - 1
QuietInv ==
    quiet =>
        /\ due = Matching /\ Walked(due)
        /\ lpc = "done" => Len(walked) = Cardinality(due)
        /\ lpc # "done" => Len(walked) = Offset(query) /\ Offset(query) <= Cardinality(due)
        (* and the page is the next stretch of it.                         *)
        /\ query.withoutHives /\ lpc \in {"count", "select", "plan", "reply"} => hidden = hives
        /\ lpc \in {"select", "plan", "reply"} => total = Cardinality(due)
        /\ lpc \in {"plan", "reply"} => Listed(due)
        /\ lpc = "reply" => ent = plan[query.user]

(* While rows are only added, a row that was there from the beginning and  *)
(* is not with the client yet comes after the pages it has: in the list as *)
(* it is now, as it will be counted, and, once the page is selected, after *)
(* the end of the page if it is not on it.                                 *)
SteadyInv ==
    steady =>
        /\ due \subseteq Matching
        /\ lpc = "done" => due \subseteq WalkedIds
        /\ lpc # "done" => \A i \in due \ WalkedIds : Rank(i, Matching) >= Offset(query)
        /\ query.withoutHives /\ lpc \in {"count", "select", "plan", "reply"} =>
               hives \subseteq hidden
        /\ lpc \in {"count", "select"} => /\ due \subseteq Counted
                                          /\ \A i \in due \ WalkedIds : Rank(i, Counted) >= Offset(query)
        /\ lpc = "select" => total = Cardinality(Counted)
        /\ lpc \in {"plan", "reply"} =>
               \A i \in due \ (WalkedIds \cup ListedIds) : Rank(i, Matching) >= PageEnd /\ PageEnd < total

-----------------------------------------------------------------------------
(* The order of a list. *)
LEMMA RowFields ==
    ASSUME rows \in Table, NEW i \in Present(rows)
    PROVE  /\ rows[i] \in Row /\ rows[i].id = i /\ i \in Nat /\ i \in ApiaryId
           /\ rows[i].created \in Nat /\ rows[i].user \in User
BY IdsAssumption DEF Present, Table, Row

LEMMA OrderIrreflexive ==
    ASSUME rows \in Table, NEW i \in Present(rows), NEW q
    PROVE  ~OrderedBefore(rows[i], rows[i], q)
BY RowFields DEF OrderedBefore, Before

LEMMA OrderTransitive ==
    ASSUME rows \in Table, NEW q,
           NEW i \in Present(rows), NEW j \in Present(rows), NEW k \in Present(rows),
           OrderedBefore(rows[i], rows[j], q), OrderedBefore(rows[j], rows[k], q)
    PROVE  OrderedBefore(rows[i], rows[k], q)
<1>1. /\ rows[i].created \in Nat /\ rows[j].created \in Nat /\ rows[k].created \in Nat
      /\ rows[i].id \in Nat /\ rows[j].id \in Nat /\ rows[k].id \in Nat
  BY RowFields
<1> QED
  BY <1>1 DEF OrderedBefore, Before

LEMMA OrderTotal ==
    ASSUME rows \in Table, NEW q, NEW i \in Present(rows), NEW j \in Present(rows), i # j
    PROVE  OrderedBefore(rows[i], rows[j], q) \/ OrderedBefore(rows[j], rows[i], q)
<1>1. /\ rows[i].created \in Nat /\ rows[j].created \in Nat
      /\ rows[i].id \in Nat /\ rows[j].id \in Nat /\ rows[i].id # rows[j].id
  BY RowFields
<1> QED
  BY <1>1 DEF OrderedBefore, Before

LEMMA IdSets ==
    ASSUME NEW S, S \subseteq ApiaryId
    PROVE  IsFiniteSet(S) /\ Cardinality(S) \in Nat
<1>1. S \in SUBSET ApiaryId /\ IsFiniteSet(ApiaryId)
  BY IdsAssumption
<1>2. IsFiniteSet(S)
  BY <1>1, FS_Subset
<1> QED
  BY <1>2, FS_CardinalityType

LEMMA FilteredPresent ==
    ASSUME NEW q, NEW ids
    PROVE  Filtered(q, ids) \subseteq Present(rows) /\ Filtered(q, ids) \subseteq ApiaryId
BY DEF Filtered, Active, RowsOf, Present

LEMMA RankType ==
    ASSUME NEW i, NEW S, S \subseteq ApiaryId
    PROVE  IsFiniteSet(Prior(i, S)) /\ Rank(i, S) \in Nat
BY IdSets DEF Prior, PriorIn, Rank

LEMMA RankGrows ==
    ASSUME NEW i, NEW S, NEW T, S \subseteq T, T \subseteq ApiaryId
    PROVE  Rank(i, S) <= Rank(i, T)
<1>1. Prior(i, S) \subseteq Prior(i, T)
  BY DEF Prior, PriorIn
<1>2. IsFiniteSet(Prior(i, T))
  BY RankType
<1> QED
  BY <1>1, <1>2, FS_Subset DEF Rank

(* Of two rows the earlier has the lower rank. *)
LEMMA RankOrders ==
    ASSUME rows \in Table, NEW S, S \subseteq Present(rows), NEW i \in S, NEW j \in S,
           OrderedBefore(rows[i], rows[j], query)
    PROVE  Rank(i, S) < Rank(j, S)
<1>1. S \subseteq ApiaryId /\ i \in Present(rows) /\ j \in Present(rows)
  BY DEF Present
<1>2. i \in Prior(j, S) /\ i \notin Prior(i, S)
  BY <1>1, OrderIrreflexive DEF Prior, PriorIn
<1>3. Prior(i, S) \subseteq Prior(j, S)
  BY <1>1, OrderTransitive DEF Prior, PriorIn
<1>4. IsFiniteSet(Prior(j, S)) /\ Prior(i, S) # Prior(j, S)
  BY <1>1, <1>2, RankType
<1>5. Cardinality(Prior(i, S)) <= Cardinality(Prior(j, S))
      /\ Cardinality(Prior(i, S)) # Cardinality(Prior(j, S))
  BY <1>3, <1>4, FS_Subset
<1>6. Rank(i, S) \in Nat /\ Rank(j, S) \in Nat
  BY <1>1, RankType
<1> QED
  BY <1>5, <1>6 DEF Rank

(* And the other way round. *)
LEMMA RankedOrders ==
    ASSUME rows \in Table, NEW S, S \subseteq Present(rows), NEW i \in S, NEW j \in S,
           Rank(i, S) < Rank(j, S)
    PROVE  OrderedBefore(rows[i], rows[j], query)
<1>1. S \subseteq ApiaryId /\ i \in Present(rows) /\ j \in Present(rows)
  BY DEF Present
<1>2. Rank(i, S) \in Nat /\ Rank(j, S) \in Nat
  BY <1>1, RankType
<1>3. i # j
  BY <1>2
<1>4. ~OrderedBefore(rows[j], rows[i], query)
  BY <1>2, RankOrders
<1> QED
  BY <1>1, <1>3, <1>4, OrderTotal

(* In a sorting of the rows of S, every row has its rank for its index.    *)
LEMMA SortingRanks ==
    ASSUME rows \in Table, NEW S, S \subseteq Present(rows),
           NEW s \in Sortings({rows[i] : i \in S}, query)
    PROVE  /\ s \in Seq(Row) /\ Len(s) = Cardinality(S)
           /\ \A k \in 1..Len(s) : /\ s[k].id \in S /\ s[k] = rows[s[k].id]
                                   /\ Rank(s[k].id, S) = k - 1
           /\ \A i \in S : i = s[Rank(i, S) + 1].id /\ Rank(i, S) + 1 \in 1..Len(s)
<1> DEFINE set == {rows[i] : i \in S}
           n == Cardinality(set)
<1>1. S \subseteq ApiaryId /\ IsFiniteSet(S) /\ Cardinality(S) \in Nat
  BY IdSets DEF Present
<1>2. \A i \in S : rows[i] \in Row /\ rows[i].id = i
  BY RowFields
<1>3. IsFiniteSet(set) /\ n = Cardinality(S)
  <2> DEFINE f == [i \in S |-> rows[i]]
  <2>1. f \in Bijection(S, set)
    BY <1>2 DEF Bijection, Injection, Surjection, IsInjective
  <2> QED
    BY <1>1, <2>1, FS_Bijection DEF ExistsBijection
<1>4. /\ s \in [1..n -> set]
      /\ \A i, j \in 1..n : i # j => s[i] # s[j]
      /\ \A i, j \in DOMAIN s : i < j => ~OrderedBefore(s[j], s[i], query)
  BY DEF Sortings, Injection, IsInjective
<1>5. s \in Seq(Row) /\ Len(s) = n
  BY <1>1, <1>2, <1>3, <1>4, IsASeq
<1> HIDE DEF n
<1>6. \A k \in 1..n : s[k].id \in S /\ s[k] = rows[s[k].id]
  BY <1>2, <1>4
<1>7. \A i \in S : \E k \in 1..n : s[k].id = i
  <2>1. s \in Injection(1..n, set)
    BY <1>4 DEF Injection, IsInjective
  <2>2. Cardinality(1..n) = n
    BY <1>1, <1>3, FS_Interval
  <2>3. s \in Surjection(1..n, set)
    BY <1>3, <2>1, <2>2, FS_Injection DEF n
  <2> SUFFICES ASSUME NEW i \in S PROVE \E k \in 1..n : s[k].id = i
    OBVIOUS
  <2>4. rows[i] \in set /\ rows[i].id = i
    BY <1>2
  <2> HIDE DEF set
  <2>5. PICK k \in 1..n : s[k] = rows[i]
    BY <2>3, <2>4 DEF Surjection
  <2> QED
    BY <2>4, <2>5
<1>8. ASSUME NEW k \in 1..n PROVE Rank(s[k].id, S) = k - 1
  <2> DEFINE f == [l \in 1..(k - 1) |-> s[l].id]
             P == Prior(s[k].id, S)
  <2>1. \A l \in 1..n : l < k => s[l].id \in P
    <3> SUFFICES ASSUME NEW l \in 1..n, l < k PROVE s[l].id \in P
      OBVIOUS
    <3>1. ~OrderedBefore(s[k], s[l], query) /\ s[l] # s[k]
      BY <1>4
    <3>2. OrderedBefore(s[l], s[k], query)
      BY <1>6, <3>1, OrderTotal
    <3> QED
      BY <1>6, <3>2 DEF Prior, PriorIn
  <2>2. \A i \in P : \E l \in 1..(k - 1) : s[l].id = i
    <3> SUFFICES ASSUME NEW i \in P PROVE \E l \in 1..(k - 1) : s[l].id = i
      OBVIOUS
    <3>1. i \in S /\ OrderedBefore(rows[i], s[k], query)
      BY <1>6 DEF Prior, PriorIn
    <3>2. PICK l \in 1..n : s[l].id = i
      BY <1>7, <3>1
    <3>3. OrderedBefore(s[l], s[k], query)
      BY <1>6, <3>1, <3>2
    <3>4. l # k
      BY <1>6, <3>1, <3>2, OrderIrreflexive
    <3>5. ~(k < l)
      BY <1>4, <3>3
    <3> QED
      BY <1>1, <1>3, <3>2, <3>4, <3>5
  <2>3. f \in Bijection(1..(k - 1), P)
    <3>1. \A l, m \in 1..(k - 1) : l # m => s[l].id # s[m].id
      BY <1>1, <1>3, <1>4, <1>6
    <3>2. \A l \in 1..(k - 1) : s[l].id \in P
      BY <1>1, <1>3, <2>1
    <3> HIDE DEF P
    <3> QED
      BY <2>2, <3>1, <3>2 DEF Bijection, Injection, Surjection, IsInjective
  <2>4. IsFiniteSet(1..(k - 1)) /\ Cardinality(1..(k - 1)) = k - 1
    BY <1>1, <1>3, FS_Interval
  <2> QED
    BY <2>3, <2>4, FS_Bijection DEF ExistsBijection, Rank
<1>9. \A i \in S : i = s[Rank(i, S) + 1].id /\ Rank(i, S) + 1 \in 1..n
  BY <1>1, <1>3, <1>7, <1>8
<1> QED
  BY <1>3, <1>5, <1>6, <1>8, <1>9

LEMMA PageBounds ==
    ASSUME query \in QueryType, page \in Nat \ {0}
    PROVE  /\ query.limit \in Nat \ {0} /\ Offset(query) \in Nat /\ PageEnd \in Nat
           /\ PageEnd = Offset(query) + query.limit
           /\ (page + 1 - 1) * query.limit = PageEnd
           /\ page = 1 => Offset(query) = 0
<1>1. query.limit \in Nat \ {0}
  BY DEF QueryType
<1> DEFINE l == query.limit
<1> HIDE DEF l
<1>2. l \in Nat \ {0} => /\ (page - 1) * l \in Nat /\ page * l \in Nat
                         /\ page * l = (page - 1) * l + l
                         /\ (page + 1 - 1) * l = page * l
                         /\ page = 1 => (page - 1) * l = 0
  OBVIOUS
<1> QED
  BY <1>1, <1>2 DEF Offset, PageEnd, l

(* A page is the stretch of ranks it stands for. *)
LEMMA PageRanks ==
    ASSUME rows \in Table, NEW S, S \subseteq Present(rows),
           NEW s \in Sortings({rows[i] : i \in S}, query),
           query \in QueryType, page \in Nat \ {0}, NEW l, l = Page(s, query)
    PROVE  /\ l \in Seq(Row)
           /\ Offset(query) <= Cardinality(S) =>
                  Offset(query) + Len(l) = IF PageEnd < Cardinality(S) THEN PageEnd ELSE Cardinality(S)
           /\ \A k \in DOMAIN l : l[k].id \in S /\ Rank(l[k].id, S) = Offset(query) + k - 1
           /\ \A i \in S : Offset(query) <= Rank(i, S) /\ Rank(i, S) < PageEnd =>
                  \E k \in DOMAIN l : l[k].id = i
<1> DEFINE n == Cardinality(S)
           o == Offset(query)
           e == PageEnd
           last == IF e < n THEN e ELSE n
<1>1. /\ s \in Seq(Row) /\ Len(s) = n /\ n \in Nat
      /\ \A k \in 1..n : s[k] \in Row /\ s[k].id \in S /\ Rank(s[k].id, S) = k - 1
      /\ \A i \in S : i = s[Rank(i, S) + 1].id /\ Rank(i, S) + 1 \in 1..n
  <2>1. /\ s \in Seq(Row) /\ Len(s) = n
        /\ \A k \in 1..Len(s) : s[k].id \in S /\ Rank(s[k].id, S) = k - 1
        /\ \A i \in S : i = s[Rank(i, S) + 1].id /\ Rank(i, S) + 1 \in 1..Len(s)
    BY SortingRanks
  <2>2. S \subseteq ApiaryId
    BY DEF Present
  <2>3. n \in Nat
    BY <2>2, IdSets
  <2> HIDE DEF n
  <2>4. \A k \in 1..n : s[k] \in Row
    BY <2>1, ElementOfSeq
  <2> QED
    BY <2>1, <2>3, <2>4
<1>2. o \in Nat /\ e \in Nat /\ o < e /\ e = o + query.limit
  BY PageBounds
<1>3. \A i \in S : Rank(i, S) \in Nat
  BY RankType DEF Present
<1>4. l = SubSeq(s, o + 1, last)
  BY <1>1, <1>2 DEF Page
<1> HIDE DEF n, o, e
<1>5. last \in Nat /\ last <= n /\ last <= e
  BY <1>1, <1>2
<1>6. /\ l \in Seq(Row)
      /\ Len(l) = IF o + 1 <= last THEN last - (o + 1) + 1 ELSE 0
      /\ \A k \in 1..(last - (o + 1) + 1) : l[k] = s[o + 1 + k - 1]
  <2>1. o + 1 \in Int /\ last \in Int /\ \A k \in (o + 1)..last : s[k] \in Row
    BY <1>1, <1>2, <1>5
  <2> HIDE DEF last
  <2> QED
    BY <1>4, <2>1, SubSeqProperties
<1> HIDE DEF last
<1>7. DOMAIN l = 1..Len(l) /\ Len(l) \in Nat
  BY <1>6, LenProperties
<1>8. ASSUME NEW k \in DOMAIN l PROVE l[k] = s[o + k] /\ o + k \in 1..n
  <2>1. k \in 1..Len(l)
    BY <1>7
  <2>2. k \in Nat /\ k >= 1 /\ o \in Nat /\ n \in Nat
    BY <1>1, <1>2, <2>1
  <2>3. k <= last - (o + 1) + 1
    BY <1>5, <1>6, <2>1, <2>2
  <2>4. k \in 1..(last - (o + 1) + 1) /\ o + k <= last /\ o + 1 + k - 1 = o + k
    BY <1>5, <2>2, <2>3
  <2>5. l[k] = s[o + 1 + k - 1]
    BY <1>6, <2>4
  <2>6. l[k] = s[o + k]
    BY <2>4, <2>5
  <2>7. o + k \in 1..n
    BY <1>5, <2>2, <2>4
  <2> QED
    BY <2>6, <2>7
<1>9. \A k \in DOMAIN l : l[k].id \in S /\ Rank(l[k].id, S) = o + k - 1
  BY <1>1, <1>2, <1>7, <1>8
<1>10. o <= n => o + Len(l) = last
  <2>1. o <= n => o <= last
    BY <1>1, <1>2 DEF last
  <2> QED
    BY <1>2, <1>5, <1>6, <2>1
<1>11. ASSUME NEW i \in S, o <= Rank(i, S), Rank(i, S) < e
       PROVE  \E k \in DOMAIN l : l[k].id = i
  <2> DEFINE k == Rank(i, S) + 1 - o
  <2>1. Rank(i, S) + 1 \in 1..n /\ s[Rank(i, S) + 1].id = i /\ Rank(i, S) \in Nat
    BY <1>1, <1>3
  <2>2. Rank(i, S) + 1 <= last
    BY <1>1, <1>2, <1>11, <2>1 DEF last
  <2>3. k \in 1..Len(l) /\ o + k = Rank(i, S) + 1
    BY <1>2, <1>5, <1>6, <1>11, <2>1, <2>2
  <2>4. k \in DOMAIN l
    BY <1>7, <2>3
  <2> HIDE DEF k
  <2>5. l[k] = s[o + k]
    BY <1>8, <2>4
  <2> QED
    BY <2>1, <2>3, <2>4, <2>5
<1>12. Offset(query) <= Cardinality(S) =>
           Offset(query) + Len(l) = IF PageEnd < Cardinality(S) THEN PageEnd ELSE Cardinality(S)
  BY <1>10 DEF n, o, e, last
<1> QED
  BY <1>6, <1>9, <1>11, <1>12 DEF o, e

-----------------------------------------------------------------------------
(* What the writers may do to the rows meanwhile. *)
LEMMA DedupeType ==
    ASSUME NEW r \in Request
    PROVE  /\ r.user \in User /\ r.name \in Name /\ r.id \in ApiaryId
           /\ dedupeImages(r.images) \in SUBSET Media
<1>1. r \in RequestType
  BY RequestAssumption
<1>2. r.images \in Seq(Media) \cup {Nil}
  BY <1>1 DEF RequestType
<1>3. dedupeImages(r.images) \in SUBSET Media
  BY <1>2 DEF dedupeImages
<1> QED
  BY <1>1, <1>3 DEF RequestType

(* Rows come under new ids, keep the date they were created, and go.       *)
Kept == /\ rows' \in Table
        /\ \A i \in Present(rows) \cap Present(rows') : rows'[i].created = rows[i].created

LEMMA StoreKeeps ==
    ASSUME rows \in Table, asked \in [Proc -> Request \cup {NoRequest}], StoreNext
    PROVE  Kept /\ asked' \in [Proc -> Request \cup {NoRequest}]
<1> USE DEF Say, Confirm
<1>1. CASE UNCHANGED rows /\ asked' \in [Proc -> Request \cup {NoRequest}]
  BY <1>1 DEF Kept, Present
<1>2. ASSUME NEW p \in Proc, CreateRow(p) PROVE Kept /\ UNCHANGED asked
  <2>1. asked[p] \in Request
    BY <1>2 DEF CreateRow, Open
  <2>2. PICK id \in ApiaryId \ (Present(rows) \cup removed), c \in Stamp :
            rows' = Insert(rows, [id |-> id, user |-> asked[p].user, name |-> asked[p].name,
                                  images |-> dedupeImages(asked[p].images), created |-> c,
                                  deleted |-> FALSE])
    BY <1>2 DEF CreateRow
  <2> DEFINE a == [id |-> id, user |-> asked[p].user, name |-> asked[p].name,
                   images |-> dedupeImages(asked[p].images), created |-> c, deleted |-> FALSE]
  <2>3. a \in Row /\ a.id = id
    BY <2>1, DedupeType, StampAssumption DEF Row
  <2> HIDE DEF a
  <2>4. rows' = [rows EXCEPT ![id] = a]
    BY <2>2, <2>3 DEF Insert, a
  <2>5. Kept
    BY <2>3, <2>4, NoRowAssumption DEF Kept, Table, Present
  <2> QED
    BY <1>2, <2>5 DEF CreateRow
<1>3. ASSUME NEW p \in Proc, EditRow(p) PROVE Kept /\ UNCHANGED asked
  <2>1. asked[p] \in Request /\ asked[p].id \in Present(rows)
    BY <1>3 DEF EditRow, Open, Active, RowsOf
  <2> DEFINE i == asked[p].id
  <2>2. PICK ids \in SUBSET Media :
            rows' = [rows EXCEPT ![i] = [rows[i] EXCEPT !.name = asked[p].name, !.images = ids]]
    BY <1>3 DEF EditRow
  <2>3. rows[i] \in Row /\ rows[i].id = i /\ asked[p].name \in Name
    BY <2>1, RowFields, DedupeType
  <2> DEFINE a == [rows[i] EXCEPT !.name = asked[p].name, !.images = ids]
  <2>4. a \in Row /\ a.id = i /\ a.created = rows[i].created
    BY <2>3 DEF Row
  <2> HIDE DEF a
  <2>5. rows' = [rows EXCEPT ![i] = a]
    BY <2>2 DEF a
  <2>6. Kept
    BY <2>1, <2>4, <2>5, NoRowAssumption DEF Kept, Table, Present
  <2> QED
    BY <1>3, <2>6 DEF EditRow
<1>4. ASSUME NEW ids, rows' = DeleteRows(rows, ids) PROVE Kept
  BY <1>4 DEF DeleteRows, Kept, Table, Present
<1>5. ASSUME NEW p \in Proc, RemoveRow(p) \/ RemoveAll(p) PROVE Kept /\ UNCHANGED asked
  BY <1>4, <1>5 DEF RemoveRow, RemoveAll
<1>6. ASSUME NEW p \in Proc, Ask(p) \/ Answer(p) \/ Close(p)
      PROVE  UNCHANGED rows /\ asked' \in [Proc -> Request \cup {NoRequest}]
  BY <1>6 DEF Ask, Answer, Close
<1>7. CASE Abandon
  BY <1>1, <1>7 DEF Abandon
<1> QED
  BY <1>1, <1>2, <1>3, <1>5, <1>6, <1>7 DEF StoreNext, Serve

-----------------------------------------------------------------------------
(* Types. *)
Item == [id : ApiaryId, writable : BOOLEAN]
Given == [k \in DOMAIN listed |->
             [id |-> listed[k].id, writable |-> ent # "free" \/ listed[k].id \in WritableSet]]
Meanwhile == TableChanges \/ HivesChange \/ PlanChanges

LEMMA ListTypesInit == ListInit => ListTypes
BY InitialAssumption, EmptySeq, FilteredPresent
   DEF ListInit, StoreInit, ListTypes, ListTypeOK, Present

(* What a request does leaves the data alone. *)
LEMMA StepReads == ListStep => UNCHANGED <<store, hives, plan>>
BY DEF ListStep, StartWalk, ListReceived, ApiaryIDsWithHives, ListCount, ListSelect, ListPlan,
       ListReply, ListFails

LEMMA GivenItems ==
    ASSUME ListTypes
    PROVE  /\ Given \in Seq(Item) /\ Len(Given) = Len(listed) /\ DOMAIN listed = 1..Len(listed)
           /\ Len(listed) \in Nat /\ Len(walked) \in Nat /\ DOMAIN walked = 1..Len(walked)
           /\ walked \o Given \in Seq(Item)
           /\ DOMAIN (walked \o Given) = 1..(Len(walked) + Len(listed))
           /\ \A k \in 1..Len(walked) : (walked \o Given)[k] = walked[k]
           /\ \A k \in 1..Len(listed) : (walked \o Given)[Len(walked) + k] = Given[k]
<1>1. listed \in Seq(Row) /\ walked \in Seq(Item)
  BY DEF ListTypes, ListTypeOK, Item
<1>2. DOMAIN listed = 1..Len(listed) /\ Len(listed) \in Nat
      /\ DOMAIN walked = 1..Len(walked) /\ Len(walked) \in Nat
  BY <1>1, LenProperties
<1>3. \A k \in 1..Len(listed) : Given[k] \in Item
  <2>1. \A k \in 1..Len(listed) : listed[k].id \in ApiaryId
    <3>1. \A k \in 1..Len(listed) : listed[k] \in Row
      BY <1>1, ElementOfSeq
    <3> QED
      BY <3>1 DEF Row
  <2> QED
    BY <1>2, <2>1 DEF Given, Item
<1>4. Given \in Seq(Item) /\ Len(Given) = Len(listed)
  <2>1. Given = [k \in 1..Len(listed) |-> Given[k]]
    BY <1>2 DEF Given
  <2> QED
    BY <1>2, <1>3, <2>1, IsASeq, LenProperties
<1>5. /\ walked \o Given \in Seq(Item) /\ Len(walked \o Given) = Len(walked) + Len(Given)
      /\ \A i \in 1..(Len(walked) + Len(Given)) :
            (walked \o Given)[i] = IF i <= Len(walked) THEN walked[i] ELSE Given[i - Len(walked)]
  BY <1>1, <1>4, ConcatProperties
<1>6. DOMAIN (walked \o Given) = 1..(Len(walked) + Len(listed))
  BY <1>4, <1>5, LenProperties
<1>7. /\ \A k \in 1..Len(walked) : (walked \o Given)[k] = walked[k]
      /\ \A k \in 1..Len(listed) : (walked \o Given)[Len(walked) + k] = Given[k]
  BY <1>2, <1>4, <1>5
<1> QED
  BY <1>2, <1>4, <1>5, <1>6, <1>7

LEMMA ListTypesNext == ListTypes /\ [ListNext]_listVars => ListTypes'
<1> SUFFICES ASSUME ListTypes, [ListNext]_listVars PROVE ListTypes'
  OBVIOUS
<1>0. /\ rows \in Table /\ asked \in [Proc -> Request \cup {NoRequest}] /\ ListTypeOK
      /\ query \in QueryType
  BY QueryAssumption DEF ListTypes, ListTypeOK
<1>1. ASSUME ListStep, ListTypeOK' PROVE ListTypes'
  BY <1>0, <1>1, StepReads DEF ListTypes, store
<1>2. CASE StartWalk
  <2>1. due' \subseteq ApiaryId
    BY <1>2, FilteredPresent DEF StartWalk
  <2>2. walked' \in Seq([id : ApiaryId, writable : BOOLEAN])
    BY <1>2, EmptySeq DEF StartWalk
  <2> QED
    BY <1>0, <1>1, <1>2, <2>1, <2>2 DEF StartWalk, ListStep, ListTypeOK, store, request
<1>3. CASE ListReceived
  BY <1>0, <1>1, <1>3 DEF ListReceived, FirstListCall, ListStep, ListTypeOK, walk, request
<1>4. CASE ApiaryIDsWithHives
  BY <1>0, <1>1, <1>4 DEF ApiaryIDsWithHives, ListStep, ListTypeOK, walk, history
<1>5. CASE ListCount
  <2>1. total' \in Nat
    BY <1>5, FilteredPresent, IdSets DEF ListCount
  <2> QED
    BY <1>0, <1>1, <1>5, <2>1 DEF ListCount, ListStep, ListTypeOK, walk, history
<1>6. CASE ListSelect
  <2>1. listed' \in Seq(Row)
    BY <1>0, <1>6, FilteredPresent, PageRanks DEF ListSelect, ListTypeOK
  <2> QED
    BY <1>0, <1>1, <1>6, <2>1 DEF ListSelect, ListStep, ListTypeOK, walk, history
<1>7. CASE ListPlan
  <2>1. ent' \in {"free", "pro"}
    BY <1>0, <1>7 DEF ListPlan, ListTypeOK, QueryType
  <2> QED
    BY <1>0, <1>1, <1>7, <2>1 DEF ListPlan, ListStep, ListTypeOK, walk, history
<1>8. CASE ListReply
  <2>1. walked' \in Seq([id : ApiaryId, writable : BOOLEAN])
    BY <1>8, GivenItems DEF ListReply, Given, Item
  <2>2. page' \in Nat \ {0} /\ lpc' \in {"parse", "done"}
    BY <1>0, <1>8 DEF ListReply, ListTypeOK
  <2> QED
    BY <1>0, <1>1, <1>8, <2>1, <2>2, EmptySeq DEF ListReply, NoPage, ListStep, ListTypeOK
<1>9. CASE ListFails
  BY <1>0, <1>1, <1>9, EmptySeq DEF ListFails, NoPage, ListStep, ListTypeOK, walk
<1>10. CASE Meanwhile
  <2>1. UNCHANGED <<lpc, walk, request>> /\ keptHives' = keptHives \cap hives'
    BY <1>10 DEF Meanwhile, TableChanges, HivesChange, PlanChanges, Observe
  <2>2. rows' \in Table /\ asked' \in [Proc -> Request \cup {NoRequest}]
    BY <1>0, <1>10, StoreKeeps DEF Meanwhile, TableChanges, HivesChange, PlanChanges, Kept, store
  <2>3. hives' \subseteq ApiaryId /\ plan' \in [User -> {"free", "pro"}]
    BY <1>0, <1>10 DEF Meanwhile, TableChanges, HivesChange, PlanChanges, ListTypeOK, Present
  <2> QED
    BY <1>0, <2>1, <2>2, <2>3 DEF ListTypes, ListTypeOK, walk, request
<1>11. CASE UNCHANGED listVars
  BY <1>0, <1>11 DEF listVars, store, walk, request, history, ListTypes, ListTypeOK
<1> QED
  BY <1>2, <1>3, <1>4, <1>5, <1>6, <1>7, <1>8, <1>9, <1>10, <1>11 DEF ListNext, ListStep, Meanwhile

LEMMA ListTypesHold == ListSpec => []ListTypes
<1>1. ListInit => ListTypes
  BY ListTypesInit
<1>2. ListTypes /\ [ListNext]_listVars => ListTypes'
  BY ListTypesNext
<1> QED
  BY <1>1, <1>2, PTL DEF ListSpec

(* Whatever is written beside it, a list stays in its types. *)
THEOREM ListTypeCorrect == ListSpec => []ListTypeOK
<1>1. ListTypes => ListTypeOK
  BY DEF ListTypes
<1> QED
  BY <1>1, ListTypesHold, PTL

-----------------------------------------------------------------------------
LEMMA HiddenInit == ListInit => HiddenInv
BY DEF ListInit, HiddenInv

LEMMA HiddenNext == ListTypes /\ HiddenInv /\ [ListNext]_listVars => HiddenInv'
<1> SUFFICES ASSUME ListTypes, HiddenInv, [ListNext]_listVars PROVE HiddenInv'
  OBVIOUS
<1> USE DEF HiddenInv, ListedIds
<1>1. CASE StartWalk
  BY <1>1 DEF StartWalk, request
<1>2. CASE ListReceived
  BY <1>2 DEF ListReceived, FirstListCall, walk, request
<1>3. CASE ApiaryIDsWithHives
  BY <1>3 DEF ApiaryIDsWithHives, walk, history
<1>4. CASE ListCount
  BY <1>4 DEF ListCount, walk, history
<1>5. CASE ListSelect
  <2>1. PICK s \in Sortings({rows[i] : i \in Filtered(query, hidden)}, query) :
            listed' = Page(s, query)
    BY <1>5 DEF ListSelect
  <2>2. query \in QueryType /\ page \in Nat \ {0} /\ rows \in Table
    BY QueryAssumption DEF ListTypes, ListTypeOK
  <2>3. \A k \in DOMAIN listed' : listed'[k].id \in Filtered(query, hidden)
    BY <2>1, <2>2, FilteredPresent, PageRanks
  <2>4. query.withoutHives => ListedIds' \cap hidden = {}
    BY <2>3 DEF Filtered
  <2> QED
    BY <1>5, <2>4 DEF ListSelect, walk, history
<1>6. CASE ListPlan
  BY <1>6 DEF ListPlan, walk, history
<1>7. CASE ListReply
  BY <1>7 DEF ListReply, NoPage
<1>8. CASE ListFails
  BY <1>8 DEF ListFails, NoPage, walk
<1>9. CASE Meanwhile
  <2>1. UNCHANGED <<lpc, walk, request>> /\ keptHives' = keptHives \cap hives'
    BY <1>9 DEF Meanwhile, TableChanges, HivesChange, PlanChanges, Observe
  <2> QED
    BY <2>1 DEF walk, request
<1>10. CASE UNCHANGED listVars
  BY <1>10 DEF listVars, walk, request, history
<1> QED
  BY <1>1, <1>2, <1>3, <1>4, <1>5, <1>6, <1>7, <1>8, <1>9, <1>10 DEF ListNext, ListStep, Meanwhile

(* A list of the apiaries without hives never shows one that has had hives *)
(* ever since the page was asked for, whether or not hive-service answers. *)
THEOREM HivesNeverListed == ListSpec => HivesHidden
<1>1. ListInit => HiddenInv
  BY HiddenInit
<1>2. ListTypes /\ HiddenInv /\ [ListNext]_listVars => HiddenInv'
  BY HiddenNext
<1>3. HiddenInv => (lpc = "reply" /\ lpc' # "reply" /\ walked' # walked /\ query.withoutHives =>
                        \A k \in DOMAIN listed : listed[k].id \notin keptHives)
  BY DEF HiddenInv, ListedIds
<1> QED
  BY <1>1, <1>2, <1>3, ListTypesHold, PTL DEF ListSpec, HivesHidden

-----------------------------------------------------------------------------
(* What stays as it is as long as the table, the query and the page do.    *)
LEMMA MatchingStays ==
    ASSUME rows' = rows, query' = query, hives' = hives
    PROVE  Matching' = Matching
BY DEF Matching, Filtered

LEMMA WalkedStays ==
    ASSUME UNCHANGED <<rows, query, plan, walked, due>>, Walked(due)
    PROVE  Walked(due)'
BY DEF Walked, Rank, Prior, WritableSet

LEMMA ListedStays ==
    ASSUME UNCHANGED <<rows, query, page, listed, due>>, Listed(due)
    PROVE  Listed(due)'
BY DEF Listed, Rank, Prior, Offset, PageEnd

(* What is counted is what belongs in the list. *)
LEMMA CountedMatching ==
    ASSUME query.withoutHives => hidden = hives
    PROVE  Counted = Matching
BY DEF Counted, Matching, Filtered

-----------------------------------------------------------------------------
LEMMA QuietInit == ListInit => QuietInv
BY DEF ListInit, QuietInv

(* A page that is answered goes on where the last one ended. *)
LEMMA QuietReply ==
    ASSUME ListTypes, quiet, QuietInv, ListReply
    PROVE  /\ Walked(due)'
           /\ lpc' = "done" => Len(walked') = Cardinality(due)
           /\ lpc' # "done" => Len(walked') = Offset(query)' /\ Offset(query)' <= Cardinality(due)
<1>1. /\ query \in QueryType /\ page \in Nat \ {0} /\ due \subseteq ApiaryId
  BY QueryAssumption DEF ListTypes, ListTypeOK
<1>2. Cardinality(due) \in Nat
  BY <1>1, IdSets
<1>3. /\ Walked(due) /\ Listed(due) /\ Len(walked) = Offset(query) /\ total = Cardinality(due)
      /\ ent = plan[query.user]
  BY DEF QuietInv, ListReply
<1>4. /\ UNCHANGED <<rows, plan, query, due>> /\ walked' = walked \o Given
      /\ IF PageEnd < total THEN page' = page + 1 /\ lpc' = "parse"
                            ELSE UNCHANGED page /\ lpc' = "done"
  BY DEF ListReply, Given, hasNext, PageEnd, store
<1>5. /\ Len(walked) \in Nat /\ Len(listed) \in Nat
      /\ DOMAIN walked = 1..Len(walked) /\ DOMAIN listed = 1..Len(listed)
      /\ DOMAIN walked' = 1..(Len(walked) + Len(listed)) /\ walked' \in Seq(Item)
      /\ \A k \in 1..Len(walked) : walked'[k] = walked[k]
      /\ \A k \in 1..Len(listed) : walked'[Len(walked) + k] = Given[k]
  BY <1>4, GivenItems
<1>6. Len(walked') = Len(walked) + Len(listed)
  <2>1. DOMAIN walked' = 1..Len(walked') /\ Len(walked') \in Nat
    BY <1>5, LenProperties
  <2> QED
    BY <1>5, <2>1
<1>7. /\ Offset(query) \in Nat /\ PageEnd \in Nat /\ PageEnd = Offset(query) + query.limit
      /\ page' = page + 1 => Offset(query)' = PageEnd
  BY <1>1, <1>4, PageBounds DEF Offset
<1>8. Len(walked') = IF PageEnd < Cardinality(due) THEN PageEnd ELSE Cardinality(due)
  BY <1>3, <1>6 DEF Listed
<1>9. Walked(due)'
  <2> DEFINE Right(x, k) == /\ x.id \in due /\ Rank(x.id, due) = k - 1
                            /\ x.writable = \/ plan[query.user] # "free"
                                            \/ x.id \in WritableSet
  <2>1. \A k \in 1..Len(walked) : Right(walked'[k], k)
    BY <1>3, <1>5 DEF Walked
  <2>2. ASSUME NEW k \in 1..Len(listed) PROVE Right(walked'[Len(walked) + k], Len(walked) + k)
    <3>1. /\ walked'[Len(walked) + k].id = listed[k].id
          /\ walked'[Len(walked) + k].writable = \/ ent # "free"
                                                 \/ listed[k].id \in WritableSet
      <4>1. walked'[Len(walked) + k] = Given[k] /\ k \in DOMAIN listed
        BY <1>5, <2>2
      <4>2. Given[k] = [id |-> listed[k].id,
                        writable |-> ent # "free" \/ listed[k].id \in WritableSet]
        BY <4>1 DEF Given
      <4> DEFINE w == ent # "free" \/ listed[k].id \in WritableSet
      <4>3. Given[k].id = listed[k].id
        BY <4>2
      <4>4. Given[k].writable = w
        <5> HIDE DEF w
        <5>1. Given[k] = [id |-> listed[k].id, writable |-> w]
          BY <4>2 DEF w
        <5> QED
          BY <5>1
      <4> QED
        BY <4>1, <4>3, <4>4
    <3>2. listed[k].id \in due /\ Rank(listed[k].id, due) = Len(walked) + k - 1
      BY <1>3, <1>5, <2>2 DEF Listed
    <3> QED
      BY <1>3, <3>1, <3>2
  <2>3. \A k \in DOMAIN walked' : Right(walked'[k], k)
    <3> SUFFICES ASSUME NEW k \in DOMAIN walked' PROVE Right(walked'[k], k)
      OBVIOUS
    <3>1. CASE k \in 1..Len(walked)
      BY <2>1, <3>1
    <3>2. CASE k \notin 1..Len(walked)
      <4>1. k - Len(walked) \in 1..Len(listed) /\ Len(walked) + (k - Len(walked)) = k
        BY <1>5, <3>2
      <4> HIDE DEF Right
      <4>2. Right(walked'[Len(walked) + (k - Len(walked))], Len(walked) + (k - Len(walked)))
        BY <2>2, <4>1
      <4> QED
        BY <4>1, <4>2
    <3> QED
      BY <3>1, <3>2
  <2> QED
    BY <1>4, <2>3 DEF Walked, Rank, Prior, WritableSet
<1> QED
  BY <1>2, <1>3, <1>4, <1>7, <1>8, <1>9

LEMMA QuietNext == ListTypes /\ QuietInv /\ [ListNext]_listVars => QuietInv'
<1> SUFFICES ASSUME ListTypes, QuietInv, [ListNext]_listVars, quiet' PROVE QuietInv'
  BY DEF QuietInv
<1>0. query \in QueryType /\ page \in Nat \ {0} /\ rows \in Table /\ due \subseteq ApiaryId
  BY QueryAssumption DEF ListTypes, ListTypeOK
<1>1. ASSUME quiet, UNCHANGED <<rows, query, plan, page, walked, due, hives>>
      PROVE  /\ due' = Matching' /\ Walked(due)' /\ Offset(query)' = Offset(query)
             /\ lpc # "done" => Len(walked') = Offset(query)' /\ Offset(query)' <= Cardinality(due)
  <2>1. due = Matching /\ Walked(due)
    BY <1>1 DEF QuietInv
  <2>2. due' = Matching' /\ Walked(due)'
    BY <1>1, <2>1, MatchingStays, WalkedStays
  <2>3. Offset(query)' = Offset(query)
    BY <1>1 DEF Offset
  <2> QED
    BY <1>1, <2>2, <2>3 DEF QuietInv
<1>2. CASE StartWalk
  <2>1. /\ due' = Matching' /\ page' = 1 /\ walked' = <<>> /\ lpc' = "parse"
        /\ query' \in QueryType /\ rows' = rows
    BY <1>2, QueryAssumption DEF StartWalk, Matching, Filtered, store
  <2>2. Offset(query)' = 0
    <3>1. \A l \in Nat : (1 - 1) * l = 0
      OBVIOUS
    <3> QED
      BY <2>1, <3>1 DEF Offset, QueryType
  <2>3. Cardinality(due') \in Nat
    BY <2>1, IdSets, FilteredPresent, <1>2 DEF StartWalk
  <2>4. Walked(due)' /\ Len(walked') = 0
    BY <2>1, EmptySeq DEF Walked
  <2> QED
    BY <2>1, <2>2, <2>3, <2>4 DEF QuietInv
<1>3. CASE ListReceived
  <2>1. quiet /\ UNCHANGED <<rows, query, plan, page, walked, due, hives, hidden>>
    BY <1>3 DEF ListReceived, store, walk, request
  <2> QED
    BY <1>1, <1>3, <2>1 DEF QuietInv, ListReceived, FirstListCall
<1>4. CASE ApiaryIDsWithHives
  <2>1. quiet /\ UNCHANGED <<rows, query, plan, page, walked, due, hives>>
    BY <1>4 DEF ApiaryIDsWithHives, store, walk, history
  <2> QED
    BY <1>1, <1>4, <2>1 DEF QuietInv, ApiaryIDsWithHives
<1>5. CASE ListCount
  <2>1. quiet /\ UNCHANGED <<rows, query, plan, page, walked, due, hives, hidden>>
    BY <1>5 DEF ListCount, store, walk, history
  <2>2. Counted = Matching /\ due = Matching
    BY <1>5, <2>1, CountedMatching DEF QuietInv, ListCount
  <2>3. total' = Cardinality(due)
    BY <1>5, <2>2 DEF ListCount, Counted
  <2> QED
    BY <1>1, <1>5, <2>1, <2>3 DEF QuietInv, ListCount
<1>6. CASE ListSelect
  <2>1. /\ quiet
        /\ UNCHANGED <<rows, query, plan, page, walked, due, hives, hidden, total>>
    BY <1>6 DEF ListSelect, store, walk, history
  <2>2. Counted = Matching /\ due = Matching
    BY <1>6, <2>1, CountedMatching DEF QuietInv, ListSelect
  <2>3. PICK s \in Sortings({rows[i] : i \in due}, query) : listed' = Page(s, query)
    BY <1>6, <2>2 DEF ListSelect, Counted
  <2>4. due \subseteq Present(rows) /\ Offset(query) <= Cardinality(due)
    BY <1>6, <2>1, <2>2, FilteredPresent DEF Matching, QuietInv, ListSelect
  <2>5. /\ Offset(query) + Len(listed') = IF PageEnd < Cardinality(due) THEN PageEnd
                                                                        ELSE Cardinality(due)
        /\ \A k \in DOMAIN listed' : /\ listed'[k].id \in due
                                     /\ Rank(listed'[k].id, due) = Offset(query) + k - 1
    BY <1>0, <2>3, <2>4, PageRanks
  <2>6. Listed(due)'
    BY <2>1, <2>5 DEF Listed, Rank, Prior, Offset, PageEnd
  <2> QED
    BY <1>1, <1>6, <2>1, <2>6 DEF QuietInv, ListSelect
<1>7. CASE ListPlan
  <2>1. /\ quiet
        /\ UNCHANGED <<rows, query, plan, page, walked, due, hives, hidden, total, listed>>
    BY <1>7 DEF ListPlan, store, walk, history
  <2>2. Listed(due)'
    BY <1>7, <2>1, ListedStays DEF QuietInv, ListPlan
  <2> QED
    BY <1>1, <1>7, <2>1, <2>2 DEF QuietInv, ListPlan
<1>8. CASE ListReply
  <2>1. quiet /\ UNCHANGED <<rows, query, hives, due>>
    BY <1>8 DEF ListReply, store
  <2>2. due' = Matching'
    BY <2>1, MatchingStays DEF QuietInv
  <2>3. lpc' \in {"parse", "done"}
    BY <1>8 DEF ListReply
  <2> QED
    BY <1>8, <2>1, <2>2, <2>3, QuietReply DEF QuietInv
<1>9. CASE ListFails
  <2>1. quiet /\ UNCHANGED <<rows, query, plan, page, walked, due, hives>>
    BY <1>9 DEF ListFails, store, walk
  <2> QED
    BY <1>1, <1>9, <2>1 DEF QuietInv, ListFails
<1>10. ASSUME quiet, UNCHANGED <<rows, hives, plan, lpc, walk, request>> PROVE QuietInv'
  <2>1. UNCHANGED <<query, page, walked, due, hidden, total, listed, ent>>
    BY <1>10 DEF walk, request
  <2>2. lpc \in {"plan", "reply"} => Listed(due)'
    BY <1>10, <2>1, ListedStays DEF QuietInv
  <2> QED
    BY <1>1, <1>10, <2>1, <2>2 DEF QuietInv
<1>11. CASE Meanwhile
  <2>1. Observe
    BY <1>11 DEF Meanwhile, TableChanges, HivesChange, PlanChanges
  <2>2. quiet /\ rows' = rows /\ hives' = hives /\ plan' = plan
    BY <2>1, Zenon DEF Observe
  <2> QED
    BY <1>10, <2>1, <2>2 DEF Observe
<1>12. CASE UNCHANGED listVars
  BY <1>10, <1>12 DEF listVars, store, history
<1> QED
  BY <1>2, <1>3, <1>4, <1>5, <1>6, <1>7, <1>8, <1>9, <1>11, <1>12 DEF ListNext, ListStep, Meanwhile

LEMMA QuietShows == ListTypes /\ QuietInv => QuietWalk
<1> SUFFICES ASSUME ListTypes, QuietInv, lpc = "done", quiet
             PROVE  /\ Len(walked) = Cardinality(due)
                    /\ WalkedIds = due
                    /\ \A k, l \in DOMAIN walked :
                          k < l => OrderedBefore(rows[walked[k].id], rows[walked[l].id], query)
                    /\ \A k \in DOMAIN walked : walked[k].writable =
                          \/ plan[query.user] # "free"
                          \/ walked[k].id \in WritableSet
  BY DEF QuietWalk, WalkedIds, WritableSet
<1>1. /\ rows \in Table /\ due = Matching /\ Walked(due) /\ Len(walked) = Cardinality(due)
      /\ walked \in Seq(Item)
  BY DEF QuietInv, ListTypes, ListTypeOK, Item
<1>2. due \subseteq Present(rows) /\ due \subseteq ApiaryId
  BY <1>1, FilteredPresent DEF Matching
<1>3. DOMAIN walked = 1..Len(walked) /\ Len(walked) \in Nat /\ IsFiniteSet(due)
  BY <1>1, <1>2, IdSets, LenProperties
<1>4. WalkedIds = due
  <2> DEFINE f == [k \in 1..Len(walked) |-> walked[k].id]
  <2>0. \A k \in 1..Len(walked) : walked[k].id \in due /\ Rank(walked[k].id, due) = k - 1
    BY <1>1, <1>3 DEF Walked
  <2>1. \A k, l \in 1..Len(walked) : k # l => walked[k].id # walked[l].id
    <3> SUFFICES ASSUME NEW k \in 1..Len(walked), NEW l \in 1..Len(walked),
                        walked[k].id = walked[l].id
                 PROVE  k = l
      OBVIOUS
    <3>1. k - 1 = l - 1
      BY <2>0
    <3> QED
      BY <3>1
  <2>2. f \in Injection(1..Len(walked), due)
    BY <2>0, <2>1 DEF Injection, IsInjective
  <2>3. IsFiniteSet(1..Len(walked)) /\ Cardinality(1..Len(walked)) = Cardinality(due)
    BY <1>1, <1>3, FS_Interval
  <2> HIDE DEF f
  <2>4. f \in Surjection(1..Len(walked), due)
    BY <1>3, <2>2, <2>3, FS_Injection
  <2>5. \A i \in due : \E k \in 1..Len(walked) : f[k] = i
    BY <2>4 DEF Surjection
  <2>6. \A i \in due : \E k \in 1..Len(walked) : walked[k].id = i
    BY <2>5 DEF f
  <2> QED
    BY <1>3, <2>0, <2>6 DEF WalkedIds
<1>5. ASSUME NEW k \in DOMAIN walked, NEW l \in DOMAIN walked, k < l
      PROVE  OrderedBefore(rows[walked[k].id], rows[walked[l].id], query)
  <2>1. /\ walked[k].id \in due /\ walked[l].id \in due
        /\ Rank(walked[k].id, due) = k - 1 /\ Rank(walked[l].id, due) = l - 1
    BY <1>1, <1>5 DEF Walked
  <2>2. Rank(walked[k].id, due) < Rank(walked[l].id, due)
    BY <1>3, <1>5, <2>1
  <2> QED
    BY <1>1, <1>2, <2>1, <2>2, RankedOrders
<1>6. \A k \in DOMAIN walked : walked[k].writable = \/ plan[query.user] # "free"
                                                    \/ walked[k].id \in WritableSet
  BY <1>1, Zenon DEF Walked
<1> QED
  BY <1>1, <1>4, <1>5, <1>6

(* The pages add up: when nothing changes during a walk, and whatever      *)
(* calls fail and pages are asked for again, the client has every matching *)
(* row exactly once, in order, marked writable as the account decides.     *)
THEOREM PagesAddUp == ListSpec => []QuietWalk
<1>1. ListInit => QuietInv
  BY QuietInit
<1>2. ListTypes /\ QuietInv /\ [ListNext]_listVars => QuietInv'
  BY QuietNext
<1>3. ListTypes /\ QuietInv => QuietWalk
  BY QuietShows
<1> QED
  BY <1>1, <1>2, <1>3, ListTypesHold, PTL DEF ListSpec

-----------------------------------------------------------------------------
LEMMA SteadyInit == ListInit => SteadyInv
BY DEF ListInit, SteadyInv

(* Rows that are added never lower the rank of a row that stays.           *)
LEMMA RankNeverFalls ==
    ASSUME rows \in Table, Kept, query' = query,
           NEW S, S \subseteq Present(rows),
           NEW T, S \subseteq T, T \subseteq Present(rows'),
           NEW i \in S
    PROVE  Rank(i, S) <= Cardinality(PriorIn(rows', query', i, T))
<1>1. \A j \in S : /\ rows'[j].created = rows[j].created
                   /\ rows'[j].id = rows[j].id
  <2> SUFFICES ASSUME NEW j \in S
               PROVE  rows'[j].created = rows[j].created /\ rows'[j].id = rows[j].id
    OBVIOUS
  <2>1. j \in Present(rows) \cap Present(rows') /\ rows' \in Table
    BY DEF Kept
  <2>2. rows'[j].id = j /\ rows[j].id = j
    BY <2>1, RowFields DEF Present, Table
  <2> QED
    BY <2>1, <2>2 DEF Kept
<1>2. Prior(i, S) \subseteq PriorIn(rows', query', i, T)
  BY <1>1 DEF Prior, PriorIn, OrderedBefore, Before
<1>3. IsFiniteSet(PriorIn(rows', query', i, T))
  BY IdSets DEF PriorIn, Present
<1> QED
  BY <1>2, <1>3, FS_Subset DEF Rank

(* A row of the page's sorting that the page does not show, though all the *)
(* ranks before the page are taken by others, comes after it.              *)
LEMMA NotOnPage ==
    ASSUME ListTypes,
           NEW s \in Sortings({rows[i] : i \in Counted}, query), listed' = Page(s, query),
           NEW i \in Counted, Rank(i, Counted) >= Offset(query), i \notin ListedIds'
    PROVE  Rank(i, Counted) >= PageEnd /\ PageEnd < Cardinality(Counted)
<1>1. query \in QueryType /\ page \in Nat \ {0} /\ rows \in Table
  BY QueryAssumption DEF ListTypes, ListTypeOK
<1>2. Counted \subseteq Present(rows) /\ Counted \subseteq ApiaryId
  BY FilteredPresent DEF Counted
<1>3. Rank(i, Counted) \in Nat /\ Cardinality(Counted) \in Nat /\ Offset(query) \in Nat /\ PageEnd \in Nat
  BY <1>1, <1>2, RankType, IdSets, PageBounds
<1>4. Rank(i, Counted) >= PageEnd
  <2>1. Offset(query) <= Rank(i, Counted) /\ Rank(i, Counted) < PageEnd =>
            \E k \in DOMAIN listed' : listed'[k].id = i
    <3> DEFINE S == Counted
               l == listed'
    <3> HIDE DEF S, l
    <3>1. S \subseteq Present(rows) /\ s \in Sortings({rows[j] : j \in S}, query) /\ l = Page(s, query)
      BY <1>2 DEF S, l
    <3>2. \A j \in S : Offset(query) <= Rank(j, S) /\ Rank(j, S) < PageEnd =>
              \E k \in DOMAIN l : l[k].id = j
      BY <1>1, <3>1, PageRanks
    <3> QED
      BY <3>2 DEF S, l
  <2> QED
    BY <1>3, <2>1 DEF ListedIds
<1>5. Rank(i, Counted) + 1 <= Cardinality(Counted)
  <2>1. Rank(i, Counted) + 1 \in 1..Len(s) /\ Len(s) = Cardinality(Counted)
    BY <1>1, <1>2, SortingRanks
  <2> QED
    BY <1>3, <2>1
<1> QED
  BY <1>3, <1>4, <1>5

(* As long as nothing that has hives is counted, the count leaves out at   *)
(* most those that have lost them since.                                   *)
LEMMA CountedPart ==
    ASSUME query.withoutHives => hives \subseteq hidden
    PROVE  Counted = {j \in Matching : query.withoutHives => j \notin hidden}
BY DEF Counted, Matching, Filtered

(* What stays when neither the rows nor the hives change. *)
LEMMA RanksStay ==
    ASSUME UNCHANGED <<rows, query, hives>>
    PROVE  /\ Matching' = Matching
           /\ \A i : Rank(i, Matching)' = Rank(i, Matching)
           /\ hidden' = hidden =>
                  Counted' = Counted /\ \A i : Rank(i, Counted)' = Rank(i, Counted)
<1>1. Matching' = Matching
  BY DEF Matching, Filtered
<1>2. hidden' = hidden => Counted' = Counted
  BY DEF Counted, Filtered
<1> QED
  BY <1>1, <1>2 DEF Rank, Prior

(* A writer that keeps the walk steady moves no row to a page before. *)
LEMMA SteadyMeanwhile ==
    ASSUME ListTypes, SteadyInv, steady, Observe, steady', Kept
    PROVE  SteadyInv'
<1>1. UNCHANGED <<lpc, query, page, walked, due, hidden, total, listed, ent>>
  BY DEF Observe, walk, request
<1>2. /\ Matching \subseteq Matching'
      /\ query.withoutHives => hives' \subseteq hives
      /\ lpc = "select" => Counted' = Counted
  BY Zenon DEF Observe
<1>3. rows \in Table /\ rows' \in Table
  BY DEF ListTypes, Kept
<1>4. /\ Matching \subseteq Present(rows) /\ Matching' \subseteq Present(rows')
      /\ Counted \subseteq Present(rows) /\ Counted' \subseteq Present(rows')
  BY DEF Matching, Counted, Filtered, Active, RowsOf, Present
<1>5. ASSUME NEW i \in Matching PROVE Rank(i, Matching) <= Rank(i, Matching)'
  <2> DEFINE S == Matching
             T == Matching'
  <2> HIDE DEF S, T
  <2>1. S \subseteq Present(rows) /\ S \subseteq T /\ T \subseteq Present(rows') /\ i \in S
    BY <1>2, <1>4, <1>5 DEF S, T
  <2>2. Rank(i, S) <= Cardinality(PriorIn(rows', query', i, T))
    BY <1>1, <1>3, <2>1, RankNeverFalls
  <2> QED
    BY <2>2 DEF S, T, Rank, Prior
<1>6. \A i \in Matching : Rank(i, Matching) \in Nat /\ Rank(i, Matching)' \in Nat
  <2>1. \A i : Rank(i, Matching) \in Nat
    BY <1>4, RankType DEF Present
  <2>2. \A i : IsFiniteSet(PriorIn(rows', query', i, Matching'))
    BY <1>4, IdSets DEF PriorIn, Present
  <2>3. \A i : Rank(i, Matching)' \in Nat
    BY <2>2, FS_CardinalityType DEF Rank, Prior
  <2> QED
    BY <2>1, <2>3
<1>7. Offset(query)' = Offset(query) /\ PageEnd' = PageEnd
  BY <1>1 DEF Offset, PageEnd
<1>8. Offset(query) \in Nat /\ PageEnd \in Nat
  BY PageBounds, QueryAssumption DEF ListTypes, ListTypeOK
<1>9. due' \subseteq Matching'
  BY <1>1, <1>2 DEF SteadyInv
<1>10. lpc # "done" => \A i \in due \ WalkedIds : Rank(i, Matching)' >= Offset(query)
  BY <1>5, <1>6, <1>8 DEF SteadyInv
<1>11. ASSUME lpc \in {"count", "select"}
       PROVE  /\ due \subseteq Counted'
              /\ \A i \in due \ WalkedIds : Rank(i, Counted)' >= Offset(query)
  <2>1. query.withoutHives => hives \subseteq hidden /\ hives' \subseteq hidden'
    BY <1>1, <1>2, <1>11 DEF SteadyInv
  <2>2. Counted = {j \in Matching : query.withoutHives => j \notin hidden}
    BY <2>1, CountedPart
  <2>3. Counted' = {j \in Matching' : query'.withoutHives => j \notin hidden'}
    BY <1>1, <2>1 DEF Counted, Matching, Filtered
  <2>4. Counted \subseteq Counted' /\ due \subseteq Counted
    BY <1>1, <1>2, <1>11, <2>2, <2>3 DEF SteadyInv
  <2>5. ASSUME NEW i \in due \ WalkedIds PROVE Rank(i, Counted)' >= Offset(query)
    <3> DEFINE S == Counted
               T == Counted'
    <3>1. Rank(i, S) >= Offset(query)
      BY <1>11, <2>5 DEF SteadyInv
    <3> HIDE DEF S, T
    <3>2. S \subseteq Present(rows) /\ S \subseteq T /\ T \subseteq Present(rows') /\ i \in S
      BY <1>4, <2>4, <2>5 DEF S, T
    <3>3. Rank(i, S) <= Cardinality(PriorIn(rows', query', i, T))
      BY <1>1, <1>3, <3>2, RankNeverFalls
    <3>4. Rank(i, S) \in Nat /\ Cardinality(PriorIn(rows', query', i, T)) \in Nat
      <4>1. PriorIn(rows', query', i, T) \subseteq ApiaryId /\ S \subseteq ApiaryId
        BY <3>2 DEF PriorIn, Present
      <4> QED
        BY <4>1, IdSets, RankType, FS_CardinalityType
    <3>5. Cardinality(PriorIn(rows', query', i, T)) >= Offset(query)
      BY <1>8, <3>1, <3>3, <3>4
    <3> QED
      BY <3>5 DEF T, Rank, Prior
  <2> QED
    BY <2>4, <2>5
<1>12. lpc \in {"plan", "reply"} =>
           \A i \in due \ (WalkedIds \cup ListedIds) :
               Rank(i, Matching)' >= PageEnd /\ PageEnd < total
  BY <1>5, <1>6, <1>8 DEF SteadyInv
<1>13. WalkedIds' = WalkedIds /\ ListedIds' = ListedIds
  BY <1>1 DEF WalkedIds, ListedIds
<1>14. query.withoutHives /\ lpc \in {"count", "select", "plan", "reply"} => hives' \subseteq hidden
  BY <1>2 DEF SteadyInv
<1>15. lpc = "select" => total' = Cardinality(Counted')
  BY <1>1, <1>2 DEF SteadyInv
<1> QED
  BY <1>1, <1>7, <1>9, <1>10, <1>11, <1>12, <1>13, <1>14, <1>15 DEF SteadyInv

LEMMA SteadyNext == ListTypes /\ SteadyInv /\ [ListNext]_listVars => SteadyInv'
<1> SUFFICES ASSUME ListTypes, SteadyInv, [ListNext]_listVars, steady' PROVE SteadyInv'
  BY DEF SteadyInv
<1>0. query \in QueryType /\ page \in Nat \ {0} /\ rows \in Table /\ due \subseteq ApiaryId
  BY QueryAssumption DEF ListTypes, ListTypeOK
<1>1. ASSUME steady, UNCHANGED <<rows, query, page, walked, due, hives>>, lpc # "done"
      PROVE  /\ due' \subseteq Matching'
             /\ \A i \in due' \ WalkedIds' : Rank(i, Matching)' >= Offset(query)'
  <2>1. /\ due \subseteq Matching /\ Matching' = Matching
        /\ \A i \in due \ WalkedIds : Rank(i, Matching) >= Offset(query)
        /\ \A i : Rank(i, Matching)' = Rank(i, Matching)
    BY <1>1, RanksStay DEF SteadyInv
  <2>2. Offset(query)' = Offset(query) /\ WalkedIds' = WalkedIds
    BY <1>1 DEF Offset, WalkedIds
  <2> QED
    BY <1>1, <2>1, <2>2
<1>2. CASE StartWalk
  <2>1. /\ due' = Matching' /\ page' = 1 /\ lpc' = "parse"
        /\ query' \in QueryType
    BY <1>2, QueryAssumption DEF StartWalk, Matching, Filtered, store
  <2>2. Offset(query)' = 0
    <3>1. \A l \in Nat : (1 - 1) * l = 0
      OBVIOUS
    <3> QED
      BY <2>1, <3>1 DEF Offset, QueryType
  <2>3. \A i : Rank(i, Matching)' >= 0
    <3>1. Matching' \subseteq ApiaryId
      BY DEF Matching, Filtered, Active, RowsOf, Present
    <3>2. \A i : IsFiniteSet(PriorIn(rows', query', i, Matching'))
      BY <3>1, IdSets DEF PriorIn
    <3>3. \A i : Rank(i, Matching)' \in Nat
      BY <3>2, FS_CardinalityType DEF Rank, Prior
    <3> QED
      BY <3>3
  <2> QED
    BY <2>1, <2>2, <2>3 DEF SteadyInv
<1>3. CASE ListReceived
  <2>1. steady /\ UNCHANGED <<rows, query, page, walked, due, hives, hidden>>
    BY <1>3 DEF ListReceived, store, walk, request
  <2>2. /\ due' \subseteq Matching'
        /\ \A i \in due' \ WalkedIds' : Rank(i, Matching)' >= Offset(query)'
    BY <1>1, <1>3, <2>1 DEF ListReceived
  <2>3. ~query'.withoutHives => Counted' = Matching'
    BY DEF Counted, Matching, Filtered
  <2>4. ~query'.withoutHives => \A i : Rank(i, Counted)' = Rank(i, Matching)'
    BY <2>3 DEF Rank, Prior
  <2> QED
    BY <1>3, <2>1, <2>2, <2>3, <2>4 DEF SteadyInv, ListReceived, FirstListCall
<1>4. CASE ApiaryIDsWithHives
  <2>1. steady /\ UNCHANGED <<rows, query, page, walked, due, hives>> /\ hidden' = hives'
    BY <1>4 DEF ApiaryIDsWithHives, store, walk, history
  <2>2. /\ due' \subseteq Matching'
        /\ \A i \in due' \ WalkedIds' : Rank(i, Matching)' >= Offset(query)'
    BY <1>1, <1>4, <2>1 DEF ApiaryIDsWithHives
  <2>3. Counted' = Matching'
    BY <2>1 DEF Counted, Matching, Filtered
  <2>4. \A i : Rank(i, Counted)' = Rank(i, Matching)'
    BY <2>3 DEF Rank, Prior
  <2> QED
    BY <1>4, <2>1, <2>2, <2>3, <2>4 DEF SteadyInv, ApiaryIDsWithHives
<1>5. CASE ListCount
  <2>1. steady /\ UNCHANGED <<rows, query, page, walked, due, hives, hidden>>
    BY <1>5 DEF ListCount, store, walk, history
  <2>2. /\ due' \subseteq Matching'
        /\ \A i \in due' \ WalkedIds' : Rank(i, Matching)' >= Offset(query)'
    BY <1>1, <1>5, <2>1 DEF ListCount
  <2>3. Counted' = Counted /\ \A i : Rank(i, Counted)' = Rank(i, Counted)
    BY <2>1, RanksStay
  <2>4. WalkedIds' = WalkedIds /\ Offset(query)' = Offset(query)
    BY <2>1 DEF WalkedIds, Offset
  <2>5. total' = Cardinality(Counted)
    BY <1>5 DEF ListCount, Counted
  <2> QED
    BY <1>5, <2>1, <2>2, <2>3, <2>4, <2>5 DEF SteadyInv, ListCount
<1>6. CASE ListSelect
  <2>1. steady /\ UNCHANGED <<rows, query, page, walked, due, hives, hidden, total>>
    BY <1>6 DEF ListSelect, store, walk, history
  <2>2. /\ due' \subseteq Matching'
        /\ \A i \in due' \ WalkedIds' : Rank(i, Matching)' >= Offset(query)'
    BY <1>1, <1>6, <2>1 DEF ListSelect
  <2>3. PICK s \in Sortings({rows[i] : i \in Counted}, query) : listed' = Page(s, query)
    BY <1>6 DEF ListSelect, Counted
  <2>4. /\ due \subseteq Counted /\ total = Cardinality(Counted)
        /\ \A i \in due \ WalkedIds : Rank(i, Counted) >= Offset(query)
    BY <1>6, <2>1 DEF SteadyInv, ListSelect
  <2>5. Counted \subseteq Matching /\ Matching \subseteq ApiaryId
    <3>1. query.withoutHives => hives \subseteq hidden
      BY <1>6, <2>1 DEF SteadyInv, ListSelect
    <3> QED
      BY <3>1, CountedPart, FilteredPresent DEF Matching
  <2>6. ASSUME NEW i \in due \ (WalkedIds \cup ListedIds')
        PROVE  Rank(i, Matching) >= PageEnd /\ PageEnd < total
    <3>1. Rank(i, Counted) >= PageEnd /\ PageEnd < total
      BY <2>3, <2>4, <2>6, NotOnPage
    <3>2. Rank(i, Counted) <= Rank(i, Matching)
      BY <2>5, RankGrows
    <3>3. Rank(i, Counted) \in Nat /\ Rank(i, Matching) \in Nat /\ PageEnd \in Nat
      <4>1. Counted \subseteq ApiaryId
        BY <2>5
      <4> QED
        BY <1>0, <2>5, <4>1, RankType, PageBounds
    <3> QED
      BY <3>1, <3>2, <3>3
  <2>7. \A i : Rank(i, Matching)' = Rank(i, Matching)
    BY <2>1, RanksStay
  <2>8. WalkedIds' = WalkedIds /\ PageEnd' = PageEnd
    BY <2>1 DEF WalkedIds, PageEnd
  <2>9. lpc' = "plan" /\ (query'.withoutHives => hives' \subseteq hidden')
    BY <1>6, <2>1 DEF SteadyInv, ListSelect
  <2> QED
    BY <2>1, <2>2, <2>6, <2>7, <2>8, <2>9 DEF SteadyInv
<1>7. CASE ListPlan
  <2>1. steady /\ UNCHANGED <<rows, query, page, walked, due, hives, hidden, total, listed>>
    BY <1>7 DEF ListPlan, store, walk, history
  <2>2. /\ due' \subseteq Matching'
        /\ \A i \in due' \ WalkedIds' : Rank(i, Matching)' >= Offset(query)'
    BY <1>1, <1>7, <2>1 DEF ListPlan
  <2>3. \A i : Rank(i, Matching)' = Rank(i, Matching)
    BY <2>1, RanksStay
  <2>4. WalkedIds' = WalkedIds /\ ListedIds' = ListedIds /\ PageEnd' = PageEnd
    BY <2>1 DEF WalkedIds, ListedIds, PageEnd
  <2> QED
    BY <1>7, <2>1, <2>2, <2>3, <2>4 DEF SteadyInv, ListPlan
<1>8. CASE ListReply
  <2>1. steady /\ lpc = "reply" /\ UNCHANGED <<rows, query, due, hives>>
    BY <1>8 DEF ListReply, store
  <2>2. /\ due \subseteq Matching /\ Matching' = Matching
        /\ \A i : Rank(i, Matching)' = Rank(i, Matching)
        /\ \A i \in due \ (WalkedIds \cup ListedIds) : Rank(i, Matching) >= PageEnd /\ PageEnd < total
    BY <2>1, RanksStay DEF SteadyInv
  <2>3. WalkedIds \cup ListedIds \subseteq WalkedIds'
    <3>1. /\ walked' = walked \o Given
          /\ DOMAIN walked' = 1..(Len(walked) + Len(listed))
          /\ DOMAIN walked = 1..Len(walked) /\ Len(walked) \in Nat
          /\ DOMAIN listed = 1..Len(listed) /\ Len(listed) \in Nat
          /\ \A k \in 1..Len(walked) : walked'[k] = walked[k]
          /\ \A k \in 1..Len(listed) : walked'[Len(walked) + k] = Given[k]
      BY <1>8, GivenItems DEF ListReply, Given
    <3>2. \A k \in 1..Len(walked) : k \in DOMAIN walked' /\ walked'[k].id = walked[k].id
      BY <3>1
    <3>3. \A k \in 1..Len(listed) : /\ Len(walked) + k \in DOMAIN walked'
                                    /\ walked'[Len(walked) + k].id = listed[k].id
      <4>1. \A k \in 1..Len(listed) : Given[k].id = listed[k].id
        BY <3>1 DEF Given
      <4> QED
        BY <3>1, <4>1
    <3>4. WalkedIds \subseteq WalkedIds'
      BY <3>1, <3>2 DEF WalkedIds
    <3>5. ASSUME NEW i \in ListedIds PROVE i \in WalkedIds'
      <4>1. PICK k \in 1..Len(listed) : listed[k].id = i
        BY <3>1, <3>5 DEF ListedIds
      <4> QED
        BY <3>3, <4>1 DEF WalkedIds
    <3> QED
      BY <3>4, <3>5
  <2>4. \A i \in due \ WalkedIds' : Rank(i, Matching)' >= PageEnd /\ PageEnd < total
    BY <2>2, <2>3
  <2>5. IF PageEnd < total THEN page' = page + 1 /\ lpc' = "parse" ELSE lpc' = "done"
    BY <1>8 DEF ListReply, hasNext, PageEnd
  <2>6. page' = page + 1 => Offset(query)' = PageEnd
    BY <1>0, <2>1, PageBounds DEF Offset
  <2> QED
    BY <2>1, <2>2, <2>4, <2>5, <2>6 DEF SteadyInv
<1>9. CASE ListFails
  <2>1. steady /\ UNCHANGED <<rows, query, page, walked, due, hives>>
    BY <1>9 DEF ListFails, store, walk
  <2>2. lpc # "done" /\ lpc' = "parse"
    BY <1>9 DEF ListFails
  <2> QED
    BY <1>1, <2>1, <2>2 DEF SteadyInv
<1>10. CASE Meanwhile
  <2>1. Observe
    BY <1>10 DEF Meanwhile, TableChanges, HivesChange, PlanChanges
  <2>2. Kept
    <3>1. CASE StoreNext
      BY <1>0, <3>1, StoreKeeps DEF ListTypes
    <3>2. CASE UNCHANGED store
      BY <1>0, <3>2 DEF store, Kept
    <3> QED
      BY <1>10, <3>1, <3>2 DEF Meanwhile, TableChanges, HivesChange, PlanChanges
  <2>3. steady
    BY <2>1, Zenon DEF Observe
  <2> QED
    BY <2>1, <2>2, <2>3, SteadyMeanwhile
<1>11. CASE UNCHANGED listVars
  <2>1. steady /\ UNCHANGED <<rows, query, page, walked, due, hives, hidden, total, listed, lpc>>
    BY <1>11 DEF listVars, store, walk, request, history
  <2>2. /\ Matching' = Matching /\ Counted' = Counted
        /\ \A i : Rank(i, Matching)' = Rank(i, Matching) /\ Rank(i, Counted)' = Rank(i, Counted)
    BY <2>1, RanksStay
  <2>3. /\ WalkedIds' = WalkedIds /\ ListedIds' = ListedIds /\ PageEnd' = PageEnd
        /\ Offset(query)' = Offset(query)
    BY <2>1 DEF WalkedIds, ListedIds, PageEnd, Offset
  <2> QED
    BY <2>1, <2>2, <2>3 DEF SteadyInv
<1> QED
  BY <1>2, <1>3, <1>4, <1>5, <1>6, <1>7, <1>8, <1>9, <1>10, <1>11 DEF ListNext, ListStep, Meanwhile

(* Nothing is skipped because something is added: a row that matched when  *)
(* the walk began has been on some page when it ends, whatever rows were   *)
(* created or renamed into the list between the pages.                     *)
THEOREM NothingSkipped == ListSpec => []NoneSkipped
<1>1. ListInit => SteadyInv
  BY SteadyInit
<1>2. ListTypes /\ SteadyInv /\ [ListNext]_listVars => SteadyInv'
  BY SteadyNext
<1>3. SteadyInv => NoneSkipped
  BY DEF SteadyInv, NoneSkipped, WalkedIds
<1> QED
  BY <1>1, <1>2, <1>3, ListTypesHold, PTL DEF ListSpec
=============================================================================
