----------------------------- MODULE ListApiaries -----------------------------
(***************************************************************************)
(* GET /api/v1/apiaries: Handler.List, Service.List and                    *)
(* ApiaryRepository.ListByUser, and a client that asks for page after page *)
(* until there is no next one.  A page is put together from up to five     *)
(* calls (hive-service, count, select, subscription-service, writable ids) *)
(* with no transaction around them.  Whoever writes the table meanwhile is *)
(* represented by ApiaryStore, which ApiaryService implements.             *)
(***************************************************************************)
EXTENDS ApiaryStore, Functions

CONSTANTS
    Query,     \* what clients may list
    Changes    \* what may change or fail meanwhile: "hives", "plan", "fail"

Direction == {"asc", "desc", Nil}

(* search stands for the names it matches; limit is the size of a page.    *)
QueryType == [user : User, search : SUBSET Name \cup {Nil}, sortOrder : Direction,
              withoutHives : BOOLEAN, limit : Nat \ {0}]

ASSUME QueryAssumption == Query \subseteq QueryType
ASSUME ChangesAssumption == Changes \subseteq {"hives", "plan", "fail"}

VARIABLES
    hives,       \* hive-service: apiaries that have hives
    plan,        \* subscription-service: each user's plan
    lpc,         \* the next call of the request under way
    query,       \* what is listed
    page,        \* the page asked for
    hidden,      \* apiaryIDsWithHives, as answered for this page
    total,       \* the count
    listed,      \* the rows of the page
    ent,         \* the entitlement resolved for this page
    walked,      \* the items the client has received, page after page
    due,         \* history: ids that matched when the walk began
    quiet,       \* history: nothing has changed since
    steady,      \* history: matching rows were only added, and none between
                 \*   the count and the select of a page; no hives were added
                 \*   that a list without hives would miss
    keptHives    \* history: ids that have had hives since the page was asked

request  == <<hidden, total, listed, ent>>
walk     == <<query, page, walked, due>>
history  == <<quiet, steady, keptHives>>
listVars == <<store, hives, plan, lpc, walk, request, history>>

ListInit ==
    /\ StoreInit
    /\ hives \in SUBSET Present(rows) /\ plan \in [User -> {"free", "pro"}]
    /\ lpc = "done"
    /\ query \in Query
    /\ page = 1 /\ walked = <<>> /\ due = {}
    /\ hidden = {} /\ total = 0 /\ listed = <<>> /\ ent = "none"
    /\ quiet = FALSE /\ steady = FALSE /\ keptHives = {}

-----------------------------------------------------------------------------
(* The WHERE clause both statements share. *)
Searched(row, q) == q.search # Nil => row.name \in q.search
Filtered(q, ids) == {i \in Active(rows, q.user) : /\ q.withoutHives => i \notin ids
                                                  /\ Searched(rows[i], q)}

(* Fault: no tiebreaker. *)
OrderedByDate(a, b, q) ==
    IF q.sortOrder = "desc" THEN a.created > b.created ELSE a.created < b.created
(* createdAtOrderClause: the default order is ascending. *)
OrderedBefore(a, b, q) == IF q.sortOrder = "desc" THEN Before(b, a) ELSE Before(a, b)

(* Every sequence of the given rows that the ORDER BY clause allows.       *)
Sortings(set, q) ==
    {s \in Injection(1..Cardinality(set), set) :
        \A i, j \in DOMAIN s : i < j => ~OrderedBefore(s[j], s[i], q)}

Offset(q) == (page - 1) * q.limit
(* LIMIT and OFFSET. *)
Page(s, q) == LET last == IF Offset(q) + q.limit < Len(s) THEN Offset(q) + q.limit ELSE Len(s)
              IN SubSeq(s, Offset(q) + 1, last)

(* pagination.NewResponse. *)
hasNext == page * query.limit < total

-----------------------------------------------------------------------------
(* The rows that belong in the list now, and those of the page under way.  *)
Matching == Filtered(query, hives)
Counted  == Filtered(query, hidden)

StartWalk ==
    /\ lpc = "done"
    /\ query' \in Query
    /\ page' = 1 /\ walked' = <<>>
    /\ due' = Filtered(query', hives)
    /\ quiet' = TRUE /\ steady' = TRUE
    /\ lpc' = "parse"
    /\ UNCHANGED <<store, hives, plan, request, keptHives>>

FirstListCall(q) == IF q.withoutHives THEN "hives" ELSE "count"

(* A request, with variables of its own from here to its answer.           *)
NoPage == hidden' = {} /\ total' = 0 /\ listed' = <<>> /\ ent' = "none"
ListReceived ==
    /\ lpc = "parse"
    /\ lpc' = FirstListCall(query)
    /\ keptHives' = hives
    /\ UNCHANGED <<store, hives, plan, walk, request, quiet, steady>>

(* Fault: an error of hive-service hides nothing. *)
HivesOrNone ==
    /\ lpc = "hives"
    /\ hidden' = hives \/ ("fail" \in Changes /\ hidden' = {})
    /\ lpc' = "count"
    /\ UNCHANGED <<store, hives, plan, walk, total, listed, ent, history>>
ApiaryIDsWithHives ==
    /\ lpc = "hives"
    /\ hidden' = hives
    /\ lpc' = "count"
    /\ UNCHANGED <<store, hives, plan, walk, total, listed, ent, history>>

ListCount ==
    /\ lpc = "count"
    /\ total' = Cardinality(Filtered(query, hidden))
    /\ lpc' = "select"
    /\ UNCHANGED <<store, hives, plan, walk, hidden, listed, ent, history>>

ListSelect ==
    /\ lpc = "select"
    /\ \E s \in Sortings({rows[i] : i \in Filtered(query, hidden)}, query) :
        listed' = Page(s, query)
    /\ lpc' = "plan"
    /\ UNCHANGED <<store, hives, plan, walk, hidden, total, ent, history>>

(* Fault: its error is dropped, and "" is not "free". *)
ListPlanUnchecked ==
    /\ lpc = "plan"
    /\ ent' = plan[query.user] \/ ("fail" \in Changes /\ UNCHANGED ent)
    /\ lpc' = "reply"
    /\ UNCHANGED <<store, hives, plan, walk, hidden, total, listed, history>>
ListPlan ==
    /\ lpc = "plan"
    /\ ent' = plan[query.user]
    /\ lpc' = "reply"
    /\ UNCHANGED <<store, hives, plan, walk, hidden, total, listed, history>>

(* Fault: the oldest of the page are the writable ones. *)
WritableOnPage ==
    {listed[k].id : k \in {n \in DOMAIN listed : n <= FreeMaxApiaries}}
WritableSet == WritableIDs(rows, query.user, FreeMaxApiaries)

(* Under Free the writable ids are read last; the page is then answered    *)
(* and the client goes on with the next one, if it is told of one.         *)
ListReply ==
    /\ lpc = "reply"
    /\ walked' = walked \o [k \in DOMAIN listed |->
           [id |-> listed[k].id, writable |-> ent # "free" \/ listed[k].id \in WritableSet]]
    /\ IF hasNext THEN page' = page + 1 /\ lpc' = "parse"
                  ELSE UNCHANGED page /\ lpc' = "done"
    /\ NoPage /\ keptHives' = {}
    /\ UNCHANGED <<store, hives, plan, query, due, quiet, steady>>

(* A call fails, the client gets a 500 and asks for the page again.        *)
ListFails ==
    /\ "fail" \in Changes
    /\ lpc \in {"hives", "count", "select", "plan", "reply"}
    /\ lpc = "reply" => ent = "free"
    /\ lpc' = "parse"
    /\ NoPage /\ keptHives' = {}
    /\ UNCHANGED <<store, hives, plan, walk, quiet, steady>>

ListStep == \/ StartWalk \/ ListReceived \/ ApiaryIDsWithHives \/ ListCount
            \/ ListSelect \/ ListPlan \/ ListReply \/ ListFails

-----------------------------------------------------------------------------
(* Meanwhile. *)
Observe ==
    /\ UNCHANGED <<lpc, walk, request>>
    /\ quiet' = (quiet /\ rows' = rows /\ hives' = hives /\ plan' = plan)
    /\ steady' = (steady /\ Matching \subseteq Matching'
                         /\ (query.withoutHives => hives' \subseteq hives)
                         /\ (lpc = "select" => Counted' = Counted))
    /\ keptHives' = keptHives \cap hives'

TableChanges == StoreNext /\ UNCHANGED <<hives, plan>> /\ Observe

HivesChange ==
    /\ "hives" \in Changes
    /\ \E i \in Present(rows) : hives' = (hives \ {i}) \cup ({i} \ hives)
    /\ UNCHANGED <<store, plan>>
    /\ Observe

PlanChanges ==
    /\ "plan" \in Changes
    /\ plan' \in [User -> {"free", "pro"}] /\ plan' # plan
    /\ UNCHANGED <<store, hives>>
    /\ Observe

ListNext == ListStep \/ TableChanges \/ HivesChange \/ PlanChanges

ListSpec == ListInit /\ [][ListNext]_listVars

-----------------------------------------------------------------------------
ListTypeOK ==
    /\ hives \subseteq ApiaryId /\ plan \in [User -> {"free", "pro"}]
    /\ lpc \in {"done", "parse", "hives", "count", "select", "plan", "reply"}
    /\ query \in Query /\ page \in Nat \ {0}
    /\ hidden \subseteq ApiaryId /\ total \in Nat
    /\ listed \in Seq(Row) /\ ent \in {"free", "pro", "none"}
    /\ walked \in Seq([id : ApiaryId, writable : BOOLEAN])
    /\ lpc = "reply" => ent # "none"
    /\ due \subseteq ApiaryId /\ keptHives \subseteq ApiaryId

(* The pages add up.  When nothing changes during a walk, the client gets  *)
(* every matching row of its own exactly once, in the order asked for, and *)
(* each marked writable as the whole account, not the page or the search   *)
(* result, decides (the comment in Service.List, openapi's listing).       *)
QuietWalk ==
    lpc = "done" /\ quiet =>
        /\ Len(walked) = Cardinality(due)
        /\ {walked[k].id : k \in DOMAIN walked} = due
        /\ \A k, l \in DOMAIN walked :
            k < l => OrderedBefore(rows[walked[k].id], rows[walked[l].id], query)
        /\ \A k \in DOMAIN walked : walked[k].writable =
            \/ plan[query.user] # "free"
            \/ walked[k].id \in WritableIDs(rows, query.user, FreeMaxApiaries)

(* Nothing is skipped because something is added: a row that matched from  *)
(* the beginning is on some page, although creates, dated before or after  *)
(* it, move it from one page to another, unless one commits between the    *)
(* count and the select of the same page (or, in a list without hives, an  *)
(* apiary gets hives and drops out).                                       *)
NoneSkipped ==
    lpc = "done" /\ steady => due \subseteq {walked[k].id : k \in DOMAIN walked}

(* "Apiaries without hives" never shows one that has had hives ever since  *)
(* the page was asked for, not even when hive-service cannot answer.       *)
HivesHidden ==
    [][lpc = "reply" /\ lpc' # "reply" /\ walked' # walked /\ query.withoutHives =>
         \A k \in DOMAIN listed : listed[k].id \notin keptHives]_listVars
=============================================================================
