------------------------------- MODULE ApiaryApi -------------------------------
(***************************************************************************)
(* What clients may ask of the service and what they can be told: the      *)
(* requests that read or write the table (api/openapi.yaml, the request    *)
(* DTOs and the errors of the domain and application packages).            *)
(***************************************************************************)
EXTENDS ApiaryTable, Sequences

CONSTANTS
    FreeMaxApiaries, MaxMediaAttachments,
    Request,             \* the requests clients may send
    NoRequest, Nil

Kind == {"create", "update", "delete", "deleteAll", "deleteUser", "get", "writable"}

RequestType == [kind : Kind, user : User, id : ApiaryId, name : Name,
                images : Seq(Media) \cup {Nil}]

ASSUME RequestAssumption == Request \subseteq RequestType /\ NoRequest \notin Request
ASSUME LimitAssumption == FreeMaxApiaries \in Nat \ {0} /\ MaxMediaAttachments \in Nat

Success == {"Created", "Updated", "Deleted", "DeletedWarned", "DeletedAll",
            "UserDeleted", "Writable", "ReadOnlyView", "Unrestricted", "None"}
Failure == {"NotFound", "ImageNotFound", "LimitReached", "ReadOnly",
            "MediaLimit", "NameTaken", "Internal"}
Outcome == Success \cup Failure \cup {"none"}

(* dedupeImages; a request without images makes the empty list.            *)
dedupeImages(ids) == IF ids = Nil THEN {} ELSE {ids[k] : k \in DOMAIN ids}

TooManyImages(ids) == Cardinality(ids) > MaxMediaAttachments
=============================================================================
