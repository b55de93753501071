---------------------------- MODULE ApiaryRequests ----------------------------
(***************************************************************************)
(* From the wire to the service: what each handler checks, in which order, *)
(* before it calls the service, what it makes of the values, and the       *)
(* status it answers (transport/http/apiary; dedupeImages of the service   *)
(* and the search filter of the repository are the first to use them).     *)
(***************************************************************************)
EXTENDS Integers, Sequences, FiniteSets

CONSTANTS
    Media,            \* media ids
    Garbage,          \* a string that is not a UUID
    NilID,            \* uuid.Nil
    Nil, Null,        \* nothing at all, Go's nil; JSON's null for a list
    Malformed,        \* a body that is not JSON
    Input,            \* the requests that may arrive
    maxNameLength, maxLocationLength, maxDescriptionLength, MaxMediaAttachments

(* The texts, by what the checks look at. *)
Text == {t \in [chars : Nat, bytes : Nat, blank : BOOLEAN] :
            t.chars <= t.bytes /\ (t.chars = 0 => t.blank)}
Spelling == {"canonical", "other"}   \* a UUID can be spelled in several ways
RawId == (Media \X Spelling) \cup {Garbage}
Body == [name : Text, location : Text, description : Text,
         lat : Int \cup {Nil}, lon : Int \cup {Nil}, images : Seq(RawId) \cup {Nil, Null}]
ListQuery == [validPage : BOOLEAN, search : Text, sortOrder : {"", "asc", "desc", "else"}]
WithPath == {"get", "update", "delete"}
WithBody == {"create", "update"}
Route == WithPath \cup WithBody \cup {"list", "writable", "deleteAll"}

ASSUME NilAssumption == /\ Nil \notin Text
                        /\ {Nil, Null} \cap (Seq(RawId) \cup Seq(Media \cup {NilID})) = {}
                        /\ Garbage \notin Media \X Spelling
ASSUME LengthAssumption ==
    {maxNameLength, maxLocationLength, maxDescriptionLength, MaxMediaAttachments} \subseteq Nat
ASSUME InputAssumption == \A i \in Input :
    /\ i.route \in Route /\ i.authenticated \in BOOLEAN /\ i.path \in RawId
    /\ i.body \in Body \cup {Malformed} /\ i.query \in ListQuery

VARIABLES
    input,     \* the request
    stage,     \* what comes next
    fields,    \* the validation errors, field by field
    images,    \* the images the service is called with
    visited,   \* how many of them dedupeImages has looked at, ...
    dedup,     \* ... and those it keeps
    search,    \* the search term the service is called with
    status     \* the answer, 0 before it

reqVars == <<input, stage, fields, images, visited, dedup, search, status>>

ReqInit ==
    /\ input \in Input
    /\ stage = "auth" /\ fields = {} /\ images = Nil /\ search = Nil /\ status = 0
    /\ visited = 0 /\ dedup = <<>>

Answer(s) == stage' = "answered" /\ status' = s
Next(s) == stage' = s /\ UNCHANGED status

-----------------------------------------------------------------------------
requireAuth ==
    /\ stage = "auth"
    /\ IF input.authenticated THEN Next("path") ELSE Answer(401)
    /\ UNCHANGED <<input, fields, images, visited, dedup, search>>

Parses(raw) == raw # Garbage

pathApiaryID ==
    /\ stage = "path"
    /\ IF input.route \in WithPath /\ ~Parses(input.path) THEN Answer(400) ELSE Next("decode")
    /\ UNCHANGED <<input, fields, images, visited, dedup, search>>

(* Lengths are those of Go strings: bytes. *)
TooLong(text, max) == text.bytes > max
OutOfRange(x, low, high) == x # Nil /\ (x < low \/ x > high)
validateFields(b) ==
    {e \in {"name_required", "name_too_long", "location_too_long", "description_too_long",
            "lat_out_of_range", "lon_out_of_range"} :
        \/ e = "name_required" /\ b.name.blank
        \/ e = "name_too_long" /\ ~b.name.blank /\ TooLong(b.name, maxNameLength)
        \/ e = "location_too_long" /\ TooLong(b.location, maxLocationLength)
        \/ e = "description_too_long" /\ TooLong(b.description, maxDescriptionLength)
        \/ e = "lat_out_of_range" /\ OutOfRange(b.lat, -90, 90)
        \/ e = "lon_out_of_range" /\ OutOfRange(b.lon, -180, 180)}

(* A list that is absent or null is a nil slice.                           *)
Given(ids) == IF ids \in {Nil, Null} THEN <<>> ELSE ids

(* Fault: only the first is looked at. *)
validateFirstImage(ids) == IF Given(ids) # <<>> /\ ~Parses(ids[1]) THEN {"images_invalid"} ELSE {}
validateImages(ids) ==
    IF \E k \in DOMAIN Given(ids) : ~Parses(ids[k]) THEN {"images_invalid"} ELSE {}

(* uuid.Parse with its error dropped. *)
ID(raw) == IF raw = Garbage THEN NilID ELSE raw[1]
IDs(ids) == [k \in DOMAIN ids |-> ID(ids[k])]

(* Fault: null and the empty array are the same. *)
UpdateImagesOrEmpty(ids) == IDs(Given(ids))
(* A create without images has none; an update without images is silent    *)
(* about them.                                                             *)
UpdateImages(ids) == IF ids \in {Nil, Null} THEN Nil ELSE IDs(ids)
CreateImages(ids) == IDs(Given(ids))

decodeAndValidate ==
    /\ stage = "decode" /\ input.route \in WithBody
    /\ IF input.body = Malformed
       THEN Answer(400) /\ UNCHANGED <<fields, images>>
       ELSE /\ fields' = validateFields(input.body) \cup validateImages(input.body.images)
            /\ IF fields' # {}
               THEN Answer(400) /\ UNCHANGED images
               ELSE /\ images' = IF input.route = "create"
                                 THEN CreateImages(input.body.images)
                                 ELSE UpdateImages(input.body.images)
                    /\ Next("service")
    /\ UNCHANGED <<input, visited, dedup, search>>

minSearchLength == 3
parseSearch(text) == IF 0 < text.bytes /\ text.bytes < minSearchLength
                     THEN {"invalid_search"} ELSE {}
parseSortOrder(s) == IF s \in {"", "asc", "desc"} THEN {} ELSE {"invalid_sort_order"}

parseList ==
    LET q == input.query IN
    /\ stage = "decode" /\ input.route = "list"
    /\ fields' = {e \in {"invalid_page"} : ~q.validPage}
                 \cup parseSearch(q.search) \cup parseSortOrder(q.sortOrder)
    /\ search' = IF q.search.bytes = 0 THEN Nil ELSE q.search
    /\ IF fields' # {} THEN Answer(400) ELSE Next("service")
    /\ UNCHANGED <<input, images, visited, dedup>>

nothingToDecode ==
    /\ stage = "decode" /\ input.route \notin WithBody \cup {"list"}
    /\ Next("service")
    /\ UNCHANGED <<input, fields, images, visited, dedup, search>>

(* writeServiceError, and the statuses of success. *)
ServiceErrors == [NotFound |-> 404, ImageNotFound |-> 400, LimitReached |-> 403,
                  ReadOnly |-> 403, MediaLimit |-> 400, NameTaken |-> 409, Internal |-> 500]
Succeeds(route) == CASE route = "create" -> 201
                     [] route \in {"delete", "deleteAll"} -> 204
                     [] OTHER -> 200

(* What stops the service before it looks at the images, and after.  Why   *)
(* it does is the business of ApiaryService.                               *)
BeforeImages(route) == CASE route = "create" -> {"LimitReached", "Internal"}
                         [] route = "update" -> {"NotFound", "ReadOnly", "Internal"}
                         [] OTHER -> {}
AfterImages(route) ==
    CASE route = "create" -> {"LimitReached", "NameTaken", "Internal"}
      [] route = "update" -> {"NotFound", "NameTaken", "Internal"}
      [] route \in {"get", "delete", "deleteAll"} -> {"NotFound", "Internal"}
      [] OTHER -> {"Internal"}

callService ==
    /\ stage = "service"
    /\ \/ images # Nil /\ Next("dedupe")
       \/ images = Nil /\ Next("act")
       \/ \E e \in BeforeImages(input.route) : Answer(ServiceErrors[e])
    /\ UNCHANGED <<input, fields, images, visited, dedup, search>>

(* One turn of the loop: whoever was seen before is left out. *)
Keep(id, seen) == dedup' = IF seen THEN dedup ELSE Append(dedup, id)
(* Fault: an entry is compared with its neighbour only. *)
dedupeNeighbours ==
    /\ stage = "dedupe" /\ visited < Len(images)
    /\ visited' = visited + 1
    /\ Keep(images[visited'], dedup # <<>> /\ dedup[Len(dedup)] = images[visited'])
    /\ UNCHANGED <<input, stage, fields, images, search, status>>
dedupeImages ==
    /\ stage = "dedupe" /\ visited < Len(images)
    /\ visited' = visited + 1
    /\ Keep(images[visited'], \E k \in DOMAIN dedup : dedup[k] = images[visited'])
    /\ UNCHANGED <<input, stage, fields, images, search, status>>

(* Fault: off by one. *)
limitOffByOne ==
    /\ stage = "dedupe" /\ visited = Len(images)
    /\ IF Len(dedup) > MaxMediaAttachments + 1 THEN Answer(ServiceErrors.MediaLimit) ELSE Next("act")
    /\ UNCHANGED <<input, fields, images, visited, dedup, search>>
limitImages ==
    /\ stage = "dedupe" /\ visited = Len(images)
    /\ IF Len(dedup) > MaxMediaAttachments THEN Answer(ServiceErrors.MediaLimit) ELSE Next("act")
    /\ UNCHANGED <<input, fields, images, visited, dedup, search>>

(* Only images that are there can fail to be found. *)
answerRequest ==
    /\ stage = "act"
    /\ \/ Answer(Succeeds(input.route))
       \/ \E e \in AfterImages(input.route) : Answer(ServiceErrors[e])
       \/ dedup # <<>> /\ Answer(ServiceErrors.ImageNotFound)
    /\ UNCHANGED <<input, fields, images, visited, dedup, search>>

ReqStep == \/ requireAuth \/ pathApiaryID \/ decodeAndValidate \/ parseList
           \/ nothingToDecode \/ callService \/ dedupeImages \/ limitImages \/ answerRequest

ReqSpec == ReqInit /\ [][ReqStep]_reqVars

-----------------------------------------------------------------------------
Passed == stage = "answered" /\ status \in {200, 201, 204}

(* ApiaryCreateRequest and ApiaryUpdateRequest of openapi.yaml.  Lengths    *)
(* are in characters; a name that is absent is read as an empty one; an id *)
(* is spelled the one way that "format: uuid" stands for.                  *)
InSchema(b) ==
    /\ b.name.chars > 0 /\ b.name.chars <= maxNameLength
    /\ b.location.chars <= maxLocationLength /\ b.description.chars <= maxDescriptionLength
    /\ b.lat # Nil => b.lat \in -90..90
    /\ b.lon # Nil => b.lon \in -180..180
    /\ b.images # Nil => /\ b.images # Null
                        /\ b.images \in Seq(Media \X {"canonical"})
                        /\ Len(b.images) <= MaxMediaAttachments

(* What the service makes of the body, written down as a body again. *)
ActedOn == [input.body EXCEPT !.images =
    IF images = Nil THEN Nil ELSE [k \in DOMAIN dedup |-> <<dedup[k], "canonical">>]]

(* What the service acts on is within the published schema: its lengths in *)
(* characters although bytes are counted, and its images as a list of at   *)
(* most so many ids in the one spelling, although the list sent may be     *)
(* longer, null, or spelled in other ways, and conversions drop errors.    *)
(* The body as sent need not be (README, section 3).                       *)
AcceptedFits == Passed /\ input.route \in WithBody => InSchema(ActedOn)

(* The images the service acts on are those of the client: each media id   *)
(* it named, however spelled, once, in the order in which it first named   *)
(* them; and no list at all only when an update gave none.                 *)
NamedBefore(ids, id, other) ==
    \E i \in DOMAIN ids : ID(ids[i]) = id /\ \A j \in 1..i : ID(ids[j]) # other
ImagesAsSent ==
    LET sent == Given(input.body.images) IN
    (stage = "act" \/ Passed) /\ input.route \in WithBody =>
        /\ images = Nil <=> input.route = "update" /\ input.body.images \in {Nil, Null}
        /\ images # Nil =>
            /\ \A i \in DOMAIN sent : \E k \in DOMAIN dedup : dedup[k] = ID(sent[i])
            /\ \A k \in DOMAIN dedup : \E i \in DOMAIN sent : dedup[k] = ID(sent[i])
            /\ \A k, l \in DOMAIN dedup : k < l => NamedBefore(sent, dedup[k], dedup[l])

(* ListByUser: the filter is only added for a long enough term. *)
repositoryMinSearchLength == 3
(* Fault: the two constants have drifted apart. *)
AppliesLonger(text) == text # Nil /\ text.bytes > repositoryMinSearchLength
AppliesSearch(text) == text # Nil /\ text.bytes >= repositoryMinSearchLength

(* A search is answered with search results: the handler never accepts a   *)
(* term that the repository then leaves out, which would list everything.  *)
SearchApplied ==
    Passed /\ input.route = "list" /\ input.query.search.bytes > 0 => AppliesSearch(search)
=============================================================================
