------------------------ MODULE ApiaryRequests_proofs ------------------------
(***************************************************************************)
(* What the handlers let through, for every request, every limit on the    *)
(* lengths and on the images, and every set of media ids.                  *)
(*                                                                         *)
(* The checks of a handler come several calls before the service acts;     *)
(* that they still hold then, and what the loop of dedupeImages has kept   *)
(* of the images it has visited, is the invariant of this module.          *)
(***************************************************************************)
EXTENDS ApiaryRequests, SequenceTheorems, TLAPS

Id == Media \cup {NilID}

(* What reaches the service: a body without validation errors, or a term   *)
(* that is long enough to search for, and is the one the client sent.      *)
CheckedBody(b) == b # Malformed /\ validateFields(b) = {} /\ validateImages(b.images) = {}
CheckedSearch(text) ==
    parseSearch(text) = {} /\ search = (IF text.bytes = 0 THEN Nil ELSE text)
Checked == /\ input.route \in WithBody => CheckedBody(input.body)
           /\ input.route = "list" => CheckedSearch(input.query.search)

(* kept is what is left of the first n ids when repetitions are left out.  *)
DistinctOf(ids, n, kept) ==
    /\ \A i \in 1..n : \E k \in DOMAIN kept : kept[k] = ids[i]
    /\ \A k \in DOMAIN kept : \E i \in 1..n : kept[k] = ids[i]
    /\ \A k, l \in DOMAIN kept : k < l =>
          \E i \in 1..n : ids[i] = kept[k] /\ \A j \in 1..i : ids[j] # kept[l]

ImagesGiven == IF input.route = "create" THEN CreateImages(input.body.images)
               ELSE UpdateImages(input.body.images)
Reached == stage \in {"service", "dedupe", "act"} \/ Passed
ImagesInv ==
    /\ stage \in {"auth", "path", "decode", "service"} => visited = 0 /\ dedup = <<>>
    /\ Reached /\ input.route \in WithBody => images = ImagesGiven
    /\ Reached /\ input.route \notin WithBody => images = Nil
    /\ Reached /\ images # Nil =>
          /\ images \in Seq(Id) /\ dedup \in Seq(Id) /\ visited \in 0..Len(images)
          /\ DistinctOf(images, visited, dedup)
    /\ (stage = "act" \/ Passed) /\ images # Nil =>
          visited = Len(images) /\ Len(dedup) <= MaxMediaAttachments
    /\ stage = "dedupe" => images # Nil
ReqInv == /\ input \in Input
          /\ stage \in {"auth", "path", "decode"} => images = Nil
          /\ Reached => Checked
          /\ ImagesInv

-----------------------------------------------------------------------------
(* The loop of dedupeImages. *)
LEMMA NothingVisited == ASSUME NEW ids PROVE DistinctOf(ids, 0, <<>>)
<1>1. 1..0 = {} /\ DOMAIN <<>> = {}
  OBVIOUS
<1> QED
  BY <1>1 DEF DistinctOf

LEMMA OneMoreVisited ==
    ASSUME NEW S, NEW ids \in Seq(S), NEW kept \in Seq(S), NEW n \in Nat, n < Len(ids),
           DistinctOf(ids, n, kept)
    PROVE  /\ (\E k \in DOMAIN kept : kept[k] = ids[n + 1]) => DistinctOf(ids, n + 1, kept)
           /\ ~(\E k \in DOMAIN kept : kept[k] = ids[n + 1]) =>
                 /\ Append(kept, ids[n + 1]) \in Seq(S)
                 /\ DistinctOf(ids, n + 1, Append(kept, ids[n + 1]))
<1> DEFINE new == Append(kept, ids[n + 1])
<1>1. \A i \in 1..(n + 1) : i \in 1..n \/ i = n + 1
  OBVIOUS
<1>2. 1..n \subseteq 1..(n + 1) /\ n + 1 \in 1..(n + 1)
  OBVIOUS
<1>3. ASSUME \E k \in DOMAIN kept : kept[k] = ids[n + 1]
      PROVE  DistinctOf(ids, n + 1, kept)
  <2>1. \A i \in 1..(n + 1) : \E k \in DOMAIN kept : kept[k] = ids[i]
    BY <1>1, <1>3 DEF DistinctOf
  <2>2. \A k \in DOMAIN kept : \E i \in 1..(n + 1) : kept[k] = ids[i]
    <3> TAKE k \in DOMAIN kept
    <3>1. PICK i \in 1..n : kept[k] = ids[i]
      BY DEF DistinctOf
    <3> QED
      BY <1>2, <3>1
  <2>3. ASSUME NEW k \in DOMAIN kept, NEW l \in DOMAIN kept, k < l
        PROVE  \E i \in 1..(n + 1) : ids[i] = kept[k] /\ \A j \in 1..i : ids[j] # kept[l]
    <3>1. PICK i \in 1..n : ids[i] = kept[k] /\ \A j \in 1..i : ids[j] # kept[l]
      BY <2>3 DEF DistinctOf
    <3> QED
      BY <1>2, <3>1
  <2> QED
    BY <2>1, <2>2, <2>3 DEF DistinctOf
<1>4. ASSUME ~(\E k \in DOMAIN kept : kept[k] = ids[n + 1])
      PROVE  new \in Seq(S) /\ DistinctOf(ids, n + 1, new)
  <2>1. ids[n + 1] \in S
    OBVIOUS
  <2>2. /\ new \in Seq(S) /\ Len(new) = Len(kept) + 1
        /\ \A k \in 1..Len(kept) : new[k] = kept[k]
        /\ new[Len(kept) + 1] = ids[n + 1]
    BY <2>1, AppendProperties
  <2>3. /\ DOMAIN kept = 1..Len(kept) /\ DOMAIN new = 1..(Len(kept) + 1)
        /\ Len(kept) \in Nat
    BY <2>2
  <2> HIDE DEF new
  <2>4. \A k \in DOMAIN new : k \in DOMAIN kept \/ k = Len(kept) + 1
    BY <2>3
  <2>5. \A k \in DOMAIN kept : k \in DOMAIN new /\ new[k] = kept[k]
    BY <2>2, <2>3
  <2>6. \A i \in 1..(n + 1) : \E k \in DOMAIN new : new[k] = ids[i]
    <3> TAKE i \in 1..(n + 1)
    <3>1. CASE i \in 1..n
      <4>1. PICK k \in DOMAIN kept : kept[k] = ids[i]
        BY <3>1 DEF DistinctOf
      <4> QED
        BY <2>5, <4>1
    <3>2. CASE i = n + 1
      BY <2>2, <2>3, <3>2
    <3> QED
      BY <1>1, <3>1, <3>2
  <2>7. \A k \in DOMAIN new : \E i \in 1..(n + 1) : new[k] = ids[i]
    <3> TAKE k \in DOMAIN new
    <3>1. CASE k \in DOMAIN kept
      <4>1. PICK i \in 1..n : kept[k] = ids[i]
        BY <3>1 DEF DistinctOf
      <4> QED
        BY <1>2, <2>5, <3>1, <4>1
    <3>2. CASE k = Len(kept) + 1
      BY <1>2, <2>2, <3>2
    <3> QED
      BY <2>4, <3>1, <3>2
  <2>8. ASSUME NEW k \in DOMAIN new, NEW l \in DOMAIN new, k < l
        PROVE  \E i \in 1..(n + 1) : ids[i] = new[k] /\ \A j \in 1..i : ids[j] # new[l]
    <3>1. k \in DOMAIN kept
      BY <2>3, <2>8
    <3>2. CASE l \in DOMAIN kept
      <4>1. PICK i \in 1..n : ids[i] = kept[k] /\ \A j \in 1..i : ids[j] # kept[l]
        BY <2>8, <3>1, <3>2 DEF DistinctOf
      <4> QED
        BY <1>2, <2>5, <3>1, <3>2, <4>1
    <3>3. CASE l = Len(kept) + 1
      <4>1. PICK i \in 1..n : ids[i] = kept[k]
        BY <3>1 DEF DistinctOf
      <4>2. \A j \in 1..i : j \in 1..n
        OBVIOUS
      <4>3. \A j \in 1..i : ids[j] # new[l]
        <5> TAKE j \in 1..i
        <5>1. PICK m \in DOMAIN kept : kept[m] = ids[j]
          BY <4>2 DEF DistinctOf
        <5> QED
          BY <1>4, <2>2, <3>3, <5>1
      <4> QED
        BY <1>2, <2>5, <3>1, <4>1, <4>3
    <3> QED
      BY <2>4, <3>2, <3>3
  <2> QED
    BY <2>2, <2>6, <2>7, <2>8 DEF DistinctOf
<1> QED
  BY <1>3, <1>4

LEMMA IDsType ==
    ASSUME NEW ids \in Seq(RawId)
    PROVE  /\ IDs(ids) \in Seq(Id) /\ Len(IDs(ids)) = Len(ids) /\ IDs(ids) # Nil
           /\ \A k \in 1..Len(ids) : IDs(ids)[k] = ID(ids[k])
<1>1. \A k \in DOMAIN ids : ID(ids[k]) \in Id
  BY DEF ID, Id, RawId
<1>2. IDs(ids) \in Seq(Id) /\ Len(IDs(ids)) = Len(ids)
  BY <1>1 DEF IDs
<1>3. IDs(ids) # Nil
  BY <1>2, NilAssumption, Zenon DEF Id
<1>4. \A k \in 1..Len(ids) : IDs(ids)[k] = ID(ids[k])
  BY DEF IDs
<1> QED
  BY <1>2, <1>3, <1>4

LEMMA GivenType == ASSUME NEW b \in Body PROVE Given(b.images) \in Seq(RawId)
BY DEF Body, Given

LEMMA NoneGiven == <<>> \in Seq(RawId)
OBVIOUS

(* Once a body is decoded, the service's images are its ids or nil. *)
LEMMA ImagesGivenType ==
    ASSUME input \in Input, input.body # Malformed
    PROVE  ImagesGiven \in Seq(Id) \cup {Nil}
<1>1. input.body \in Body
  BY InputAssumption
<1>2. IDs(Given(input.body.images)) \in Seq(Id)
  BY <1>1, GivenType, IDsType
<1> QED
  BY <1>2 DEF ImagesGiven, CreateImages, UpdateImages, Given

-----------------------------------------------------------------------------
LEMMA ReqInvInit == ReqInit => ReqInv
BY DEF ReqInit, ReqInv, ImagesInv, Reached, Passed

LEMMA ReqInvNext == ReqInv /\ [ReqStep]_reqVars => ReqInv'
<1> SUFFICES ASSUME ReqInv, [ReqStep]_reqVars PROVE ReqInv'
  OBVIOUS
<1> USE DEF ReqInv, ImagesInv, Reached, Passed, Answer, Next, ImagesGiven
<1>1. CASE requireAuth
  BY <1>1 DEF requireAuth
<1>2. CASE pathApiaryID
  BY <1>2 DEF pathApiaryID
<1>3. CASE decodeAndValidate
  <2>1. input.route # "list"
    BY <1>3 DEF decodeAndValidate, WithBody
  <2>2. CASE stage' = "service"
    <3>1. CheckedBody(input.body) /\ images' = ImagesGiven
      BY <1>3, <2>2 DEF decodeAndValidate, CheckedBody
    <3>2. images' \in Seq(Id) \cup {Nil}
      BY <3>1, ImagesGivenType DEF CheckedBody
    <3>3. visited' = 0 /\ dedup' = <<>> /\ DistinctOf(images', 0, <<>>)
      BY <1>3, NothingVisited DEF decodeAndValidate
    <3>4. images' # Nil => Len(images') \in Nat /\ <<>> \in Seq(Id)
      BY <3>2
    <3> QED
      BY <1>3, <2>1, <2>2, <3>1, <3>2, <3>3, <3>4 DEF decodeAndValidate, Checked
  <2>3. CASE stage' # "service"
    BY <1>3, <2>3 DEF decodeAndValidate
  <2> QED
    BY <2>2, <2>3
<1>4. CASE parseList
  <2>1. input.route \notin WithBody
    BY <1>4 DEF parseList, WithBody
  <2>2. stage' = "service" => parseSearch(input.query.search) = {}
    BY <1>4 DEF parseList
  <2> QED
    BY <1>4, <2>1, <2>2 DEF parseList, Checked, CheckedSearch
<1>5. CASE nothingToDecode
  BY <1>5 DEF nothingToDecode, Checked
<1>6. CASE callService
  <2>1. Checked'
    BY <1>6 DEF callService, Checked, CheckedSearch
  <2> QED
    BY <1>6, <2>1 DEF callService, ServiceErrors, BeforeImages
<1>7. CASE dedupeImages
  <2>1. Checked'
    BY <1>7 DEF dedupeImages, Checked, CheckedSearch
  <2>2. images # Nil
    BY <1>7 DEF dedupeImages
  <2> QED
    BY <1>7, <2>1, OneMoreVisited DEF dedupeImages, Keep
<1>8. CASE limitImages
  <2>1. Checked'
    BY <1>8 DEF limitImages, Checked, CheckedSearch
  <2>2. Len(dedup) \in Nat /\ MaxMediaAttachments \in Nat
    BY <1>8, LengthAssumption DEF limitImages
  <2> QED
    BY <1>8, <2>1, <2>2 DEF limitImages, ServiceErrors
<1>9. CASE answerRequest
  <2>1. Checked'
    BY <1>9 DEF answerRequest, Checked, CheckedSearch
  <2> QED
    BY <1>9, <2>1 DEF answerRequest
<1>10. CASE UNCHANGED reqVars
  BY <1>10 DEF reqVars, Checked, CheckedSearch
<1> QED
  BY <1>1, <1>2, <1>3, <1>4, <1>5, <1>6, <1>7, <1>8, <1>9, <1>10 DEF ReqStep

LEMMA ReqInvHolds == ReqSpec => []ReqInv
<1>1. ReqInit => ReqInv
  BY ReqInvInit
<1>2. ReqInv /\ [ReqStep]_reqVars => ReqInv'
  BY ReqInvNext
<1> QED
  BY <1>1, <1>2, PTL DEF ReqSpec

-----------------------------------------------------------------------------
(* A text of at most so many bytes has at most so many characters. *)
LEMMA ShortInCharacters ==
    ASSUME NEW text \in Text, NEW max \in Nat, ~TooLong(text, max)
    PROVE  text.chars <= max
BY DEF Text, TooLong

LEMMA CheckedFieldsFit ==
    ASSUME NEW b \in Body, CheckedBody(b)
    PROVE  /\ b.name.chars > 0 /\ b.name.chars <= maxNameLength
           /\ b.location.chars <= maxLocationLength
           /\ b.description.chars <= maxDescriptionLength
           /\ b.lat # Nil => b.lat \in -90..90
           /\ b.lon # Nil => b.lon \in -180..180
<1>1. /\ b.name \in Text /\ b.location \in Text /\ b.description \in Text
      /\ b.lat \in Int \cup {Nil} /\ b.lon \in Int \cup {Nil}
  BY DEF Body
<1>2. /\ ~b.name.blank /\ ~TooLong(b.name, maxNameLength)
      /\ ~TooLong(b.location, maxLocationLength)
      /\ ~TooLong(b.description, maxDescriptionLength)
      /\ ~OutOfRange(b.lat, -90, 90) /\ ~OutOfRange(b.lon, -180, 180)
  BY DEF CheckedBody, validateFields
<1>3. /\ b.name.chars <= maxNameLength /\ b.location.chars <= maxLocationLength
      /\ b.description.chars <= maxDescriptionLength
  BY <1>1, <1>2, ShortInCharacters, LengthAssumption
<1>4. b.name.chars > 0
  BY <1>1, <1>2 DEF Text
<1>5. /\ b.lat # Nil => b.lat \in -90..90
      /\ b.lon # Nil => b.lon \in -180..180
  BY <1>1, <1>2 DEF OutOfRange
<1> QED
  BY <1>3, <1>4, <1>5

LEMMA InSchemaWith ==
    ASSUME NEW b \in Body, CheckedBody(b), NEW ids,
           \/ ids = Nil
           \/ ids \in Seq(Media \X {"canonical"}) /\ Len(ids) <= MaxMediaAttachments
    PROVE  InSchema([b EXCEPT !.images = ids])
<1> DEFINE c == [b EXCEPT !.images = ids]
<1>1. /\ c.name = b.name /\ c.location = b.location /\ c.description = b.description
      /\ c.lat = b.lat /\ c.lon = b.lon /\ c.images = ids
  BY DEF Body
<1>2. ids \in Seq(Media \X {"canonical"}) => ids # Null
  <2>1. Media \X {"canonical"} \subseteq RawId
    BY DEF RawId, Spelling
  <2>2. ids \in Seq(Media \X {"canonical"}) => ids \in Seq(RawId)
    BY <2>1
  <2> QED
    BY <2>2, NilAssumption, Zenon
<1> HIDE DEF c
<1>3. c.images # Nil => /\ c.images # Null
                        /\ c.images \in Seq(Media \X {"canonical"})
                        /\ Len(c.images) <= MaxMediaAttachments
  BY <1>1, <1>2
<1>4. InSchema(c)
  BY <1>1, <1>3, CheckedFieldsFit DEF InSchema
<1> QED
  BY <1>4 DEF c

(* What is known of the images once their loop has ended. *)
LEMMA ImagesCollected ==
    ASSUME ReqInv, stage = "act" \/ Passed, input.route \in WithBody, images # Nil
    PROVE  LET sent == Given(input.body.images) IN
           /\ input.body \in Body /\ CheckedBody(input.body)
           /\ sent \in Seq(RawId)
           /\ images = IDs(sent) /\ visited = Len(sent)
           /\ dedup \in Seq(Id) /\ Len(dedup) <= MaxMediaAttachments
           /\ DistinctOf(IDs(sent), Len(sent), dedup)
<1> DEFINE sent == Given(input.body.images)
<1>1. Reached /\ CheckedBody(input.body)
  BY DEF ReqInv, Reached, Checked
<1>2. input.body \in Body
  BY <1>1, InputAssumption DEF ReqInv, CheckedBody
<1>3. sent \in Seq(RawId) /\ Len(IDs(sent)) = Len(sent)
  BY <1>2, GivenType, IDsType
<1>4. images = IDs(sent)
  BY <1>1 DEF ReqInv, ImagesInv, ImagesGiven, CreateImages, UpdateImages, Given
<1> QED
  BY <1>1, <1>2, <1>3, <1>4 DEF ReqInv, ImagesInv

(* Whatever the service acts on is within the schema the API publishes,    *)
(* although the handlers count bytes, drop the errors of conversions, and  *)
(* let longer lists and other spellings in.                                *)
THEOREM AcceptedAlwaysFits == ReqSpec => []AcceptedFits
<1>1. ReqInv => AcceptedFits
  <2> SUFFICES ASSUME ReqInv, Passed, input.route \in WithBody PROVE InSchema(ActedOn)
    BY DEF AcceptedFits
  <2> DEFINE sent == Given(input.body.images)
             listed == [k \in DOMAIN dedup |-> <<dedup[k], "canonical">>]
  <2>1. CheckedBody(input.body)
    BY DEF ReqInv, Reached, Checked
  <2>2. input.body \in Body
    BY <2>1, InputAssumption DEF ReqInv, CheckedBody
  <2>3. ASSUME images # Nil
        PROVE  listed \in Seq(Media \X {"canonical"}) /\ Len(listed) <= MaxMediaAttachments
    <3>1. /\ sent \in Seq(RawId) /\ dedup \in Seq(Id) /\ Len(dedup) <= MaxMediaAttachments
          /\ DistinctOf(IDs(sent), Len(sent), dedup)
      BY <2>3, ImagesCollected
    <3>2. ASSUME NEW k \in DOMAIN dedup PROVE dedup[k] \in Media
      <4>1. PICK i \in 1..Len(sent) : dedup[k] = IDs(sent)[i]
        BY <3>1 DEF DistinctOf
      <4>2. dedup[k] = ID(sent[i])
        BY <3>1, <4>1, IDsType
      <4>3. sent[i] \in RawId /\ i \in DOMAIN sent
        BY <3>1, <4>1
      <4>4. Parses(input.body.images[i])
        BY <2>1, <4>3 DEF CheckedBody, validateImages
      <4>5. sent[i] # Garbage
        BY <4>3, <4>4 DEF Parses, Given
      <4> QED
        BY <4>2, <4>3, <4>5 DEF ID, RawId
    <3>3. \A k \in DOMAIN dedup : <<dedup[k], "canonical">> \in Media \X {"canonical"}
      BY <3>2
    <3> QED
      BY <3>1, <3>3
  <2>4. InSchema([input.body EXCEPT !.images = Nil])
    BY <2>1, <2>2, InSchemaWith
  <2>5. ASSUME images # Nil PROVE InSchema([input.body EXCEPT !.images = listed])
    <3>1. listed \in Seq(Media \X {"canonical"}) /\ Len(listed) <= MaxMediaAttachments
      BY <2>3, <2>5
    <3> HIDE DEF listed
    <3> QED
      BY <2>1, <2>2, <3>1, InSchemaWith
  <2> QED
    BY <2>4, <2>5 DEF ActedOn
<1> QED
  BY <1>1, ReqInvHolds, PTL

(* The images the service acts on are those the client named, once each    *)
(* and in its order, however many it sent and however it spelled them.     *)
THEOREM ImagesKept == ReqSpec => []ImagesAsSent
<1>1. ReqInv => ImagesAsSent
  <2> DEFINE sent == Given(input.body.images)
  <2> SUFFICES ASSUME ReqInv, stage = "act" \/ Passed, input.route \in WithBody
               PROVE  /\ images = Nil <=> input.route = "update"
                                           /\ input.body.images \in {Nil, Null}
                      /\ images # Nil =>
                          /\ \A i \in DOMAIN sent : \E k \in DOMAIN dedup : dedup[k] = ID(sent[i])
                          /\ \A k \in DOMAIN dedup : \E i \in DOMAIN sent : dedup[k] = ID(sent[i])
                          /\ \A k, l \in DOMAIN dedup :
                                k < l => NamedBefore(sent, dedup[k], dedup[l])
    BY DEF ImagesAsSent
  <2>1. images = Nil <=> input.route = "update" /\ input.body.images \in {Nil, Null}
    <3>1. Reached /\ CheckedBody(input.body)
      BY DEF ReqInv, Reached, Checked
    <3>2. input.body \in Body
      BY <3>1, InputAssumption DEF ReqInv, CheckedBody
    <3>3. IDs(sent) # Nil
      BY <3>2, GivenType, IDsType
    <3> QED
      BY <3>1, <3>3
         DEF ReqInv, ImagesInv, ImagesGiven, CreateImages, UpdateImages, Given, WithBody
  <2>2. ASSUME images # Nil
        PROVE  /\ \A i \in DOMAIN sent : \E k \in DOMAIN dedup : dedup[k] = ID(sent[i])
               /\ \A k \in DOMAIN dedup : \E i \in DOMAIN sent : dedup[k] = ID(sent[i])
               /\ \A k, l \in DOMAIN dedup : k < l => NamedBefore(sent, dedup[k], dedup[l])
    <3>1. sent \in Seq(RawId) /\ DistinctOf(IDs(sent), Len(sent), dedup)
      BY <2>2, ImagesCollected
    <3>2. DOMAIN sent = 1..Len(sent) /\ \A i \in 1..Len(sent) : IDs(sent)[i] = ID(sent[i])
      BY <3>1, IDsType
    <3>3. ASSUME NEW k \in DOMAIN dedup, NEW l \in DOMAIN dedup, k < l
          PROVE  NamedBefore(sent, dedup[k], dedup[l])
      <4>1. PICK i \in 1..Len(sent) :
                 IDs(sent)[i] = dedup[k] /\ \A j \in 1..i : IDs(sent)[j] # dedup[l]
        BY <3>1, <3>3 DEF DistinctOf
      <4>2. \A j \in 1..i : j \in 1..Len(sent)
        BY <3>1
      <4> QED
        BY <3>2, <4>1, <4>2 DEF NamedBefore
    <3>4. \A i \in DOMAIN sent : \E k \in DOMAIN dedup : dedup[k] = ID(sent[i])
      <4> HIDE DEF sent
      <4> QED
        BY <3>1, <3>2 DEF DistinctOf
    <3>5. \A k \in DOMAIN dedup : \E i \in DOMAIN sent : dedup[k] = ID(sent[i])
      <4> HIDE DEF sent
      <4> QED
        BY <3>1, <3>2 DEF DistinctOf
    <3> QED
      BY <3>3, <3>4, <3>5
  <2> QED
    BY <2>1, <2>2
<1> QED
  BY <1>1, ReqInvHolds, PTL

(* A search that is accepted is a search that is made. *)
THEOREM SearchesApplied == ReqSpec => []SearchApplied
<1>1. ReqInv => SearchApplied
  <2> SUFFICES ASSUME ReqInv, Passed, input.route = "list", input.query.search.bytes > 0
               PROVE  AppliesSearch(search)
    BY DEF SearchApplied
  <2> DEFINE text == input.query.search
  <2>1. parseSearch(text) = {} /\ search = (IF text.bytes = 0 THEN Nil ELSE text)
    BY DEF ReqInv, Reached, Checked, CheckedSearch
  <2>2. text \in Text /\ text.bytes \in Nat /\ text # Nil
    BY InputAssumption, NilAssumption DEF ReqInv, ListQuery, Text
  <2> QED
    BY <2>1, <2>2 DEF parseSearch, minSearchLength, AppliesSearch, repositoryMinSearchLength
<1> QED
  BY <1>1, ReqInvHolds, PTL
=============================================================================
