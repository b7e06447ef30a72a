-------------------------- MODULE ImageStoreProofs --------------------------
(***************************************************************************)
(* Theorems about ImageStore for any requests, contents, limits and number *)
(* of file ids: its types, that table and files agree after any failure or *)
(* crash, the quota, and that answers show what could be seen.             *)
(***************************************************************************)
EXTENDS ImageStore, TLAPS, FiniteSetTheorems

-----------------------------------------------------------------------------
\* A request that fits the stores: the conjuncts of IInv about one request, for
\* a step l and locals x it is about to have.

UploadFits(l, x) ==
    l \in {"prepare", "save", "insert", "rollback"} =>
        /\ x.id \in (1..lastId) \ (DOMAIN rows \cup removed)
        /\ x.file \in Upload /\ x.file.kind # "unfit"
        /\ l \in {"prepare", "save"} => x.id \notin files
        /\ l = "insert" => x.id \in files

DeletionFits(l, x) ==
    /\ l \in {"open", "remove", "removeThumb", "hide"} => x.id \in DOMAIN rows /\ x.row \in Row
    /\ l \in {"removeThumb", "hide"} => x.id \in removed

TakenOf(x, kind)  == IF kind = "image" THEN x.images ELSE x.videos
StoredOf(x, kind) == {id \in x.stored : rows[id].kind = kind}

CountFits(l, x) ==
    /\ x.stored \subseteq DOMAIN rows
    /\ \A kind \in {"image", "video"} :
          /\ TakenOf(x, kind) <= Limit(kind)
          /\ Cardinality(StoredOf(x, kind))
               + (IF l \in {"save", "insert"} /\ x.file.kind = kind THEN 1 ELSE 0)
                    <= TakenOf(x, kind)

ReaderFits(l, x) ==
    l \in {"select", "read"} =>
        /\ x.gone \subseteq removed /\ x.shown \cap x.gone = {}
        /\ x.live \subseteq DOMAIN rows /\ x.live \subseteq files \cup removed
        /\ x.live \subseteq x.wanted \cup x.shown \cup x.unread \cup removed

Apart == \A p, q \in Requests : Writing(p) /\ Writing(q) /\ req[p].id = req[q].id => p = q

LEMMA Split ==
    IInv <=> /\ TypeOK /\ RowHasFile /\ FileAccounted /\ RemovedForGood /\ Apart
             /\ \A q \in Requests : /\ UploadFits(pc[q], req[q]) /\ DeletionFits(pc[q], req[q])
                                    /\ CountFits(pc[q], req[q]) /\ ReaderFits(pc[q], req[q])
  <1>1. UploadsApart <=> Apart /\ \A q \in Requests : UploadFits(pc[q], req[q])
    BY DEF UploadsApart, Apart, UploadFits, Writing
  <1>2. DeletionsInOrder <=> \A q \in Requests : DeletionFits(pc[q], req[q])
    BY DEF DeletionsInOrder, DeletionFits
  <1>3. Counted <=> \A q \in Requests : CountFits(pc[q], req[q])
    BY DEF Counted, CountFits, Taken, TakenOf, Stored, StoredOf, Saving
  <1>4. ReadersKnow <=> \A q \in Requests : ReaderFits(pc[q], req[q])
    BY DEF ReadersKnow, ReaderFits
  <1>5. QED
    BY <1>1, <1>2, <1>3, <1>4 DEF IInv

LEMMA Join ==
    ASSUME TypeOK', RowHasFile', FileAccounted', RemovedForGood', Apart',
           \A q \in Requests :
              /\ UploadFits(pc[q], req[q])' /\ DeletionFits(pc[q], req[q])'
              /\ CountFits(pc[q], req[q])' /\ ReaderFits(pc[q], req[q])'
    PROVE  IInv'
  <1>1. UploadsApart'
    BY DEF UploadsApart, Apart, UploadFits, Writing
  <1>2. DeletionsInOrder'
    BY DEF DeletionsInOrder, DeletionFits
  <1>3. Counted'
    BY DEF Counted, CountFits, Taken, TakenOf, Stored, StoredOf, Saving
  <1>4. ReadersKnow'
    BY DEF ReadersKnow, ReaderFits
  <1>5. QED
    BY <1>1, <1>2, <1>3, <1>4 DEF IInv

\* An idle request fits any stores.
LEMMA FreshFits ==
    /\ Fresh \in Locals
    /\ UploadFits("idle", Fresh) /\ DeletionFits("idle", Fresh)
    /\ CountFits("idle", Fresh) /\ ReaderFits("idle", Fresh)
  <1>1. Fresh \in Locals
    BY BoundAssumption DEF Fresh, Locals, NoFile
  <1>2. UploadFits("idle", Fresh) /\ DeletionFits("idle", Fresh) /\ ReaderFits("idle", Fresh)
    BY DEF UploadFits, DeletionFits, ReaderFits
  <1>3. \A kind : StoredOf(Fresh, kind) = {}
    BY DEF StoredOf, Fresh
  <1>4. \A kind \in {"image", "video"} : TakenOf(Fresh, kind) = 0 /\ Limit(kind) \in Nat
    BY BoundAssumption DEF TakenOf, Fresh, Limit
  <1>5. Cardinality({}) = 0
    BY FS_EmptySet
  <1>6. CountFits("idle", Fresh)
    <2>1. Fresh.stored \subseteq DOMAIN rows
      BY DEF Fresh
    <2>2. QED
      BY <1>3, <1>4, <1>5, <2>1 DEF CountFits
  <1>7. QED
    BY <1>1, <1>2, <1>6

-----------------------------------------------------------------------------
\* Steps of one request that leave rows and files alone.

LEMMA LocalStep ==
    ASSUME IInv, NEW r \in Requests, NEW l \in Steps, NEW x \in Locals,
           pc' = [pc EXCEPT ![r] = l], req' = [req EXCEPT ![r] = x],
           thumbs' \subseteq 1..lastId,
           UNCHANGED <<rows, files, lastId, removed, leaked>>,
           pc[r] \notin {"save", "insert", "rollback"},
           l \notin {"prepare", "insert", "rollback"},
           l = "save" => pc[r] = "prepare" /\ x.id = req[r].id /\ x.file = req[r].file,
           DeletionFits(l, x), CountFits(l, x), ReaderFits(l, x)
    PROVE  IInv'
  <1>0. /\ TypeOK /\ RowHasFile /\ FileAccounted /\ RemovedForGood /\ Apart
        /\ \A q \in Requests : /\ UploadFits(pc[q], req[q]) /\ DeletionFits(pc[q], req[q])
                               /\ CountFits(pc[q], req[q]) /\ ReaderFits(pc[q], req[q])
    BY Split
  <1>1. /\ pc' \in [Requests -> Steps] /\ req' \in [Requests -> Locals]
        /\ pc'[r] = l /\ req'[r] = x
        /\ \A q \in Requests \ {r} : pc'[q] = pc[q] /\ req'[q] = req[q]
    BY <1>0 DEF TypeOK
  <1>2. TypeOK'
    BY <1>0, <1>1 DEF TypeOK
  <1>3. RowHasFile' /\ RemovedForGood'
    BY <1>0 DEF RowHasFile, RemovedForGood, Visible
  <1>4. FileAccounted'
    BY <1>0, <1>1 DEF FileAccounted
  <1>5. UploadFits(l, x)
    BY <1>0 DEF UploadFits, Steps
  <1>6. Apart'
    BY <1>0, <1>1 DEF Apart, Writing
  <1>7. ASSUME NEW q \in Requests
        PROVE  /\ UploadFits(pc[q], req[q])' /\ DeletionFits(pc[q], req[q])'
               /\ CountFits(pc[q], req[q])' /\ ReaderFits(pc[q], req[q])'
    <2>1. CASE q = r
      BY <1>1, <1>5, <2>1
         DEF UploadFits, DeletionFits, CountFits, StoredOf, ReaderFits
    <2>2. CASE q # r
      <3>1. pc'[q] = pc[q] /\ req'[q] = req[q]
        BY <1>1, <2>2
      <3>2. UploadFits(pc[q], req[q])'
        BY <1>0, <3>1 DEF UploadFits
      <3>3. DeletionFits(pc[q], req[q])' /\ ReaderFits(pc[q], req[q])'
        BY <1>0, <3>1 DEF DeletionFits, ReaderFits
      <3>4. CountFits(pc[q], req[q])'
        BY <1>0, <3>1 DEF CountFits, StoredOf
      <3>5. QED
        BY <3>2, <3>3, <3>4
    <2>3. QED
      BY <2>1, <2>2
  <1>8. QED
    BY <1>2, <1>3, <1>4, <1>6, <1>7, Join

LEMMA Types ==
    ASSUME IInv, NEW r \in Requests
    PROVE  /\ req[r] \in Locals /\ pc[r] \in Steps /\ req \in [Requests -> Locals]
           /\ UploadFits(pc[r], req[r]) /\ DeletionFits(pc[r], req[r])
           /\ CountFits(pc[r], req[r]) /\ ReaderFits(pc[r], req[r])
           /\ thumbs \subseteq 1..lastId /\ lastId \in 0..MaxIds
  BY Split DEF TypeOK

LEMMA StoredFinite ==
    ASSUME NEW x \in Locals, NEW kind
    PROVE  /\ IsFiniteSet(StoredOf(x, kind))
           /\ Cardinality(StoredOf(x, kind)) \in Nat
  <1>1. IsFiniteSet(Ids)
    BY BoundAssumption, FS_Interval DEF Ids
  <1>2. StoredOf(x, kind) \subseteq Ids
    BY DEF StoredOf, Locals
  <1>3. QED
    BY <1>1, <1>2, FS_Subset, FS_CardinalityType

\* A request that is not about to save or insert has the counts it had.
LEMMA SameCounts ==
    ASSUME NEW k, NEW y \in Locals, CountFits(k, y), NEW l, l \notin {"save", "insert"},
           NEW x, x.stored = y.stored, x.images = y.images, x.videos = y.videos
    PROVE  CountFits(l, x)
  <1>1. StoredOf(x, "image") = StoredOf(y, "image") /\ StoredOf(x, "video") = StoredOf(y, "video")
    BY DEF StoredOf
  <1>2. /\ Cardinality(StoredOf(y, "image")) \in Nat
        /\ Cardinality(StoredOf(y, "video")) \in Nat
    BY StoredFinite
  <1>3. /\ TakenOf(x, "image") = TakenOf(y, "image") /\ TakenOf(y, "image") \in Nat
        /\ TakenOf(x, "video") = TakenOf(y, "video") /\ TakenOf(y, "video") \in Nat
    BY DEF TakenOf, Locals
  <1>4. Limit("image") \in Nat /\ Limit("video") \in Nat
    BY BoundAssumption DEF Limit
  <1>5. ASSUME NEW kind \in {"image", "video"}
        PROVE  /\ TakenOf(x, kind) <= Limit(kind)
               /\ Cardinality(StoredOf(x, kind)) + 0 <= TakenOf(x, kind)
    <2>1. TakenOf(y, kind) <= Limit(kind)
      BY DEF CountFits
    <2>2. Cardinality(StoredOf(y, kind))
             + (IF k \in {"save", "insert"} /\ y.file.kind = kind THEN 1 ELSE 0)
          <= TakenOf(y, kind)
      BY DEF CountFits
    <2>3. QED
      BY <1>1, <1>2, <1>3, <1>4, <2>1, <2>2
  <1>6. QED
    BY <1>5 DEF CountFits

LEMMA ReturnStep ==
    ASSUME IInv, NEW r \in Requests, Return(r), thumbs' \subseteq 1..lastId,
           UNCHANGED <<rows, files, lastId, removed, leaked>>,
           pc[r] \notin {"save", "insert", "rollback"}
    PROVE  IInv'
  BY FreshFits, LocalStep DEF Return, Goto, Steps

LEMMA UploadArrivesStep ==
    ASSUME IInv, NEW r \in Requests, NEW batch \in Seq(Upload), UploadArrives(r, batch)
    PROVE  IInv'
  <1> DEFINE x == [Fresh EXCEPT !.todo = batch]
  <1>1. x \in Locals
    BY FreshFits DEF Locals
  <1>2. x.stored = Fresh.stored /\ x.images = Fresh.images /\ x.videos = Fresh.videos
    BY DEF Fresh
  <1> HIDE DEF x
  <1>3. CountFits("manifest", x)
    BY <1>2, FreshFits, SameCounts
  <1>4. DeletionFits("manifest", x) /\ ReaderFits("manifest", x)
    BY DEF DeletionFits, ReaderFits
  <1>5. /\ pc' = [pc EXCEPT ![r] = "manifest"] /\ req' = [req EXCEPT ![r] = x]
        /\ UNCHANGED <<stores, lastId, removed, leaked>> /\ pc[r] = "idle"
    BY DEF UploadArrives, Goto, x
  <1>6. QED
    BY <1>1, <1>3, <1>4, <1>5, Types, LocalStep DEF Steps, stores

LEMMA ReadManifestStep ==
    ASSUME IInv, NEW r \in Requests, ReadManifest(r) PROVE IInv'
  <1>1. CASE Return(r)
    BY <1>1, Types, ReturnStep DEF ReadManifest, stores
  <1>2. CASE Goto(r, "next") /\ UNCHANGED req
    <2>1. req' = [req EXCEPT ![r] = req[r]]
      BY <1>2, Types
    <2>2. CountFits("next", req[r])
      BY Types, SameCounts
    <2>3. DeletionFits("next", req[r]) /\ ReaderFits("next", req[r])
      BY DEF DeletionFits, ReaderFits
    <2>4. QED
      BY <1>2, <2>1, <2>2, <2>3, Types, LocalStep DEF ReadManifest, Goto, Steps, stores
  <1>3. QED
    BY <1>1, <1>2 DEF ReadManifest

LEMMA RespondStep ==
    ASSUME IInv, NEW r \in Requests, Respond(r) PROVE IInv'
  BY Types, ReturnStep DEF Respond, stores

LEMMA AnswerStep ==
    ASSUME IInv, NEW r \in Requests, Answer(r) PROVE IInv'
  BY Types, ReturnStep DEF Answer, stores

LEMMA DeleteArrivesStep ==
    ASSUME IInv, NEW r \in Requests, NEW id \in 1..lastId, DeleteArrives(r, id)
    PROVE  IInv'
  <1> DEFINE x == [Fresh EXCEPT !.id = id]
  <1>1. x \in Locals
    <2>1. id \in 0..MaxIds
      BY Types, BoundAssumption
    <2>2. QED
      BY <2>1, FreshFits DEF Locals
  <1>2. x.stored = Fresh.stored /\ x.images = Fresh.images /\ x.videos = Fresh.videos
    BY DEF Fresh
  <1> HIDE DEF x
  <1>3. CountFits("lookup", x)
    BY <1>2, FreshFits, SameCounts
  <1>4. DeletionFits("lookup", x) /\ ReaderFits("lookup", x)
    BY DEF DeletionFits, ReaderFits
  <1>5. /\ pc' = [pc EXCEPT ![r] = "lookup"] /\ req' = [req EXCEPT ![r] = x]
        /\ UNCHANGED <<stores, lastId, removed, leaked>> /\ pc[r] = "idle"
    BY DEF DeleteArrives, Goto, x
  <1>6. QED
    BY <1>1, <1>3, <1>4, <1>5, Types, LocalStep DEF Steps, stores

LEMMA LookupRowStep ==
    ASSUME IInv, NEW r \in Requests, LookupRow(r) PROVE IInv'
  <1>1. CASE req[r].id \notin DOMAIN rows
    BY <1>1, Types, ReturnStep DEF LookupRow, stores
  <1>2. CASE req[r].id \in DOMAIN rows
    <2> DEFINE x == [req[r] EXCEPT !.row = rows[req[r].id]]
    <2>1. rows[req[r].id] \in Row
      BY <1>2, Split DEF TypeOK
    <2>2. x \in Locals
      <3>1. req[r] \in Locals
        BY Types
      <3>2. QED
        BY <2>1, <3>1 DEF Locals
    <2>3. /\ x.stored = req[r].stored /\ x.images = req[r].images
          /\ x.videos = req[r].videos /\ x.id = req[r].id /\ x.row \in Row
      BY <2>1, Types DEF Locals
    <2>4. req' = [req EXCEPT ![r] = x] /\ pc' = [pc EXCEPT ![r] = "open"]
      BY <1>2, Types DEF LookupRow, Goto
    <2> HIDE DEF x
    <2>5. CountFits("open", x)
      BY <2>3, Types, SameCounts
    <2>6. DeletionFits("open", x) /\ ReaderFits("open", x)
      BY <1>2, <2>3 DEF DeletionFits, ReaderFits
    <2>7. QED
      BY <2>2, <2>4, <2>5, <2>6, Types, LocalStep DEF LookupRow, Steps, stores
  <1>3. QED
    BY <1>1, <1>2

LEMMA OpenFileStep ==
    ASSUME IInv, NEW r \in Requests, OpenFile(r) PROVE IInv'
  <1>1. CASE Return(r)
    BY <1>1, Types, ReturnStep DEF OpenFile, stores
  <1>2. CASE Goto(r, "remove") /\ UNCHANGED req
    <2>1. req' = [req EXCEPT ![r] = req[r]]
      BY <1>2, Types
    <2>2. CountFits("remove", req[r])
      BY Types, SameCounts
    <2>3. DeletionFits("remove", req[r]) /\ ReaderFits("remove", req[r])
      BY Types DEF OpenFile, DeletionFits, ReaderFits
    <2>4. QED
      BY <1>2, <2>1, <2>2, <2>3, Types, LocalStep DEF OpenFile, Goto, Steps, stores
  <1>3. QED
    BY <1>1, <1>2 DEF OpenFile

LEMMA RemoveThumbnailStep ==
    ASSUME IInv, NEW r \in Requests, RemoveThumbnail(r) PROVE IInv'
  <1>1. req' = [req EXCEPT ![r] = req[r]]
    BY Types DEF RemoveThumbnail
  <1>2. CountFits("hide", req[r])
    BY Types, SameCounts
  <1>3. DeletionFits("hide", req[r]) /\ ReaderFits("hide", req[r])
    BY Types DEF RemoveThumbnail, DeletionFits, ReaderFits
  <1>4. thumbs' \subseteq 1..lastId
    BY Types DEF RemoveThumbnail
  <1>5. QED
    BY <1>1, <1>2, <1>3, <1>4, Types, LocalStep DEF RemoveThumbnail, Goto, Steps

LEMMA ReadArrivesStep ==
    ASSUME IInv, NEW r \in Requests, NEW wanted \in SUBSET Ids, ReadArrives(r, wanted)
    PROVE  IInv'
  <1> DEFINE x == [Fresh EXCEPT !.wanted = wanted, !.gone = removed,
                                !.live = wanted \cap Visible \cap files]
  <1>1. removed \subseteq Ids
    BY Split, BoundAssumption DEF TypeOK, Ids
  <1>2. x \in Locals
    BY <1>1, FreshFits DEF Locals
  <1>3. /\ x.stored = Fresh.stored /\ x.images = Fresh.images /\ x.videos = Fresh.videos
        /\ x.gone = removed /\ x.live = wanted \cap Visible \cap files /\ x.wanted = wanted
        /\ x.shown = {}
    BY DEF Fresh
  <1>4. /\ pc' = [pc EXCEPT ![r] = "select"] /\ req' = [req EXCEPT ![r] = x]
        /\ UNCHANGED <<stores, lastId, removed, leaked>> /\ pc[r] = "idle"
    BY DEF ReadArrives, Goto
  <1> HIDE DEF x
  <1>5. CountFits("select", x)
    BY <1>3, FreshFits, SameCounts
  <1>6. DeletionFits("select", x) /\ ReaderFits("select", x)
    BY <1>3 DEF DeletionFits, ReaderFits, Visible
  <1>7. QED
    BY <1>2, <1>4, <1>5, <1>6, Types, LocalStep DEF Steps, stores

LEMMA SelectRowsStep ==
    ASSUME IInv, NEW r \in Requests, SelectRows(r) PROVE IInv'
  <1>1. CASE Return(r)
    BY <1>1, Types, ReturnStep DEF SelectRows, stores
  <1>2. CASE ~Return(r)
    <2> DEFINE x == [req[r] EXCEPT !.wanted = @ \cap Visible]
    <2>1. /\ req' = [req EXCEPT ![r] = x] /\ pc' = [pc EXCEPT ![r] = "read"]
          /\ pc[r] = "select"
      BY <1>2, Types DEF SelectRows, Goto
    <2>2. x \in Locals
      <3>1. req[r] \in Locals /\ req[r].wanted \cap Visible \in SUBSET Ids
        BY Types DEF Locals
      <3>2. QED
        BY <3>1 DEF Locals
    <2>3. /\ x.stored = req[r].stored /\ x.images = req[r].images
          /\ x.videos = req[r].videos /\ x.wanted = req[r].wanted \cap Visible
          /\ x.gone = req[r].gone /\ x.live = req[r].live /\ x.shown = req[r].shown
          /\ x.unread = req[r].unread
      BY Types DEF Locals
    <2> HIDE DEF x
    <2>4. CountFits("read", x)
      BY <2>3, Types, SameCounts
    <2>5. DeletionFits("read", x)
      BY DEF DeletionFits
    <2>6. ReaderFits("read", x)
      <3>1. \A id \in DOMAIN rows \ Visible : id \in removed
        BY Split DEF RemovedForGood, Visible
      <3>2. QED
        BY <2>1, <2>3, <3>1, Types DEF ReaderFits
    <2>7. QED
      BY <2>1, <2>2, <2>4, <2>5, <2>6, Types, LocalStep DEF SelectRows, Steps, stores
  <1>3. QED
    BY <1>1, <1>2

LEMMA ReadFileStep ==
    ASSUME IInv, NEW r \in Requests, ReadFile(r) PROVE IInv'
  <1>1. PICK id \in req[r].wanted :
          \/ id \in files /\ req' = [req EXCEPT ![r].wanted = @ \ {id},
                                                ![r].shown = @ \cup {id}]
          \/ id \in files /\ req' = [req EXCEPT ![r].wanted = @ \ {id},
                                                ![r].unread = @ \cup {id}]
          \/ id \notin files /\ req' = [req EXCEPT ![r].wanted = @ \ {id}]
    BY DEF ReadFile
  <1>2. /\ req[r] \in Locals /\ req[r].wanted \ {id} \in SUBSET Ids
        /\ req[r].shown \cup {id} \in SUBSET Ids /\ req[r].unread \cup {id} \in SUBSET Ids
    <2>1. req[r] \in Locals
      BY Types
    <2>2. QED
      BY <2>1 DEF Locals
  <1>3. PICK x \in Locals :
          /\ req' = [req EXCEPT ![r] = x]
          /\ x.stored = req[r].stored /\ x.images = req[r].images
          /\ x.videos = req[r].videos /\ x.wanted = req[r].wanted \ {id}
          /\ x.gone = req[r].gone /\ x.live = req[r].live
          /\ \/ id \in files /\ x.shown = req[r].shown \cup {id} /\ x.unread = req[r].unread
             \/ id \in files /\ x.shown = req[r].shown /\ x.unread = req[r].unread \cup {id}
             \/ id \notin files /\ x.shown = req[r].shown /\ x.unread = req[r].unread
    <2>1. CASE id \in files /\ req' = [req EXCEPT ![r].wanted = @ \ {id},
                                                  ![r].shown = @ \cup {id}]
      <3> DEFINE z == [req[r] EXCEPT !.wanted = @ \ {id}, !.shown = @ \cup {id}]
      <3>1. z \in Locals
        BY <1>2 DEF Locals
      <3>2. req' = [req EXCEPT ![r] = z]
        BY <2>1, Types
      <3>3. QED
        BY <1>2, <2>1, <3>1, <3>2 DEF Locals
    <2>2. CASE id \in files /\ req' = [req EXCEPT ![r].wanted = @ \ {id},
                                                  ![r].unread = @ \cup {id}]
      <3> DEFINE z == [req[r] EXCEPT !.wanted = @ \ {id}, !.unread = @ \cup {id}]
      <3>1. z \in Locals
        BY <1>2 DEF Locals
      <3>2. req' = [req EXCEPT ![r] = z]
        BY <2>2, Types
      <3>3. QED
        BY <1>2, <2>2, <3>1, <3>2 DEF Locals
    <2>3. CASE id \notin files /\ req' = [req EXCEPT ![r].wanted = @ \ {id}]
      <3> DEFINE z == [req[r] EXCEPT !.wanted = @ \ {id}]
      <3>1. z \in Locals
        BY <1>2 DEF Locals
      <3>2. req' = [req EXCEPT ![r] = z]
        BY <2>3, Types
      <3>3. QED
        BY <1>2, <2>3, <3>1, <3>2 DEF Locals
    <2>4. QED
      BY <1>1, <2>1, <2>2, <2>3
  <1>4. pc' = [pc EXCEPT ![r] = "read"] /\ pc[r] = "read"
    BY Split DEF ReadFile, TypeOK
  <1>5. CountFits("read", x)
    BY <1>3, Types, SameCounts
  <1>6. DeletionFits("read", x)
    BY DEF DeletionFits
  <1>7. ReaderFits("read", x)
    BY <1>3, <1>4, Types, Split DEF ReaderFits, RemovedForGood
  <1>8. QED
    BY <1>3, <1>4, <1>5, <1>6, <1>7, Types, LocalStep DEF ReadFile, Steps, stores

-----------------------------------------------------------------------------
\* Steps of an upload with a file in hand.

LEMMA StepType ==
    ASSUME IInv, NEW r \in Requests, NEW l \in Steps, NEW x \in Locals,
           pc' = [pc EXCEPT ![r] = l], req' = [req EXCEPT ![r] = x]
    PROVE  /\ pc' \in [Requests -> Steps] /\ req' \in [Requests -> Locals]
           /\ pc'[r] = l /\ req'[r] = x
           /\ \A q \in Requests \ {r} : pc'[q] = pc[q] /\ req'[q] = req[q]
  BY Split DEF TypeOK

\* The other requests do not notice what happens to a file that is nobody else's.
LEMMA OthersFit ==
    ASSUME IInv, NEW r \in Requests, NEW q \in Requests, q # r, Writing(r),
           pc'[q] = pc[q], req'[q] = req[q],
           UNCHANGED <<rows, lastId, removed>>,
           files' \ {req[r].id} = files \ {req[r].id}
    PROVE  /\ UploadFits(pc[q], req[q])' /\ DeletionFits(pc[q], req[q])'
           /\ CountFits(pc[q], req[q])' /\ ReaderFits(pc[q], req[q])'
  <1>1. /\ UploadFits(pc[q], req[q]) /\ DeletionFits(pc[q], req[q])
        /\ CountFits(pc[q], req[q]) /\ ReaderFits(pc[q], req[q])
        /\ req[r].id \notin DOMAIN rows \cup removed
    BY Split DEF UploadFits, Writing
  <1>2. Writing(q) => req[q].id # req[r].id
    BY Split DEF Apart
  <1>3. UploadFits(pc[q], req[q])'
    BY <1>1, <1>2 DEF UploadFits, Writing
  <1>4. DeletionFits(pc[q], req[q])'
    BY <1>1 DEF DeletionFits
  <1>5. ReaderFits(pc[q], req[q])'
    BY <1>1 DEF ReaderFits
  <1>6. CountFits(pc[q], req[q])'
    BY <1>1 DEF CountFits, StoredOf
  <1>7. QED
    BY <1>3, <1>4, <1>5, <1>6

LEMMA FileFailsStep ==
    ASSUME IInv, NEW r \in Requests, Writing(r), FileFails(r),
           files' \in {files, files \cup {req[r].id}, files \ {req[r].id}},
           leaked' \in {leaked, leaked \cup {req[r].id}},
           req[r].id \in files' => req[r].id \in leaked',
           thumbs' \subseteq 1..lastId, UNCHANGED <<rows, lastId, removed>>
    PROVE  IInv'
  <1> DEFINE x == [req[r] EXCEPT !.failed = @ + 1, !.file = NoFile, !.id = 0]
  <1>1. x \in Locals
    <2>1. req[r] \in Locals /\ req[r].failed + 1 \in Nat /\ 0 \in 0..MaxIds
      BY Types, BoundAssumption DEF Locals
    <2>2. QED
      BY <2>1 DEF Locals
  <1>2. x.stored = req[r].stored /\ x.images = req[r].images /\ x.videos = req[r].videos
    BY Types DEF Locals
  <1>3. pc' = [pc EXCEPT ![r] = "next"] /\ req' = [req EXCEPT ![r] = x]
    BY Types DEF FileFails, Goto
  <1> HIDE DEF x
  <1>4. /\ pc' \in [Requests -> Steps] /\ req' \in [Requests -> Locals]
        /\ pc'[r] = "next" /\ req'[r] = x
        /\ \A q \in Requests \ {r} : pc'[q] = pc[q] /\ req'[q] = req[q]
    BY <1>1, <1>3, StepType DEF Steps
  <1>5. req[r].id \in (1..lastId) \ (DOMAIN rows \cup removed)
    BY Types DEF UploadFits, Writing
  <1>6. /\ TypeOK /\ RowHasFile /\ FileAccounted /\ RemovedForGood /\ Apart
    BY Split
  <1>7. TypeOK'
    BY <1>4, <1>5, <1>6 DEF TypeOK
  <1>8. RowHasFile' /\ RemovedForGood'
    BY <1>5, <1>6 DEF RowHasFile, RemovedForGood, Visible, TypeOK
  <1>9. FileAccounted'
    BY <1>4, <1>6 DEF FileAccounted
  <1>10. Apart'
    BY <1>4, <1>6 DEF Apart, Writing
  <1>11. CountFits("next", x)
    BY <1>2, Types, SameCounts
  <1>12. /\ UploadFits(pc[r], req[r])' /\ DeletionFits(pc[r], req[r])'
         /\ ReaderFits(pc[r], req[r])'
    BY <1>4 DEF UploadFits, DeletionFits, ReaderFits
  <1>13. CountFits(pc[r], req[r])'
    BY <1>4, <1>11 DEF CountFits, StoredOf
  <1>14. ASSUME NEW q \in Requests
         PROVE  /\ UploadFits(pc[q], req[q])' /\ DeletionFits(pc[q], req[q])'
                /\ CountFits(pc[q], req[q])' /\ ReaderFits(pc[q], req[q])'
    <2>1. CASE q = r
      BY <1>12, <1>13, <2>1
    <2>2. CASE q # r
      BY <1>4, <2>2, OthersFit
    <2>3. QED
      BY <2>1, <2>2
  <1>15. QED
    BY <1>7, <1>8, <1>9, <1>10, <1>14, Join

LEMMA NextFileStep ==
    ASSUME IInv, NEW r \in Requests, NextFile(r) PROVE IInv'
  <1> DEFINE f == Head(req[r].todo)
  <1>0. /\ pc[r] = "next" /\ f \in Upload /\ Tail(req[r].todo) \in Seq(Upload)
        /\ UNCHANGED <<rows, files, thumbs, removed, leaked>>
    <2>1. /\ pc[r] = "next" /\ req[r].todo # <<>>
          /\ UNCHANGED <<rows, files, thumbs, removed, leaked>>
      BY DEF NextFile, stores
    <2>2. req[r].todo \in Seq(Upload)
      BY Types DEF Locals
    <2>3. QED
      BY <2>1, <2>2
  <1>1. CASE f.kind = "unfit"
    <2> DEFINE x == [req[r] EXCEPT !.todo = Tail(@), !.failed = @ + 1]
    <2>1. /\ req' = [req EXCEPT ![r] = x] /\ pc' = [pc EXCEPT ![r] = "next"]
          /\ UNCHANGED lastId
      BY <1>0, <1>1, Split DEF NextFile, TypeOK
    <2>2. x \in Locals
      <3>1. req[r] \in Locals /\ req[r].failed + 1 \in Nat
        BY Types DEF Locals
      <3>2. QED
        BY <1>0, <3>1 DEF Locals
    <2>3. x.stored = req[r].stored /\ x.images = req[r].images /\ x.videos = req[r].videos
      BY Types DEF Locals
    <2> HIDE DEF x, f
    <2>4. CountFits("next", x)
      BY <2>3, Types, SameCounts
    <2>5. DeletionFits("next", x) /\ ReaderFits("next", x)
      BY DEF DeletionFits, ReaderFits
    <2>6. QED
      BY <1>0, <2>1, <2>2, <2>4, <2>5, Types, LocalStep DEF Steps
  <1>2. CASE f.kind # "unfit"
    <2> DEFINE x == [req[r] EXCEPT !.todo = Tail(@), !.file = f, !.id = lastId + 1,
                                   !.skipped = @ + TimesSeen(r, f.hash),
                                   !.hashes = Append(@, f.hash)]
    <2>1. /\ req' = [req EXCEPT ![r] = x] /\ pc' = [pc EXCEPT ![r] = "prepare"]
          /\ lastId' = lastId + 1 /\ lastId < MaxIds
      BY <1>0, <1>2, Types DEF NextFile, Goto
    <2>2. TimesSeen(r, f.hash) \in Nat
      <3>1. req[r].hashes \in Seq(Hashes)
        BY Types DEF Locals
      <3>2. DOMAIN req[r].hashes = 1..Len(req[r].hashes) /\ Len(req[r].hashes) \in Nat
        BY <3>1
      <3>3. IsFiniteSet(DOMAIN req[r].hashes)
        BY <3>2, FS_Interval
      <3>4. IsFiniteSet({i \in DOMAIN req[r].hashes : req[r].hashes[i] = f.hash})
        BY <3>3, FS_Subset
      <3>5. QED
        BY <3>4, FS_CardinalityType DEF TimesSeen
    <2>3. lastId + 1 \in 0..MaxIds /\ lastId + 1 \in 1..(lastId + 1) /\ lastId \in Nat
      BY <2>1, Types, BoundAssumption
    <2>4. f.hash \in Hashes
      BY <1>0 DEF Upload
    <2>5. x \in Locals
      <3>1. /\ req[r] \in Locals /\ req[r].skipped + TimesSeen(r, f.hash) \in Nat
            /\ Append(req[r].hashes, f.hash) \in Seq(Hashes)
        BY <2>2, <2>4, Types DEF Locals
      <3>2. QED
        BY <1>0, <2>3, <3>1 DEF Locals
    <2>6. /\ x.stored = req[r].stored /\ x.images = req[r].images
          /\ x.videos = req[r].videos /\ x.file = f /\ x.id = lastId + 1
      BY Types DEF Locals
    <2> HIDE DEF x, f
    <2>7. /\ pc' \in [Requests -> Steps] /\ req' \in [Requests -> Locals]
          /\ pc'[r] = "prepare" /\ req'[r] = x
          /\ \A q \in Requests \ {r} : pc'[q] = pc[q] /\ req'[q] = req[q]
      BY <2>1, <2>5, StepType DEF Steps
    <2>8. /\ TypeOK /\ RowHasFile /\ FileAccounted /\ RemovedForGood /\ Apart
      BY Split
    <2>9. TypeOK'
      BY <1>0, <2>1, <2>3, <2>7, <2>8 DEF TypeOK
    <2>10. RowHasFile' /\ RemovedForGood'
      BY <1>0, <2>8 DEF RowHasFile, RemovedForGood, Visible
    <2>11. FileAccounted'
      BY <1>0, <2>7, <2>8 DEF FileAccounted
    <2>12. \A q \in Requests : Writing(q) => req[q].id # lastId + 1
      BY <2>3, Split DEF UploadFits, Writing
    <2>13. Apart'
      BY <2>6, <2>7, <2>8, <2>12, <1>0 DEF Apart, Writing
    <2>14. CountFits("prepare", x)
      BY <2>6, Types, SameCounts
    <2>15. CountFits(pc[r], req[r])'
      BY <1>0, <2>7, <2>14 DEF CountFits, StoredOf
    <2>16. UploadFits(pc[r], req[r])'
      BY <1>0, <1>2, <2>1, <2>3, <2>6, <2>7, <2>8 DEF UploadFits, TypeOK
    <2>17. DeletionFits(pc[r], req[r])' /\ ReaderFits(pc[r], req[r])'
      BY <2>7 DEF DeletionFits, ReaderFits
    <2>18. ASSUME NEW q \in Requests
           PROVE  /\ UploadFits(pc[q], req[q])' /\ DeletionFits(pc[q], req[q])'
                  /\ CountFits(pc[q], req[q])' /\ ReaderFits(pc[q], req[q])'
      <3>1. CASE q = r
        BY <2>15, <2>16, <2>17, <3>1
      <3>2. CASE q # r
        <4>1. pc'[q] = pc[q] /\ req'[q] = req[q]
          BY <2>7, <3>2
        <4>2. /\ UploadFits(pc[q], req[q]) /\ DeletionFits(pc[q], req[q])
              /\ CountFits(pc[q], req[q]) /\ ReaderFits(pc[q], req[q])
          BY Split
        <4>3. UploadFits(pc[q], req[q])'
          BY <1>0, <2>1, <2>3, <4>1, <4>2 DEF UploadFits
        <4>4. DeletionFits(pc[q], req[q])' /\ ReaderFits(pc[q], req[q])'
          BY <1>0, <4>1, <4>2 DEF DeletionFits, ReaderFits
        <4>5. CountFits(pc[q], req[q])'
          BY <1>0, <4>1, <4>2 DEF CountFits, StoredOf
        <4>6. QED
          BY <4>3, <4>4, <4>5
      <3>3. QED
        BY <3>1, <3>2
    <2>19. QED
      BY <2>9, <2>10, <2>11, <2>13, <2>18, Join
  <1>3. QED
    BY <1>1, <1>2

\* The quota leaves room for one more: the counter takes it before it is saved.
LEMMA PrepareSaves ==
    ASSUME IInv, NEW r \in Requests, pc[r] = "prepare", NEW x \in Locals,
           ~QuotaReached(r, req[r].file.kind),
           x.stored = req[r].stored, x.file = req[r].file, x.id = req[r].id,
           \A kind \in {"image", "video"} :
              TakenOf(x, kind) = TakenOf(req[r], kind)
                                   + (IF req[r].file.kind = kind THEN 1 ELSE 0)
    PROVE  CountFits("save", x)
  <1>1. x.stored \subseteq DOMAIN rows
    BY Types DEF CountFits
  <1>2. ASSUME NEW kind \in {"image", "video"}
        PROVE  /\ TakenOf(x, kind) <= Limit(kind)
               /\ Cardinality(StoredOf(x, kind)) + (IF x.file.kind = kind THEN 1 ELSE 0)
                     <= TakenOf(x, kind)
    <2>1. StoredOf(x, kind) = StoredOf(req[r], kind)
      BY DEF StoredOf
    <2>2. TakenOf(req[r], kind) <= Limit(kind)
      BY Types DEF CountFits
    <2>3. Cardinality(StoredOf(req[r], kind)) + 0 <= TakenOf(req[r], kind)
      BY Types DEF CountFits
    <2>4. Cardinality(StoredOf(req[r], kind)) \in Nat
      BY Types, StoredFinite
    <2>5. TakenOf(req[r], kind) \in Nat /\ Limit(kind) \in Nat
      BY Types, BoundAssumption DEF TakenOf, Limit, Locals
    <2>6. req[r].file.kind = kind => ~(TakenOf(req[r], kind) >= Limit(kind))
      BY DEF QuotaReached, Taken, TakenOf
    <2>7. TakenOf(x, kind) = TakenOf(req[r], kind) + (IF x.file.kind = kind THEN 1 ELSE 0)
      OBVIOUS
    <2>8. QED
      BY <2>1, <2>2, <2>3, <2>4, <2>5, <2>6, <2>7
  <1>3. QED
    BY <1>1, <1>2 DEF CountFits

LEMMA PrepareStep ==
    ASSUME IInv, NEW r \in Requests, Prepare(r) PROVE IInv'
  <1>0. /\ pc[r] = "prepare" /\ req[r].id \in 1..lastId /\ req[r].id \notin files
        /\ UNCHANGED <<rows, files, lastId, removed, leaked>> /\ Writing(r)
    BY Types DEF Prepare, UploadFits, Writing
  <1>1. thumbs' \subseteq 1..lastId
    BY <1>0, Types DEF Prepare
  <1>2. CASE FileFails(r)
    BY <1>0, <1>1, <1>2, FileFailsStep
  <1>3. CASE /\ ~QuotaReached(r, req[r].file.kind) /\ req[r].file.kind = "image"
             /\ req' = [req EXCEPT ![r].images = @ + 1] /\ Goto(r, "save")
    <2> DEFINE x == [req[r] EXCEPT !.images = @ + 1]
    <2>1. /\ x \in Locals /\ req' = [req EXCEPT ![r] = x]
          /\ pc' = [pc EXCEPT ![r] = "save"]
      <3>1. req[r] \in Locals /\ req[r].images + 1 \in Nat
        BY Types DEF Locals
      <3>2. x \in Locals
        BY <3>1 DEF Locals
      <3>3. QED
        BY <1>3, <3>1, <3>2, Types DEF Goto
    <2>2. /\ x.stored = req[r].stored /\ x.images = req[r].images + 1
          /\ x.videos = req[r].videos /\ x.id = req[r].id /\ x.file = req[r].file
          /\ req[r].images \in Nat /\ req[r].videos \in Nat
      BY Types DEF Locals
    <2> HIDE DEF x
    <2>3. CountFits("save", x)
      BY <1>0, <1>3, <2>1, <2>2, PrepareSaves DEF TakenOf
    <2>4. DeletionFits("save", x) /\ ReaderFits("save", x)
      BY DEF DeletionFits, ReaderFits
    <2>5. QED
      BY <1>0, <1>1, <2>1, <2>2, <2>3, <2>4, LocalStep DEF Steps
  <1>4. CASE /\ ~QuotaReached(r, req[r].file.kind) /\ req[r].file.kind = "video"
             /\ req' = [req EXCEPT ![r].videos = @ + 1] /\ Goto(r, "save")
    <2> DEFINE x == [req[r] EXCEPT !.videos = @ + 1]
    <2>1. /\ x \in Locals /\ req' = [req EXCEPT ![r] = x]
          /\ pc' = [pc EXCEPT ![r] = "save"]
      <3>1. req[r] \in Locals /\ req[r].videos + 1 \in Nat
        BY Types DEF Locals
      <3>2. x \in Locals
        BY <3>1 DEF Locals
      <3>3. QED
        BY <1>4, <3>1, <3>2, Types DEF Goto
    <2>2. /\ x.stored = req[r].stored /\ x.videos = req[r].videos + 1
          /\ x.images = req[r].images /\ x.id = req[r].id /\ x.file = req[r].file
          /\ req[r].images \in Nat /\ req[r].videos \in Nat
      BY Types DEF Locals
    <2> HIDE DEF x
    <2>3. CountFits("save", x)
      BY <1>0, <1>4, <2>1, <2>2, PrepareSaves DEF TakenOf
    <2>4. DeletionFits("save", x) /\ ReaderFits("save", x)
      BY DEF DeletionFits, ReaderFits
    <2>5. QED
      BY <1>0, <1>1, <2>1, <2>2, <2>3, <2>4, LocalStep DEF Steps
  <1>5. QED
    BY <1>2, <1>3, <1>4 DEF Prepare

\* An upload goes on with the file in hand: its counts are those it had.
LEMMA KeepCounts ==
    ASSUME IInv, NEW r \in Requests, NEW l \in {"insert", "rollback"},
           pc[r] \in {"save", "insert"}, pc'[r] = l, req'[r] = req[r], UNCHANGED rows
    PROVE  CountFits(pc[r], req[r])'
  <1>1. req[r].stored \subseteq DOMAIN rows
    BY Types DEF CountFits
  <1>2. ASSUME NEW kind \in {"image", "video"}
        PROVE  /\ TakenOf(req[r], kind) <= Limit(kind)
               /\ Cardinality(StoredOf(req[r], kind))
                     + (IF l \in {"save", "insert"} /\ req[r].file.kind = kind THEN 1 ELSE 0)
                     <= TakenOf(req[r], kind)
    <2>1. /\ TakenOf(req[r], kind) <= Limit(kind)
          /\ Cardinality(StoredOf(req[r], kind)) + (IF req[r].file.kind = kind THEN 1 ELSE 0)
                <= TakenOf(req[r], kind)
      BY Types DEF CountFits
    <2>2. Cardinality(StoredOf(req[r], kind)) \in Nat /\ TakenOf(req[r], kind) \in Nat
      BY Types, StoredFinite DEF TakenOf, Locals
    <2>3. QED
      BY <2>1, <2>2
  <1>3. QED
    BY <1>1, <1>2 DEF CountFits, StoredOf, TakenOf

\* The same for the rest of IInv.
LEMMA KeepFile ==
    ASSUME IInv, NEW r \in Requests, NEW l \in {"insert", "rollback"},
           pc[r] \in {"save", "insert"}, pc' = [pc EXCEPT ![r] = l],
           files' = files \cup {req[r].id},
           UNCHANGED <<rows, thumbs, lastId, req, removed, leaked>>
    PROVE  IInv'
  <1>1. /\ pc' \in [Requests -> Steps] /\ pc'[r] = l
        /\ \A q \in Requests \ {r} : pc'[q] = pc[q]
    BY Split DEF TypeOK, Steps
  <1>2. Writing(r) /\ req[r].id \in (1..lastId) \ (DOMAIN rows \cup removed)
    BY Types DEF UploadFits, Writing
  <1>3. /\ TypeOK /\ RowHasFile /\ FileAccounted /\ RemovedForGood /\ Apart
    BY Split
  <1>4. TypeOK'
    BY <1>1, <1>2, <1>3 DEF TypeOK
  <1>5. RowHasFile' /\ RemovedForGood'
    BY <1>2, <1>3 DEF RowHasFile, RemovedForGood, Visible
  <1>6. FileAccounted'
    BY <1>1, <1>3 DEF FileAccounted
  <1>7. Apart'
    BY <1>1, <1>2, <1>3 DEF Apart, Writing
  <1>8. UploadFits(pc[r], req[r])'
    BY <1>1, <1>2, Types DEF UploadFits
  <1>9. DeletionFits(pc[r], req[r])' /\ ReaderFits(pc[r], req[r])'
    BY <1>1 DEF DeletionFits, ReaderFits
  <1>10. CountFits(pc[r], req[r])'
    BY <1>1, KeepCounts
  <1>11. ASSUME NEW q \in Requests
         PROVE  /\ UploadFits(pc[q], req[q])' /\ DeletionFits(pc[q], req[q])'
                /\ CountFits(pc[q], req[q])' /\ ReaderFits(pc[q], req[q])'
    <2>1. CASE q = r
      BY <1>8, <1>9, <1>10, <2>1
    <2>2. CASE q # r
      BY <1>1, <1>2, <2>2, OthersFit
    <2>3. QED
      BY <2>1, <2>2
  <1>12. QED
    BY <1>4, <1>5, <1>6, <1>7, <1>11, Join

LEMMA SaveFileStep ==
    ASSUME IInv, NEW r \in Requests, SaveFile(r) PROVE IInv'
  <1>1. CASE files' = files \cup {req[r].id} /\ Goto(r, "insert") /\ UNCHANGED <<req, leaked>>
    BY <1>1, KeepFile DEF SaveFile, Goto
  <1>2. CASE /\ FileFails(r)
             /\ \/ UNCHANGED <<files, leaked>>
                \/ files' = files \cup {req[r].id} /\ leaked' = leaked \cup {req[r].id}
    <2>1. Writing(r) /\ req[r].id \notin files
      BY Types DEF SaveFile, UploadFits, Writing
    <2>2. QED
      BY <1>2, <2>1, Types, FileFailsStep DEF SaveFile
  <1>3. QED
    BY <1>1, <1>2 DEF SaveFile

LEMMA RollBackStep ==
    ASSUME IInv, NEW r \in Requests, RollBack(r) PROVE IInv'
  <1>1. Writing(r)
    BY DEF RollBack, Writing
  <1>2. thumbs' \subseteq 1..lastId
    BY Types DEF RollBack
  <1>3. QED
    BY <1>1, <1>2, FileFailsStep DEF RollBack

\* The counts of a request, over the rows there are next.
LEMMA CountsNext ==
    ASSUME NEW q, req'[q].stored \subseteq DOMAIN rows', pc'[q] \notin {"save", "insert"},
           \A kind \in {"image", "video"} :
              /\ TakenOf(req'[q], kind) <= Limit(kind)
              /\ Cardinality({id \in req'[q].stored : rows'[id].kind = kind}) + 0
                    <= TakenOf(req'[q], kind)
    PROVE  CountFits(pc[q], req[q])'
  <1>1. (pc'[q] \in {"save", "insert"}) = FALSE
    OBVIOUS
  <1>2. ASSUME NEW kind \in {"image", "video"}
        PROVE  /\ TakenOf(req'[q], kind) <= Limit(kind)
               /\ Cardinality({id \in req'[q].stored : rows'[id].kind = kind})
                    + (IF pc'[q] \in {"save", "insert"} /\ req'[q].file.kind = kind
                         THEN 1 ELSE 0) <= TakenOf(req'[q], kind)
    BY <1>1
  <1>3. QED
    BY <1>2 DEF CountFits, StoredOf, TakenOf

LEMMA SameCountsNext ==
    ASSUME NEW q, CountFits(pc[q], req[q]), pc'[q] = pc[q], req'[q] = req[q],
           DOMAIN rows \subseteq DOMAIN rows',
           \A id \in DOMAIN rows : rows'[id].kind = rows[id].kind
    PROVE  CountFits(pc[q], req[q])'
  <1>1. ASSUME NEW kind
        PROVE  StoredOf(req[q], kind) = {id \in req[q].stored : rows'[id].kind = kind}
    BY DEF StoredOf, CountFits
  <1>2. QED
    BY <1>1 DEF CountFits, StoredOf

\* The new row belongs to the request that writes it; the others' rows stay.
LEMMA InsertRowDone ==
    ASSUME IInv, NEW r \in Requests, pc[r] = "insert", Goto(r, "next"),
           rows' = [i \in DOMAIN rows \cup {req[r].id} |->
                       IF i = req[r].id THEN NewRow(req[r].file) ELSE rows[i]],
           req' = [req EXCEPT ![r].stored = @ \cup {req[r].id},
                              ![r].file = NoFile, ![r].id = 0],
           UNCHANGED <<files, thumbs, lastId, removed, leaked>>
    PROVE  IInv'
  <1> DEFINE x == [req[r] EXCEPT !.stored = @ \cup {req[r].id}, !.file = NoFile, !.id = 0]
             new == req[r].id
             f == req[r].file
  <1>1. /\ Writing(r) /\ new \in (1..lastId) \ (DOMAIN rows \cup removed) /\ new \in files
        /\ f \in Upload /\ f.kind # "unfit"
    BY Types DEF UploadFits, Writing
  <1>2. new \in Ids /\ 0 \in 0..MaxIds
    BY <1>1, Types, BoundAssumption DEF Ids
  <1>3. x \in Locals
    <2>1. req[r] \in Locals /\ req[r].stored \cup {new} \in SUBSET Ids
      BY <1>2, Types DEF Locals
    <2>2. QED
      BY <1>2, <2>1 DEF Locals
  <1>4. /\ x.stored = req[r].stored \cup {new} /\ x.images = req[r].images
        /\ x.videos = req[r].videos
    BY Types DEF Locals
  <1>5. pc' = [pc EXCEPT ![r] = "next"] /\ req' = [req EXCEPT ![r] = x]
    BY Types DEF Goto
  <1>6. NewRow(f) \in Row /\ NewRow(f).kind = f.kind /\ ~NewRow(f).hidden
    BY <1>1 DEF NewRow, Row, Upload, Kinds
  <1>7. /\ DOMAIN rows' = DOMAIN rows \cup {new} /\ rows'[new] = NewRow(f)
        /\ \A i \in DOMAIN rows : rows'[i] = rows[i]
    BY <1>1
  <1>8. /\ TypeOK /\ RowHasFile /\ FileAccounted /\ RemovedForGood /\ Apart
    BY Split
  <1>9. rows' \in [DOMAIN rows' -> Row]
    BY <1>6, <1>7, <1>8 DEF TypeOK
  <1> HIDE DEF x, new, f
  <1>10. /\ pc' \in [Requests -> Steps] /\ req' \in [Requests -> Locals]
         /\ pc'[r] = "next" /\ req'[r] = x
         /\ \A q \in Requests \ {r} : pc'[q] = pc[q] /\ req'[q] = req[q]
    BY <1>3, <1>5, StepType DEF Steps
  <1>11. TypeOK'
    BY <1>1, <1>7, <1>8, <1>9, <1>10 DEF TypeOK
  <1>12. RowHasFile'
    BY <1>1, <1>7, <1>8 DEF RowHasFile, Visible
  <1>13. RemovedForGood'
    BY <1>6, <1>7, <1>8 DEF RemovedForGood
  <1>14. FileAccounted'
    BY <1>7, <1>8, <1>10 DEF FileAccounted, new
  <1>15. Apart'
    BY <1>8, <1>10 DEF Apart, Writing
  <1>16. /\ UploadFits(pc[r], req[r])' /\ DeletionFits(pc[r], req[r])'
         /\ ReaderFits(pc[r], req[r])'
    BY <1>10 DEF UploadFits, DeletionFits, ReaderFits
  <1>17. CountFits(pc[r], req[r])'
    <2>1. req[r].stored \subseteq DOMAIN rows
      BY Types DEF CountFits
    <2>2. ASSUME NEW kind \in {"image", "video"}
          PROVE  /\ TakenOf(x, kind) <= Limit(kind)
                 /\ Cardinality({id \in x.stored : rows'[id].kind = kind}) + 0
                       <= TakenOf(x, kind)
      <3>1. /\ TakenOf(req[r], kind) <= Limit(kind)
            /\ Cardinality(StoredOf(req[r], kind)) + (IF f.kind = kind THEN 1 ELSE 0)
                  <= TakenOf(req[r], kind)
        BY Types DEF CountFits, f
      <3>2. /\ Cardinality(StoredOf(req[r], kind)) \in Nat
            /\ IsFiniteSet(StoredOf(req[r], kind))
        BY Types, StoredFinite
      <3>3. TakenOf(x, kind) = TakenOf(req[r], kind) /\ TakenOf(x, kind) \in Nat
        BY <1>4, Types DEF TakenOf, Locals
      <3>4. CASE f.kind = kind
        <4>1. new \notin StoredOf(req[r], kind)
          BY <1>1, <2>1 DEF StoredOf
        <4>2. Cardinality(StoredOf(req[r], kind) \cup {new})
                 = Cardinality(StoredOf(req[r], kind)) + 1
          BY <3>2, <4>1, FS_AddElement
        <4>3. {id \in x.stored : rows'[id].kind = kind} = StoredOf(req[r], kind) \cup {new}
          BY <1>4, <1>6, <1>7, <2>1, <3>4 DEF StoredOf
        <4>4. Cardinality({id \in x.stored : rows'[id].kind = kind})
                 = Cardinality(StoredOf(req[r], kind)) + 1
          BY <4>2, <4>3
        <4>5. Cardinality(StoredOf(req[r], kind)) + 1 <= TakenOf(req[r], kind)
          BY <3>1, <3>4
        <4>6. QED
          BY <3>1, <3>2, <3>3, <4>4, <4>5
      <3>5. CASE f.kind # kind
        <4>1. {id \in x.stored : rows'[id].kind = kind} = StoredOf(req[r], kind)
          BY <1>4, <1>6, <1>7, <2>1, <3>5 DEF StoredOf
        <4>2. QED
          BY <3>1, <3>2, <3>3, <3>5, <4>1
      <3>6. QED
        BY <3>4, <3>5
    <2>3. x.stored \subseteq DOMAIN rows'
      BY <1>4, <1>7, <2>1
    <2>4. QED
      BY <1>10, <2>2, <2>3, CountsNext
  <1>18. ASSUME NEW q \in Requests
         PROVE  /\ UploadFits(pc[q], req[q])' /\ DeletionFits(pc[q], req[q])'
                /\ CountFits(pc[q], req[q])' /\ ReaderFits(pc[q], req[q])'
    <2>1. CASE q = r
      BY <1>16, <1>17, <2>1
    <2>2. CASE q # r
      <3>1. pc'[q] = pc[q] /\ req'[q] = req[q]
        BY <1>10, <2>2
      <3>2. /\ UploadFits(pc[q], req[q]) /\ DeletionFits(pc[q], req[q])
            /\ CountFits(pc[q], req[q]) /\ ReaderFits(pc[q], req[q])
        BY Split
      <3>3. Writing(q) => req[q].id # new
        BY <1>1, <1>8, <2>2 DEF Apart, new
      <3>4. UploadFits(pc[q], req[q])'
        BY <1>7, <3>1, <3>2, <3>3 DEF UploadFits, Writing
      <3>5. DeletionFits(pc[q], req[q])'
        BY <1>7, <3>1, <3>2 DEF DeletionFits
      <3>6. ReaderFits(pc[q], req[q])'
        BY <1>7, <3>1, <3>2 DEF ReaderFits
      <3>7. DOMAIN rows \subseteq DOMAIN rows'
        BY <1>7
      <3>8. CountFits(pc[q], req[q])'
        BY <1>7, <3>1, <3>2, <3>7, SameCountsNext
      <3>9. QED
        BY <3>4, <3>5, <3>6, <3>8
    <2>3. QED
      BY <2>1, <2>2
  <1>19. QED
    BY <1>11, <1>12, <1>13, <1>14, <1>15, <1>18, Join

LEMMA InsertRowStep ==
    ASSUME IInv, NEW r \in Requests, InsertRow(r) PROVE IInv'
  <1>1. pc[r] = "insert" /\ UNCHANGED <<files, thumbs, lastId, removed, leaked>>
    BY DEF InsertRow
  <1>2. CASE Goto(r, "rollback") /\ UNCHANGED <<rows, req>>
    <2>1. files' = files \cup {req[r].id}
      BY <1>1, Types DEF UploadFits
    <2>2. QED
      BY <1>1, <1>2, <2>1, KeepFile DEF Goto
  <1>3. CASE /\ rows' = [i \in DOMAIN rows \cup {req[r].id} |->
                            IF i = req[r].id THEN NewRow(req[r].file) ELSE rows[i]]
             /\ Goto(r, "next")
             /\ req' = [req EXCEPT ![r].stored = @ \cup {req[r].id},
                                   ![r].file = NoFile, ![r].id = 0]
    BY <1>1, <1>3, InsertRowDone
  <1>4. QED
    BY <1>2, <1>3 DEF InsertRow

-----------------------------------------------------------------------------
\* Deletions, pins and crashes.

LEMMA FreshFitsNext ==
    ASSUME NEW q, pc'[q] = "idle", req'[q] = Fresh
    PROVE  /\ UploadFits(pc[q], req[q])' /\ DeletionFits(pc[q], req[q])'
           /\ CountFits(pc[q], req[q])' /\ ReaderFits(pc[q], req[q])'
  <1>1. /\ UploadFits(pc[q], req[q])' /\ DeletionFits(pc[q], req[q])'
        /\ ReaderFits(pc[q], req[q])'
    BY DEF UploadFits, DeletionFits, ReaderFits
  <1>2. Fresh.stored = {} /\ Fresh.images = 0 /\ Fresh.videos = 0
    BY DEF Fresh
  <1>3. Cardinality({}) = 0
    BY FS_EmptySet
  <1>4. \A kind \in {"image", "video"} :
           /\ {id \in req'[q].stored : rows'[id].kind = kind} = {}
           /\ TakenOf(req'[q], kind) = 0 /\ Limit(kind) \in Nat
    BY <1>2, BoundAssumption DEF TakenOf, Limit
  <1>5. ASSUME NEW kind \in {"image", "video"}
        PROVE  /\ TakenOf(req'[q], kind) <= Limit(kind)
               /\ Cardinality({id \in req'[q].stored : rows'[id].kind = kind}) + 0
                     <= TakenOf(req'[q], kind)
    <2>1. Cardinality({id \in req'[q].stored : rows'[id].kind = kind}) = 0
      BY <1>3, <1>4
    <2>2. TakenOf(req'[q], kind) = 0 /\ Limit(kind) \in Nat
      BY <1>4
    <2>3. QED
      BY <2>1, <2>2
  <1>6. req'[q].stored \subseteq DOMAIN rows'
    BY <1>2
  <1>7. CountFits(pc[q], req[q])'
    BY <1>5, <1>6, CountsNext
  <1>8. QED
    BY <1>1, <1>7

\* Requests go on as they were or end, and rows change in what no count reads.
LEMMA QuietStep ==
    ASSUME IInv, pc' \in [Requests -> Steps], req' \in [Requests -> Locals],
           \A q \in Requests :
              \/ pc'[q] = pc[q] /\ req'[q] = req[q]
              \/ /\ pc'[q] = "idle" /\ req'[q] = Fresh
                 /\ pc[q] \in {"insert", "rollback"} => req[q].id \in leaked',
           DOMAIN rows' = DOMAIN rows, rows' \in [DOMAIN rows -> Row],
           \A id \in DOMAIN rows : /\ rows'[id].kind = rows[id].kind
                                   /\ rows'[id].hidden => rows[id].hidden \/ id \in removed,
           leaked \subseteq leaked', leaked' \subseteq 1..lastId,
           UNCHANGED <<files, thumbs, lastId, removed>>
    PROVE  IInv'
  <1>1. /\ TypeOK /\ RowHasFile /\ FileAccounted /\ RemovedForGood /\ Apart
    BY Split
  <1>2. TypeOK'
    BY <1>1 DEF TypeOK
  <1>3. RowHasFile'
    BY <1>1 DEF RowHasFile, RemovedForGood, Visible
  <1>4. RemovedForGood'
    BY <1>1 DEF RemovedForGood
  <1>5. FileAccounted'
    <2>1. SUFFICES ASSUME NEW id \in files \ DOMAIN rows, id \notin leaked'
                   PROVE  \E q \in Requests : req'[q].id = id /\ pc'[q] \in {"insert", "rollback"}
      BY DEF FileAccounted
    <2>2. PICK q \in Requests : req[q].id = id /\ pc[q] \in {"insert", "rollback"}
      BY <1>1, <2>1 DEF FileAccounted
    <2>3. pc'[q] = pc[q] /\ req'[q] = req[q]
      BY <2>1, <2>2
    <2>4. QED
      BY <2>2, <2>3
  <1>6. Apart'
    BY <1>1 DEF Apart, Writing
  <1>7. ASSUME NEW q \in Requests
        PROVE  /\ UploadFits(pc[q], req[q])' /\ DeletionFits(pc[q], req[q])'
               /\ CountFits(pc[q], req[q])' /\ ReaderFits(pc[q], req[q])'
    <2>1. CASE pc'[q] = "idle" /\ req'[q] = Fresh
      BY <2>1, FreshFitsNext
    <2>2. CASE pc'[q] = pc[q] /\ req'[q] = req[q]
      <3>1. /\ UploadFits(pc[q], req[q]) /\ DeletionFits(pc[q], req[q])
            /\ CountFits(pc[q], req[q]) /\ ReaderFits(pc[q], req[q])
        BY Split
      <3>2. UploadFits(pc[q], req[q])'
        BY <2>2, <3>1 DEF UploadFits
      <3>3. DeletionFits(pc[q], req[q])' /\ ReaderFits(pc[q], req[q])'
        BY <2>2, <3>1 DEF DeletionFits, ReaderFits
      <3>4. CountFits(pc[q], req[q])'
        BY <2>2, <3>1, SameCountsNext
      <3>5. QED
        BY <3>2, <3>3, <3>4
    <2>3. QED
      BY <2>1, <2>2
  <1>8. QED
    BY <1>2, <1>3, <1>4, <1>5, <1>6, <1>7, Join

LEMMA StutterStep ==
    ASSUME IInv, UNCHANGED vars PROVE IInv'
  <1>1. pc \in [Requests -> Steps] /\ req \in [Requests -> Locals] /\ leaked \subseteq 1..lastId
        /\ rows \in [DOMAIN rows -> Row]
    BY Split DEF TypeOK
  <1>2. QED
    BY <1>1, QuietStep DEF vars

LEMMA TogglePinStep ==
    ASSUME IInv, NEW id \in DOMAIN rows, TogglePin(id) PROVE IInv'
  <1>1. /\ pc \in [Requests -> Steps] /\ req \in [Requests -> Locals]
        /\ leaked \subseteq 1..lastId /\ rows \in [DOMAIN rows -> Row]
    BY Split DEF TypeOK
  <1>2. /\ DOMAIN rows' = DOMAIN rows
        /\ rows'[id] = [rows[id] EXCEPT !.pinned = ~@]
        /\ \A i \in DOMAIN rows \ {id} : rows'[i] = rows[i]
        /\ rows' = [i \in DOMAIN rows |-> rows'[i]]
    BY <1>1 DEF TogglePin
  <1>3. [rows[id] EXCEPT !.pinned = ~@] \in Row
    BY <1>1 DEF Row
  <1>4. /\ [rows[id] EXCEPT !.pinned = ~@].kind = rows[id].kind
        /\ [rows[id] EXCEPT !.pinned = ~@].hidden = rows[id].hidden
    BY <1>1 DEF Row
  <1>5. rows' \in [DOMAIN rows -> Row]
    BY <1>1, <1>2, <1>3
  <1>6. QED
    BY <1>1, <1>2, <1>4, <1>5, QuietStep DEF TogglePin

LEMMA HideRowStep ==
    ASSUME IInv, NEW r \in Requests, HideRow(r) PROVE IInv'
  <1>1. /\ pc \in [Requests -> Steps] /\ req \in [Requests -> Locals]
        /\ leaked \subseteq 1..lastId /\ rows \in [DOMAIN rows -> Row]
    BY Split DEF TypeOK
  <1>2. req[r].id \in DOMAIN rows /\ req[r].id \in removed
    BY Types DEF HideRow, DeletionFits
  <1>3. /\ pc' \in [Requests -> Steps] /\ req' \in [Requests -> Locals]
        /\ pc'[r] = "idle" /\ req'[r] = Fresh
        /\ \A q \in Requests \ {r} : pc'[q] = pc[q] /\ req'[q] = req[q]
    BY FreshFits, StepType DEF HideRow, Return, Goto, Steps
  <1>4. [rows[req[r].id] EXCEPT !.hidden = TRUE] \in Row
    BY <1>1, <1>2 DEF Row
  <1>5. [rows[req[r].id] EXCEPT !.hidden = TRUE].kind = rows[req[r].id].kind
    BY <1>1, <1>2 DEF Row
  <1>6. /\ DOMAIN rows' = DOMAIN rows /\ rows' \in [DOMAIN rows -> Row]
        /\ rows'[req[r].id].kind = rows[req[r].id].kind
        /\ \A i \in DOMAIN rows \ {req[r].id} : rows'[i] = rows[i]
    <2>1. CASE rows' = rows
      BY <1>1, <1>2, <2>1
    <2>2. CASE rows' = [rows EXCEPT ![req[r].id].hidden = TRUE]
      <3>1. /\ DOMAIN rows' = DOMAIN rows
            /\ rows'[req[r].id] = [rows[req[r].id] EXCEPT !.hidden = TRUE]
            /\ \A i \in DOMAIN rows \ {req[r].id} : rows'[i] = rows[i]
            /\ rows' = [i \in DOMAIN rows |-> rows'[i]]
        BY <1>1, <1>2, <2>2
      <3>2. QED
        BY <1>1, <1>4, <1>5, <3>1
    <2>3. QED
      BY <2>1, <2>2 DEF HideRow
  <1>7. UNCHANGED <<files, thumbs, lastId, removed, leaked>> /\ pc[r] = "hide"
    BY DEF HideRow
  <1>8. \A q \in Requests : \/ pc'[q] = pc[q] /\ req'[q] = req[q]
                            \/ /\ pc'[q] = "idle" /\ req'[q] = Fresh
                               /\ pc[q] \in {"insert", "rollback"} => req[q].id \in leaked'
    BY <1>3, <1>7
  <1>9. \A id \in DOMAIN rows : /\ rows'[id].kind = rows[id].kind
                                /\ rows'[id].hidden => rows[id].hidden \/ id \in removed
    BY <1>2, <1>6
  <1>10. QED
    BY <1>1, <1>3, <1>6, <1>7, <1>8, <1>9, QuietStep

LEMMA CrashStep ==
    ASSUME IInv, Crash PROVE IInv'
  <1>1. /\ rows \in [DOMAIN rows -> Row] /\ leaked \subseteq 1..lastId
        /\ \A q \in Requests : pc[q] \in {"insert", "rollback"} => req[q].id \in 1..lastId
    BY Split DEF TypeOK, UploadFits
  <1>2. pc' \in [Requests -> Steps] /\ req' \in [Requests -> Locals]
    BY FreshFits DEF Crash, Steps
  <1>3. leaked \subseteq leaked' /\ leaked' \subseteq 1..lastId
    BY <1>1 DEF Crash
  <1>4. \A q \in Requests : /\ pc'[q] = "idle" /\ req'[q] = Fresh
                            /\ pc[q] \in {"insert", "rollback"} => req[q].id \in leaked'
    BY DEF Crash
  <1>5. QED
    BY <1>1, <1>2, <1>3, <1>4, QuietStep DEF Crash, stores

\* The file goes, and only deletions of it notice.
LEMMA RemoveFileStep ==
    ASSUME IInv, NEW r \in Requests, RemoveFile(r) PROVE IInv'
  <1>1. CASE Return(r) /\ UNCHANGED <<files, removed>>
    BY <1>1, Types, ReturnStep DEF RemoveFile
  <1>2. CASE /\ req[r].id \in files /\ files' = files \ {req[r].id}
             /\ removed' = removed \cup {req[r].id}
             /\ Goto(r, "removeThumb") /\ UNCHANGED req
    <2> DEFINE id == req[r].id
    <2>1. /\ pc[r] = "remove" /\ id \in DOMAIN rows /\ req[r].row \in Row
          /\ files' = files \ {id} /\ removed' = removed \cup {id}
          /\ UNCHANGED <<rows, thumbs, lastId, req, leaked>>
      BY <1>2, Types DEF RemoveFile, DeletionFits
    <2>2. /\ pc' \in [Requests -> Steps] /\ pc'[r] = "removeThumb"
          /\ \A q \in Requests \ {r} : pc'[q] = pc[q]
      BY <1>2, Split DEF TypeOK, Goto, Steps
    <2>3. /\ TypeOK /\ RowHasFile /\ FileAccounted /\ RemovedForGood /\ Apart
          /\ \A q \in Requests : /\ UploadFits(pc[q], req[q]) /\ DeletionFits(pc[q], req[q])
                                 /\ CountFits(pc[q], req[q]) /\ ReaderFits(pc[q], req[q])
      BY Split
    <2>4. TypeOK'
      BY <2>1, <2>2, <2>3 DEF TypeOK
    <2>5. RowHasFile' /\ RemovedForGood'
      BY <2>1, <2>3 DEF RowHasFile, RemovedForGood, Visible
    <2>6. FileAccounted'
      BY <2>1, <2>2, <2>3 DEF FileAccounted
    <2>7. Apart'
      BY <2>1, <2>2, <2>3 DEF Apart, Writing
    <2>8. ASSUME NEW q \in Requests, q # r
          PROVE  UploadFits(pc[q], req[q])'
      <3>1. pc'[q] = pc[q] /\ req'[q] = req[q] /\ UploadFits(pc[q], req[q])
        BY <2>1, <2>2, <2>3, <2>8
      <3>2. QED
        BY <2>1, <3>1 DEF UploadFits
    <2>9. ASSUME NEW q \in Requests, q # r
          PROVE  CountFits(pc[q], req[q])'
      BY <2>1, <2>2, <2>3, <2>9, SameCountsNext
    <2>10. ASSUME NEW q \in Requests, q # r
           PROVE  DeletionFits(pc[q], req[q])' /\ ReaderFits(pc[q], req[q])'
      <3>1. /\ pc'[q] = pc[q] /\ req'[q] = req[q]
            /\ DeletionFits(pc[q], req[q]) /\ ReaderFits(pc[q], req[q])
        BY <2>1, <2>2, <2>3, <2>10
      <3>2. DeletionFits(pc[q], req[q])'
        BY <2>1, <3>1 DEF DeletionFits
      <3>3. ReaderFits(pc[q], req[q])'
        BY <2>1, <3>1 DEF ReaderFits
      <3>4. QED
        BY <3>2, <3>3
    <2>11. /\ UploadFits(pc[r], req[r])' /\ DeletionFits(pc[r], req[r])'
           /\ ReaderFits(pc[r], req[r])'
      BY <2>1, <2>2 DEF UploadFits, DeletionFits, ReaderFits
    <2>12. CountFits(pc[r], req[r])'
      <3>1. CountFits("removeThumb", req[r])
        BY <2>1, Types, SameCounts
      <3>2. QED
        BY <2>1, <2>2, <3>1 DEF CountFits, StoredOf, TakenOf
    <2>13. \A q \in Requests : /\ UploadFits(pc[q], req[q])' /\ DeletionFits(pc[q], req[q])'
                               /\ CountFits(pc[q], req[q])' /\ ReaderFits(pc[q], req[q])'
      BY <2>8, <2>9, <2>10, <2>11, <2>12
    <2>14. QED
      BY <2>4, <2>5, <2>6, <2>7, <2>13, Join
  <1>3. QED
    BY <1>1, <1>2 DEF RemoveFile

-----------------------------------------------------------------------------
\* The inductive invariant.

LEMMA InitIInv == Init => IInv
  <1> SUFFICES ASSUME Init PROVE IInv
    OBVIOUS
  <1>1. TypeOK
    BY FreshFits, BoundAssumption DEF Init, TypeOK, Steps
  <1>2. RowHasFile /\ FileAccounted /\ RemovedForGood /\ Apart
    BY DEF Init, RowHasFile, FileAccounted, RemovedForGood, Apart, Visible, Writing
  <1>3. \A q \in Requests : pc[q] = "idle" /\ req[q] = Fresh
    BY DEF Init
  <1>4. QED
    BY <1>1, <1>2, <1>3, FreshFits, Split

LEMMA StepIInv == IInv /\ [Next]_vars => IInv'
  <1>1. ASSUME IInv, NEW r \in Requests, UploadStep(r) PROVE IInv'
    <2>1. ASSUME NEW batch \in Batches, UploadArrives(r, batch) PROVE IInv'
      <3>1. batch \in Seq(Upload)
        BY <2>1, BoundAssumption DEF Batches
      <3>2. QED
        BY <1>1, <2>1, <3>1, UploadArrivesStep
    <2>2. QED
      BY <1>1, <2>1, ReadManifestStep, NextFileStep, PrepareStep, SaveFileStep,
         InsertRowStep, RollBackStep, RespondStep DEF UploadStep
  <1>2. ASSUME IInv, NEW r \in Requests, DeleteStep(r) PROVE IInv'
    BY <1>2, DeleteArrivesStep, LookupRowStep, OpenFileStep, RemoveFileStep,
       RemoveThumbnailStep, HideRowStep DEF DeleteStep
  <1>3. ASSUME IInv, NEW r \in Requests, ReadStep(r) PROVE IInv'
    <2>1. ASSUME NEW id \in 1..lastId PROVE {id} \in SUBSET Ids
      BY <1>3, <2>1, Types, BoundAssumption DEF Ids
    <2>2. QED
      BY <1>3, <2>1, ReadArrivesStep, SelectRowsStep, ReadFileStep, AnswerStep DEF ReadStep
  <1>4. QED
    BY <1>1, <1>2, <1>3, TogglePinStep, CrashStep, StutterStep DEF Next

\* The inductive invariant: uploads have ids of their own, deletions remove the
\* file before they hide the row, removed files never come back (post.go, delete.go).
THEOREM Inductive == Spec => []IInv
  BY InitIInv, StepIInv, PTL DEF Spec

\* The types, for any constants: among others, every id in a table, a file name
\* or a request was generated before.
THEOREM Typing == Spec => []TypeOK
  <1>1. IInv => TypeOK
    BY DEF IInv
  <1>2. QED
    BY <1>1, Inductive, PTL

\* A visible row has its file unless a deletion removed it, a hidden row has none.
THEOREM StoresHold == Spec => []StoresAgree
  <1>1. IInv => StoresAgree
    BY DEF IInv, RemovedForGood, HiddenIsGone, StoresAgree
  <1>2. QED
    BY <1>1, Inductive, PTL

\* A file without a row is being uploaded, or was left by an error or a crash.
THEOREM FilesAccounted == Spec => []FileAccounted
  <1>1. IInv => FileAccounted
    BY DEF IInv
  <1>2. QED
    BY <1>1, Inductive, PTL

\* No request stores more files of a kind than it may.
THEOREM QuotaHolds == Spec => []QuotaKept
  <1>1. IInv => QuotaKept
    <2>1. SUFFICES ASSUME IInv, NEW r \in Requests, NEW kind \in {"image", "video"}
                   PROVE  Cardinality(Stored(r, kind)) <= Limit(kind)
      BY DEF QuotaKept
    <2>2. Stored(r, kind) = StoredOf(req[r], kind)
      BY DEF Stored, StoredOf
    <2>3. Cardinality(StoredOf(req[r], kind)) \in Nat
      BY <2>1, Types, StoredFinite
    <2>4. TakenOf(req[r], kind) \in Nat /\ Limit(kind) \in Nat
      BY <2>1, Types, BoundAssumption DEF TakenOf, Limit, Locals
    <2>5. /\ TakenOf(req[r], kind) <= Limit(kind)
          /\ \E n \in {0, 1} : Cardinality(StoredOf(req[r], kind)) + n <= TakenOf(req[r], kind)
      BY <2>1, Types DEF CountFits
    <2>6. QED
      BY <2>2, <2>3, <2>4, <2>5
  <1>2. QED
    BY <1>1, Inductive, PTL

\* Answers show what could be seen when they were asked for.
THEOREM AnswersTrue == Spec => []AnswerTrue
  <1>1. IInv => AnswerTrue
    BY DEF IInv, ReadersKnow, AnswerTrue
  <1>2. QED
    BY <1>1, Inductive, PTL
-----------------------------------------------------------------------------
\* The store implements the library.  Two stages of an upload matter to the
\* status of its id.
Unwritten == {"prepare", "save"}
Unlisted  == {"insert", "rollback"}

LEMMA StatusParts ==
    ASSUME NEW id
    PROVE  /\ id \in DOMAIN rows /\ rows[id].hidden => StatusOf(id) = "hidden"
           /\ id \in Visible /\ id \in files => StatusOf(id) = "shown"
           /\ id \in Visible /\ id \notin files => StatusOf(id) = "broken"
           /\ id \in files \ DOMAIN rows =>
                 StatusOf(id) = IF HeldAt(id, Unlisted) THEN "written" ELSE "stray"
           /\ id \notin files /\ id \notin DOMAIN rows =>
                 StatusOf(id) = IF id > lastId \/ HeldAt(id, Unwritten) THEN "new" ELSE "void"
  BY DEF StatusOf, Visible, Unwritten, Unlisted

\* The same of the next state.
LEMMA StatusPartsNext ==
    ASSUME NEW id
    PROVE  /\ id \in DOMAIN rows' /\ rows'[id].hidden => StatusOf(id)' = "hidden"
           /\ id \in DOMAIN rows' /\ ~rows'[id].hidden /\ id \in files' =>
                 StatusOf(id)' = "shown"
           /\ id \in DOMAIN rows' /\ ~rows'[id].hidden /\ id \notin files' =>
                 StatusOf(id)' = "broken"
           /\ id \in files' \ DOMAIN rows' =>
                 StatusOf(id)' = IF HeldAt(id, Unlisted)' THEN "written" ELSE "stray"
           /\ id \notin files' /\ id \notin DOMAIN rows' =>
                 StatusOf(id)' = IF id > lastId' \/ HeldAt(id, Unwritten)' THEN "new" ELSE "void"
  BY DEF StatusOf, Unwritten, Unlisted

\* An id whose row, file and upload stay as they are keeps its status.
Untouched(id) ==
    /\ id \in DOMAIN rows' <=> id \in DOMAIN rows
    /\ id \in DOMAIN rows => rows'[id].hidden = rows[id].hidden
    /\ id \in files' <=> id \in files
    /\ id > lastId' <=> id > lastId
    /\ HeldAt(id, Unwritten)' <=> HeldAt(id, Unwritten)
    /\ HeldAt(id, Unlisted)' <=> HeldAt(id, Unlisted)

LEMMA StatusKept ==
    ASSUME NEW id, Untouched(id)
    PROVE  StatusOf(id)' = StatusOf(id)
  BY DEF Untouched, StatusOf, Unwritten, Unlisted

LEMMA LibraryStutter ==
    ASSUME \A id \in Ids : StatusOf(id)' = StatusOf(id)
    PROVE  UNCHANGED Status
  BY DEF Status

LEMMA LibraryProceeds ==
    ASSUME NEW id \in Ids, StatusOf(id)' \in Library!Follow[StatusOf(id)],
           \A i \in Ids \ {id} : StatusOf(i)' = StatusOf(i)
    PROVE  Library!LibNext
  <1>1. Status[id] = StatusOf(id) /\ Status'[id] = StatusOf(id)'
    BY DEF Status
  <1>2. Status' = [Status EXCEPT ![id] = Status'[id]]
    BY <1>1 DEF Status
  <1>3. QED
    BY <1>1, <1>2 DEF Library!Proceeds, Library!LibNext

\* Whom a step of r concerns.
LEMMA HeldFrame ==
    ASSUME IInv, NEW r \in Requests, NEW l, NEW x,
           pc' = [pc EXCEPT ![r] = l], req' = [req EXCEPT ![r] = x],
           NEW id, NEW S, pc[r] \in S /\ req[r].id = id <=> l \in S /\ x.id = id
    PROVE  HeldAt(id, S)' <=> HeldAt(id, S)
  <1>1. pc \in [Requests -> Steps] /\ req \in [Requests -> Locals]
    BY DEF IInv, TypeOK
  <1>2. pc'[r] = l /\ req'[r] = x /\ \A q \in Requests \ {r} : pc'[q] = pc[q] /\ req'[q] = req[q]
    BY <1>1
  <1>3. QED
    BY <1>2 DEF HeldAt

LEMMA HeldNow ==
    ASSUME IInv, NEW r \in Requests, NEW l, NEW x,
           pc' = [pc EXCEPT ![r] = l], req' = [req EXCEPT ![r] = x], NEW S
    PROVE  /\ pc'[r] = l /\ req'[r] = x
           /\ l \in S => HeldAt(x.id, S)'
  <1>1. pc \in [Requests -> Steps] /\ req \in [Requests -> Locals]
    BY DEF IInv, TypeOK
  <1>2. pc'[r] = l /\ req'[r] = x
    BY <1>1
  <1>3. QED
    BY <1>2 DEF HeldAt

\* An upload that lets go of its id leaves it to nobody.
LEMMA HeldNoMore ==
    ASSUME IInv, NEW r \in Requests, NEW l, NEW x, Writing(r),
           pc' = [pc EXCEPT ![r] = l], req' = [req EXCEPT ![r] = x],
           NEW id, id = req[r].id, NEW S \in {Unwritten, Unlisted},
           l \notin S
    PROVE  ~HeldAt(id, S)'
  <1>1. pc \in [Requests -> Steps] /\ req \in [Requests -> Locals] /\ Apart
    BY Split DEF TypeOK
  <1>2. pc'[r] = l /\ \A q \in Requests \ {r} : pc'[q] = pc[q] /\ req'[q] = req[q]
    BY <1>1
  <1>3. \A q \in Requests \ {r} : ~(pc[q] \in S /\ req[q].id = id)
    BY <1>1 DEF Apart, Writing, Unwritten, Unlisted
  <1>4. QED
    BY <1>2, <1>3 DEF HeldAt

\* A request that holds no id before or after, and leaves the stores alone.
LEMMA IdleToLibrary ==
    ASSUME IInv, NEW r \in Requests, NEW l, NEW x,
           pc' = [pc EXCEPT ![r] = l], req' = [req EXCEPT ![r] = x],
           l \notin Unwritten \cup Unlisted, ~Writing(r),
           UNCHANGED <<rows, files, lastId>>
    PROVE  UNCHANGED Status
  <1>1. ASSUME NEW id \in Ids
        PROVE  StatusOf(id)' = StatusOf(id)
    <2>1. /\ HeldAt(id, Unwritten)' <=> HeldAt(id, Unwritten)
          /\ HeldAt(id, Unlisted)' <=> HeldAt(id, Unlisted)
      <3>1. /\ pc[r] \notin Unwritten /\ l \notin Unwritten
            /\ pc[r] \notin Unlisted /\ l \notin Unlisted
        BY DEF Writing, Unwritten, Unlisted
      <3>2. QED
        BY <3>1, HeldFrame
    <2>2. QED
      BY <2>1, StatusKept DEF Untouched
  <1>2. QED
    BY <1>1, LibraryStutter

\* An upload at work that leaves rows and files to the id it holds.
LEMMA UploadTouches ==
    ASSUME IInv, NEW r \in Requests, NEW l, NEW x, Writing(r),
           pc' = [pc EXCEPT ![r] = l], req' = [req EXCEPT ![r] = x],
           l \in Unwritten \cup Unlisted => x.id = req[r].id, UNCHANGED lastId,
           NEW id \in Ids, id # req[r].id,
           id \in DOMAIN rows' <=> id \in DOMAIN rows,
           id \in DOMAIN rows => rows'[id] = rows[id],
           id \in files' <=> id \in files
    PROVE  StatusOf(id)' = StatusOf(id)
  <1>1. /\ HeldAt(id, Unwritten)' <=> HeldAt(id, Unwritten)
        /\ HeldAt(id, Unlisted)' <=> HeldAt(id, Unlisted)
    BY HeldFrame
  <1>2. QED
    BY <1>1, StatusKept DEF Untouched

LEMMA HeldId ==
    ASSUME IInv, NEW r \in Requests, Writing(r)
    PROVE  /\ req[r].id \in Ids /\ req[r].id \notin DOMAIN rows /\ ~(req[r].id > lastId)
           /\ pc[r] \in Unwritten => StatusOf(req[r].id) = "new" /\ req[r].id \notin files
           /\ pc[r] = "insert" => req[r].id \in files
           /\ pc[r] \in Unlisted =>
                 StatusOf(req[r].id) = IF req[r].id \in files THEN "written" ELSE "void"
  <1>1. UploadFits(pc[r], req[r]) /\ lastId \in 0..MaxIds /\ Apart
    BY Types, Split
  <1>2. /\ req[r].id \in (1..lastId) \ (DOMAIN rows \cup removed)
        /\ pc[r] \in {"prepare", "save"} => req[r].id \notin files
        /\ pc[r] = "insert" => req[r].id \in files
    BY <1>1 DEF UploadFits, Writing
  <1>3. req[r].id \in Ids /\ ~(req[r].id > lastId)
    BY <1>1, <1>2, BoundAssumption DEF Ids
  <1>4. /\ pc[r] \in Unwritten => HeldAt(req[r].id, Unwritten)
        /\ pc[r] \in Unlisted => HeldAt(req[r].id, Unlisted)
        /\ pc[r] \in Unlisted => ~HeldAt(req[r].id, Unwritten)
    BY <1>1 DEF HeldAt, Apart, Writing, Unwritten, Unlisted
  <1>5. QED
    BY <1>2, <1>3, <1>4, StatusParts DEF Unwritten, Unlisted

LEMMA Life ==
    /\ Library!Follow["new"] = {"written", "void", "stray"}
    /\ Library!Follow["written"] = {"shown", "void", "stray"}
    /\ Library!Follow["shown"] = {"broken"}
    /\ Library!Follow["broken"] = {"hidden"}
  BY DEF Library!Follow

\* A step of one request changes its own place and locals only.
LEMMA OneRequest ==
    ASSUME IInv, NEW r \in Requests, UploadStep(r) \/ DeleteStep(r) \/ ReadStep(r)
    PROVE  /\ pc' = [pc EXCEPT ![r] = pc'[r]]
           /\ req' = [req EXCEPT ![r] = req'[r]]
  <1>1. pc \in [Requests -> Steps] /\ req \in [Requests -> Locals]
    BY DEF IInv, TypeOK
  <1>2. CASE UploadStep(r)
    BY <1>1, <1>2 DEF UploadStep, UploadArrives, ReadManifest, NextFile, Prepare, SaveFile,
                      InsertRow, RollBack, Respond, FileFails, Return, Goto
  <1>3. CASE DeleteStep(r)
    BY <1>1, <1>3 DEF DeleteStep, DeleteArrives, LookupRow, OpenFile, RemoveFile,
                      RemoveThumbnail, HideRow, Return, Goto
  <1>4. CASE ReadStep(r)
    BY <1>1, <1>4 DEF ReadStep, ReadArrives, SelectRows, ReadFile, Answer, Return, Goto
  <1>5. QED
    BY <1>2, <1>3, <1>4

\* The file in hand fails: its id becomes void, or stray if its file stays.
LEMMA FailsToLibrary ==
    ASSUME IInv, NEW r \in Requests, Writing(r), UploadStep(r), FileFails(r),
           UNCHANGED <<rows, lastId>>,
           files' \in {files, files \cup {req[r].id}, files \ {req[r].id}},
           pc[r] \in Unlisted => files' \subseteq files
    PROVE  Library!LibNext \/ UNCHANGED Status
  <1> SUFFICES ASSUME NEW id, id = req[r].id
               PROVE  Library!LibNext \/ UNCHANGED Status
    OBVIOUS
  <1>1. /\ pc' = [pc EXCEPT ![r] = pc'[r]] /\ req' = [req EXCEPT ![r] = req'[r]]
        /\ pc'[r] = "next"
    BY OneRequest DEF FileFails, Goto, IInv, TypeOK
  <1>2. ~HeldAt(id, Unwritten)' /\ ~HeldAt(id, Unlisted)'
    <2>1. pc'[r] \notin Unwritten /\ pc'[r] \notin Unlisted
      BY <1>1 DEF Unwritten, Unlisted
    <2>2. QED
      BY <1>1, <2>1, HeldNoMore
  <1>3. /\ id \in Ids /\ id \notin DOMAIN rows /\ ~(id > lastId)
        /\ \/ StatusOf(id) \in {"new", "written"}
           \/ StatusOf(id) = "void" /\ id \notin files /\ pc[r] \in Unlisted
    <2>1. pc[r] \in Unwritten \/ pc[r] \in Unlisted
      BY DEF Writing, Unwritten, Unlisted
    <2>2. QED
      BY <2>1, HeldId
  <1>4. /\ id \in files' => StatusOf(id)' = "stray"
        /\ id \notin files' => StatusOf(id)' = "void"
    BY <1>2, <1>3, StatusPartsNext
  <1>5. \A i \in Ids \ {id} : StatusOf(i)' = StatusOf(i)
    <2>1. pc'[r] \notin Unwritten \cup Unlisted
      BY <1>1 DEF Unwritten, Unlisted
    <2>2. QED
      BY <1>1, <2>1, UploadTouches
  <1>6. CASE StatusOf(id) \in {"new", "written"}
    BY <1>3, <1>4, <1>5, <1>6, Life, LibraryProceeds
  <1>7. CASE StatusOf(id) = "void" /\ id \notin files /\ pc[r] \in Unlisted
    <2>1. CASE id \in files'
      BY <1>7, <2>1
    <2>2. CASE id \notin files'
      BY <1>4, <1>5, <1>7, <2>2, LibraryStutter
    <2>3. QED
      BY <2>1, <2>2
  <1>8. QED
    BY <1>3, <1>6, <1>7
\* What each step of an upload does to the life of its id.
LEMMA NextFileToLibrary ==
    ASSUME IInv, NEW r \in Requests, NextFile(r)
    PROVE  UNCHANGED Status
  <1>1. /\ pc' = [pc EXCEPT ![r] = pc'[r]] /\ req' = [req EXCEPT ![r] = req'[r]]
        /\ pc[r] = "next" /\ ~Writing(r) /\ UNCHANGED <<rows, files>>
    BY OneRequest DEF UploadStep, NextFile, Writing, stores
  <1>2. CASE UNCHANGED <<pc, lastId>>
    BY <1>1, <1>2, IdleToLibrary DEF Unwritten, Unlisted
  <1>3. CASE lastId' = lastId + 1
    <2>1. /\ lastId' = lastId + 1 /\ pc'[r] = "prepare" /\ req'[r].id = lastId + 1
      <3>1. lastId' # lastId
        BY <1>3, Types, BoundAssumption DEF Ids
      <3>2. Goto(r, "prepare")
        BY <3>1 DEF NextFile
      <3>3. pc'[r] = "prepare"
        BY <3>2 DEF Goto, IInv, TypeOK
      <3>4. PICK f : req' = [req EXCEPT ![r].todo = Tail(@), ![r].file = f,
                                        ![r].id = lastId + 1,
                                        ![r].skipped = @ + TimesSeen(r, f.hash),
                                        ![r].hashes = Append(@, f.hash)]
        BY <3>1, Zenon DEF NextFile
      <3>5. /\ req \in [Requests -> Locals] /\ req[r] \in Locals
        BY Types DEF TypeOK, IInv
      <3>6. req'[r].id = lastId + 1
        BY <3>4, <3>5 DEF Locals
      <3>7. QED
        BY <1>3, <3>3, <3>6
    <2>2. ASSUME NEW id \in Ids, id # lastId + 1
          PROVE  StatusOf(id)' = StatusOf(id)
      <3>1. id > lastId' <=> id > lastId
        BY <2>1, <2>2, Types, BoundAssumption DEF Ids
      <3>2. /\ HeldAt(id, Unwritten)' <=> HeldAt(id, Unwritten)
            /\ HeldAt(id, Unlisted)' <=> HeldAt(id, Unlisted)
        <4>1. /\ pc[r] \notin Unwritten /\ pc[r] \notin Unlisted
              /\ req'[r].id # id
          BY <1>1, <2>1, <2>2 DEF Unwritten, Unlisted
        <4>2. QED
          BY <1>1, <4>1, HeldFrame
      <3>3. QED
        BY <1>1, <3>1, <3>2, StatusKept DEF Untouched
    <2>3. ASSUME NEW id \in Ids, id = lastId + 1
          PROVE  StatusOf(id)' = StatusOf(id)
      <3>1. /\ id \notin DOMAIN rows /\ id \notin files /\ id > lastId
        BY <2>3, Types DEF IInv, TypeOK
      <3>2. HeldAt(id, Unwritten)'
        BY <1>1, <2>1, <2>3, HeldNow DEF Unwritten
      <3>3. QED
        BY <1>1, <3>1, <3>2, StatusParts, StatusPartsNext
    <2>4. QED
      BY <2>2, <2>3, LibraryStutter
  <1>4. QED
    BY <1>1, <1>2, <1>3 DEF NextFile

LEMMA PrepareToLibrary ==
    ASSUME IInv, NEW r \in Requests, Prepare(r)
    PROVE  Library!LibNext \/ UNCHANGED Status
  <1>1. /\ pc' = [pc EXCEPT ![r] = pc'[r]] /\ req' = [req EXCEPT ![r] = req'[r]]
        /\ pc[r] = "prepare" /\ Writing(r) /\ UNCHANGED <<rows, files, lastId>>
        /\ UploadStep(r)
    BY OneRequest DEF UploadStep, Prepare, Writing
  <1>2. CASE FileFails(r)
    BY <1>1, <1>2, FailsToLibrary
  <1>3. CASE Goto(r, "save") /\ req'[r].id = req[r].id
    <2> SUFFICES ASSUME NEW id, id = req[r].id
                 PROVE  UNCHANGED Status
      OBVIOUS
    <2>1. pc'[r] = "save" /\ "save" \in Unwritten
      BY <1>3 DEF Goto, IInv, TypeOK, Unwritten
    <2>2. StatusOf(id)' = StatusOf(id)
      <3>1. StatusOf(id) = "new" /\ id \notin files /\ id \notin DOMAIN rows
        BY <1>1, HeldId DEF Unwritten
      <3>2. HeldAt(id, Unwritten)'
        BY <1>1, <1>3, <2>1, HeldNow
      <3>3. QED
        BY <1>1, <3>1, <3>2, StatusPartsNext
    <2>3. \A i \in Ids \ {id} : StatusOf(i)' = StatusOf(i)
      BY <1>1, <1>3, UploadTouches
    <2>4. QED
      BY <2>2, <2>3, LibraryStutter
  <1>4. ASSUME Goto(r, "save"), req' = [req EXCEPT ![r].images = @ + 1]
        PROVE  req'[r].id = req[r].id
    BY <1>4, Types DEF Locals
  <1>5. ASSUME Goto(r, "save"), req' = [req EXCEPT ![r].videos = @ + 1]
        PROVE  req'[r].id = req[r].id
    BY <1>5, Types DEF Locals
  <1>6. \/ FileFails(r)
        \/ Goto(r, "save") /\ req' = [req EXCEPT ![r].images = @ + 1]
        \/ Goto(r, "save") /\ req' = [req EXCEPT ![r].videos = @ + 1]
    BY Zenon DEF Prepare
  <1>7. QED
    BY <1>2, <1>3, <1>4, <1>5, <1>6

LEMMA SaveFileToLibrary ==
    ASSUME IInv, NEW r \in Requests, SaveFile(r)
    PROVE  Library!LibNext \/ UNCHANGED Status
  <1>1. /\ pc' = [pc EXCEPT ![r] = pc'[r]] /\ req' = [req EXCEPT ![r] = req'[r]]
        /\ pc[r] = "save" /\ Writing(r) /\ UNCHANGED <<rows, lastId>> /\ UploadStep(r)
    BY OneRequest DEF UploadStep, SaveFile, Writing
  <1>2. CASE FileFails(r)
    BY <1>1, <1>2, FailsToLibrary DEF SaveFile, Unlisted
  <1>3. CASE files' = files \cup {req[r].id} /\ Goto(r, "insert") /\ UNCHANGED req
    <2> SUFFICES ASSUME NEW id, id = req[r].id
                 PROVE  Library!LibNext
      OBVIOUS
    <2>1. pc'[r] = "insert" /\ "insert" \in Unlisted
      BY <1>3 DEF Goto, IInv, TypeOK, Unlisted
    <2>2. StatusOf(id) = "new" /\ id \notin DOMAIN rows /\ id \in Ids
      BY <1>1, HeldId DEF Unwritten
    <2>3. HeldAt(id, Unlisted)'
      BY <1>1, <1>3, <2>1, HeldNow
    <2>4. StatusOf(id)' = "written"
      BY <1>1, <1>3, <2>2, <2>3, StatusPartsNext
    <2>5. \A i \in Ids \ {id} : StatusOf(i)' = StatusOf(i)
      BY <1>1, <1>3, UploadTouches
    <2>6. QED
      BY <2>2, <2>4, <2>5, Life, LibraryProceeds
  <1>4. QED
    BY <1>2, <1>3 DEF SaveFile

LEMMA InsertRowToLibrary ==
    ASSUME IInv, NEW r \in Requests, InsertRow(r)
    PROVE  Library!LibNext \/ UNCHANGED Status
  <1> SUFFICES ASSUME NEW id, id = req[r].id
               PROVE  Library!LibNext \/ UNCHANGED Status
    OBVIOUS
  <1>1. /\ pc' = [pc EXCEPT ![r] = pc'[r]] /\ req' = [req EXCEPT ![r] = req'[r]]
        /\ pc[r] = "insert" /\ Writing(r) /\ UNCHANGED <<files, lastId>>
    BY OneRequest DEF UploadStep, InsertRow, Writing
  <1>2. /\ id \in Ids /\ id \notin DOMAIN rows /\ id \in files
        /\ StatusOf(id) = "written"
    BY <1>1, HeldId DEF Unlisted
  <1>3. CASE Goto(r, "rollback") /\ UNCHANGED <<rows, req>>
    <2>1. pc'[r] = "rollback" /\ "rollback" \in Unlisted
      BY <1>3 DEF Goto, IInv, TypeOK, Unlisted
    <2>2. HeldAt(id, Unlisted)'
      BY <1>1, <1>3, <2>1, HeldNow
    <2>3. StatusOf(id)' = StatusOf(id)
      BY <1>1, <1>2, <1>3, <2>2, StatusPartsNext
    <2>4. \A i \in Ids \ {id} : StatusOf(i)' = StatusOf(i)
      BY <1>1, <1>3, UploadTouches
    <2>5. QED
      BY <2>3, <2>4, LibraryStutter
  <1>4. CASE /\ rows' = [i \in DOMAIN rows \cup {id} |->
                            IF i = id THEN NewRow(req[r].file) ELSE rows[i]]
             /\ Goto(r, "next")
    <2>1. pc'[r] = "next" /\ "next" \notin Unwritten \cup Unlisted
      BY <1>4 DEF Goto, IInv, TypeOK, Unwritten, Unlisted
    <2>2. id \in DOMAIN rows' /\ ~rows'[id].hidden
      BY <1>4 DEF NewRow
    <2>3. StatusOf(id)' = "shown"
      BY <1>1, <1>2, <2>2, StatusPartsNext
    <2>4. ASSUME NEW i \in Ids, i # id
          PROVE  StatusOf(i)' = StatusOf(i)
      <3>1. i \in DOMAIN rows' <=> i \in DOMAIN rows
        BY <1>4, <2>4
      <3>2. i \in DOMAIN rows => rows'[i] = rows[i]
        BY <1>4, <2>4
      <3>3. i \in files' <=> i \in files
        BY <1>1
      <3>4. QED
        BY <1>1, <2>1, <2>4, <3>1, <3>2, <3>3, UploadTouches
    <2>5. QED
      BY <1>2, <2>3, <2>4, Life, LibraryProceeds
  <1>5. QED
    BY <1>3, <1>4 DEF InsertRow

LEMMA RollBackToLibrary ==
    ASSUME IInv, NEW r \in Requests, RollBack(r)
    PROVE  Library!LibNext \/ UNCHANGED Status
  <1>1. /\ pc[r] = "rollback" /\ Writing(r) /\ UNCHANGED <<rows, lastId>> /\ UploadStep(r)
        /\ FileFails(r) /\ files' \in {files, files \ {req[r].id}}
    BY DEF UploadStep, RollBack, Writing
  <1>2. QED
    BY <1>1, FailsToLibrary

LEMMA UploadToLibrary ==
    ASSUME IInv, NEW r \in Requests, UploadStep(r)
    PROVE  Library!LibNext \/ UNCHANGED Status
  <1>1. CASE (\E batch \in Batches : UploadArrives(r, batch)) \/ ReadManifest(r) \/ Respond(r)
    <2>1. /\ pc' = [pc EXCEPT ![r] = pc'[r]] /\ req' = [req EXCEPT ![r] = req'[r]]
      BY OneRequest
    <2>2. /\ ~Writing(r) /\ pc'[r] \in {"manifest", "next", "idle"}
          /\ UNCHANGED <<rows, files, lastId>>
      BY <1>1 DEF UploadArrives, ReadManifest, Respond, Return, Goto, Writing, stores,
                  IInv, TypeOK
    <2>3. QED
      BY <2>1, <2>2, IdleToLibrary DEF Unwritten, Unlisted
  <1>2. QED
    BY <1>1, NextFileToLibrary, PrepareToLibrary, SaveFileToLibrary, InsertRowToLibrary,
       RollBackToLibrary DEF UploadStep
\* Deletions, readings, pins and crashes.
LEMMA DeletionToLibrary ==
    ASSUME IInv, NEW r \in Requests, DeleteStep(r)
    PROVE  Library!LibNext \/ UNCHANGED Status
  <1> SUFFICES ASSUME NEW id, id = req[r].id
               PROVE  Library!LibNext \/ UNCHANGED Status
    OBVIOUS
  <1>1. /\ pc' = [pc EXCEPT ![r] = pc'[r]] /\ req' = [req EXCEPT ![r] = req'[r]]
    BY OneRequest
  <1>2. /\ ~Writing(r) /\ pc[r] \notin Unwritten /\ pc[r] \notin Unlisted
        /\ pc'[r] \notin Unwritten /\ pc'[r] \notin Unlisted /\ UNCHANGED lastId
    BY DEF DeleteStep, DeleteArrives, LookupRow, OpenFile, RemoveFile, RemoveThumbnail, HideRow,
           Return, Goto, Writing, Unwritten, Unlisted, IInv, TypeOK
  <1>3. CASE UNCHANGED <<rows, files>>
    BY <1>1, <1>2, <1>3, IdleToLibrary
  <1>4. ASSUME NEW i \in Ids,
               i \in DOMAIN rows' <=> i \in DOMAIN rows,
               i \in DOMAIN rows => rows'[i].hidden = rows[i].hidden,
               i \in files' <=> i \in files
        PROVE  StatusOf(i)' = StatusOf(i)
    <2>1. /\ HeldAt(i, Unwritten)' <=> HeldAt(i, Unwritten)
          /\ HeldAt(i, Unlisted)' <=> HeldAt(i, Unlisted)
      BY <1>1, <1>2, HeldFrame
    <2>2. QED
      BY <1>2, <1>4, <2>1, StatusKept DEF Untouched
  <1>5. pc[r] \in {"remove", "hide"} => id \in DOMAIN rows /\ id \in Ids
    <2>1. DeletionFits(pc[r], req[r]) /\ lastId \in 0..MaxIds /\ DOMAIN rows \subseteq 1..lastId
      BY Types DEF IInv, TypeOK
    <2>2. QED
      BY <2>1, BoundAssumption DEF DeletionFits, Ids
  <1>6. CASE RemoveFile(r) /\ id \in files /\ files' = files \ {id}
    <2>1. id \in DOMAIN rows /\ id \in Ids /\ UNCHANGED rows
      BY <1>5, <1>6 DEF RemoveFile
    <2>2. ~rows[id].hidden
      BY <1>6, <2>1 DEF IInv, RemovedForGood
    <2>3. StatusOf(id) = "shown" /\ StatusOf(id)' = "broken"
      BY <1>6, <2>1, <2>2, StatusParts, StatusPartsNext DEF Visible
    <2>4. \A i \in Ids \ {id} : StatusOf(i)' = StatusOf(i)
      BY <1>4, <1>6, <2>1
    <2>5. QED
      BY <2>1, <2>3, <2>4, Life, LibraryProceeds
  <1>7. CASE HideRow(r) /\ rows' = [rows EXCEPT ![id].hidden = TRUE]
    <2>1. id \in DOMAIN rows /\ id \in Ids /\ UNCHANGED files /\ id \in removed
      <3>1. pc[r] = "hide" /\ UNCHANGED files
        BY <1>7 DEF HideRow
      <3>2. DeletionFits(pc[r], req[r])
        BY Types
      <3>3. QED
        BY <1>5, <3>1, <3>2 DEF DeletionFits
    <2>2. rows \in [DOMAIN rows -> Row] /\ id \notin files
      BY <2>1 DEF IInv, TypeOK, RemovedForGood
    <2>3. /\ DOMAIN rows' = DOMAIN rows
          /\ \A i \in DOMAIN rows \ {id} : rows'[i] = rows[i]
          /\ rows'[id].hidden
      BY <1>7, <2>1, <2>2 DEF Row
    <2>4. StatusOf(id) \in {"broken", "hidden"} /\ StatusOf(id)' = "hidden"
      BY <2>1, <2>2, <2>3, StatusParts, StatusPartsNext DEF Visible
    <2>5. ASSUME NEW i \in Ids, i # id
          PROVE  StatusOf(i)' = StatusOf(i)
      BY <1>4, <2>1, <2>3, <2>5
    <2>6. CASE StatusOf(id) = "hidden"
      BY <2>4, <2>5, <2>6, LibraryStutter
    <2>7. CASE StatusOf(id) = "broken"
      BY <2>1, <2>4, <2>5, <2>7, Life, LibraryProceeds
    <2>8. QED
      BY <2>4, <2>6, <2>7
  <1>8. QED
    BY <1>3, <1>6, <1>7 DEF DeleteStep, DeleteArrives, LookupRow, OpenFile, RemoveFile,
       RemoveThumbnail, HideRow, stores

LEMMA ReadingToLibrary ==
    ASSUME IInv, NEW r \in Requests, ReadStep(r)
    PROVE  UNCHANGED Status
  <1>1. /\ pc' = [pc EXCEPT ![r] = pc'[r]] /\ req' = [req EXCEPT ![r] = req'[r]]
    BY OneRequest
  <1>2. /\ ~Writing(r) /\ pc'[r] \in {"idle", "select", "read"}
        /\ UNCHANGED <<rows, files, lastId>>
    BY DEF ReadStep, ReadArrives, SelectRows, ReadFile, Answer, Return, Goto, Writing, stores,
           IInv, TypeOK
  <1>3. QED
    BY <1>1, <1>2, IdleToLibrary DEF Unwritten, Unlisted

LEMMA PinToLibrary ==
    ASSUME IInv, NEW id \in DOMAIN rows, TogglePin(id)
    PROVE  UNCHANGED Status
  <1>1. rows \in [DOMAIN rows -> Row]
    BY DEF IInv, TypeOK
  <1>2. /\ DOMAIN rows' = DOMAIN rows
        /\ \A i \in DOMAIN rows : rows'[i].hidden = rows[i].hidden
    BY <1>1 DEF TogglePin, Row
  <1>3. \A i \in Ids : Untouched(i)
    BY <1>2 DEF TogglePin, Untouched, HeldAt
  <1>4. QED
    BY <1>3, StatusKept, LibraryStutter

\* A crash ends the uploads at work, and nothing else.
LEMMA CrashToLibrary ==
    ASSUME IInv, Crash
    PROVE  Library!LibNext
  <1> DEFINE S == {id \in Ids : HeldAt(id, Unwritten)}
  <1>1. /\ \A q \in Requests : pc'[q] = "idle"
        /\ UNCHANGED <<rows, files, lastId>>
    BY DEF Crash, stores
  <1>2. ASSUME NEW id
        PROVE  ~HeldAt(id, Unwritten)' /\ ~HeldAt(id, Unlisted)'
    BY <1>1 DEF HeldAt, Unwritten, Unlisted
  <1>3. ASSUME NEW id \in S
        PROVE  StatusOf(id) = "new" /\ StatusOf(id)' = "void"
    <2>1. PICK q \in Requests : pc[q] \in Unwritten /\ req[q].id = id
      BY <1>3 DEF HeldAt
    <2>2. Writing(q)
      BY <2>1 DEF Writing, Unwritten
    <2>3. StatusOf(id) = "new" /\ id \notin files /\ id \notin DOMAIN rows /\ ~(id > lastId)
      BY <2>1, <2>2, HeldId
    <2>4. QED
      BY <1>1, <1>2, <2>3, StatusPartsNext
  <1>4. ASSUME NEW id \in Ids, id \notin S
        PROVE  StatusOf(id)' = IF StatusOf(id) = "written" THEN "stray" ELSE StatusOf(id)
    <2>1. CASE id \in DOMAIN rows
      BY <1>1, <2>1, StatusParts, StatusPartsNext DEF Visible
    <2>2. CASE id \in files \ DOMAIN rows
      BY <1>1, <1>2, <2>2, StatusParts, StatusPartsNext
    <2>3. CASE id \notin files /\ id \notin DOMAIN rows
      BY <1>1, <1>2, <1>4, <2>3, StatusParts, StatusPartsNext
    <2>4. QED
      BY <2>1, <2>2, <2>3
  <1>5. S \in SUBSET Ids
    OBVIOUS
  <1> HIDE DEF S
  <1>6. \A id \in S : Status[id] = "new"
    BY <1>3, <1>5 DEF Status
  <1>7. Status' = [id \in Ids |-> IF id \in S THEN "void"
                                  ELSE IF Status[id] = "written" THEN "stray" ELSE Status[id]]
    BY <1>3, <1>4 DEF Status
  <1>8. QED
    BY <1>5, <1>6, <1>7 DEF Library!Crash, Library!LibNext

LEMMA LibraryNext ==
    ASSUME IInv, [Next]_vars
    PROVE  [Library!LibNext]_Status
  <1>1. CASE UNCHANGED vars
    <2>1. \A id \in Ids : Untouched(id)
      BY <1>1 DEF vars, stores, Untouched, HeldAt
    <2>2. QED
      BY <2>1, StatusKept, LibraryStutter
  <1>2. QED
    BY <1>1, UploadToLibrary, DeletionToLibrary, ReadingToLibrary, PinToLibrary, CrashToLibrary
       DEF Next

\* Whatever requests run at once, whatever fails and whenever the process dies,
\* an id lives the one life of an image: its file comes before its row and goes
\* before the row is hidden, and what is gone or abandoned never comes back
\* (post.go:979-1297, delete.go:97-176).
THEOREM StoreImplementsLibrary == Spec => ImplementsImageLibrary
  <1>1. Init => Library!LibInit
    <2>1. ASSUME Init, NEW id \in Ids
          PROVE  StatusOf(id) = "new"
      <3>1. id \notin files /\ id \notin DOMAIN rows /\ id > lastId
        BY <2>1, BoundAssumption DEF Init, Ids
      <3>2. QED
        BY <3>1, StatusParts
    <2>2. QED
      BY <2>1 DEF Status, Library!LibInit
  <1>2. QED
    BY <1>1, Inductive, LibraryNext, PTL DEF Spec, ImplementsImageLibrary, Library!LibSpec
=============================================================================
