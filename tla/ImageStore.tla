------------------------------ MODULE ImageStore ------------------------------
(***************************************************************************)
(* The inventory images of one client: files below /opt/inventory_images,  *)
(* the client_images table, the handlers UploadClientImage and DeleteImage *)
(* that change both, and the page and GetImage, which read both.  No       *)
(* transaction spans the two stores: every file operation and every        *)
(* database transaction is one step, any of them may fail, and the process *)
(* may die between any two.                                                *)
(***************************************************************************)
EXTENDS Naturals, FiniteSets, Sequences

CONSTANTS Requests,  \* goroutines serving requests
          Hashes,    \* contents of files, told apart by their SHA-256
          None,      \* no file in hand
          MaxImages, \* ImageConstraints.MaxFileCount
          MaxVideos, \* VideoConstraints.MaxFileCount
          MaxBatch,  \* bound: files in one request
          MaxIds     \* bound: file ids generated

ASSUME BoundAssumption ==
    /\ MaxImages \in Nat /\ MaxVideos \in Nat
    /\ MaxBatch \in Nat /\ MaxIds \in Nat
ASSUME NoneAssumption == None \notin Hashes

VARIABLES rows,    \* client_images: file id -> row
          files,   \* ids whose file exists
          thumbs,  \* ids whose thumbnail exists
          lastId,  \* uuid.NewV7() never repeats: ids are 1, 2, ...
          pc, req, \* where each handler is, and its locals
          removed, \* ids whose file DeleteImage has removed
          leaked   \* ids of uploads that could not clean up after themselves

vars == <<rows, files, thumbs, lastId, pc, req, removed, leaked>>
stores == <<rows, files, thumbs>>

Ids == 1..MaxIds

\* "unfit" stands for every file refused before its hash is taken: its name,
\* its MIME type, its extension, or that it cannot be read.
Kinds  == {"image", "video", "unfit"}
Upload == [kind : Kinds, hash : Hashes]
NoFile == [kind |-> "unfit", hash |-> None]

Row == [kind : {"image", "video"}, hash : Hashes, thumb : BOOLEAN, hidden : BOOLEAN,
        pinned : BOOLEAN]

Locals == [todo : Seq(Upload), file : Upload \cup {NoFile}, id : 0..MaxIds,
           hashes : Seq(Hashes), images : Nat, videos : Nat, skipped : Nat,
           failed : Nat, row : Row \cup {NoFile}, stored : SUBSET Ids,
           wanted : SUBSET Ids, shown : SUBSET Ids, unread : SUBSET Ids,
           live : SUBSET Ids, gone : SUBSET Ids]
Fresh == [todo |-> <<>>, file |-> NoFile, id |-> 0, hashes |-> <<>>, images |-> 0,
          videos |-> 0, skipped |-> 0, failed |-> 0, row |-> NoFile,
          stored |-> {}, wanted |-> {}, shown |-> {}, unread |-> {},
          live |-> {}, gone |-> {}]

Steps == {"idle", "manifest", "next", "prepare", "save", "insert", "rollback",
          "lookup", "open", "remove", "removeThumb", "hide", "select", "read"}

TypeOK ==
    /\ DOMAIN rows \subseteq 1..lastId /\ rows \in [DOMAIN rows -> Row]
    /\ files \subseteq 1..lastId /\ thumbs \subseteq 1..lastId
    /\ lastId \in 0..MaxIds
    /\ pc \in [Requests -> Steps]
    /\ req \in [Requests -> Locals]
    /\ removed \subseteq 1..lastId /\ leaked \subseteq 1..lastId

-----------------------------------------------------------------------------
NewRow(f) == [kind |-> f.kind, hash |-> f.hash, thumb |-> f.kind = "image",
              hidden |-> FALSE, pinned |-> FALSE]

Visible == {id \in DOMAIN rows : ~rows[id].hidden}

Goto(r, l) == pc' = [pc EXCEPT ![r] = l]
Return(r)  == Goto(r, "idle") /\ req' = [req EXCEPT ![r] = Fresh]

\* The file in hand is done with, and goes into the results as failed.
FileFails(r) ==
    /\ Goto(r, "next")
    /\ req' = [req EXCEPT ![r].failed = @ + 1, ![r].file = NoFile, ![r].id = 0]

\* The number of earlier files of the request with the content of this one.
\* The loop's continue goes on to the next comparison, not to the next file.
TimesSeen(r, h) == Cardinality({i \in DOMAIN req[r].hashes : req[r].hashes[i] = h})

Taken(r, kind) == IF kind = "image" THEN req[r].images ELSE req[r].videos
Limit(kind)    == IF kind = "image" THEN MaxImages ELSE MaxVideos

\* Fault: one file more than allowed.
QuotaExceeded(r, kind) == Taken(r, kind) > Limit(kind)

\* The limit for files of this kind is reached.
QuotaReached(r, kind) == Taken(r, kind) >= Limit(kind)

-----------------------------------------------------------------------------
\* UploadClientImage.

UploadArrives(r, batch) ==
    /\ pc[r] = "idle"
    /\ Goto(r, "manifest")
    /\ req' = [req EXCEPT ![r] = [Fresh EXCEPT !.todo = batch]]
    /\ UNCHANGED <<stores, lastId, removed, leaked>>

\* GetClientImageManifestByTag.  The query does not select sha256_hash, so
\* the comparison with existing files never finds one, and nothing else in the
\* manifest is used.
ReadManifest(r) ==
    /\ pc[r] = "manifest"
    /\ \/ Goto(r, "next") /\ UNCHANGED req
       \/ Return(r)
    /\ UNCHANGED <<stores, lastId, removed, leaked>>

\* Fault: the same file id again.
NextFileSameId(r) ==
    /\ pc[r] = "next" /\ req[r].todo # <<>>
    /\ Head(req[r].todo).kind # "unfit" /\ lastId < MaxIds
    /\ req' = [req EXCEPT ![r].todo = Tail(@), ![r].file = Head(req[r].todo),
                          ![r].id = lastId + 1]
    /\ Goto(r, "prepare")
    /\ UNCHANGED <<stores, lastId, removed, leaked>>

\* The head of the loop: a file id, the hash, and the duplicate comparisons,
\* after which the file is processed whatever they found.
NextFile(r) ==
    /\ pc[r] = "next" /\ req[r].todo # <<>>
    /\ LET f == Head(req[r].todo)
       IN \/ /\ f.kind = "unfit"
             /\ req' = [req EXCEPT ![r].todo = Tail(@), ![r].failed = @ + 1]
             /\ UNCHANGED <<pc, lastId>>
          \/ /\ f.kind # "unfit" /\ lastId < MaxIds
             /\ lastId' = lastId + 1
             /\ req' = [req EXCEPT ![r].todo = Tail(@), ![r].file = f,
                                   ![r].id = lastId + 1,
                                   ![r].skipped = @ + TimesSeen(r, f.hash),
                                   ![r].hashes = Append(@, f.hash)]
             /\ Goto(r, "prepare")
    /\ UNCHANGED <<stores, removed, leaked>>

\* The quota and the size limits; for an image also decoding it and writing
\* its thumbnail, which stays behind when a step after its creation fails.
Prepare(r) ==
    /\ pc[r] = "prepare"
    /\ LET kind == req[r].file.kind
           id == req[r].id
       IN \/ /\ QuotaReached(r, kind)
             /\ FileFails(r) /\ UNCHANGED thumbs
          \/ /\ ~QuotaReached(r, kind)
             /\ FileFails(r)
             /\ thumbs' \in {thumbs, IF kind = "image" THEN thumbs \cup {id} ELSE thumbs}
          \/ /\ ~QuotaReached(r, kind) /\ kind = "image"
             /\ thumbs' = thumbs \cup {id}
             /\ req' = [req EXCEPT ![r].images = @ + 1]
             /\ Goto(r, "save")
          \/ /\ ~QuotaReached(r, kind) /\ kind = "video"
             /\ req' = [req EXCEPT ![r].videos = @ + 1]
             /\ Goto(r, "save") /\ UNCHANGED thumbs
    /\ UNCHANGED <<rows, files, lastId, removed, leaked>>

\* Fault: that the file could not be written is only logged.
SaveUnchecked(r) ==
    /\ pc[r] = "save"
    /\ files' \in {files, files \cup {req[r].id}}
    /\ Goto(r, "insert")
    /\ UNCHANGED <<rows, thumbs, lastId, req, removed, leaked>>

\* os.WriteFile; a write that fails may leave a part of the file behind.
SaveFile(r) ==
    /\ pc[r] = "save"
    /\ \/ /\ files' = files \cup {req[r].id}
          /\ Goto(r, "insert")
          /\ UNCHANGED <<req, leaked>>
       \/ /\ FileFails(r)
          /\ \/ UNCHANGED <<files, leaked>>
             \/ files' = files \cup {req[r].id} /\ leaked' = leaked \cup {req[r].id}
    /\ UNCHANGED <<rows, thumbs, lastId, removed>>

\* Fault: a failed insertion is treated as the other failures are.
InsertWithoutRollback(r) ==
    /\ pc[r] = "insert"
    /\ FileFails(r)
    /\ UNCHANGED <<stores, lastId, removed, leaked>>

\* UpdateClientImages: one transaction, committed or not.
InsertRow(r) ==
    /\ pc[r] = "insert"
    /\ \/ /\ rows' = [i \in DOMAIN rows \cup {req[r].id} |->
                         IF i = req[r].id THEN NewRow(req[r].file) ELSE rows[i]]
          /\ Goto(r, "next")
          /\ req' = [req EXCEPT ![r].stored = @ \cup {req[r].id},
                                ![r].file = NoFile, ![r].id = 0]
       \/ Goto(r, "rollback") /\ UNCHANGED <<rows, req>>
    /\ UNCHANGED <<files, thumbs, lastId, removed, leaked>>

\* After a failed insertion both files are removed; that this may fail too is
\* only logged.
RollBack(r) ==
    /\ pc[r] = "rollback"
    /\ files' \in {files, files \ {req[r].id}}
    /\ thumbs' \in {thumbs, thumbs \ {req[r].id}}
    /\ leaked' = IF req[r].id \in files' THEN leaked \cup {req[r].id} ELSE leaked
    /\ FileFails(r)
    /\ UNCHANGED <<rows, lastId, removed>>

\* The summary is sent.
Respond(r) ==
    /\ pc[r] = "next" /\ req[r].todo = <<>>
    /\ Return(r)
    /\ UNCHANGED <<stores, lastId, removed, leaked>>

-----------------------------------------------------------------------------
\* DeleteImage.

DeleteArrives(r, id) ==
    /\ pc[r] = "idle"
    /\ Goto(r, "lookup")
    /\ req' = [req EXCEPT ![r] = [Fresh EXCEPT !.id = id]]
    /\ UNCHANGED <<stores, lastId, removed, leaked>>

\* GetClientImageManifestByFileUUID returns hidden rows as well.
LookupRow(r) ==
    /\ pc[r] = "lookup"
    /\ IF req[r].id \in DOMAIN rows
         THEN /\ Goto(r, "open")
              /\ req' = [req EXCEPT ![r].row = rows[req[r].id]]
         ELSE Return(r)
    /\ UNCHANGED <<stores, lastId, removed, leaked>>

\* A file that is missing, or cannot be read, ends the request.
OpenFile(r) ==
    /\ pc[r] = "open"
    /\ \/ /\ req[r].id \in files
          /\ Goto(r, "remove")
          /\ UNCHANGED req
       \/ Return(r)
    /\ UNCHANGED <<stores, lastId, removed, leaked>>

\* Fault: that the file is still there is only logged, as for thumbnails.
RemoveFileAnyway(r) ==
    /\ pc[r] = "remove"
    /\ files' \in {files, files \ {req[r].id}}
    /\ removed' = removed \cup {req[r].id}
    /\ Goto(r, "removeThumb")
    /\ UNCHANGED <<rows, thumbs, lastId, req, leaked>>

\* os.Remove fails when another deletion was faster, or for its own reasons.
RemoveFile(r) ==
    /\ pc[r] = "remove"
    /\ \/ /\ req[r].id \in files
          /\ files' = files \ {req[r].id}
          /\ removed' = removed \cup {req[r].id}
          /\ Goto(r, "removeThumb")
          /\ UNCHANGED req
       \/ /\ Return(r)
          /\ UNCHANGED <<files, removed>>
    /\ UNCHANGED <<rows, thumbs, lastId, leaked>>

\* What happens to the thumbnail is only logged.
RemoveThumbnail(r) ==
    /\ pc[r] = "removeThumb"
    /\ thumbs' \in {thumbs, IF req[r].row.thumb THEN thumbs \ {req[r].id} ELSE thumbs}
    /\ Goto(r, "hide")
    /\ UNCHANGED <<rows, files, lastId, req, removed, leaked>>

\* HideClientImageByUUID; when it fails the row stays visible.
HideRow(r) ==
    /\ pc[r] = "hide"
    /\ rows' \in {rows, [rows EXCEPT ![req[r].id].hidden = TRUE]}
    /\ Return(r)
    /\ UNCHANGED <<files, thumbs, lastId, removed, leaked>>

-----------------------------------------------------------------------------
\* GetClientImagesManifest, GetImage and TogglePinImage.

\* The page asks for every image of the client, GetImage for one.  live and
\* gone are an observer's: what could be seen, and what could not, just then.
ReadArrives(r, ids) ==
    /\ pc[r] = "idle"
    /\ Goto(r, "select")
    /\ req' = [req EXCEPT ![r] = [Fresh EXCEPT !.wanted = ids, !.gone = removed,
                                              !.live = ids \cap Visible \cap files]]
    /\ UNCHANGED <<stores, lastId, removed, leaked>>

\* Nothing visible, and a query that fails, end the request.
SelectRows(r) ==
    /\ pc[r] = "select"
    /\ \/ /\ req[r].wanted \cap Visible # {}
          /\ req' = [req EXCEPT ![r].wanted = @ \cap Visible]
          /\ Goto(r, "read")
       \/ Return(r)
    /\ UNCHANGED <<stores, lastId, removed, leaked>>

\* Fault: the list is believed; the files are not looked at.
ReadWithoutFile(r) ==
    /\ pc[r] = "read" /\ req[r].wanted # {}
    /\ \E id \in req[r].wanted :
          req' = [req EXCEPT ![r].wanted = @ \ {id}, ![r].shown = @ \cup {id}]
    /\ UNCHANGED <<stores, lastId, pc, removed, leaked>>

\* The next file of the list, which is in no particular order.  A file that is
\* missing is left out, and so is one that cannot be read or decoded.
ReadFile(r) ==
    /\ pc[r] = "read"
    /\ \E id \in req[r].wanted :
          \/ /\ id \in files
             /\ req' = [req EXCEPT ![r].wanted = @ \ {id}, ![r].shown = @ \cup {id}]
          \/ /\ id \in files
             /\ req' = [req EXCEPT ![r].wanted = @ \ {id}, ![r].unread = @ \cup {id}]
          \/ /\ id \notin files
             /\ req' = [req EXCEPT ![r].wanted = @ \ {id}]
    /\ UNCHANGED <<stores, lastId, pc, removed, leaked>>

\* The list, or the file; 404 when there is nothing to show.
Answer(r) ==
    /\ pc[r] = "read" /\ req[r].wanted = {}
    /\ Return(r)
    /\ UNCHANGED <<stores, lastId, removed, leaked>>

\* One UPDATE, of hidden rows as well.
TogglePin(id) ==
    /\ rows' = [rows EXCEPT ![id].pinned = ~@]
    /\ UNCHANGED <<files, thumbs, lastId, pc, req, removed, leaked>>

-----------------------------------------------------------------------------
\* The process dies; files and table are what is left.
Crash ==
    /\ pc' = [r \in Requests |-> "idle"]
    /\ req' = [r \in Requests |-> Fresh]
    /\ leaked' = leaked \cup {req[r].id : r \in {q \in Requests :
                                             pc[q] \in {"insert", "rollback"}}}
    /\ UNCHANGED <<stores, lastId, removed>>

Init ==
    /\ rows = [id \in {} |-> NoFile] /\ files = {} /\ thumbs = {}
    /\ lastId = 0
    /\ pc = [r \in Requests |-> "idle"]
    /\ req = [r \in Requests |-> Fresh]
    /\ removed = {} /\ leaked = {}

Batches == UNION {[1..n -> Upload] : n \in 1..MaxBatch}

UploadStep(r) ==
    \/ \E batch \in Batches : UploadArrives(r, batch)
    \/ ReadManifest(r) \/ NextFile(r) \/ Prepare(r) \/ SaveFile(r)
    \/ InsertRow(r) \/ RollBack(r) \/ Respond(r)

DeleteStep(r) ==
    \/ \E id \in 1..lastId : DeleteArrives(r, id)
    \/ LookupRow(r) \/ OpenFile(r) \/ RemoveFile(r) \/ RemoveThumbnail(r)
    \/ HideRow(r)

ReadStep(r) ==
    \/ ReadArrives(r, Ids) \/ \E id \in 1..lastId : ReadArrives(r, {id})
    \/ SelectRows(r) \/ ReadFile(r) \/ Answer(r)

Next ==
    \/ \E r \in Requests : UploadStep(r) \/ DeleteStep(r) \/ ReadStep(r)
    \/ \E id \in DOMAIN rows : TogglePin(id)
    \/ Crash

Spec == Init /\ [][Next]_vars

-----------------------------------------------------------------------------
\* "original hidden file should be deleted from filesystem" (post.go:1052):
\* a hidden row means the file is gone, whatever failed, crashed or raced.
HiddenIsGone == \A id \in DOMAIN rows : rows[id].hidden => id \notin files

\* A row that is visible has its file, unless a deletion got as far as the
\* file and no farther: a crash or failure in an upload never leaves a row
\* without its file (post.go:1242-1297, delete.go:137-172).
RowHasFile == \A id \in Visible : id \in files \cup removed

\* The table and the directory, which no transaction has in common, agree.
StoresAgree == HiddenIsGone /\ RowHasFile

\* A file without a row belongs to an upload at work, or to one that died or
\* could not remove what it had written (post.go:1282-1291).
FileAccounted ==
    \A id \in files \ DOMAIN rows :
        \/ id \in leaked
        \/ \E r \in Requests : req[r].id = id /\ pc[r] \in {"insert", "rollback"}

\* One request stores no more files of a kind than it may, though the counter
\* is incremented before the file is saved (post.go:1078, 1196).
Stored(r, kind) == {id \in req[r].stored : rows[id].kind = kind}

QuotaKept ==
    \A r \in Requests, kind \in {"image", "video"} :
        Cardinality(Stored(r, kind)) <= Limit(kind)

\* An answer shows no image whose file was gone when it was asked for, and
\* every image that could be seen then, unless it has been deleted meanwhile or
\* could not be read: rows that lost their file to a deletion cut short do not
\* spoil the page (get.go:301-305).
AnswerTrue ==
    \A r \in Requests :
        pc[r] = "read" /\ req[r].wanted = {} =>
            /\ req[r].shown \cap req[r].gone = {}
            /\ req[r].live \subseteq req[r].shown \cup removed \cup req[r].unread

-----------------------------------------------------------------------------
\* What has become of an id, put together from both stores and the requests.
HeldAt(id, S) == \E r \in Requests : pc[r] \in S /\ req[r].id = id

StatusOf(id) ==
    IF id \in DOMAIN rows
      THEN IF rows[id].hidden THEN "hidden" ELSE IF id \in files THEN "shown" ELSE "broken"
      ELSE IF id \in files
             THEN IF HeldAt(id, {"insert", "rollback"}) THEN "written" ELSE "stray"
             ELSE IF id > lastId \/ HeldAt(id, {"prepare", "save"}) THEN "new" ELSE "void"

Status  == [id \in Ids |-> StatusOf(id)]
Library == INSTANCE ImageLibrary WITH image <- Status

\* Uploads, deletions and crashes, in whatever order their file operations and
\* transactions come, take every id through the one life of an image: no id is
\* used twice, no row precedes its file, no deleted image and no abandoned file
\* comes back (post.go:979-1297, delete.go:97-176).
ImplementsImageLibrary == Library!LibSpec

-----------------------------------------------------------------------------
\* What makes them inductive.  The id of an upload at work is nobody else's, has
\* no row, and has its file when the row is about to be written.
Writing(r) == pc[r] \in {"prepare", "save", "insert", "rollback"}

UploadsApart ==
    \A r \in Requests : Writing(r) =>
        /\ req[r].id \in (1..lastId) \ (DOMAIN rows \cup removed)
        /\ req[r].file \in Upload /\ req[r].file.kind # "unfit"
        /\ \A q \in Requests : Writing(q) /\ req[q].id = req[r].id => q = r
        /\ pc[r] \in {"prepare", "save"} => req[r].id \notin files
        /\ pc[r] = "insert" => req[r].id \in files

\* A deletion has found its row, and has removed the file before it hides it.
DeletionsInOrder ==
    \A r \in Requests :
        /\ pc[r] \in {"open", "remove", "removeThumb", "hide"} =>
              req[r].id \in DOMAIN rows /\ req[r].row \in Row
        /\ pc[r] \in {"removeThumb", "hide"} => req[r].id \in removed

\* A file that was removed never comes back, and only its row can be hidden.
RemovedForGood ==
    /\ removed \subseteq DOMAIN rows \ files
    /\ \A id \in DOMAIN rows : rows[id].hidden => id \in removed

\* The counters of a request have room for the file in hand.
Saving(r, kind) == pc[r] \in {"save", "insert"} /\ req[r].file.kind = kind

Counted ==
    \A r \in Requests :
        /\ req[r].stored \subseteq DOMAIN rows
        /\ \A kind \in {"image", "video"} :
              /\ Taken(r, kind) <= Limit(kind)
              /\ Cardinality(Stored(r, kind)) + (IF Saving(r, kind) THEN 1 ELSE 0)
                    <= Taken(r, kind)

\* What could be seen is still to be read, or has been, or was deleted.
ReadersKnow ==
    \A r \in Requests : pc[r] \in {"select", "read"} =>
        /\ req[r].gone \subseteq removed /\ req[r].shown \cap req[r].gone = {}
        /\ req[r].live \subseteq DOMAIN rows /\ req[r].live \subseteq files \cup removed
        /\ req[r].live \subseteq req[r].wanted \cup req[r].shown \cup req[r].unread
                                 \cup removed

IInv ==
    /\ TypeOK /\ RowHasFile /\ FileAccounted /\ UploadsApart /\ DeletionsInOrder
    /\ RemovedForGood /\ Counted /\ ReadersKnow
=============================================================================
