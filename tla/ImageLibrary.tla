---------------------------- MODULE ImageLibrary ----------------------------
(***************************************************************************)
(* What becomes of an inventory image, told without requests, queues or    *)
(* the order of file operations and transactions: an id is used for one    *)
(* file only, a row comes after its file, a file goes before its row is    *)
(* hidden, and nothing ever comes back.  ImageStore.tla implements this.   *)
(***************************************************************************)
CONSTANT Ids     \* the file ids there are

VARIABLE image   \* image[id]: what has become of that id

\* What an id may become next.  "new": neither file nor row yet; "written": the
\* file, its upload still at work; "shown": file and row; "broken": a visible row
\* whose file was deleted; "hidden": the row only, deleted.  An upload that came
\* to nothing leaves "void", or "stray" when it could not remove its file.
Follow == [new     |-> {"written", "void", "stray"},
           written |-> {"shown", "void", "stray"},
           shown   |-> {"broken"},
           broken  |-> {"hidden"},
           hidden  |-> {}, void |-> {}, stray |-> {}]

\* One step of an upload or a deletion.
Proceeds(id) ==
    /\ image'[id] \in Follow[image[id]]
    /\ image' = [image EXCEPT ![id] = image'[id]]

\* All uploads at work fail at once, those of S before they wrote anything.
Crash(S) ==
    /\ \A id \in S : image[id] = "new"
    /\ image' = [id \in Ids |-> IF id \in S THEN "void"
                                ELSE IF image[id] = "written" THEN "stray"
                                ELSE image[id]]

LibInit == image = [id \in Ids |-> "new"]

LibNext ==
    \/ \E id \in Ids : Proceeds(id)
    \/ \E S \in SUBSET Ids : Crash(S)

LibSpec == LibInit /\ [][LibNext]_image
=============================================================================
