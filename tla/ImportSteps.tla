----------------------------- MODULE ImportSteps -----------------------------
(***************************************************************************)
(* The loops of an import over the images of its archive (import.go):      *)
(* their records, stored by the common part "put_update", then, if asked   *)
(* for, their unpacking, and for SingleImportFile the deletion of all but  *)
(* the first.  What goes wrong in the last two is noted and the loop goes  *)
(* on.                                                                     *)
(***************************************************************************)
EXTENDS StoreState

\* c.unpack and c.delete of the first image of todo, the common parts.
UnpackFirst(t, todo, errs) ==
    /\ Goto(t, "unpack")
    /\ loc' = [loc EXCEPT ![t] =
                 [Blank EXCEPT !.chain = Head(todo).chain, !.todo = todo, !.errs = errs,
                               !.loop = "unpacked", !.next = "unpacked"]]

DeleteFirst(t, todo, errs, loop) ==
    /\ Goto(t, "delete")
    /\ loc' = [loc EXCEPT ![t] =
                 [Blank EXCEPT !.todo = todo, !.errs = errs, !.loop = loop]]

\* A faulty Fetched, which keeps the last image instead of the first.
FetchedKeepsLast(t) ==
    LET archive == req[t].archive
    IN  IF req[t].op = "single" /\ Len(archive) > 1
        THEN DeleteFirst(t, SubSeq(archive, 1, Len(archive) - 1), FALSE, "deleted")
        ELSE Finish(t, FALSE)

\* importFile is over, with an error if an image could not be unpacked.  It is
\* logged; SingleImportFile goes on with the images it has got.
Fetched(t) ==
    LET archive == req[t].archive
    IN  IF req[t].op = "single" /\ Len(archive) > 1
        THEN DeleteFirst(t, Tail(archive), FALSE, "deleted")
        ELSE Finish(t, req[t].op = "import" /\ loc[t].errs)

\* A faulty AfterImported, which loses the options of SingleImportFile.
AfterImportedPlain(t) ==
    IF Len(loc[t].todo) > 1
    THEN Goto(t, "put_update") /\ loc' = [loc EXCEPT ![t].todo = Tail(@)]
    ELSE IF req[t].unpack /\ req[t].op # "single"
    THEN UnpackFirst(t, req[t].archive, FALSE)
    ELSE Fetched(t)

\* An image has its record; then the next, and when all have, the unpacking.
AfterImported(t) ==
    IF Len(loc[t].todo) > 1
    THEN Goto(t, "put_update") /\ loc' = [loc EXCEPT ![t].todo = Tail(@)]
    ELSE IF req[t].unpack THEN UnpackFirst(t, req[t].archive, FALSE)
    ELSE Fetched(t)

\* An image of the archive is unpacked, or could not be.
Unpacked(t) ==
    /\ At(t, "unpacked")
    /\ IF Len(loc[t].todo) > 1
       THEN UnpackFirst(t, Tail(loc[t].todo), loc[t].errs)
       ELSE Fetched(t)
    /\ UNCHANGED <<store, serial, req, dir>>

\* delImg of one image after the other; after an error the image to be kept
\* is deleted, too.
Deleted(t) ==
    /\ At(t, "deleted")
    /\ IF Len(loc[t].todo) > 1
       THEN DeleteFirst(t, Tail(loc[t].todo), loc[t].errs, "deleted")
       ELSE IF loc[t].errs
       THEN DeleteFirst(t, << Head(req[t].archive) >>, TRUE, "undone")
       ELSE Finish(t, FALSE)
    /\ UNCHANGED <<store, serial, req, dir>>

Undone(t) ==
    /\ At(t, "undone")
    /\ Finish(t, TRUE)
    /\ UNCHANGED <<store, serial, req, dir>>

ImportStep(t) == Unpacked(t) \/ Deleted(t) \/ Undone(t)
=============================================================================
