--------------------------- MODULE ContentIngest ---------------------------
(***************************************************************************)
(* The content store: how a blob gets from an archive, a registry or       *)
(* Commit into the content directory (core/content/helpers.go WriteBlob on *)
(* core/metadata/content.go on plugins/content/local).                     *)
(*                                                                         *)
(* A write goes through an ingest, a file named by a reference the caller  *)
(* chooses.  An ingest survives the failure of its write and the end of    *)
(* the process; the next write with the reference resumes it.  Nothing     *)
(* ever aborts one, as the store runs no garbage collection.               *)
(*                                                                         *)
(* A digest is modelled by the sequence of bytes it is the digest of.      *)
(***************************************************************************)
EXTENDS Naturals, Sequences, Functions

CONSTANTS Threads,    \* callers of WriteBlob
          NoThread,   \* nobody
          Refs,       \* references of ingests
          Bytes,      \* content, in pieces of what one Write moves
          Writes,     \* the writes callers may make: [ref, data, named]
          NoWrite,    \* the thread makes no write
          IOFaults,   \* whether a source or the disk may fail during a copy
          OpenFaults, \* whether the transaction that opens an ingest may fail
          TxFaults,   \* whether the one that records a blob may fail
          MaxCrashes  \* bound: crashes of the process

\* A write that is named gives the digest it expects, as Commit and Pull do;
\* the import of an archive gives the size alone.  Every source has the size
\* it announces.
ASSUME WritesAssumption ==
    /\ Writes \subseteq [ref : Refs, data : Seq(Bytes) \ {<< >>}, named : BOOLEAN]
    /\ NoWrite \notin Writes

VARIABLES ingests,  \* reference |-> [total, data] in the ingest directory
          blobs,    \* digest |-> contents of the file it names
          known,    \* digests recorded in the metadata database
          held,     \* references locked in the memory of the process
          tx,       \* thread in the write transaction of the database
          crashes,  \* crashes so far
          pc,       \* thread |-> where its write is
          req,      \* thread |-> the write
          hash,     \* thread |-> what its writer has digested
          faulty    \* thread |-> something failed during its write

disk == <<ingests, blobs, known>>
vars == <<ingests, blobs, known, held, tx, crashes, pc, req, hash, faulty>>

Init ==
    /\ ingests = << >>
    /\ blobs = << >>
    /\ known = {}
    /\ held = {}
    /\ tx = NoThread
    /\ crashes = 0
    /\ pc = [t \in Threads |-> "idle"]
    /\ req = [t \in Threads |-> NoWrite]
    /\ hash = [t \in Threads |-> << >>]
    /\ faulty = [t \in Threads |-> FALSE]

At(t, l)   == pc[t] = l
Goto(t, l) == pc' = [pc EXCEPT ![t] = l]

Put(f, x, v) == [y \in DOMAIN f \cup {x} |-> IF y = x THEN v ELSE f[y]]

Size(t) == Len(req[t].data)

\* The writer seeks to its offset and writes as much as it digests, so the
\* offset is the length of what it has digested.
Offset(t) == Len(hash[t])

File(t) == ingests[req[t].ref].data

\* The file f after s was written at offset n.
Overwritten(f, n, s) ==
    [i \in 1..(IF n + Len(s) > Len(f) THEN n + Len(s) ELSE Len(f)) |->
        IF i \in (n + 1)..(n + Len(s)) THEN s[i - n] ELSE f[i]]

-----------------------------------------------------------------------------

\* WriteBlob is called.
Start(t) ==
    \E w \in Writes :
        /\ At(t, "idle")
        /\ req' = [req EXCEPT ![t] = w]
        /\ hash' = [hash EXCEPT ![t] = << >>]
        /\ faulty' = [faulty EXCEPT ![t] = FALSE]
        /\ Goto(t, "open")
        /\ UNCHANGED <<disk, held, tx, crashes>>

\* A digest the database has: there is nothing to do.
OpenKnown(t) ==
    /\ At(t, "open")
    /\ tx = NoThread
    /\ req[t].named /\ req[t].data \in known
    /\ Goto(t, "done")
    /\ UNCHANGED <<disk, held, tx, crashes, req, hash, faulty>>

\* resumeStatus: an ingest of another size is not resumed, nor is one whose
\* data was already moved into place.
Resumes(t) ==
    /\ req[t].ref \in DOMAIN ingests
    /\ File(t) # << >>
    /\ ingests[req[t].ref].total = Size(t)

\* A faulty Recreated, which does not open the data file.
RecreatedNoData(t) == Put(ingests, req[t].ref, [total |-> Size(t)])

\* "will recreate them": the files around the data are written anew; the
\* data file is opened without truncating it.
Recreated(t) ==
    Put(ingests, req[t].ref,
        [total |-> Size(t),
         data  |-> IF req[t].ref \in DOMAIN ingests THEN File(t) ELSE << >>])

\* Store.Writer inside the transaction that records the ingest.  A reference
\* in use is Unavailable, and OpenWriter tries again.  If the transaction
\* fails after that, the writer is dropped without being closed.
OpenIngest(t) ==
    /\ At(t, "open")
    /\ tx = NoThread
    /\ ~ (req[t].named /\ req[t].data \in known)
    /\ req[t].ref \notin held
    /\ held' = held \cup {req[t].ref}
    /\ \/ Resumes(t) /\ hash' = [hash EXCEPT ![t] = File(t)] /\ UNCHANGED ingests
       \/ ~ Resumes(t) /\ ingests' = Recreated(t) /\ UNCHANGED hash
    /\ \/ Goto(t, "copy") /\ UNCHANGED faulty
       \/ OpenFaults /\ Goto(t, "failed") /\ faulty' = [faulty EXCEPT ![t] = TRUE]
    /\ UNCHANGED <<blobs, known, tx, crashes, req>>

\* A faulty CloseWriter, which keeps the reference locked.
CloseWriterLocked(t) == Goto(t, "failed") /\ UNCHANGED held

\* The writer is closed: the ingest stays, for a later write to resume.
CloseWriter(t) ==
    /\ held' = held \ {req[t].ref}
    /\ Goto(t, "failed")

\* seekReader discards the bytes that the ingest has: the source must have
\* that many.
Discard(t) ==
    /\ At(t, "copy")
    /\ Offset(t) > Size(t)
    /\ CloseWriter(t)
    /\ UNCHANGED <<disk, tx, crashes, req, hash, faulty>>

Write(t) ==
    /\ At(t, "copy")
    /\ Offset(t) < Size(t)
    /\ \E n \in (Offset(t) + 1)..Size(t) :
          LET piece == SubSeq(req[t].data, Offset(t) + 1, n)
          IN  /\ ingests' = [ingests EXCEPT ![req[t].ref].data =
                               Overwritten(@, Offset(t), piece)]
              /\ hash' = [hash EXCEPT ![t] = @ \o piece]
    /\ UNCHANGED <<blobs, known, held, tx, crashes, pc, req, faulty>>

\* The source ends early, or the disk is full.
CopyFails(t) ==
    /\ IOFaults
    /\ At(t, "copy")
    /\ CloseWriter(t)
    /\ faulty' = [faulty EXCEPT ![t] = TRUE]
    /\ UNCHANGED <<disk, tx, crashes, req, hash>>

\* A faulty Verified, which does not look at the size of the file.
VerifiedDigest(t) == req[t].named => hash[t] = req[t].data

\* The offset (metadata) and the size of the file (local) are the announced
\* size, and the digest is the expected one if one was given.
Verified(t) ==
    /\ Offset(t) = Size(t)
    /\ Len(File(t)) = Offset(t)
    /\ req[t].named => hash[t] = req[t].data

\* namespacedWriter.Commit and, inside its transaction, writer.Commit.
CommitRefused(t) ==
    /\ At(t, "copy")
    /\ Offset(t) = Size(t)
    /\ tx = NoThread
    /\ ~ Verified(t)
    /\ CloseWriter(t)
    /\ UNCHANGED <<disk, tx, crashes, req, hash, faulty>>

\* A faulty CommitBlob, which returns AlreadyExists to the caller.
CommitBlobStrict(t) ==
    /\ At(t, "copy")
    /\ Offset(t) = Size(t)
    /\ tx = NoThread
    /\ Verified(t)
    /\ \/ /\ hash[t] \notin DOMAIN blobs
          /\ tx' = t
          /\ Goto(t, "clean")
          /\ blobs' = Put(blobs, hash[t], File(t))
          /\ ingests' = [ingests EXCEPT ![req[t].ref].data = << >>]
          /\ UNCHANGED held
       \/ /\ hash[t] \in DOMAIN blobs
          /\ CloseWriter(t)
          /\ UNCHANGED <<blobs, ingests, tx>>
    /\ UNCHANGED <<known, crashes, req, hash, faulty>>

\* A faulty CommitBlob, which takes an existing blob for a recorded one.
CommitBlobForgets(t) ==
    /\ At(t, "copy")
    /\ Offset(t) = Size(t)
    /\ tx = NoThread
    /\ Verified(t)
    /\ \/ /\ hash[t] \notin DOMAIN blobs
          /\ tx' = t
          /\ Goto(t, "clean")
          /\ blobs' = Put(blobs, hash[t], File(t))
          /\ ingests' = [ingests EXCEPT ![req[t].ref].data = << >>]
          /\ UNCHANGED held
       \/ /\ hash[t] \in DOMAIN blobs
          /\ Goto(t, "done")
          /\ ingests' = Restrict(ingests, DOMAIN ingests \ {req[t].ref})
          /\ held' = held \ {req[t].ref}
          /\ UNCHANGED <<blobs, tx>>
    /\ UNCHANGED <<known, crashes, req, hash, faulty>>

\* The data becomes the blob, unless the blob exists.
CommitBlob(t) ==
    /\ At(t, "copy")
    /\ Offset(t) = Size(t)
    /\ tx = NoThread
    /\ Verified(t)
    /\ tx' = t
    /\ Goto(t, "clean")
    /\ \/ /\ hash[t] \notin DOMAIN blobs
          /\ blobs' = Put(blobs, hash[t], File(t))
          /\ ingests' = [ingests EXCEPT ![req[t].ref].data = << >>]
       \/ /\ hash[t] \in DOMAIN blobs
          /\ UNCHANGED <<blobs, ingests>>
    /\ UNCHANGED <<known, held, crashes, req, hash, faulty>>

\* The ingest is removed and its reference unlocked.
CommitClean(t) ==
    /\ At(t, "clean")
    /\ ingests' = Restrict(ingests, DOMAIN ingests \ {req[t].ref})
    /\ held' = held \ {req[t].ref}
    /\ Goto(t, "record")
    /\ UNCHANGED <<blobs, known, tx, crashes, req, hash, faulty>>

\* A faulty CommitRecord, which starts again if the digest is recorded.
CommitRecordRetries(t) ==
    /\ At(t, "record")
    /\ tx' = NoThread
    /\ known' = known \cup {hash[t]}
    /\ hash' = [hash EXCEPT ![t] = << >>]
    /\ Goto(t, IF hash[t] \in known THEN "open" ELSE "done")
    /\ UNCHANGED <<ingests, blobs, held, crashes, req, faulty>>

\* The transaction that records the digest ends.
CommitRecord(t) ==
    /\ At(t, "record")
    /\ tx' = NoThread
    /\ \/ known' = known \cup {hash[t]} /\ Goto(t, "done") /\ UNCHANGED faulty
       \/ /\ TxFaults
          /\ Goto(t, "failed")
          /\ faulty' = [faulty EXCEPT ![t] = TRUE]
          /\ UNCHANGED known
    /\ UNCHANGED <<ingests, blobs, held, crashes, req, hash>>

\* The caller has the result.
Return(t) ==
    /\ At(t, "done") \/ At(t, "failed")
    /\ Goto(t, "idle")
    /\ req' = [req EXCEPT ![t] = NoWrite]
    /\ hash' = [hash EXCEPT ![t] = << >>]
    /\ faulty' = [faulty EXCEPT ![t] = FALSE]
    /\ UNCHANGED <<disk, held, tx, crashes>>

\* The process ends and with it every write, the locks in its memory and the
\* open transaction; what the transaction did to files stays.
Crash ==
    /\ crashes < MaxCrashes
    /\ crashes' = crashes + 1
    /\ held' = {}
    /\ tx' = NoThread
    /\ pc' = [t \in Threads |-> "idle"]
    /\ req' = [t \in Threads |-> NoWrite]
    /\ hash' = [t \in Threads |-> << >>]
    /\ faulty' = [t \in Threads |-> FALSE]
    /\ UNCHANGED disk

Step(t) ==
    \/ OpenKnown(t) \/ OpenIngest(t)
    \/ Discard(t) \/ Write(t) \/ CopyFails(t)
    \/ CommitRefused(t) \/ CommitBlob(t) \/ CommitClean(t) \/ CommitRecord(t)
    \/ Return(t)

Next == Crash \/ \E t \in Threads : Start(t) \/ Step(t)

Spec == Init /\ [][Next]_vars

\* A thread in a write is scheduled.  Strongly fair, because the lock of the
\* database is a mutex that starves nobody, and OpenWriter tries again after
\* random delays, so that it meets a reference that is free again and again.
FairSpec == Spec /\ \A t \in Threads : SF_vars(Step(t))

-----------------------------------------------------------------------------

TypeOK ==
    /\ DOMAIN ingests \subseteq Refs
    /\ \A r \in DOMAIN ingests : ingests[r] \in [total : Nat, data : Seq(Bytes)]
    /\ DOMAIN blobs \subseteq Seq(Bytes)
    /\ \A d \in DOMAIN blobs : blobs[d] \in Seq(Bytes)
    /\ known \subseteq Seq(Bytes)
    /\ held \subseteq Refs
    /\ tx \in Threads \cup {NoThread}
    /\ pc \in [Threads -> {"idle", "open", "copy", "clean", "record", "done", "failed"}]
    /\ \A t \in Threads : req[t] \in Writes \cup {NoWrite}
    /\ \A t \in Threads : At(t, "idle") <=> req[t] = NoWrite
    /\ hash \in [Threads -> Seq(Bytes)]
    /\ faulty \in [Threads -> BOOLEAN]

\* Every blob the database knows is in the content directory, and every file
\* there has the contents its name is the digest of, also after writes over
\* and resumptions of what other writes left, from other sources.  Everything
\* that reads images trusts this (content.ReadBlob does not verify).
ContentAddressed ==
    /\ known \subseteq DOMAIN blobs
    /\ \A d \in DOMAIN blobs : blobs[d] = d

\* The reference of w is one for its content alone, as "tar-blobs/sha256/..."
\* and the digests are; "tar-index.json" is one for the index of any archive.
Own(w) == \A v \in Writes : v.ref = w.ref => v.data = w.data

\* helpers.go: "Copy copies data with the expected digest from the reader into
\* the provided content store writer".  When WriteBlob returns without error,
\* what was read is in the store, if the reference is one for it alone; the
\* ingest may be one that a crash or a failed copy left half written.  The
\* import of an archive relies on it: it goes on to look for the digest of
\* what it read (importer.go onUntarBlob).
WrittenIsStored ==
    \A t \in Threads : At(t, "done") /\ Own(req[t]) => req[t].data \in known

\* What earlier writes left half written, and what others write meanwhile,
\* makes no write fail whose reference is one for its content alone.
OwnSucceeds ==
    \A t \in Threads : At(t, "failed") /\ Own(req[t]) => faulty[t]

\* store.go: "failed to resume the status ... will recreate them".  A write
\* during which nothing fails succeeds, whatever earlier ones left behind.
UndisturbedSucceeds == \A t \in Threads : At(t, "failed") => faulty[t]

\* store.go: "If the writer is already in use, an error is returned": a
\* reference is locked only while a writer uses it, and by one only.
LocksInUse ==
    /\ \A r \in held : \E t \in Threads : /\ pc[t] \in {"copy", "clean"}
                                          /\ req[t].ref = r
    /\ \A t, u \in Threads :
          {pc[t], pc[u]} \subseteq {"copy", "clean"} /\ req[t].ref = req[u].ref => t = u
=============================================================================
