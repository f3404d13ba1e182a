------------------------ MODULE ContentIngestProofs ------------------------
(***************************************************************************)
(* Every file of the content directory has the contents its name is the    *)
(* digest of, for any writers, references, contents and crashes.           *)
(*                                                                         *)
(* The strengthening relates a writer to its file: the file starts with    *)
(* what the writer has digested.  That holds across a resumption because   *)
(* the leftover is digested first, across a recreation because nothing is, *)
(* and beside other writers because a reference has one writer.  What may  *)
(* follow in the file is a longer leftover, and is excluded by its size.   *)
(***************************************************************************)
EXTENDS ContentIngest, SequenceTheorems, TLAPS

Writing(t) == pc[t] \in {"copy", "clean"}

TypeInv ==
    /\ \A r \in DOMAIN ingests : ingests[r] = [total |-> ingests[r].total,
                                               data  |-> ingests[r].data]
    /\ \A r \in DOMAIN ingests : ingests[r].data \in Seq(Bytes)
    /\ pc \in [Threads -> {"idle", "open", "copy", "clean", "record", "done", "failed"}]
    /\ DOMAIN req = Threads
    /\ \A t \in Threads : req[t] \in Writes \/ pc[t] = "idle"
    /\ hash \in [Threads -> Seq(Bytes)]

\* A reference in use is locked, has an ingest and a single writer.
OneWriter ==
    /\ \A t \in Threads : Writing(t) => /\ req[t].ref \in held
                                        /\ req[t].ref \in DOMAIN ingests
    /\ \A t, u \in Threads :
          Writing(t) /\ Writing(u) /\ req[t].ref = req[u].ref => t = u

\* The data file f starts with the digested bytes h.
StartsWith(f, h) == Len(h) <= Len(f) /\ \A i \in 1..Len(h) : f[i] = h[i]

DigestedIsWritten ==
    \A t \in Threads : pc[t] = "copy" => StartsWith(File(t), hash[t])

\* A writer that is being opened has digested nothing.
OpenEmpty == \A t \in Threads : pc[t] = "open" => hash[t] = << >>

\* What is about to be recorded has its file.
StoredFirst ==
    \A t \in Threads : pc[t] \in {"clean", "record"} => hash[t] \in DOMAIN blobs

IInv ==
    /\ TypeInv /\ OneWriter /\ OpenEmpty /\ DigestedIsWritten /\ StoredFirst
    /\ ContentAddressed

-----------------------------------------------------------------------------
(* Files.                                                                  *)

\* A file no longer than what it starts with is just that.
LEMMA SameFile ==
    ASSUME NEW f \in Seq(Bytes), NEW h \in Seq(Bytes),
           StartsWith(f, h), Len(f) = Len(h)
    PROVE  f = h
  BY SeqEqual DEF StartsWith

LEMMA FunctionIsSeq ==
    ASSUME NEW S, NEW n \in Nat, NEW g \in [1..n -> S]
    PROVE  g \in Seq(S) /\ Len(g) = n
  <1>1. g \in Seq(S)
    BY SeqDef
  <1>2. DOMAIN g = 1..n /\ DOMAIN g = 1..Len(g) /\ Len(g) \in Nat
    BY <1>1, LenProperties
  <1>3. QED
    BY <1>1, <1>2

\* Writing the next piece keeps the file ahead of the digest.
LEMMA WriteKeepsStart ==
    ASSUME NEW f \in Seq(Bytes), NEW h \in Seq(Bytes), NEW s \in Seq(Bytes),
           StartsWith(f, h)
    PROVE  /\ Overwritten(f, Len(h), s) \in Seq(Bytes)
           /\ StartsWith(Overwritten(f, Len(h), s), h \o s)
  <1> DEFINE m == IF Len(h) + Len(s) > Len(f) THEN Len(h) + Len(s) ELSE Len(f)
             g == Overwritten(f, Len(h), s)
  <1>1. Len(f) \in Nat /\ Len(h) \in Nat /\ Len(s) \in Nat /\ Len(h) <= Len(f)
    BY DEF StartsWith
  <1>2. m \in Nat /\ m >= Len(h) + Len(s)
    BY <1>1
  <1>3. g = [i \in 1..m |-> IF i \in (Len(h) + 1)..(Len(h) + Len(s))
                            THEN s[i - Len(h)] ELSE f[i]]
    BY DEF Overwritten
  <1>4. ASSUME NEW i \in 1..m
        PROVE  g[i] \in Bytes
    <2>1. CASE i \in (Len(h) + 1)..(Len(h) + Len(s))
      <3>1. i - Len(h) \in 1..Len(s)
        BY <2>1, <1>1
      <3>2. QED
        BY <3>1, <2>1, <1>3
    <2>2. CASE i \notin (Len(h) + 1)..(Len(h) + Len(s))
      <3>1. i \in 1..Len(f)
        BY <2>2, <1>1
      <3>2. QED
        BY <3>1, <2>2, <1>3
    <2>3. QED
      BY <2>1, <2>2
  <1>5. g \in Seq(Bytes) /\ Len(g) = m
    <2>1. g \in [1..m -> Bytes]
      BY <1>3, <1>4
    <2>2. QED
      BY <1>2, <2>1, FunctionIsSeq
  <1>6. Len(h \o s) = Len(h) + Len(s)
    BY ConcatProperties
  <1>7. ASSUME NEW i \in 1..(Len(h) + Len(s))
        PROVE  g[i] = (h \o s)[i]
    <2>1. i \in 1..m
      BY <1>1, <1>2
    <2>2. (h \o s)[i] = IF i <= Len(h) THEN h[i] ELSE s[i - Len(h)]
      BY <1>6, ConcatProperties
    <2>3. CASE i <= Len(h)
      <3>1. i \in 1..Len(h) /\ i \notin (Len(h) + 1)..(Len(h) + Len(s))
        BY <2>3, <1>1
      <3>2. QED
        BY <3>1, <2>1, <2>2, <1>3 DEF StartsWith
    <2>4. CASE i > Len(h)
      <3>1. i \in (Len(h) + 1)..(Len(h) + Len(s)) /\ ~ (i <= Len(h))
        BY <2>4, <1>1
      <3>2. QED
        BY <3>1, <2>1, <2>2, <1>3
    <2>5. QED
      BY <2>3, <2>4, <1>1
  <1>8. QED
    BY <1>2, <1>5, <1>6, <1>7 DEF StartsWith

-----------------------------------------------------------------------------
(* The actions.                                                            *)

\* A step that touches no file and no lock, and takes t to a position where
\* it needs none, keeps everything.
LEMMA QuietStep ==
    ASSUME IInv, NEW t \in Threads, NEW l \in {"idle", "open", "done", "failed"},
           pc' = [pc EXCEPT ![t] = l],
           DOMAIN req' = Threads, \A u \in Threads \ {t} : req'[u] = req[u],
           req'[t] \in Writes \/ l = "idle",
           hash' \in [Threads -> Seq(Bytes)],
           \A u \in Threads \ {t} : hash'[u] = hash[u],
           l = "open" => hash'[t] = << >>,
           held \subseteq held' \cup {req[t].ref},
           ~ Writing(t) => held \subseteq held',
           UNCHANGED <<ingests, blobs>>,
           known' \subseteq known \cup DOMAIN blobs
    PROVE  IInv'
  <1>1. TypeInv'
    BY DEF IInv, TypeInv
  <1>2. ~ Writing(t)' /\ pc'[t] = l /\ \A u \in Threads \ {t} : pc'[u] = pc[u]
    BY DEF IInv, TypeInv, Writing
  <1>3. OneWriter'
    <2>1. ASSUME NEW u \in Threads, Writing(u)'
          PROVE  u # t /\ Writing(u) /\ req'[u] = req[u]
      BY <2>1, <1>2 DEF Writing
    <2>2. ASSUME NEW u \in Threads, Writing(u)'
          PROVE  req'[u].ref \in held' /\ req'[u].ref \in DOMAIN ingests'
      <3>1. Writing(u) /\ u # t /\ req'[u] = req[u]
        BY <2>1, <2>2
      <3>2. req[u].ref \in held /\ req[u].ref \in DOMAIN ingests
        BY <3>1 DEF IInv, OneWriter
      <3>3. Writing(t) => req[u].ref # req[t].ref
        BY <3>1 DEF IInv, OneWriter
      <3>4. QED
        BY <3>1, <3>2, <3>3
    <2>3. QED
      BY <2>1, <2>2 DEF IInv, OneWriter
  <1>4. DigestedIsWritten'
    BY <1>2 DEF IInv, DigestedIsWritten, File
  <1>5. StoredFirst'
    BY <1>2 DEF IInv, StoredFirst
  <1>6. ContentAddressed' /\ OpenEmpty'
    BY <1>2 DEF IInv, ContentAddressed, OpenEmpty
  <1>7. QED
    BY <1>1, <1>3, <1>4, <1>5, <1>6 DEF IInv

LEMMA OpenIngestKeeps ==
    ASSUME IInv, NEW t \in Threads, OpenIngest(t)
    PROVE  IInv'
  <1>0. /\ t \in DOMAIN req /\ req[t] \in Writes /\ pc[t] = "open"
        /\ held' = held \cup {req[t].ref} /\ req[t].ref \notin held
        /\ UNCHANGED <<blobs, known, req>>
        /\ \A u \in Threads \ {t} : pc'[u] = pc[u]
        /\ pc'[t] \in {"copy", "failed"}
        /\ pc' \in [Threads -> {"idle", "open", "copy", "clean", "record", "done", "failed"}]
    BY DEF OpenIngest, At, Goto, IInv, TypeInv
  <1>1. \A u \in Threads \ {t} : Writing(u) => req[u].ref # req[t].ref
    BY <1>0 DEF IInv, OneWriter
  <1>2. /\ req[t].ref \in DOMAIN ingests'
        /\ DOMAIN ingests \subseteq DOMAIN ingests'
        /\ \A r \in DOMAIN ingests \ {req[t].ref} : ingests'[r] = ingests[r]
        /\ \A r \in DOMAIN ingests' : /\ ingests'[r] = [total |-> ingests'[r].total,
                                                       data  |-> ingests'[r].data]
                                      /\ ingests'[r].data \in Seq(Bytes)
        /\ hash' \in [Threads -> Seq(Bytes)]
        /\ \A u \in Threads \ {t} : hash'[u] = hash[u]
        /\ StartsWith(ingests'[req[t].ref].data, hash'[t])
    <2>1. CASE Resumes(t) /\ hash' = [hash EXCEPT ![t] = File(t)] /\ UNCHANGED ingests
      <3>1. File(t) \in Seq(Bytes)
        BY <2>1 DEF Resumes, File, IInv, TypeInv
      <3>2. StartsWith(File(t), File(t))
        BY <3>1, LenProperties DEF StartsWith
      <3>3. QED
        BY <2>1, <3>1, <3>2, <1>0 DEF Resumes, File, IInv, TypeInv
    <2>2. CASE /\ ~ Resumes(t)
               /\ ingests' = Recreated(t)
               /\ UNCHANGED hash
               /\ hash[t] = << >>
      <3>1. DOMAIN ingests' = DOMAIN ingests \cup {req[t].ref}
        BY <2>2 DEF Recreated, Put
      <3>2. \A r \in DOMAIN ingests \ {req[t].ref} : ingests'[r] = ingests[r]
        BY <2>2 DEF Recreated, Put
      <3>3. /\ ingests'[req[t].ref] = [total |-> Size(t),
                data |-> IF req[t].ref \in DOMAIN ingests THEN File(t) ELSE << >>]
            /\ ingests'[req[t].ref].data \in Seq(Bytes)
        BY <2>2, EmptySeq DEF Recreated, Put, File, IInv, TypeInv
      <3>4. StartsWith(ingests'[req[t].ref].data, hash'[t])
        BY <2>2, <3>3, EmptySeq, LenProperties DEF StartsWith
      <3>5. hash' \in [Threads -> Seq(Bytes)]
        BY <2>2 DEF IInv, TypeInv
      <3>6. \A r \in DOMAIN ingests' : /\ ingests'[r] = [total |-> ingests'[r].total,
                                                        data  |-> ingests'[r].data]
                                       /\ ingests'[r].data \in Seq(Bytes)
        BY <3>1, <3>2, <3>3 DEF IInv, TypeInv
      <3>7. QED
        BY <2>2, <3>1, <3>2, <3>4, <3>5, <3>6
    <2>3. QED
      BY <2>1, <2>2 DEF OpenIngest, IInv, OpenEmpty, At
  <1>3. TypeInv'
    BY <1>0, <1>2 DEF IInv, TypeInv
  <1>4. OneWriter'
    BY <1>0, <1>1, <1>2 DEF IInv, OneWriter, Writing
  <1>5. DigestedIsWritten'
    <2>1. ASSUME NEW u \in Threads \ {t}, pc'[u] = "copy"
          PROVE  StartsWith(ingests'[req[u].ref].data, hash'[u])
      <3>1. Writing(u) /\ pc[u] = "copy"
        BY <2>1, <1>0 DEF Writing
      <3>2. req[u].ref \in DOMAIN ingests /\ req[u].ref # req[t].ref
        BY <3>1, <1>1 DEF IInv, OneWriter
      <3>3. StartsWith(ingests[req[u].ref].data, hash[u])
        BY <3>1 DEF IInv, DigestedIsWritten, File
      <3>4. QED
        BY <3>2, <3>3, <1>2
    <2>2. QED
      BY <2>1, <1>0, <1>2 DEF DigestedIsWritten, File
  <1>6. StoredFirst' /\ ContentAddressed' /\ OpenEmpty'
    BY <1>0, <1>2 DEF IInv, StoredFirst, ContentAddressed, OpenEmpty
  <1>7. QED
    BY <1>3, <1>4, <1>5, <1>6 DEF IInv

LEMMA WriteKeeps ==
    ASSUME IInv, NEW t \in Threads, Write(t)
    PROVE  IInv'
  <1> DEFINE r == req[t].ref
  <1>1. PICK n \in (Offset(t) + 1)..Size(t) :
            LET piece == SubSeq(req[t].data, Offset(t) + 1, n)
            IN  /\ ingests' = [ingests EXCEPT ![r].data =
                                 Overwritten(@, Offset(t), piece)]
                /\ hash' = [hash EXCEPT ![t] = @ \o piece]
    BY DEF Write
  <1> DEFINE piece == SubSeq(req[t].data, Offset(t) + 1, n)
  <1>2. /\ pc[t] = "copy" /\ Writing(t) /\ r \in DOMAIN ingests
        /\ UNCHANGED <<blobs, known, held, pc, req>>
        /\ req[t] \in Writes
    BY DEF Write, At, Writing, IInv, OneWriter, TypeInv
  <1>3. /\ hash[t] \in Seq(Bytes) /\ ingests[r].data \in Seq(Bytes)
        /\ StartsWith(ingests[r].data, hash[t])
        /\ Offset(t) = Len(hash[t])
    BY <1>2 DEF IInv, TypeInv, DigestedIsWritten, File, Offset
  <1>4. piece \in Seq(Bytes)
    <2>1. req[t].data \in Seq(Bytes)
      BY <1>2, WritesAssumption
    <2>2. Offset(t) \in Nat /\ Size(t) = Len(req[t].data) /\ Size(t) \in Nat
      BY <2>1, <1>3, LenProperties DEF Size
    <2>3. \A i \in (Offset(t) + 1)..n : req[t].data[i] \in Bytes
      BY <2>1, <2>2, ElementOfSeq
    <2>4. QED
      BY <2>2, <2>3, SubSeqProperties
  <1>5. /\ Overwritten(ingests[r].data, Len(hash[t]), piece) \in Seq(Bytes)
        /\ StartsWith(Overwritten(ingests[r].data, Len(hash[t]), piece), hash[t] \o piece)
    BY <1>3, <1>4, WriteKeepsStart
  <1>6. hash[t] \o piece \in Seq(Bytes)
    BY <1>3, <1>4, ConcatProperties
  <1>7. /\ hash' \in [Threads -> Seq(Bytes)] /\ hash'[t] = hash[t] \o piece
        /\ \A u \in Threads \ {t} : hash'[u] = hash[u]
    BY <1>1, <1>6 DEF IInv, TypeInv
  <1>8. /\ DOMAIN ingests' = DOMAIN ingests
        /\ \A q \in DOMAIN ingests \ {r} : ingests'[q] = ingests[q]
        /\ ingests'[r] = [ingests[r] EXCEPT !.data = Overwritten(@, Offset(t), piece)]
    BY <1>1, <1>2
  <1>9. /\ ingests'[r].data = Overwritten(ingests[r].data, Len(hash[t]), piece)
        /\ ingests'[r] = [total |-> ingests'[r].total, data |-> ingests'[r].data]
    <2>1. ingests[r] = [total |-> ingests[r].total, data |-> ingests[r].data]
      BY <1>2 DEF IInv, TypeInv
    <2>2. QED
      BY <2>1, <1>3, <1>8
  <1>10. TypeInv'
    BY <1>2, <1>5, <1>7, <1>8, <1>9 DEF IInv, TypeInv
  <1>11. OneWriter'
    BY <1>2, <1>8 DEF IInv, OneWriter, Writing
  <1>12. DigestedIsWritten'
    <2>1. ASSUME NEW u \in Threads \ {t}, pc[u] = "copy"
          PROVE  StartsWith(ingests'[req[u].ref].data, hash'[u])
      <3>1. req[u].ref \in DOMAIN ingests /\ req[u].ref # r
        BY <2>1, <1>2 DEF IInv, OneWriter, Writing
      <3>2. StartsWith(ingests[req[u].ref].data, hash[u])
        BY <2>1 DEF IInv, DigestedIsWritten, File
      <3>3. QED
        BY <3>1, <3>2, <1>7, <1>8
    <2>2. StartsWith(ingests'[r].data, hash'[t])
      BY <1>5, <1>7, <1>9
    <2>3. QED
      BY <2>1, <2>2, <1>2 DEF DigestedIsWritten, File
  <1>13. StoredFirst' /\ OpenEmpty' /\ ContentAddressed'
    BY <1>2, <1>7 DEF IInv, StoredFirst, OpenEmpty, ContentAddressed
  <1>14. QED
    BY <1>10, <1>11, <1>12, <1>13 DEF IInv

LEMMA CommitBlobKeeps ==
    ASSUME IInv, NEW t \in Threads, CommitBlob(t)
    PROVE  IInv'
  <1>1. /\ pc[t] = "copy" /\ Writing(t)
        /\ pc' = [pc EXCEPT ![t] = "clean"]
        /\ UNCHANGED <<known, held, req, hash>>
        /\ Len(File(t)) = Len(hash[t])
        /\ req[t] \in Writes
    BY DEF CommitBlob, At, Goto, Writing, Verified, Offset, IInv, TypeInv
  <1>2. req[t].ref \in DOMAIN ingests
    BY <1>1 DEF IInv, OneWriter
  <1>3. File(t) = hash[t]
    <2>1. File(t) \in Seq(Bytes) /\ hash[t] \in Seq(Bytes)
      BY <1>2 DEF File, IInv, TypeInv
    <2>2. StartsWith(File(t), hash[t])
      BY <1>1 DEF IInv, DigestedIsWritten
    <2>3. QED
      BY <2>1, <2>2, <1>1, SameFile
  <1>4. /\ hash[t] \in DOMAIN blobs' /\ DOMAIN blobs \subseteq DOMAIN blobs'
        /\ \A d \in DOMAIN blobs' : blobs'[d] = d
    BY <1>3 DEF CommitBlob, Put, IInv, ContentAddressed
  <1>5. /\ DOMAIN ingests' = DOMAIN ingests
        /\ \A r \in DOMAIN ingests \ {req[t].ref} : ingests'[r] = ingests[r]
        /\ \A r \in DOMAIN ingests : /\ ingests'[r] = [total |-> ingests'[r].total,
                                                      data  |-> ingests'[r].data]
                                     /\ ingests'[r].data \in Seq(Bytes)
    <2>1. CASE UNCHANGED ingests
      BY <2>1 DEF IInv, TypeInv
    <2>2. CASE ingests' = [ingests EXCEPT ![req[t].ref].data = << >>]
      <3>1. ingests[req[t].ref] = [total |-> ingests[req[t].ref].total,
                                   data  |-> ingests[req[t].ref].data]
        BY <1>2 DEF IInv, TypeInv
      <3>2. << >> \in Seq(Bytes)
        BY EmptySeq
      <3>3. ingests'[req[t].ref] = [total |-> ingests[req[t].ref].total, data |-> << >>]
        BY <2>2, <3>1, <1>2
      <3>4. QED
        BY <2>2, <3>2, <3>3, <1>2 DEF IInv, TypeInv
    <2>3. QED
      BY <2>1, <2>2 DEF CommitBlob
  <1>6. TypeInv'
    BY <1>1, <1>5 DEF IInv, TypeInv
  <1>7. pc'[t] = "clean" /\ \A u \in Threads \ {t} : pc'[u] = pc[u]
    BY <1>1 DEF IInv, TypeInv
  <1>8. OneWriter'
    BY <1>1, <1>5, <1>7 DEF IInv, OneWriter, Writing
  <1>9. DigestedIsWritten'
    <2>1. ASSUME NEW u \in Threads \ {t}, pc[u] = "copy"
          PROVE  StartsWith(ingests'[req[u].ref].data, hash[u])
      <3>1. req[u].ref \in DOMAIN ingests /\ req[u].ref # req[t].ref
        BY <2>1, <1>1 DEF IInv, OneWriter, Writing
      <3>2. QED
        BY <2>1, <3>1, <1>5 DEF IInv, DigestedIsWritten, File
    <2>2. QED
      BY <2>1, <1>1, <1>7 DEF DigestedIsWritten, File
  <1>10. StoredFirst' /\ OpenEmpty' /\ ContentAddressed'
    BY <1>1, <1>4, <1>7 DEF IInv, StoredFirst, OpenEmpty, ContentAddressed
  <1>11. QED
    BY <1>6, <1>8, <1>9, <1>10 DEF IInv

\* The ingest that goes, and the lock, are nobody else's.
LEMMA CommitCleanKeeps ==
    ASSUME IInv, NEW t \in Threads, CommitClean(t)
    PROVE  IInv'
  <1>1. /\ pc[t] = "clean" /\ Writing(t)
        /\ pc' = [pc EXCEPT ![t] = "record"]
        /\ pc'[t] = "record" /\ \A u \in Threads \ {t} : pc'[u] = pc[u]
        /\ UNCHANGED <<blobs, known, req, hash>>
        /\ held' = held \ {req[t].ref}
        /\ DOMAIN ingests' = DOMAIN ingests \ {req[t].ref}
        /\ \A r \in DOMAIN ingests' : ingests'[r] = ingests[r]
    BY DEF CommitClean, At, Goto, Writing, Restrict, IInv, TypeInv
  <1>2. TypeInv'
    BY <1>1 DEF IInv, TypeInv
  <1>3. \A u \in Threads \ {t} : Writing(u) => /\ req[u].ref # req[t].ref
                                               /\ req[u].ref \in DOMAIN ingests'
    BY <1>1 DEF IInv, OneWriter
  <1>4. OneWriter'
    BY <1>1, <1>3 DEF IInv, OneWriter, Writing
  <1>5. DigestedIsWritten'
    BY <1>1, <1>3 DEF IInv, DigestedIsWritten, Writing, File
  <1>6. StoredFirst' /\ OpenEmpty' /\ ContentAddressed'
    BY <1>1 DEF IInv, StoredFirst, OpenEmpty, ContentAddressed
  <1>7. QED
    BY <1>2, <1>4, <1>5, <1>6 DEF IInv

LEMMA CloseWriterKeeps ==
    ASSUME IInv, NEW t \in Threads, CloseWriter(t), Writing(t),
           UNCHANGED <<ingests, blobs, known, req, hash>>
    PROVE  IInv'
  <1>1. DOMAIN req' = Threads /\ hash' \in [Threads -> Seq(Bytes)] /\ req'[t] \in Writes
    BY DEF IInv, TypeInv, Writing
  <1>2. QED
    BY <1>1, QuietStep DEF CloseWriter, Goto

LEMMA StepKeeps ==
    ASSUME IInv, NEW t \in Threads, Start(t) \/ Step(t)
    PROVE  IInv'
  <1>0. /\ DOMAIN req = Threads /\ hash \in [Threads -> Seq(Bytes)]
        /\ req[t] \in Writes \/ pc[t] = "idle"
    BY DEF IInv, TypeInv
  <1>1. CASE Start(t)
    <2>1. /\ hash' \in [Threads -> Seq(Bytes)] /\ hash'[t] = << >>
          /\ \A u \in Threads \ {t} : hash'[u] = hash[u]
      BY <1>0, <1>1, EmptySeq DEF Start
    <2>2. /\ DOMAIN req' = Threads /\ req'[t] \in Writes
          /\ \A u \in Threads \ {t} : req'[u] = req[u]
      BY <1>0, <1>1 DEF Start
    <2>3. /\ pc' = [pc EXCEPT ![t] = "open"]
          /\ UNCHANGED <<ingests, blobs, known, held>>
      BY <1>1 DEF Start, Goto, disk
    <2>4. QED
      BY <2>1, <2>2, <2>3, QuietStep
  <1>2. CASE OpenKnown(t)
    BY <1>0, <1>2, QuietStep DEF OpenKnown, At, Goto, disk
  <1>3. CASE Discard(t) \/ CopyFails(t) \/ CommitRefused(t)
    BY <1>3, CloseWriterKeeps DEF Discard, CopyFails, CommitRefused, At, Writing, disk
  <1>4. CASE CommitRecord(t)
    <2>1. hash[t] \in DOMAIN blobs /\ req[t] \in Writes
      BY <1>0, <1>4 DEF CommitRecord, At, IInv, StoredFirst
    <2>2. known' \subseteq known \cup DOMAIN blobs
      BY <1>4, <2>1 DEF CommitRecord
    <2>3. PICK l \in {"done", "failed"} : pc' = [pc EXCEPT ![t] = l]
      BY <1>4 DEF CommitRecord, Goto
    <2>4. QED
      BY <1>0, <1>4, <2>1, <2>2, <2>3, QuietStep DEF CommitRecord
  <1>5. CASE Return(t)
    <2>1. hash' \in [Threads -> Seq(Bytes)] /\ \A u \in Threads \ {t} : hash'[u] = hash[u]
      BY <1>0, <1>5, EmptySeq DEF Return
    <2>2. QED
      BY <1>0, <1>5, <2>1, QuietStep DEF Return, Goto, disk
  <1>6. QED
    BY <1>1, <1>2, <1>3, <1>4, <1>5, OpenIngestKeeps, WriteKeeps, CommitBlobKeeps,
       CommitCleanKeeps DEF Step

LEMMA CrashKeeps ==
    ASSUME IInv, Crash
    PROVE  IInv'
  <1>1. /\ UNCHANGED <<ingests, blobs, known>>
        /\ \A t \in Threads : pc'[t] = "idle"
        /\ pc' = [t \in Threads |-> "idle"]
        /\ DOMAIN req' = Threads
        /\ hash' \in [Threads -> Seq(Bytes)]
    BY EmptySeq DEF Crash, disk
  <1>2. TypeInv'
    BY <1>1 DEF IInv, TypeInv
  <1>3. OneWriter' /\ OpenEmpty' /\ DigestedIsWritten' /\ StoredFirst' /\ ContentAddressed'
    BY <1>1 DEF IInv, OneWriter, Writing, OpenEmpty, DigestedIsWritten, StoredFirst,
                ContentAddressed
  <1>4. QED
    BY <1>2, <1>3 DEF IInv

-----------------------------------------------------------------------------

LEMMA IngestInvariant == Spec => []IInv
  <1>1. Init => IInv
    <2>1. << >> \in Seq(Bytes)
      BY EmptySeq
    <2>2. QED
      BY <2>1 DEF Init, IInv, TypeInv, OneWriter, Writing, OpenEmpty,
                  DigestedIsWritten, StoredFirst, ContentAddressed
  <1>2. ASSUME IInv, [Next]_vars
        PROVE  IInv'
    <2>1. CASE UNCHANGED vars
      BY <1>2, <2>1 DEF vars, IInv, TypeInv, OneWriter, Writing, OpenEmpty,
                        DigestedIsWritten, File, StoredFirst, ContentAddressed
    <2>2. QED
      BY <1>2, <2>1, StepKeeps, CrashKeeps DEF Next
  <1>3. QED
    BY <1>1, <1>2, PTL DEF Spec

\* Whatever sources, resumptions, failures and crashes: the database knows no
\* digest without its blob, and no blob has other contents than its digest
\* says (writer.Commit in plugins/content/local/writer.go).
THEOREM IngestContentAddressed == Spec => []ContentAddressed
  <1>1. IInv => ContentAddressed
    BY DEF IInv
  <1>2. QED
    BY <1>1, IngestInvariant, PTL

-----------------------------------------------------------------------------
(* Types.                                                                  *)

LEMMA StepTypes ==
    ASSUME IInv, IInv', TypeOK, NEW t \in Threads, Start(t) \/ Step(t)
    PROVE  TypeOK'
  <1>1. /\ pc' \in [Threads -> {"idle", "open", "copy", "clean", "record", "done", "failed"}]
        /\ hash' \in [Threads -> Seq(Bytes)]
        /\ \A r \in DOMAIN ingests' : ingests'[r] = [total |-> ingests'[r].total,
                                                     data  |-> ingests'[r].data]
        /\ \A r \in DOMAIN ingests' : ingests'[r].data \in Seq(Bytes)
        /\ known' \subseteq DOMAIN blobs'
        /\ \A d \in DOMAIN blobs' : blobs'[d] = d
    BY DEF IInv, TypeInv, ContentAddressed
  <1>2. /\ DOMAIN req = Threads /\ hash[t] \in Seq(Bytes)
        /\ pc[t] # "idle" => req[t] \in Writes
    BY DEF IInv, TypeInv
  <1>3. DOMAIN blobs' \subseteq Seq(Bytes)
    <2>1. CASE CommitBlob(t)
      BY <1>2, <2>1 DEF CommitBlob, Put, TypeOK
    <2>2. UNCHANGED blobs \/ CommitBlob(t)
      BY DEF Start, Step, OpenKnown, OpenIngest, Discard, Write, CopyFails, CommitRefused,
             CommitClean, CommitRecord, Return, disk
    <2>3. QED
      BY <2>1, <2>2 DEF TypeOK
  <1>4. held' \subseteq Refs
    <2>1. CASE OpenIngest(t)
      <3>1. req[t] \in Writes
        BY <1>2, <2>1 DEF OpenIngest, At
      <3>2. QED
        BY <2>1, <3>1, WritesAssumption DEF OpenIngest, TypeOK
    <2>2. held' \subseteq held \/ OpenIngest(t)
      BY DEF Start, Step, OpenKnown, Discard, Write, CopyFails, CommitRefused, CommitBlob,
             CommitClean, CommitRecord, Return, CloseWriter, disk
    <2>3. QED
      BY <2>1, <2>2 DEF TypeOK
  <1>5. DOMAIN ingests' \subseteq Refs /\ \A r \in DOMAIN ingests' : ingests'[r].total \in Nat
    <2>1. CASE UNCHANGED ingests
      BY <2>1 DEF TypeOK
    <2>2. CASE OpenIngest(t) /\ ingests' = Recreated(t)
      <3>1. req[t] \in Writes
        BY <1>2, <2>2 DEF OpenIngest, At
      <3>2. req[t].ref \in Refs /\ Size(t) \in Nat
        BY <3>1, WritesAssumption, LenProperties DEF Size
      <3>3. /\ DOMAIN ingests' = DOMAIN ingests \cup {req[t].ref}
            /\ ingests'[req[t].ref].total = Size(t)
            /\ \A r \in DOMAIN ingests \ {req[t].ref} : ingests'[r] = ingests[r]
        BY <2>2 DEF Recreated, Put
      <3>4. QED
        BY <3>2, <3>3 DEF TypeOK
    <2>3. CASE Write(t) \/ CommitBlob(t)
      <3>1. /\ DOMAIN ingests' = DOMAIN ingests
            /\ \A r \in DOMAIN ingests : ingests'[r].total = ingests[r].total
        <4>1. ASSUME NEW d, ingests' = [ingests EXCEPT ![req[t].ref].data = d]
              PROVE  /\ DOMAIN ingests' = DOMAIN ingests
                     /\ \A r \in DOMAIN ingests : ingests'[r].total = ingests[r].total
          BY <4>1 DEF TypeOK
        <4>2. CASE Write(t)
          <5>1. PICK n : ingests' = [ingests EXCEPT ![req[t].ref].data =
                             Overwritten(@, Offset(t), SubSeq(req[t].data, Offset(t) + 1, n))]
            BY <4>2 DEF Write
          <5>2. QED
            BY <5>1 DEF TypeOK
        <4>3. CASE CommitBlob(t)
          BY <4>1, <4>3 DEF CommitBlob
        <4>4. QED
          BY <2>3, <4>2, <4>3
      <3>2. QED
        BY <3>1 DEF TypeOK
    <2>4. CASE CommitClean(t)
      BY <2>4 DEF CommitClean, Restrict, TypeOK
    <2>5. \/ UNCHANGED ingests
          \/ OpenIngest(t) /\ ingests' = Recreated(t)
          \/ Write(t) \/ CommitBlob(t) \/ CommitClean(t)
      BY DEF Start, Step, OpenKnown, OpenIngest, Discard, CopyFails, CommitRefused,
             CommitRecord, Return, disk
    <2>6. QED
      BY <2>1, <2>2, <2>3, <2>4, <2>5
  <1>6. tx' \in Threads \cup {NoThread}
    BY DEF Start, Step, OpenKnown, OpenIngest, Discard, Write, CopyFails, CommitRefused,
           CommitBlob, CommitClean, CommitRecord, Return, TypeOK
  <1>7. faulty' \in [Threads -> BOOLEAN]
    BY DEF Start, Step, OpenKnown, OpenIngest, Discard, Write, CopyFails, CommitRefused,
           CommitBlob, CommitClean, CommitRecord, Return, TypeOK
  <1>8. \A u \in Threads : /\ req'[u] \in Writes \cup {NoWrite}
                           /\ pc'[u] = "idle" <=> req'[u] = NoWrite
    <2>1. /\ \A u \in Threads : req[u] \in Writes \cup {NoWrite}
          /\ \A u \in Threads : pc[u] = "idle" <=> req[u] = NoWrite
          /\ pc = [u \in Threads |-> pc[u]]
      BY DEF TypeOK, At
    <2>2. CASE Start(t)
      <3>1. PICK w \in Writes : req' = [req EXCEPT ![t] = w]
        BY <2>2 DEF Start
      <3>2. w # NoWrite /\ pc' = [pc EXCEPT ![t] = "open"]
        BY <2>2, WritesAssumption DEF Start, Goto
      <3>3. QED
        BY <1>2, <2>1, <3>1, <3>2
    <2>3. CASE Return(t)
      BY <1>2, <2>1, <2>3 DEF Return, Goto
    <2>4. CASE UNCHANGED req /\ pc[t] # "idle" /\ UNCHANGED pc
      BY <2>1, <2>4
    <2>5. CASE UNCHANGED req /\ pc[t] # "idle"
               /\ \E l \in {"copy", "clean", "record", "done", "failed"} : Goto(t, l)
      BY <2>1, <2>5 DEF Goto
    <2>6. CASE OpenKnown(t) \/ OpenIngest(t)
      BY <2>5, <2>6 DEF OpenKnown, OpenIngest, At
    <2>7. CASE Discard(t) \/ CopyFails(t) \/ CommitRefused(t)
      BY <2>5, <2>7 DEF Discard, CopyFails, CommitRefused, CloseWriter, At
    <2>8. CASE Write(t)
      BY <2>4, <2>8 DEF Write, At
    <2>9. CASE CommitBlob(t) \/ CommitClean(t) \/ CommitRecord(t)
      BY <2>5, <2>9 DEF CommitBlob, CommitClean, CommitRecord, At
    <2>10. QED
      BY <2>2, <2>3, <2>6, <2>7, <2>8, <2>9 DEF Step
  <1>9. \A r \in DOMAIN ingests' : ingests'[r] \in [total : Nat, data : Seq(Bytes)]
    BY <1>1, <1>5
  <1>10. known' \subseteq Seq(Bytes) /\ \A d \in DOMAIN blobs' : blobs'[d] \in Seq(Bytes)
    BY <1>1, <1>3
  <1>11. QED
    BY <1>1, <1>3, <1>4, <1>5, <1>6, <1>7, <1>8, <1>9, <1>10 DEF TypeOK, At

LEMMA TypesInvariant == Spec => [](IInv /\ TypeOK)
  <1>1. Init => TypeOK
    BY EmptySeq DEF Init, TypeOK, At
  <1>2. IInv /\ IInv' /\ TypeOK /\ [Next]_vars => TypeOK'
    <2> SUFFICES ASSUME IInv, IInv', TypeOK, [Next]_vars
                 PROVE  TypeOK'
      OBVIOUS
    <2>1. CASE Crash
      BY <2>1, EmptySeq DEF Crash, disk, TypeOK, At
    <2>2. CASE UNCHANGED vars
      BY <2>2 DEF vars, TypeOK, At
    <2>3. QED
      BY <2>1, <2>2, StepTypes DEF Next
  <1>3. QED
    BY <1>1, <1>2, IngestInvariant, PTL DEF Spec

\* Ingests, blobs, locks and the writers' state keep their types through
\* resumptions, failures and crashes; a thread has a write unless it is idle.
THEOREM IngestTypeOK == Spec => []TypeOK
  BY TypesInvariant, PTL

-----------------------------------------------------------------------------
(* Writes under a reference of their own.                                  *)

\* What earlier writes left under the reference starts the content.
OwnLeftovers ==
    \A r \in DOMAIN ingests : \A w \in Writes :
        w.ref = r /\ Own(w) => StartsWith(w.data, ingests[r].data)

\* The writer has digested the content when its blob is in place.
OwnRecorded ==
    \A t \in Threads :
        pc[t] \in {"clean", "record"} /\ Own(req[t]) => hash[t] = req[t].data

OwnInv == OwnLeftovers /\ OwnRecorded /\ WrittenIsStored /\ OwnSucceeds

LEMMA StartOfStart ==
    ASSUME NEW d \in Seq(Bytes), NEW f \in Seq(Bytes), NEW h \in Seq(Bytes),
           StartsWith(d, f), StartsWith(f, h)
    PROVE  StartsWith(d, h)
  <1>1. Len(d) \in Nat /\ Len(f) \in Nat /\ Len(h) \in Nat
    BY LenProperties
  <1>2. Len(h) <= Len(d)
    BY <1>1 DEF StartsWith
  <1>3. ASSUME NEW i \in 1..Len(h)
        PROVE  d[i] = h[i]
    <2>1. i \in 1..Len(f)
      BY <1>1 DEF StartsWith
    <2>2. QED
      BY <2>1 DEF StartsWith
  <1>4. QED
    BY <1>2, <1>3 DEF StartsWith

\* Writing the next piece of d over a file that starts d leaves one.
LEMMA WriteKeepsWithin ==
    ASSUME NEW d \in Seq(Bytes), NEW f \in Seq(Bytes), NEW k \in Nat,
           NEW n \in (k + 1)..Len(d), k <= Len(f), StartsWith(d, f)
    PROVE  StartsWith(d, Overwritten(f, k, SubSeq(d, k + 1, n)))
  <1> DEFINE s == SubSeq(d, k + 1, n)
             m == IF k + Len(s) > Len(f) THEN k + Len(s) ELSE Len(f)
             g == Overwritten(f, k, s)
  <1>1. Len(d) \in Nat /\ Len(f) \in Nat /\ n \in Nat /\ n > k /\ n <= Len(d) /\ Len(f) <= Len(d)
    BY LenProperties DEF StartsWith
  <1>2. /\ s \in Seq(Bytes) /\ Len(s) = n - k
        /\ \A i \in 1..(n - k) : s[i] = d[k + i]
    <2>1. \A i \in (k + 1)..n : d[i] \in Bytes
      BY <1>1, ElementOfSeq
    <2>2. s \in Seq(Bytes) /\ Len(s) = IF k + 1 <= n THEN n - (k + 1) + 1 ELSE 0
      BY <1>1, <2>1, SubSeqProperties
    <2>3. Len(s) = n - k
      BY <1>1, <2>2
    <2>4. \A i \in 1..Len(s) : s[i] = d[(k + 1) + i - 1]
      BY <1>1, <2>1, SubSeqProperties
    <2>5. \A i \in 1..(n - k) : (k + 1) + i - 1 = k + i
      BY <1>1
    <2>6. QED
      BY <2>2, <2>3, <2>4, <2>5
  <1>3. k + Len(s) = n /\ m \in Nat /\ m <= Len(d) /\ (m = n \/ m = Len(f))
    BY <1>1, <1>2
  <1>4. g = [i \in 1..m |-> IF i \in (k + 1)..n THEN s[i - k] ELSE f[i]]
    BY <1>3 DEF Overwritten
  <1>5. ASSUME NEW i \in 1..m
        PROVE  g[i] = d[i]
    <2>1. CASE i \in (k + 1)..n
      <3>1. i - k \in 1..(n - k) /\ k + (i - k) = i
        BY <2>1, <1>1
      <3>2. s[i - k] = d[i]
        BY <3>1, <1>2
      <3>3. QED
        BY <2>1, <3>2, <1>4
    <2>2. CASE i \notin (k + 1)..n
      <3>1. i \in 1..Len(f)
        BY <2>2, <1>1, <1>3
      <3>2. QED
        BY <2>2, <3>1, <1>4 DEF StartsWith
    <2>3. QED
      BY <2>1, <2>2
  <1>6. Len(g) = m
    <2>1. \A i \in 1..m : d[i] \in Bytes
      BY <1>1, <1>3, ElementOfSeq
    <2>2. g \in [1..m -> Bytes]
      BY <2>1, <1>4, <1>5
    <2>3. QED
      BY <2>2, <1>3, FunctionIsSeq
  <1>7. QED
    BY <1>3, <1>5, <1>6 DEF StartsWith

\* What is known of a write in progress.
LEMMA CopyFacts ==
    ASSUME IInv, NEW t \in Threads, pc[t] = "copy"
    PROVE  /\ req[t] \in Writes /\ req[t].ref \in DOMAIN ingests
           /\ req[t].data \in Seq(Bytes) /\ File(t) \in Seq(Bytes)
           /\ hash[t] \in Seq(Bytes) /\ StartsWith(File(t), hash[t])
           /\ Offset(t) = Len(hash[t]) /\ Size(t) = Len(req[t].data)
  <1>1. req[t] \in Writes /\ req[t].ref \in DOMAIN ingests
    BY DEF IInv, TypeInv, OneWriter, Writing
  <1>2. req[t].data \in Seq(Bytes)
    BY <1>1, WritesAssumption
  <1>3. QED
    BY <1>1, <1>2 DEF IInv, TypeInv, DigestedIsWritten, File, Offset, Size

LEMMA OwnCopy ==
    ASSUME IInv, OwnLeftovers, NEW t \in Threads, pc[t] = "copy", Own(req[t])
    PROVE  StartsWith(req[t].data, File(t)) /\ StartsWith(req[t].data, hash[t])
  <1>1. StartsWith(req[t].data, File(t))
    BY CopyFacts DEF OwnLeftovers, File
  <1>2. QED
    BY <1>1, CopyFacts, StartOfStart

\* A writer at the end of its source has read the content, and its file is
\* no longer than that.
LEMMA OwnEnd ==
    ASSUME IInv, OwnLeftovers, NEW t \in Threads, pc[t] = "copy", Own(req[t]),
           Offset(t) = Size(t)
    PROVE  hash[t] = req[t].data /\ Verified(t)
  <1>1. hash[t] = req[t].data
    BY CopyFacts, OwnCopy, SameFile
  <1>2. Len(File(t)) = Len(hash[t])
    <2>1. Len(File(t)) \in Nat /\ Len(hash[t]) \in Nat
      BY CopyFacts, LenProperties
    <2>2. Len(File(t)) <= Len(req[t].data) /\ Len(hash[t]) <= Len(File(t))
      BY OwnCopy, CopyFacts DEF StartsWith
    <2>3. QED
      BY <1>1, <2>1, <2>2
  <1>3. QED
    BY <1>1, <1>2, CopyFacts DEF Verified

LEMMA LeftoversStep ==
    ASSUME IInv, OwnLeftovers, NEW t \in Threads, Start(t) \/ Step(t)
    PROVE  OwnLeftovers'
  <1>0. /\ \A w \in Writes : w.data \in Seq(Bytes) /\ StartsWith(w.data, << >>)
        /\ pc[t] # "idle" => req[t] \in Writes
    <2>1. \A w \in Writes : w.data \in Seq(Bytes)
      BY WritesAssumption
    <2>2. \A d \in Seq(Bytes) : StartsWith(d, << >>)
      BY LenProperties, EmptySeq DEF StartsWith
    <2>3. QED
      BY <2>1, <2>2 DEF IInv, TypeInv
  <1>1. CASE UNCHANGED ingests
    BY <1>1 DEF OwnLeftovers
  <1>2. CASE OpenIngest(t) /\ ingests' = Recreated(t)
    <2>1. /\ DOMAIN ingests' = DOMAIN ingests \cup {req[t].ref}
          /\ \A r \in DOMAIN ingests \ {req[t].ref} : ingests'[r] = ingests[r]
          /\ ingests'[req[t].ref].data =
                IF req[t].ref \in DOMAIN ingests THEN ingests[req[t].ref].data ELSE << >>
      BY <1>2 DEF Recreated, Put, File
    <2>2. QED
      BY <1>0, <2>1 DEF OwnLeftovers
  <1>3. CASE Write(t)
    <2>1. PICK n \in (Offset(t) + 1)..Size(t) :
              ingests' = [ingests EXCEPT ![req[t].ref].data =
                            Overwritten(@, Offset(t), SubSeq(req[t].data, Offset(t) + 1, n))]
      BY <1>3 DEF Write
    <2>2. pc[t] = "copy"
      BY <1>3 DEF Write, At
    <2>3. /\ DOMAIN ingests' = DOMAIN ingests
          /\ \A r \in DOMAIN ingests \ {req[t].ref} : ingests'[r] = ingests[r]
          /\ ingests'[req[t].ref].data =
                Overwritten(File(t), Offset(t), SubSeq(req[t].data, Offset(t) + 1, n))
      <3>1. ingests[req[t].ref] = [total |-> ingests[req[t].ref].total,
                                   data  |-> ingests[req[t].ref].data]
        BY <2>2, CopyFacts DEF IInv, TypeInv
      <3>2. QED
        BY <2>1, <2>2, <3>1, CopyFacts DEF File
    <2>4. ASSUME NEW w \in Writes, w.ref = req[t].ref, Own(w)
          PROVE  StartsWith(w.data, ingests'[req[t].ref].data)
      <3>1. req[t] \in Writes /\ req[t].data = w.data
        BY <2>2, <2>4, CopyFacts DEF Own
      <3>2. /\ Len(hash[t]) \in Nat /\ Len(hash[t]) <= Len(File(t))
            /\ n \in (Len(hash[t]) + 1)..Len(req[t].data)
            /\ Offset(t) = Len(hash[t])
        BY <2>2, CopyFacts, LenProperties DEF StartsWith
      <3>3. StartsWith(req[t].data, File(t))
        BY <2>2, <2>4, <3>1, CopyFacts DEF OwnLeftovers, File
      <3>4. StartsWith(req[t].data, Overwritten(File(t), Len(hash[t]),
                                      SubSeq(req[t].data, Len(hash[t]) + 1, n)))
        BY <2>2, <3>2, <3>3, CopyFacts, WriteKeepsWithin
      <3>5. QED
        BY <2>3, <3>1, <3>2, <3>4
    <2>5. QED
      BY <2>3, <2>4 DEF OwnLeftovers
  <1>4. CASE CommitBlob(t) /\ ingests' = [ingests EXCEPT ![req[t].ref].data = << >>]
    <2>1. pc[t] = "copy"
      BY <1>4 DEF CommitBlob, At
    <2>2. ingests[req[t].ref] = [total |-> ingests[req[t].ref].total,
                                 data  |-> ingests[req[t].ref].data]
      BY <2>1, CopyFacts DEF IInv, TypeInv
    <2>3. /\ DOMAIN ingests' = DOMAIN ingests
          /\ \A r \in DOMAIN ingests \ {req[t].ref} : ingests'[r] = ingests[r]
          /\ ingests'[req[t].ref].data = << >>
      BY <1>4, <2>1, <2>2, CopyFacts
    <2>4. QED
      BY <1>0, <2>3 DEF OwnLeftovers
  <1>5. CASE CommitClean(t)
    BY <1>5 DEF CommitClean, Restrict, OwnLeftovers
  <1>6. \/ UNCHANGED ingests
        \/ OpenIngest(t) /\ ingests' = Recreated(t)
        \/ Write(t)
        \/ CommitBlob(t) /\ ingests' = [ingests EXCEPT ![req[t].ref].data = << >>]
        \/ CommitClean(t)
    BY DEF Start, Step, OpenKnown, OpenIngest, Discard, CopyFails, CommitRefused,
           CommitBlob, CommitRecord, Return, disk
  <1>7. QED
    BY <1>1, <1>2, <1>3, <1>4, <1>5, <1>6

\* What happens to t's write, as far as its outcome depends on it: an own
\* write is not refused.
LEMMA OwnOutcome ==
    ASSUME IInv, TypeOK, OwnInv, NEW t \in Threads, Start(t) \/ Step(t), Own(req'[t])
    PROVE  /\ pc'[t] \in {"clean", "record"} => hash'[t] = req'[t].data
           /\ pc'[t] = "done" => req'[t].data \in known'
           /\ pc'[t] = "failed" => faulty'[t]
  <1>0. /\ DOMAIN req = Threads /\ DOMAIN pc = Threads
        /\ DOMAIN hash = Threads /\ DOMAIN faulty = Threads
        /\ pc[t] \in {"clean", "record"} /\ Own(req[t]) => hash[t] = req[t].data
    BY DEF IInv, TypeInv, TypeOK, OwnInv, OwnRecorded
  <1>1. CASE Start(t) \/ Return(t)
    BY <1>0, <1>1 DEF Start, Return, Goto
  <1>2. CASE OpenKnown(t)
    BY <1>0, <1>2 DEF OpenKnown, Goto, disk
  <1>3. CASE OpenIngest(t)
    BY <1>0, <1>3 DEF OpenIngest, Goto
  <1>4. CASE Discard(t)
    <2>1. pc[t] = "copy" /\ Own(req[t]) /\ Offset(t) > Size(t)
      BY <1>4 DEF Discard, At
    <2>2. Len(hash[t]) \in Nat /\ Len(req[t].data) \in Nat
          /\ Len(hash[t]) <= Len(req[t].data)
      BY <2>1, OwnCopy, CopyFacts, LenProperties DEF StartsWith, OwnInv
    <2>3. QED
      BY <2>1, <2>2, CopyFacts
  <1>5. CASE Write(t)
    BY <1>5 DEF Write, At
  <1>6. CASE CopyFails(t)
    BY <1>0, <1>6 DEF CopyFails, CloseWriter, Goto
  <1>7. CASE CommitRefused(t)
    <2>1. pc[t] = "copy" /\ Own(req[t]) /\ Offset(t) = Size(t) /\ ~ Verified(t)
      BY <1>7 DEF CommitRefused, At
    <2>2. QED
      BY <2>1, OwnEnd DEF OwnInv
  <1>8. CASE CommitBlob(t)
    <2>1. pc[t] = "copy" /\ Own(req[t]) /\ Offset(t) = Size(t) /\ UNCHANGED <<hash, req>>
      BY <1>8 DEF CommitBlob, At
    <2>2. hash[t] = req[t].data
      BY <2>1, OwnEnd DEF OwnInv
    <2>3. pc'[t] = "clean"
      BY <1>0, <1>8 DEF CommitBlob, Goto
    <2>4. QED
      BY <2>1, <2>2, <2>3
  <1>9. CASE CommitClean(t)
    BY <1>0, <1>9 DEF CommitClean, Goto, At
  <1>10. CASE CommitRecord(t)
    BY <1>0, <1>10 DEF CommitRecord, Goto, At
  <1>11. QED
    BY <1>1, <1>2, <1>3, <1>4, <1>5, <1>6, <1>7, <1>8, <1>9, <1>10 DEF Step

LEMMA OwnStep ==
    ASSUME IInv, TypeOK, OwnInv, NEW t \in Threads, Start(t) \/ Step(t)
    PROVE  OwnInv'
  <1>1. \A u \in Threads \ {t} : /\ pc'[u] = pc[u] /\ req'[u] = req[u]
                                 /\ hash'[u] = hash[u] /\ faulty'[u] = faulty[u]
    <2>1. /\ pc = [u \in Threads |-> pc[u]] /\ DOMAIN req = Threads
          /\ hash = [u \in Threads |-> hash[u]] /\ faulty = [u \in Threads |-> faulty[u]]
      BY DEF IInv, TypeInv, TypeOK
    <2>2. \A u \in Threads \ {t} : pc'[u] = pc[u]
      BY <2>1 DEF Start, Step, OpenKnown, OpenIngest, Discard, Write, CopyFails,
                  CommitRefused, CommitBlob, CommitClean, CommitRecord, Return,
                  CloseWriter, Goto
    <2>3. \A u \in Threads \ {t} : req'[u] = req[u] /\ faulty'[u] = faulty[u]
      BY <2>1 DEF Start, Step, OpenKnown, OpenIngest, Discard, Write, CopyFails,
                  CommitRefused, CommitBlob, CommitClean, CommitRecord, Return
    <2>4. \A u \in Threads \ {t} : hash'[u] = hash[u]
      BY <2>1 DEF Start, Step, OpenKnown, OpenIngest, Discard, Write, CopyFails,
                  CommitRefused, CommitBlob, CommitClean, CommitRecord, Return
    <2>5. QED
      BY <2>2, <2>3, <2>4
  <1>2. known \subseteq known'
    BY DEF Start, Step, OpenKnown, OpenIngest, Discard, Write, CopyFails,
           CommitRefused, CommitBlob, CommitClean, CommitRecord, Return, disk
  <1>3. \A u \in Threads : Own(req'[u]) =>
            /\ pc'[u] \in {"clean", "record"} => hash'[u] = req'[u].data
            /\ pc'[u] = "done" => req'[u].data \in known'
            /\ pc'[u] = "failed" => faulty'[u]
    <2>1. ASSUME NEW u \in Threads \ {t}, Own(req'[u])
          PROVE  /\ pc'[u] \in {"clean", "record"} => hash'[u] = req'[u].data
                 /\ pc'[u] = "done" => req'[u].data \in known'
                 /\ pc'[u] = "failed" => faulty'[u]
      BY <1>1, <1>2, <2>1 DEF OwnInv, OwnRecorded, WrittenIsStored, OwnSucceeds, At
    <2>2. QED
      BY <2>1, OwnOutcome
  <1>4. OwnLeftovers'
    BY LeftoversStep DEF OwnInv
  <1>5. OwnRecorded' /\ WrittenIsStored' /\ OwnSucceeds'
    BY <1>3 DEF OwnRecorded, WrittenIsStored, OwnSucceeds, At
  <1>6. QED
    BY <1>4, <1>5 DEF OwnInv

LEMMA OwnInvariant == Spec => []OwnInv
  <1>1. Init => OwnInv
    BY DEF Init, OwnInv, OwnLeftovers, OwnRecorded, WrittenIsStored, OwnSucceeds, At
  <1>2. IInv /\ TypeOK /\ OwnInv /\ [Next]_vars => OwnInv'
    <2> SUFFICES ASSUME IInv, TypeOK, OwnInv, [Next]_vars
                 PROVE  OwnInv'
      OBVIOUS
    <2>1. CASE Crash
      BY <2>1 DEF Crash, disk, OwnInv, OwnLeftovers, OwnRecorded, WrittenIsStored,
                  OwnSucceeds, At
    <2>2. CASE UNCHANGED vars
      BY <2>2 DEF vars, OwnInv, OwnLeftovers, OwnRecorded, WrittenIsStored, OwnSucceeds, At
    <2>3. QED
      BY <2>1, <2>2, OwnStep DEF Next
  <1>3. QED
    BY <1>1, <1>2, TypesInvariant, PTL DEF Spec

\* When WriteBlob returns without error, what was read is in the store, if
\* its reference is one for it alone, whatever failures and crashes left of
\* it before (helpers.go Copy, importer.go onUntarBlob).
THEOREM IngestWrittenIsStored == Spec => []WrittenIsStored
  <1>1. OwnInv => WrittenIsStored
    BY DEF OwnInv
  <1>2. QED
    BY <1>1, OwnInvariant, PTL

\* A write whose reference is one for its content alone fails only if its
\* source, the disk or a transaction does: no leftover is too long for it or
\* gives it a wrong digest.
THEOREM IngestOwnSucceeds == Spec => []OwnSucceeds
  <1>1. OwnInv => OwnSucceeds
    BY DEF OwnInv
  <1>2. QED
    BY <1>1, OwnInvariant, PTL

\* Where every reference is one for a content alone, as the references are that
\* carry a digest, the claim of store.go holds: a write during which nothing
\* fails succeeds.  Run ingest_stuck shows it of two contents of one reference.
THEOREM IngestUndisturbedSucceeds ==
    ASSUME \A w \in Writes : Own(w)
    PROVE  Spec => []UndisturbedSucceeds
  <1>1. IInv /\ OwnSucceeds => UndisturbedSucceeds
    BY DEF IInv, TypeInv, OwnSucceeds, UndisturbedSucceeds, At
  <1>2. QED
    BY <1>1, IngestInvariant, IngestOwnSucceeds, PTL

-----------------------------------------------------------------------------
(* Locks.                                                                  *)

HeldIsUsed == \A r \in held : \E t \in Threads : Writing(t) /\ req[t].ref = r

LEMMA HeldStep ==
    ASSUME ~ OpenFaults, IInv, HeldIsUsed, NEW t \in Threads, Start(t) \/ Step(t)
    PROVE  HeldIsUsed'
  <1>0. DOMAIN req = Threads /\ pc = [u \in Threads |-> pc[u]]
    BY DEF IInv, TypeInv
  <1>1. CASE /\ ~ Writing(t)
             /\ UNCHANGED held
             /\ \A u \in Threads \ {t} : pc'[u] = pc[u] /\ req'[u] = req[u]
    BY <1>1 DEF HeldIsUsed, Writing
  <1>2. CASE /\ held' \subseteq held \ {req[t].ref}
             /\ \A u \in Threads \ {t} : pc'[u] = pc[u] /\ req'[u] = req[u]
    BY <1>2 DEF HeldIsUsed, Writing
  <1>3. CASE /\ held' \subseteq held \cup {req[t].ref}
             /\ \A u \in Threads \ {t} : pc'[u] = pc[u]
             /\ pc'[t] \in {"copy", "clean"}
             /\ UNCHANGED req
    BY <1>3 DEF HeldIsUsed, Writing
  <1>4. CASE Start(t) \/ OpenKnown(t) \/ CommitRecord(t) \/ Return(t)
    BY <1>0, <1>1, <1>4 DEF Start, OpenKnown, CommitRecord, Return, Goto, At, Writing
  <1>5. CASE Discard(t) \/ CopyFails(t) \/ CommitRefused(t) \/ CommitClean(t)
    BY <1>0, <1>2, <1>5 DEF Discard, CopyFails, CommitRefused, CommitClean, CloseWriter, Goto
  <1>6. CASE OpenIngest(t)
    BY <1>0, <1>3, <1>6 DEF OpenIngest, Goto
  <1>7. CASE Write(t) \/ CommitBlob(t)
    BY <1>0, <1>3, <1>7 DEF Write, CommitBlob, Goto, At
  <1>8. QED
    BY <1>4, <1>5, <1>6, <1>7 DEF Step

\* "If the writer is already in use, an error is returned" (store.go): unless
\* the transaction that opens an ingest fails, with its reference locked, a
\* lock has one writer that will release it, through every failure of a copy,
\* refusal of a commit and crash.
THEOREM IngestLocksInUse ==
    ASSUME ~ OpenFaults
    PROVE  Spec => []LocksInUse
  <1>1. Init => HeldIsUsed
    BY DEF Init, HeldIsUsed
  <1>2. IInv /\ HeldIsUsed /\ [Next]_vars => HeldIsUsed'
    <2> SUFFICES ASSUME IInv, HeldIsUsed, [Next]_vars
                 PROVE  HeldIsUsed'
      OBVIOUS
    <2>1. CASE Crash
      BY <2>1 DEF Crash, HeldIsUsed
    <2>2. CASE UNCHANGED vars
      BY <2>2 DEF vars, HeldIsUsed, Writing
    <2>3. QED
      BY <2>1, <2>2, HeldStep DEF Next
  <1>3. IInv /\ HeldIsUsed => LocksInUse
    BY DEF IInv, OneWriter, HeldIsUsed, LocksInUse, Writing
  <1>4. QED
    BY <1>1, <1>2, <1>3, IngestInvariant, PTL DEF Spec
=============================================================================
