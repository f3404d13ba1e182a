----------------------------- MODULE StoreState -----------------------------
(***************************************************************************)
(* The state of an OCI store (src/pkg/ocistore) and of the calls in        *)
(* progress on it.                                                         *)
(*                                                                         *)
(* A call (Mount, Commit, Import ...) runs in a thread: a goroutine of a   *)
(* program that uses the library, or the one command of the command line.  *)
(* The calls take no lock of their own: each database transaction and each *)
(* system call is one step, and the calls of different threads interleave  *)
(* between them.                                                           *)
(*                                                                         *)
(* A chain ID is modelled by the sequence of layers it is the digest of    *)
(* (identity.ChainID), a layer by the set of file changes it carries, an   *)
(* image by its sequence of layers.                                        *)
(***************************************************************************)
EXTENDS SnapshotOps, Sequences

CONSTANTS Threads,    \* callers
          Keys,       \* snapshot keys chosen by callers of Mount
          Refs,       \* image names
          NoRef,      \* no image name
          Targets,    \* mount points
          Changes,    \* file changes
          Requests,   \* thread |-> the calls it may make
          NoReq,      \* the thread makes no call
          Gone,       \* mounts of deleted directories, or none
          MaxLayers,  \* bound: longest chain of layers
          MaxLosses,  \* bound: crashes of the process, and removals that fail
          Faults      \* whether mounts, unmounts, extractions, diffs, writes of blobs,
                      \* removals of snapshots and releases of leases may fail

VARIABLES snaps,      \* the snapshotter's metadata.db and its directories
          images,     \* image records of the store's metadata.db
          leases,     \* lease IDs of the store's metadata.db
          blobs,      \* the content directory; nothing ever removes a blob
          mounts,     \* mounts whose directories exist: [target, snap, rw]
          serial,     \* kind of temporary and thread |-> number of its next one
          pc,         \* thread |-> where its call is
          req,        \* thread |-> the call
          loc,        \* thread |-> the call's local variables
          dir         \* thread |-> snapshot whose mounts the call holds

store  == <<snaps, images, leases, blobs, mounts>>
thread == <<pc, req, loc, dir>>
vars   == <<snaps, images, leases, blobs, mounts, serial, pc, req, loc, dir>>

-----------------------------------------------------------------------------
(* Names of snapshots and leases.                                          *)

Layers == SUBSET Changes
Chains == Seq(Layers) \ {<< >>}

Key(k)   == <<"key", k>>
Chain(c) == <<"chain", c>>

\* uniquePart(): keys and lease IDs that nothing else in the store has.  A thread
\* uses a name again once what had it is removed, and never if it stays behind.
Temp(kind, t) == <<kind, t, serial[<<kind, t>>]>>

TempKinds   == {"extract", "lower", "upper", "lease"}
ChosenNames == ({"key"} \X Keys) \cup ({"chain"} \X Chains)
Names       == ChosenNames \cup (TempKinds \X Threads \X Nat)

ASSUME NoParentAssumption == NoParent = Chain(<< >>)
ASSUME GoneAssumption == Gone \notin Names
ASSUME BoundsAssumption == MaxLayers \in Nat \ {0} /\ MaxLosses \in Nat

-----------------------------------------------------------------------------
(* Content of the store.                                                   *)

Manifest(c) == <<"manifest", c>>
Config(c)   == <<"config", c>>
Layer(d)    == <<"layer", d>>

LayersOf(c) == {Layer(c[i]) : i \in DOMAIN c}

\* Everything an image with layers c consists of.
ContentOf(c) == {Manifest(c), Config(c)} \cup LayersOf(c)

\* img.RootFS, and with it img.IsUnpacked: the layers are listed, not read.
Readable(c) == {Manifest(c), Config(c)} \subseteq blobs

-----------------------------------------------------------------------------
(* Calls.                                                                  *)

MountCall  == [op : {"mount"}, ref : Refs, name : ChosenNames, target : Targets,
               ro : BOOLEAN, unpack : BOOLEAN]

\* MountFromScratch.
ScratchCall == [op : {"mount"}, ref : {NoRef}, name : ChosenNames, target : Targets,
                ro : BOOLEAN, unpack : {FALSE}]
UmountCall == [op : {"umount"}, target : Targets, name : Names, rm : Int]
CommitCall == [op : {"commit"}, name : Names, ref : Refs]
ImageCall  == [op : {"unpack", "delete"}, ref : Refs]

\* What an archive or a registry has, and what a record says.
Images     == [ref : Refs, chain : Chains]
FetchCall  == [op : {"import", "single", "pull"}, archive : Seq(Images) \ {<< >>},
               unpack : BOOLEAN]
RecordCall == [op : {"create", "update"}, ref : Refs, chain : Chains]

\* label: the image reference that the labels given name (NoRef: that they
\* take away), or none if they are other labels.
LabelCall  == [op : {"label", "update_labels"}, name : Names,
               label : SUBSET (Refs \cup {NoRef})]
LookCall   == [op : {"look"}, name : Names \cup {NoParent}]

Calls == MountCall \cup ScratchCall \cup UmountCall \cup CommitCall \cup ImageCall
         \cup FetchCall \cup RecordCall \cup LabelCall \cup LookCall

ASSUME RequestsAssumption ==
    \A t \in Threads : Requests[t] \subseteq Calls /\ NoReq \notin Requests[t]
ASSUME RefsAssumption == NoRef \notin Refs

\* Local variables of a call that does nothing.
Blank == [chain |-> << >>,        \* layers of the image the call works on
          i     |-> 0,            \* layer being unpacked
          cur   |-> NoParent,     \* snapshot being walked or compared
          par   |-> NoParent,     \* its parent, as Stat returned it
          depth |-> 0,            \* levels left to remove, -1 for all
          layer |-> {},           \* diff computed by Commit
          owns  |-> FALSE,        \* Mount created the lease
          err   |-> FALSE,        \* the call failed
          ref   |-> NoRef,        \* image reference read from a snapshot's label
          todo  |-> << >>,        \* images of the archive still to work on
          loop  |-> "none",       \* where the loop over them goes on
          errs  |-> FALSE,        \* whether it met an error
          next  |-> "return"]     \* where the call goes after a common part

Init ==
    /\ snaps = << >>
    /\ images = << >>
    /\ leases = {}
    /\ blobs = {}
    /\ mounts = {}
    /\ serial = [k \in TempKinds \X Threads |-> 0]
    /\ pc = [t \in Threads |-> "idle"]
    /\ req = [t \in Threads |-> NoReq]
    /\ loc = [t \in Threads |-> Blank]
    /\ dir = [t \in Threads |-> Gone]

-----------------------------------------------------------------------------
(* Control of a thread.                                                    *)

At(t, l) == pc[t] = l

Goto(t, l) == pc' = [pc EXCEPT ![t] = l]

\* The call of t is over, but for the deferred release of its lease.  failed:
\* it has not done what it was called for.  Import and ImportFile log their
\* error and return no image and no error, the others return it.
Finish(t, failed) ==
    /\ Goto(t, "return")
    /\ loc' = [loc EXCEPT ![t] =
                 [Blank EXCEPT !.owns = loc[t].owns,
                               !.err  = failed]]

\* A part of the call is over, and with it the call, unless it was made for one
\* of several images: these loops collect the errors and go on.
EndPart(t, failed) ==
    \/ /\ loc[t].loop = "none"
       /\ Finish(t, failed)
    \/ /\ loc[t].loop # "none"
       /\ Goto(t, loc[t].loop)
       /\ loc' = [loc EXCEPT ![t] = [Blank EXCEPT !.todo = loc[t].todo,
                                                  !.errs = loc[t].errs \/ failed]]

\* The common part of a call is over: on to what follows it.
Continue(t) ==
    /\ Goto(t, loc[t].next)
    /\ loc' = [loc EXCEPT ![t] = [@ EXCEPT !.next = "return", !.i = 0,
                                           !.cur = NoParent, !.par = NoParent,
                                           !.depth = 0]]

\* A call starts, with its lease unless the call takes it later.
Start(t, r, l) ==
    /\ At(t, "idle")
    /\ r \in Requests[t]
    /\ req' = [req EXCEPT ![t] = r]
    /\ Goto(t, l)

\* client.WithLease with a random ID.
TakeLease(t) == leases' = leases \cup {Temp("lease", t)}

-----------------------------------------------------------------------------
(* Snapshot transactions, as steps on the store: the mounts made from a    *)
(* snapshot, and those a call holds, follow its directories.               *)

\* Remove deletes the directories of n, mounted or not.
RemoveSnapshot(n) ==
    /\ snaps' = Removed(snaps, n)
    /\ mounts' = {m \in mounts : m.snap # n}
    /\ dir' = [t \in Threads |-> IF dir[t] = n THEN Gone ELSE dir[t]]

\* Another crash or failing removal is within the bound.
MayLose == \A k \in TempKinds \X Threads : serial[k] < MaxLosses

\* The removal of a temporary fails, which is only logged: it stays.
Lose(kind, t) ==
    /\ Faults
    /\ Temp(kind, t) \in DOMAIN snaps \cup leases
    /\ MayLose
    /\ serial' = [serial EXCEPT ![<<kind, t>>] = @ + 1]

\* Commit renames n to c: the same directories under a new name.
CommitSnapshot(n, c) ==
    /\ snaps' = Committed(snaps, n, c, NoRef)
    /\ mounts' = {IF m.snap = n THEN [m EXCEPT !.snap = c] ELSE m : m \in mounts}
    /\ dir' = [t \in Threads |-> IF dir[t] = n THEN c ELSE dir[t]]
=============================================================================
