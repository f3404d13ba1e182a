----------------------------- MODULE MCOCIStore -----------------------------
(***************************************************************************)
(* Instances of OCIStore for TLC.  A scenario is the calls each thread may *)
(* make, whether the process may crash or a removal fail, and the          *)
(* snapshots the store has at first; a behaviour is one scenario's.        *)
(***************************************************************************)
EXTENDS OCIStore, ChainRemoval, TLC

CONSTANTS t1, t2, k1, k2, a, b, out, m1, b0, b1, x,
          Scenarios  \* name |-> [calls : thread |-> requests, losses : Nat,
                     \*           first : values of snaps]

VARIABLES scenario,  \* name of the scenario
          before     \* the snapshots when a call of Umount began

\* TLC evaluates what is substituted for a constant at each use of it, other
\* definitions once: what is substituted here does nothing but name another.
RootParent == <<"chain", << >>>>
MCNoParent == RootParent

\* Base images: a has one layer, b the same layer and one more, c another one.
BaseA == << {b0} >>
BaseB == << {b0}, {b1} >>
BaseC == << {b1} >>

Mount(r, k, m, ro, unpack) ==
    [op |-> "mount", ref |-> r, name |-> Key(k), target |-> m, ro |-> ro,
     unpack |-> unpack]
Umount(n, m, rm) == [op |-> "umount", name |-> n, target |-> m, rm |-> rm]
CommitTo(n, r)   == [op |-> "commit", name |-> n, ref |-> r]
Unpack(r)        == [op |-> "unpack", ref |-> r]
Delete(r)        == [op |-> "delete", ref |-> r]
Img(r, c)        == [ref |-> r, chain |-> c]
Import(r, c, u)  == [op |-> "import", archive |-> <<Img(r, c)>>, unpack |-> u]
Imports(as, u)   == [op |-> "import", archive |-> as, unpack |-> u]
Single(as, u)    == [op |-> "single", archive |-> as, unpack |-> u]
Pull(r, c, u)    == [op |-> "pull", archive |-> <<Img(r, c)>>, unpack |-> u]
Create(r, c)     == [op |-> "create", ref |-> r, chain |-> c]
Update(r, c)     == [op |-> "update", ref |-> r, chain |-> c]
LabelIt(n, ls)   == [op |-> "label", name |-> n, label |-> ls]
Relabel(n, ls)   == [op |-> "update_labels", name |-> n, label |-> ls]
LookAt(n)        == [op |-> "look", name |-> n]
Calling(calls1, calls2, losses) ==
    [calls |-> t1 :> calls1 @@ t2 :> calls2, losses |-> losses, first |-> {<< >>}]

\* One command at a time, on one key.
Solo == Calling(
    {Import(a, BaseA, FALSE), Mount(a, k1, m1, FALSE, TRUE),
     Umount(Key(k1), m1, -1), CommitTo(Key(k1), out), Delete(a)}, {}, 1)

\* The kinds of mounts: read-only, from scratch, on an existing key; and the
\* commit of a view.
Kinds1 == Calling(
    {Pull(a, BaseA, TRUE), Mount(a, k1, m1, TRUE, FALSE),
     Mount(NoRef, k1, m1, FALSE, FALSE), Umount(Key(k1), m1, 0),
     Umount(Key(k1), m1, 1), CommitTo(Key(k1), out)}, {}, 0)

\* The commit of what is committed, through a view of it.
Views == Calling(
    {Pull(a, BaseA, TRUE), CommitTo(Chain(BaseA), out), Delete(out)}, {}, 1)

\* Archives with several images, of which all are kept or one.
Archives == Calling(
    {Imports(<<Img(a, BaseA), Img(b, BaseB)>>, TRUE),
     Single(<<Img(a, BaseA), Img(b, BaseC), Img(out, BaseC)>>, TRUE),
     Single(<<Img(a, BaseA), Img(b, BaseC), Img(b, BaseC)>>, FALSE),
     Single(<<Img(b, BaseB)>>, TRUE),
     Delete(a)}, {}, 1)

\* Records that callers make, of content that is there, or only in part, or not.
Records == Calling(
    {Import(a, BaseA, FALSE), Create(out, BaseA), Update(out, BaseC), Update(b, BaseA),
     Unpack(out), Mount(out, k1, m1, FALSE, FALSE), Umount(Key(k1), m1, 1),
     CommitTo(Key(k1), b), Delete(out)}, {}, 0)

\* One thread builds on image a while the other one takes it away.
Race == Calling(
    {Import(a, BaseA, FALSE), Mount(a, k1, m1, FALSE, TRUE), CommitTo(Key(k1), out)},
    {Delete(a), Unpack(a), Umount(Key(k1), m1, -1)}, 0)

\* One thread commits while the other one deletes what is committed.
Withdraw == Calling(
    {Pull(a, BaseA, TRUE), Mount(a, k1, m1, FALSE, FALSE), CommitTo(Key(k1), out)},
    {Delete(out)}, 0)

\* After a reboot of the host: some chains, and one or two keys on them or on
\* none.  Every forest with up to three levels and a branch at each of them.
Forest(chains, parents) ==
    [n \in {Chain(c) : c \in chains} \cup DOMAIN parents |->
        IF n \in DOMAIN parents
        THEN [kind |-> "active", parent |-> parents[n], label |-> NoRef, diff |-> {x}]
        ELSE [kind |-> "committed", parent |-> Chain(SubSeq(n[2], 1, Len(n[2]) - 1)),
              label |-> NoRef, diff |-> n[2][Len(n[2])]]]

Forests ==
    UNION {{Forest(chains, parents) :
               parents \in UNION {[K -> {Chain(c) : c \in chains} \cup {NoParent}]
                                     : K \in {{}, {Key(k1)}, {Key(k1), Key(k2)}}}}
             : chains \in {cs \in SUBSET {BaseA, BaseB, BaseC} :
                              BaseB \in cs => BaseA \in cs}}

\* Two threads commit their snapshots to the same image name.  One of them has
\* its snapshot from before a reboot, of an image that is gone and comes back.
Commits ==
    [Calling({Pull(a, BaseA, FALSE), Mount(a, k1, m1, FALSE, FALSE), CommitTo(Key(k1), out)},
             {CommitTo(Key(k2), out)}, 0)
        EXCEPT !.first = {(Key(k2) :> [kind |-> "active", parent |-> Chain(BaseA),
                                       label |-> a, diff |-> {x}])
                          @@ Forest({BaseA}, << >>)}]

Unmounting ==
    [calls |-> t1 :> {Umount(n, m1, rm) : n \in {Key(k1), Chain(BaseB)},
                                          rm \in {-1, 1, 2, 3}}
               @@ t2 :> {},
     losses |-> 0,
     first |-> Forests]

FaultyTable ==
    "solo" :> Solo @@ "kinds" :> Kinds1 @@ "views" :> Views @@ "archives" :> Archives @@
    "records" :> Records @@ "commits" :> Commits @@ "race" :> Race @@
    "withdraw" :> Withdraw @@ "unmounting" :> Unmounting
FaultyScenarios == FaultyTable

\* The race again, with fewer calls.
Refine == Calling(
    {Pull(a, BaseA, FALSE), Mount(a, k1, m1, FALSE, TRUE), CommitTo(Key(k1), out)},
    {Delete(a), Umount(Key(k1), m1, 1)}, 0)

\* Two threads that share layers and a name, and only add to the store; nobody
\* else stores the name of the import.
Build == Calling(
    {Import(a, BaseA, TRUE), Pull(b, BaseB, FALSE), Unpack(a), Mount(a, k1, m1, FALSE, TRUE)},
    {Pull(out, BaseA, TRUE), Pull(b, BaseB, TRUE), Mount(b, k2, m1, FALSE, TRUE)}, 0)

\* Archives of which one image is kept, with nothing that fails.
Keep == Calling(
    {Single(<<Img(a, BaseA), Img(b, BaseC)>>, TRUE), Single(<<Img(b, BaseB)>>, TRUE),
     Delete(a)}, {}, 0)

\* One thread labels the snapshots that the other mounts and commits.
Label == Calling(
    {Pull(a, BaseA, TRUE), Mount(a, k1, m1, FALSE, FALSE),
     CommitTo(Key(k1), out), Umount(Key(k1), m1, 1)},
    {LabelIt(Key(k1), {}), LabelIt(Chain(BaseA), {out}),
     Relabel(Key(k1), {a}), LookAt(NoParent), LookAt(Key(k1))}, 0)

QuietTable ==
    "refine" :> Refine @@ "build" :> Build @@ "label" :> Label @@ "keep" :> Keep
QuietScenarios == QuietTable

\* Image a gets another content between a Mount and its Commit.
Retag == "retag" :> Calling(
    {Import(a, BaseA, TRUE), Import(a, BaseB, TRUE),
     Mount(a, k1, m1, FALSE, FALSE), CommitTo(Key(k1), out)}, {}, 0)

\* Images of which one has the layers of the other.
Shared == "shared" :> Calling({Import(a, BaseA, TRUE), Import(b, BaseB, TRUE), Delete(b)}, {}, 0)

\* Something keeps writing in a mount.
Live == "live" :> Calling(
    {Pull(a, BaseA, TRUE), Mount(a, k1, m1, FALSE, FALSE), CommitTo(Key(k1), out)}, {}, 0)

\* Two threads mount two images with one key.
Lease == "lease" :> Calling(
    {Import(a, BaseA, FALSE), Mount(a, k1, m1, FALSE, TRUE)},
    {Import(b, BaseC, TRUE), Mount(b, k1, m1, FALSE, FALSE)}, 0)

-----------------------------------------------------------------------------

RequestTable ==
    [t \in Threads |-> UNION {Scenarios[s].calls[t] : s \in DOMAIN Scenarios}]
AllRequests == RequestTable

\* The lease of a key is there with its snapshot.
MCInit ==
    /\ scenario \in DOMAIN Scenarios
    /\ snaps \in Scenarios[scenario].first
    /\ before = snaps
    /\ leases = {n \in DOMAIN snaps : n[1] = "key"}
    /\ images = << >> /\ blobs = {} /\ mounts = {}
    /\ serial = [k \in TempKinds \X Threads |-> 0]
    /\ pc = [t \in Threads |-> "idle"]
    /\ req = [t \in Threads |-> NoReq]
    /\ loc = [t \in Threads |-> Blank]
    /\ dir = [t \in Threads |-> Gone]

\* The scenario allows the step: the call that begins, or the crash or failing
\* removal.  A panic is no matter of the scenario.
Within ==
    /\ \A t \in Threads : req'[t] \in Scenarios[scenario].calls[t] \cup {req[t], NoReq}
    /\ \/ serial' = serial
       \/ \A k \in TempKinds \X Threads : serial[k] < Scenarios[scenario].losses
       \/ \E t \in Threads : At(t, "mount_failed") /\ Scratch(t)

Begins == \E t \in Threads : req[t] = NoReq /\ req'[t] # NoReq

MCNext ==
    /\ Next
    /\ Within
    /\ before' = IF scenario = "unmounting" /\ Begins THEN snaps ELSE before
    /\ UNCHANGED scenario

MCSpec == MCInit /\ [][MCNext]_<<vars, scenario, before>>

MCFairSpec == MCSpec /\ \A t \in Threads : WF_vars(Step(t) \/ MountPanic(t))

\* Panics are not guarded: a process after the last is not explored.
BoundedLosses == \A k \in TempKinds \X Threads : serial[k] <= MaxLosses

-----------------------------------------------------------------------------
(* What a call that succeeds has achieved, where no other thread removes   *)
(* things: Commit has its image with all its snapshots, Mount the mount of *)
(* the key and its lease, Umount no mount left, and no lease or removable  *)
(* snapshot if it was to remove.                                           *)

Removing == scenario \in {"race", "withdraw"}

CommitsDurable  == ~ Removing => CommitDurable
MountsBacked    == ~ Removing => MountBacked
UmountsComplete == ~ Removing => UmountComplete

\* Umount removes the snapshot and as many of its ancestors as it was asked to,
\* less those that others are built on; the rest stays as it is, and it is no
\* error if there was less to remove.
RemovesLine ==
    \A t \in Threads :
        Succeeded(t, "umount") /\ scenario = "unmounting" =>
            snaps = Restrict(before, DOMAIN before \ Removable(before, req[t].name, req[t].rm))

\* Records have their content, where callers make none themselves.
ContentsComplete == scenario # "records" => ContentComplete

\* Calls that only add do what they are called for, however they interleave.
BuildersSucceed == scenario = "build" => NoSpuriousFailure
=============================================================================
