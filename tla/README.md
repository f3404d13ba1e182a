# A verification of the OCI store

`src/pkg/ocistore` stores OCI images without a daemon, on containerd's local
services: a content directory, two bolt databases and the overlay snapshotter.
This directory models what its calls do to that store: mounting, committing,
unpacking, importing, pulling, labelling and deleting, one call at a time and
several at once, with failures of I/O and crashes; and below the calls, how the
snapshotter keeps records and directories in step, how blobs get into the content
directory, and which process has the store.

## The system

| Component | State | Operations | Hard parts |
|---|---|---|---|
| Snapshotter (`vendor/.../overlay.go`, `storage/bolt.go`) | records name -> kind, parent, labels; one directory each | Prepare, View, Mounts, Commit, Remove, Update, Stat | a parent must outlive its children and not change under them |
| Unpack (`unpack.go`, `unpacker.go`) | one extraction snapshot at a time | IsUnpacked; per layer Prepare, Apply, Commit, abort | two calls extract the same layer; failures and crashes leave extraction snapshots |
| Chain removal (`snapshots.go`) | the link being removed | Stat and Remove, link by link | the chain changes between the two and between links |
| Mount, Umount (`mount.go`) | lease with the key as its ID, mounts | Mount, MountFromScratch, Umount | keys in use, clean-up after a failed mount, a panic |
| Commit (`commit.go`, `rootfs/diff.go`) | layer, configuration, two temporary views | diff, apply, commit, write, put, unpack | many transactions: state read early and used late, failures between them |
| Image records (`image.go`, `import.go`, `pull.go`) | records name -> manifest | Import, ImportFile, SingleImportFile, Pull, Create, Update, Unpack, Delete | update or create without a transaction around them; swallowed errors; archives of several images; layers that images share |
| Labels of snapshots (`snapshots.go`) | labels | LabelSnapshot, RemoveSnapshotLabels, UpdateSnapshot | read-modify-write over two transactions |
| Content store (`content/helpers.go`, `metadata/content.go`, `content/local`) | ingests, blobs, recorded digests, locked references | WriteBlob: open or resume, copy, commit | an ingest outlives its write and its process, and is resumed by the next one with its reference |
| Init (`ociStore.go`, bolt) | file locks of two databases | Init, the first call, Close, exit | a lock that is waited for without timeout and never given back before the exit |
| Leases (`mount.go`, `client/lease.go`) | IDs | created and released by each call | the lease of a key has one owner and several users; nothing collects garbage yet (`cmd/root.go:88`) |
| Listing (`image.go`, `snapshots.go`) | none | List, Get, ListSnapshots, GetSnapshot | none |
| Command line, logger | none | flags, output | none |

The calls of a process share the store and nothing else; one process at a time
has it. The library takes no lock of its own: each database transaction and each
system call is atomic, anything may happen between two of them. The calls reach the snapshotter through
`sn.Prepare`, `sn.Commit` and the like, each other through the image records and
through the names of snapshots: a chain ID, the digest of a sequence of layers,
names the committed snapshot holding them, and every image that has these layers
uses it on the strength of its name.

What makes the system correct:

- snapshotter: parents exist and are committed, no cycle, what is committed no
  longer changes;
- unpacking: a chain ID names what it is the digest of, nothing is forgotten,
  calls that share layers do not make each other fail;
- removal: takes nothing others build on, ends;
- mount: success means the snapshot of the key is at the target;
- commit: success means an image with all its snapshots, failure loses no
  active snapshot;
- image records: what is imported, pulled or committed is never visible without
  its content, and the deletion of one image does not touch another;
- labels: what is written back is what was read, with the change;
- snapshotter below: every record has its directory, every directory its record,
  and what crashes leave is in nobody's way;
- content store: a file has the contents its name is the digest of, a write
  without error has stored what it read, leftovers never make writes fail;
- Init: one process uses the store, none waits for ever.

## Modules

`SnapshotOps` has the transactions of the snapshotter as pure operators on a
store value, a function from the names that exist to records: a result
operator per transaction with the errors in the order the code tests for them,
and an operator for the store afterwards. The changes in a snapshot's upper
directory are a set, `diff`.

`SnapshotTree` is the abstract snapshotter: the transactions that succeed, in
any order. `MCSnapshotTree` instantiates it.

`StoreState` declares the state of an OCI store and the helpers of the calls:

| Variable | Code |
|---|---|
| `snaps` | the snapshotter's `metadata.db` and directories |
| `images`, `leases` | the store's `metadata.db` |
| `blobs` | the content directory |
| `mounts` | the kernel's mounts whose directories exist |
| `pc`, `req`, `loc`, `dir` | per thread: position, arguments and local variables of the call, and the snapshot whose mounts it holds |
| `serial` | per kind of temporary and thread, the number in its next name: makes temporary names unique, as `uniquePart()` does; goes up when the process ends or a removal fails |

`UnpackSteps`, `RemovalSteps`, `MountSteps`, `CommitSteps`, `ImageSteps`,
`ImportSteps` and `LabelSteps` have one action per transaction or system call of
the operation they are named for. `ImageSteps` stores records; `ImportSteps` has
the loops of an import over the images of its archive (`loc.todo`), whose body is
the common part, which comes back to `loc.loop` with its error noted.
Parts that several calls share (unpacking, walking a chain, storing a record) are
written once: a call enters them with `Goto` and they go on to `loc.next`.
`OCIStore` composes them and adds the deferred functions (`Return`), the processes
in the mounts (`UserWrite`), the panic of `MountFromScratch` (`MountPanic`) and
crashes (`Kill`, and `Reboot`, which also loses the mounts). `MCOCIStore` has the
scenarios: the calls each thread may make, how often the process may crash or a
removal fail (`losses`), and the snapshots there at first. A behaviour belongs to
one scenario, so that a run checks its properties over several questions at once,
and the states of a run are those of its scenarios together, not their product.

`ChainRemoval` defines what the removal of a chain removes, without a walk:
`Removable`, by ancestors (`Line`, the least set closed under parents) and by who
else is built on them.

Three modules look below the calls. What they have in common with the others is
a promise, not state.

`OverlaySnapshotter` is the snapshotter on its two stores. `meta`, `ids` and `seq`
are the database (records, the number of each one's directory, the last number
given out), `dirs` the directories, `lock` the thread in bolt's write
transaction. Prepare is `CreateBegin`, `CreateRename`, `CreateCommit`, with `Fail`
for the deferred removal of its directories after the rollback; Remove is a
transaction (`RemoveBegin`) and then one directory after the other, contents
first (`RemoveContents`, `RemoveDirectory`), as `os.RemoveAll` works.
`SnapshotTree` is its abstract specification, and the one `OCIStore` uses the
snapshotter by: `TreeSpec` is checked of both.

`ContentIngest` is WriteBlob: `ingests` and `blobs` are the directories of
`content/local`, `known` the digests recorded in the store's database, `held` the
references locked in memory, `tx` the thread in the database transaction; a
thread's `hash` is what its writer has digested. A digest is the sequence of bytes
it is the digest of, one byte per piece a Write moves. `OCIStore` takes from it
that a blob once stored is there and what its digest says.

`StoreLock` has the processes: an instance is one call of Init and the store that
comes of it, `metaLock` and `snapLock` the locks of the databases. `OneUser` is
what lets `OCIStore` have the threads of one process only. Each has an MC module
with its instances.

Chain IDs are modelled by the sequences of layers they are digests of, layers by
the set of their changes, content by name: digests are taken to be free of
collisions. A commit with an equal diff gives an equal layer, which is how the
code sees two commits of the same changes.

Operators whose comment calls them faulty (`CommitLayerStrict`, ...) are
plausible mistakes in the operator that follows; with one of them in its place,
the property it is meant for fails, which shows that the property has a grip on
that code.

## Runs

| Run | Shows | Instance |
|---|---|---|
| `tree` | `ParentsCommitted`, `Acyclic`, `CommittedImmutable`, `AncestorsKept` of the abstract snapshotter | 4 names: a chain of three with a sibling |
| `calls` | the calls of the store when I/O may fail (which, see below): the scenarios and properties below | 1 or 2 threads, 3 images, 2 keys, 1 crash or failing removal |
| `share` | threads that share a store without I/O errors: the scenarios and properties below | 2 threads |
| `overlay` | records and directories in step (`DirectoriesBacked`, `NoOrphans`), numbers of directories are not shared (`TypeOK`), leftovers block nothing for good (`CleanupHeals`), implements `SnapshotTree` | 3 names, 3 directories; 2 threads, or 1 thread with failing commits and 2 crashes |
| `ingest` | contents match digests whatever is resumed by whom (`ContentAddressed`); with a reference that determines the content, success stores (`WrittenIsStored`) and only failures fail (`OwnSucceeds`); references are unlocked (`LocksFreed`), writes end (`WritesFinish`) | 2 threads, 3 references, all failures, 2 crashes |
| `lock` | one process works at a time (`OneUser`), takes its locks in one order (`NoLockCycle`), and all end (`ProcessesEnd`) | 3 processes |
| `retag`, `live_writes`, `shared_layers`, `lease_owner`, `overlay_late`, `ingest_stuck` | disagreements, below | 1 or 2 threads |

In `calls` (`Faults`) these fail at any time: mounts and unmounts, the extraction of
a layer, the diff, the fetching of blobs and the writes of a Commit's layer, manifest
and configuration, the removal of a snapshot and the release of a lease. The other
transactions of the databases fail only with the errors the code tests for (not
found, already exists, still has children).

The scenarios of `calls`:

| Scenario | Threads | Calls |
|---|---|---|
| `Solo` | 1, 1 crash or failing removal | Import, Mount, Umount, Commit, Delete on one key |
| `Kinds1` | 1 | views, mounts from scratch with their panic, keys in use, commits of a view |
| `Views` | 1, 1 crash or failing removal | commits of what is committed, which take their diff through a view of it |
| `Archives` | 1, 1 crash or failing removal | imports of several images, all kept or one |
| `Records` | 1 | Create and Update of records whose content is there, in part or not at all; Unpack, Mount, Commit and Delete of such images |
| `Commits` | 2 | two commits to one image name; one thread has its snapshot from before a reboot |
| `Race` | 2 | import, mount, commit against delete, unmount, unpack |
| `Withdraw` | 2 | commit against the deletion of what is committed |
| `Unmounting` | 1 | Umount, with every depth, from every forest of up to five snapshots |

In all but `Records` images have their content (`ContentsComplete`); Create and
Update record whatever target they are given (`image.go:98`, `image.go:123`), so
that with them it is up to the caller. In all of them
chain IDs name what they are digests of (`ChainsFaithful`), parents are there
(`ParentsCommitted`) and active snapshots are not lost (`ActiveKept`).
No path through a call forgets a temporary snapshot or lease (`NoLeftovers`): each
belongs to a call at the part that uses it, or was left by a crash, or by a removal
that was tried and failed. The last is only logged in the code
(`unpacker.go:341`, `diff.go:45`, `image.go:64`); what it leaves stays, and pins its
parents. Success means what it says for
SingleImportFile (`SingleImportKeeps`) and, unless the other thread removes, for
Commit, Mount and Umount (`CommitsDurable`, `MountsBacked`, `UmountsComplete`).
Umount alone removes just what `Removable` says (`RemovesLine`).

The scenarios of `share`, where no I/O fails: `Refine` (pull, mount and commit
against delete and unmount), `Build` (import, pull, unpack and mount of images that
share a layer or a name), `Label` (labels next to mount, commit and unmount, where the
labels name the mounted image or none) and `Keep` (SingleImportFile). In all of them
each step of `OCIStore` is one of `SnapshotTree` or changes no snapshot (`TreeSpec`),
every call returns (`CallsReturn`), chain IDs are faithful and nothing temporary is
left (`NoLeftovers`, here without exception). The image SingleImportFile keeps is
unpacked if that was asked for (the last part of `SingleImportKeeps`; unpacking that
fails is only logged, so that `calls` cannot ask for it). Calls that only add never
fail because of each other (`BuildersSucceed`). That property judges what a call has
done, not what it returns: `Import` returns neither image nor error if it fails
(`import.go:75-81`), and the models keep its failure (`Finish`). It does fail if
another call creates the record between its Update and its Create
(`client/import.go:240`), so in `Build` nobody else stores the import's name.

The bounds. Two layers (`MaxLayers`) give chains with a base and a top, so that
sharing, removal of a parent and a wrong order of layers exist. One user change
and one base change suffice to tell an empty layer, a base layer and a changed
one apart. One crash, or one failing removal of a temporary (`MaxLosses`), meets every
step; a second one would meet the same steps with more leftovers. The two are not
combined. A panic is not bounded by a guard, so `BoundedLosses` stops the
exploration behind it. Two threads give every
interleaving of two calls, and calls repeat, so that keys are used again. The
requests of a scenario are those that interact in the question it asks. Where
`Faults` is FALSE no I/O fails; errors that the code itself returns remain.
Deadlock is checked in every run of `OCIStore`: a thread can always make another
call. It is not where a model stops by design: `lock` ends with its processes, the
overlay runs stop when `MaxSeq` directories have been numbered, and in the scenario
of `ingest` in which opening fails a reference stays locked and its writers wait,
which is why `LocksFreed` and `WritesFinish` leave that scenario out.

`MaxSeq` is three, so that a chain of two and a directory next to it exist, and a
number is given out again after a rollback. Two crashes in `overlay` leave a
directory and meet the call that finds it. Contents of one and two bytes
(`ContentIngest`) give writes that are interrupted in the middle, and leftovers
that are shorter, equal and longer than what is written. In
`ingest` the scenario of the indexes, whose writes meet each other's leftovers,
has crashes but no failing copies: both leave the same ingest behind. Three
processes let one wait for a process that waits itself.

Quiet mounts. In all runs but `live_writes`, nothing writes through a mount
while the snapshot is being committed or after (`UserWrite`): a diff taken from a
moving directory is no property of this code.

Fairness. `FairSpec` asks for weak fairness of each thread's steps, without
`Begin`: a goroutine in a call is scheduled until it returns, nobody has to make
a call, and nothing needs to crash. Every step of a call is one the thread takes
alone, without waiting for a lock, so weak fairness is what the Go scheduler
gives. In `StoreLock` a step that waits for a file lock is retried every 50 ms, and
each process ends, so that weak fairness suffices there, too; the finaliser that
may close the database of a failed Init is not assumed to run, nor a crash. In
`ContentIngest` fairness is strong: the database's write lock is a Go mutex, which
starves nobody, and OpenWriter retries after random delays, so that it meets a
reference that is free again and again.

## Disagreements found

Each has a run with a counterexample:

- `retag`: Commit takes the layers below the new one from the image that has the
  name recorded in the snapshot's label *now* (`commit.go:150-182`). If the name
  was given to another image after the mount, the snapshot is committed under a
  chain ID of layers it does not hold.
- `live_writes`: a committed snapshot's directory stays mounted writable, so it
  is not "committed and readonly" (`bolt.go:343-344`).
- `shared_layers`: Delete removes the snapshots of the image's layers although
  another unpacked image has them, too (`image.go:143`). That image is unpacked
  again when it is mounted with unpacking, and not otherwise.
- `lease_owner`: of two Mounts of a key the first one owns the lease and, failing,
  releases it although the other one has succeeded (`mount.go:99`).
- `overlay_late`: directories are removed after the transaction that decided on
  them (`overlay.go:477`, `overlay.go:326`). After a crash between rename and
  commit, or a failed commit, their number belongs to the next snapshot, which
  loses its directory.
- `ingest_stuck`: if what was left is longer, the new write never gets rid of its
  tail and fails on size, each time (`store.go:591` opens without truncating).

The models do these as the code does them, too; the scenarios, or the conditions
of the properties, leave them out, and no run is about them:

- Commit takes its diff in one step and applies it to, and commits,
  whatever has the key in later ones (`commit.go:172-183`). Another commit and a
  new mount of the key in between give a chain ID that names other contents.
- Mount with a key in use mounts what has the key, possibly of
  another image or kind (`mount.go:145`).
- Import and ImportFile swallow the error of the import (`import.go:75-81`,
  `import.go:101`): the caller gets no image and no error.
- Storing a record is an Update and, if there is none, a Create; of two calls that
  store a new name one gets AlreadyExists. Pull tries again, an import fails
  (`client/import.go:240-249`), its images not unpacked, and nobody is told.
- What a call removes at its end may stay: a failing removal of an extraction
  snapshot (`unpacker.go:341`) or of a view of a diff (`diff.go:45`) is logged at
  most, a failing release of a lease is worth a warning (`image.go:64-69`). Nothing
  collects them, and a snapshot that stays keeps its ancestors from being removed:
  Umount and Delete stop below it without an error.
- Create and Update store a target of which nothing is looked up (`image.go:98`,
  `image.go:123`). An image without its manifest or configuration cannot be
  mounted, unpacked or deleted through the store then (`Readable`).
- SingleImportFile deletes by name the images it does not keep; if the
  archive has the kept name twice, it returns a deleted image (`import.go:149`).
- The two transactions of LabelSnapshot (`snapshots.go:123-128`) write
  the labels of a removed snapshot onto a new one with its key, whose commit then
  takes the wrong base.
- An interrupted import leaves an ingest "tar-index.json"; the import
  of another archive whose index has the same size continues it, stores a mix
  under the digest of the mix and reports success for a blob that is not there
  (`store.go:501`, `importer.go:250`).
- A failing transaction of the content store's Writer keeps the
  reference locked (`metadata/content.go:463-467`).
- Init never closes the database it opened (`ociStore.go:99`); a
  second Init in the process waits for itself.

## Proofs

All for arbitrary constants: any number of threads, images, layers, keys, requests
and crashes, with the failures of I/O listed under "Runs" unless a hypothesis below
says otherwise.
Chains are sequences of layers of any length; `MaxLayers` bounds only the names that
TLC lists for `TreeSpec`. `tlapm` checks each leaf. A module of proofs extends the
module it is about. An invariant below holds initially and in every step, with one
lemma per action or part of a call.

**The abstract snapshotter.** `SnapshotOpsProofs` has a lemma for each transaction
and promise: for instance, `CommitKeepsParents`: renaming a snapshot orphans nobody,
because the one renamed is active and so cannot be the parent of any.
`SnapshotTreeProofs` proves of `SnapshotTree`

- `TreeTypeOK`, inductive as it stands;
- `TreeParentsCommitted` and `TreeAcyclic`, from the invariant
  `NamesOK /\ ParentsCommitted /\ Acyclic`. Acyclicity is stated as "every
  non-empty set of snapshots has a member whose parent is outside", which needs
  no recursion; it is not inductive without `ParentsCommitted` (a name nobody
  has yet must be nobody's parent) and without `NoParent` being no name
  (`NamesAssumption`);
- `TreeCommittedImmutable` and `TreeAncestorsKept`, step properties, from the two
  invariants above: `NextKeeps` says no transaction touches a snapshot it is not
  given, `NextKeepsParent` that none takes a parent.

**The snapshotter on its two stores.** `OverlaySnapshotterProofs` proves

- `OverlayTypeOK`, `OverlayNoOrphans` and `OverlayHeals` without hypothesis, from
  `Tidy`. That a directory without a record is accounted for is not inductive: one
  must also know that a call removes its list one directory after the other
  (`OneByOne`), that only the very next number can have a directory already
  (`Numbers`, which the step `CleanupHeals` is about), and that a Remove or a failed
  Prepare has that one on its list (`Healing`);
- `OverlayBacked` and `OverlayImplements`, from `Shelter`: no call's list names the
  directory of a record or of one in the making. Both under `Sheltered`: no
  transaction fails and no process crashes, or calls come one at a time. Without
  it they are false, as `overlay_late` shows.

**The store.** `OCIStoreProofs` shows that every step of every call has the effect of
one transaction on the snapshots, or none (`NextEffect`), and gets
`StoreParentsCommitted` from it. `ParentsCommitted` alone is not inductive: abort and
the clean-ups of a diff remove snapshots without looking for children, which is safe
only because a temporary snapshot is never committed; `OnlyChainsCommittedIn` says so.
It proves `StoreTypeOK`, too. The types rest on where a call can be: `ThreadsFit` says,
for each position, which operations reach it, which arguments they have, where the
shared part goes on to, and which local variables are set.

`OCIStoreSafetyProofs` builds on it, with an invariant per promise:

| Theorem | Invariant | Why it is needed |
|---|---|---|
| `StoreContentComplete` | `ContentInv` | a call that is to write a record has its content stored already, for each place it may come from (`Stocked`): an import and a pull, which bring theirs, always; a Commit, which relies on the layers of its base, if all records are complete |
| `StoreActiveKept` | `WalksInv` | a removal is at the key it was given or at chain IDs, so that it never takes another key |
| `StoreNoLeftovers` | `TempsInv` | says where each kind of temporary name exists, for those that a crash or a failing removal left, too; none has a number that `serial` has yet to reach, and those below it are what was left |
| `UnpackFaithful` | `ChainsInv` | an extraction snapshot that is still there has the parent and the contents its call commits it with; nobody mounts one |
| `StoreAcyclic` | `IInv`, `TInv` | no snapshot has the name `NoParent`, and nobody's parent is a name to come |
| `StoreMountBacked` | `MountsInv` | between its steps a Mount has its lease, and the mounts it holds are of its key |
| `StoreUmountComplete` | `UmountsInv` | a removal has begun at the key, or the key is gone |
| `StoreImplements`, `StoreTreeSpec`, `StoreCommittedImmutable` | `CommitsInv` | the mounts a Commit holds are of a snapshot that is still not committed; extraction snapshots are active |

Their hypotheses are about which calls are made, never about interleavings:

- `FetchedOnly` (`StoreContentComplete`): nobody calls Create or Update, which store
  any target. All scenarios satisfy it but `Records`.
- `UnpackOnly`: nobody calls Commit, or mounts under a chain ID. With Commit,
  a chain ID can be wrong: run `retag`.
- `PrivateMounts` and `PrivateUmounts`: other threads leave the key and the target
  of a Mount, or of an Umount, alone. Two Mounts of a key take each other's lease:
  run `lease_owner`. Whatever they do with other keys, with images and with chains
  remains.
- `SoleCommits` and `~ LiveWrites`: no two threads commit one key, and the
  mounts are quiet. With live writes a committed snapshot changes: run
  `live_writes`. Two commits of a key may do the same: the second one applies its
  diff to a directory that the first one has committed by then.

`StoreImplements` is about `StoreTree`, which has all names; `StoreTreeSpec` about
the instance the run `share` checks, for behaviours that stay within its bound.

`OCIStoreCallProofs` builds on that: what calls achieve in the company of others.

| Theorem | Invariant | Why it is needed |
|---|---|---|
| `StoreNoSpuriousFailure` | `BuildersInv`, `ImportsInv`, `ContentInv` | what the next step of a call needs is there: the parent of the layer to extract, its extraction snapshot or, if another thread was first, the chain ID; the chain of the image when the key is prepared; the content of every image that is read. An import that is about to create a record finds none |
| `StoreChainsFaithful` | `SettledInv` | Commit reads the label, then the image, then takes the diff, then commits: in between, the base it has read, the parent of the snapshot and the layer it has computed must agree (`Committing`), whoever mounts, unpacks and removes meanwhile; every snapshot of a key to be committed is made on an image's chain (`KeysBased`), all that is stored or about to be stored under a name has its content (`RecordsInv`) |
| `StoreCommitDurable` | `KeptInv`, `SparedInv` | the image is there from its record to the return, its last snapshot from the unpacking; the snapshots below it follow from `ParentsCommitted` and `ChainsFaithful` |
| `StoreSingleImportKeeps` | `SinglesInv`, `SparedInv`, `ContentInv` | what a loop over the images has done and what it has still to do, at each of the places from which the common parts come back to it |
| `StoreRemovesLine` | `RemovingInv` | the removal at a snapshot has taken just what lies between the key and it (`Walked`), each of them rightly; if something else is built on it, all of its ancestors are to stay |
| `StoreMountLeased` | `LeasesInv` | a Mount has its lease in every step after the one that takes it |
| `StoreDeleteSparesOthers` | `TakesInv`, `SparedInv` | the walk of a Delete stays on the chain of its image, and an Umount at its key |

`StoreRemovesLine` is about `HistorySpec`, which is `Spec` with a variable that
remembers the snapshots at the beginning of each call, and restricts nothing. `Line` being
a least set, the argument needs no induction over the chain: `LineUp` and `LineEnds`
say what one link adds, the invariant carries it from step to step.

The hypotheses, and which scenarios satisfy them:

- `BuildersOnly` (`StoreNoSpuriousFailure`): imports, pulls, unpackings, mounts under
  keys that unpack or have no image, Umount without removal and listings, and no
  I/O error; nobody else stores the names an import stores, which would fail without
  saying so: `Build`.
- `Settled(content)`: every call that stores one of the names in `content` stores
  the same layers under it; snapshots that are to be committed are mounted by the
  thread that commits them, from scratch or on such a name, and nobody relabels
  them; Commit makes other names. `retag` shows what happens otherwise. All scenarios
  satisfy it but `Label`, which relabels a key that is committed (to what it was made
  on or to none), and `Records`, which gives other layers, if none that it has, to an image that
  it has mounted: `ChainsFaithful` holds there, but only TLC says so.
- `CommitsKept` (`StoreCommitDurable`): nobody else removes, or stores under the name
  of the commit: of the scenarios with commits, those of one thread and `Label`, of
  which `Records` and `Label` are not `Settled`.
- `SinglesKept` (`StoreSingleImportKeeps`): the images of an archive have other names
  than the first one, none of them is built on it if it is to be unpacked, and other
  threads leave them alone: `Archives` and `Keep`. If one is built on it, its deletion takes the
  first one's snapshots along, as in `shared_layers`.
- `RemovalsAlone` (`StoreRemovesLine`): while a thread may call Umount, the
  others make records and labels only, or look: `Label` and the scenarios of one
  thread.
- `PrivateKeys` (`StoreMountLeased`): no two threads mount or unmount one key, as in all
  scenarios with two threads but `Race` and `Refine`. `lease_owner` shows why.
- `DeletesOwn(content)` (`StoreDeleteSparesOthers`): no image lies on the chain of another
  one that may be deleted, Umount removes at most the snapshot of its key, and nobody
  commits: for instance, calls on two images of which the one with fewer layers is
  deleted only. `shared_layers` shows why.

Seven properties of the runs carry a condition on the scenario: `ContentsComplete`, `CommitsDurable`,
`MountsBacked`, `UmountsComplete`, `RemovesLine`, `BuildersSucceed` and, in `ingest`,
`LocksFreed`. The theorems state the properties below them, `ContentComplete`, `CommitDurable`,
`MountBacked`, `UmountComplete`, `ChainRemoved`, `NoSpuriousFailure` and `LocksInUse`,
under hypotheses of their own. `ChainRemoved` leaves contents and labels of what remains
out, which processes in the mounts and other threads may change.

**The content store.** `ContentIngestProofs` proves

- `IngestTypeOK` and `IngestContentAddressed`. That every file has the contents
  of its name is not inductive: what a writer has digested must be the beginning
  of its file (`DigestedIsWritten`), which holds only because a reference is
  locked for one writer (`OneWriter`), which moves data away only after the last
  write;
- `IngestWrittenIsStored` and `IngestOwnSucceeds`, about references that
  determine the content, from `OwnInv`: what failures and crashes leave under such a
  reference is a beginning of the content (`OwnLeftovers`), so that it is never too
  long and is resumed rightly, and the digest is that of the content when the blob is
  in place (`OwnRecorded`);
- `IngestLocksInUse`: a locked reference has a writer that is on its way to release
  it (`HeldIsUsed`), unless opening fails (`~ OpenFaults`), with which the lock leaks
  (see "Disagreements found"); `LocksFreed` is the same in the runs;
- `IngestUndisturbedSucceeds`, from `IngestOwnSucceeds`: if every reference determines
  its content, nothing but a failure makes a write fail. `ingest_stuck` shows it of one
  that does not.

**The locks.** `StoreLockProofs` proves `LockTypeOK`, `LockOneUser` and `LockNoCycle`
for any number of processes and stores. Inductive are `MetaHeld` (an instance past
the opening of `metadata.db` has its lock) and `SnapHeld` (the other database is
open only in an instance that got that far); both orders follow.

Assumed of the constants, each in the module that declares them and evaluated by
TLC in every run: `NamesAssumption` (the empty name names nothing),
`ThreadsAssumption`, `OwnerAssumption` and `GoneAssumption` (what stands for nobody and
nothing is none of the others), `NoParentAssumption` (the empty chain has no chain ID:
`identity.ChainID` of nothing is the empty string), `RequestsAssumption` (calls have the
arguments of their signatures), `RefsAssumption` (an image has a name),
`UserAssumption`, `WritesAssumption` (a write has content; `NoWrite` is none) and
`BoundsAssumption`.

Each of the claims that a run refutes is a theorem where it holds, so that the two
show the line between: `retag` and `StoreChainsFaithful`, `live_writes` and
`StoreCommittedImmutable`, `shared_layers` and `StoreDeleteSparesOthers`, `lease_owner` and
`StoreMountLeased`, `overlay_late` and `OverlayBacked`, `ingest_stuck` and
`IngestUndisturbedSucceeds`.

Only model-checked:

- `ChainsFaithful` where a snapshot to be committed is relabelled (`Label`) or its
  image's record is changed to layers that are not there (`Records`);
- `UmountsComplete` for mounts under chain IDs, as the theorem is about keys;
- what begins with snapshots in the store (`Unmounting`, `Commits`): the theorems'
  behaviours start with an empty store and get to theirs by calls;
- that what remains after a removal keeps its contents and labels, which `RemovesLine`
  says of one thread;
- `CommitsDurable` of two commits to one name (`Commits`), where each finds an image
  that is whole, if not its own;
- liveness (`CallsReturn`, `WritesFinish`, `ProcessesEnd`), which is out of the
  prover's reach together with ENABLED.

## Not modelled

Garbage collection and lease expiration (the program runs none); the fetching of
blobs from a registry beyond "the manifest, then the rest, or a failure";
configuration contents other than the list of layers; platforms; the output of
listings; the logger. Of the labels of a snapshot the image reference is
modelled, which is the only one the code reads; RemoveSnapshotLabels of that one
makes Commit take an empty base, as a caller asks for, and no run does so.
Fieldpaths of Update and UpdateSnapshot choose fields of one write. A layer only
adds changes, it does not delete files: no property tells the two apart. Removal
of a directory under a mount is taken to end the use of the mount. Cleanup of the
snapshotter is called by nobody. An archive without images is not imported. A
power failure that loses what was written but not synced is left out: a crash ends
the process, not the kernel's memory of its files.

## Plan

1. Done: the modules above, and the proofs above.
2. Proofs that remain: `ChainsFaithful` where labels are changed to what the snapshot
   was made on; `UmountComplete` for chain IDs.
3. When the garbage collector of `cmd/root.go:88` comes: the resources of leases
   and their expiration, with a collector that honours them.
