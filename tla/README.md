# A TLA+ development of picokube

picokube runs a single-node Kubernetes control plane on an image-based
(ostree/bootc) host. Its own logic is the life of the node around upstream
kubeadm: seeding the node once (`picokube init`), reconciling it on every boot
(`picokube boot`, the body of `picokube.service`), snapshotting and restoring
the data trees so that they follow the host's rollbacks, rotating certificates,
judging health for greenboot, and tearing the node down (`picokube reset`).
This directory holds the models of that logic, the TLC runs that check them on
small instances and the TLAPS proofs that establish the central properties for
every instance.

Run a check with `tlc -config Lifecycle.cfg MCBootLifecycle` (the table of runs
below names module and cfg), the proofs with `tlapm BootLifecycleProofs.tla`.
`PROJECT.json` maps every definition to the lines of source it models.

## 1. Inventory

### Components, their state and their operations

| component | state it keeps | operations |
|---|---|---|
| boot orchestrator, `internal/boot` | none of its own; sequences everything below | `Run`: preflight, `maybeRestore`, snapshot, `Ensure`, `rotateCertsIfStale`, `FinalizeKubeletKubeconfig`, start kubelet, wait, prune, record; then the process parks |
| backup store, `internal/backup` | `backups/<deployment>_<boot>/`, `backups/.staging`, the marker `backups/restore` | `Create`, `Restore`, `LatestForDeployment`, `Prune`, `AllocateWorkspace`, `RestoreRequested`, `ClearRestoreMarker`, the space preflight |
| lifecycle records, `internal/state` | `last-boot.json`, `last-event` | `WriteLastBoot`, `ReadLastBoot`, `Exists` |
| ostree adapter, `internal/ostree` | reads `rpm-ostree status` | `IsOSTree`, `BootedDeploymentID`, `KnownDeploymentIDs` |
| greenboot hooks and the unit, `packaging/` | GRUB's `boot_counter` | `required.d` (verdict), `red.d` (touches the marker), `picokube.service` |
| atomic swap, `internal/atomic` | – | exchange of a directory with its staged replacement, fsync of the parent |
| certificates, `internal/certs` | `/etc/kubernetes/pki`, `pki.regen`, certificates in kubeconfigs | `Init`, `NeedsRotation`, `RegenerateCA`, `RenewLeaves` |
| kubeadm phases, `internal/kubeadm` | manifests, kubelet files, kubeconfigs | `Ensure`, `EnsureAddons`, `FinalizeKubeletKubeconfig`, `WriteSuperAdminKubeconfig` |
| health checks, `internal/healthcheck` | – | `WaitForAPIServer`, `WaitForControlPlane` (`waitAllReady`) |
| initialisation, `internal/initialize` | everything above, for the first time | `Run` |
| reset, `internal/teardown` | removes everything above | `Run` |
| generic preflight, `internal/preflight` | directories its probes create | `Run`, `FSWritable` |
| configuration and API types, `internal/config`, `internal/apis` | `/etc/picokube/config.yaml`, written by the operator | `Load`: `extractWrapper`, `pinKubernetesVersion`, `Validate` |
| layout, kubeclient, version, CLI | – | paths, wiring |

### How they interact

`boot.Run` is sequential, but it is not alone. systemd starts it, may kill it
(`TimeoutStartSec`) and lets an operator start it again in the same kernel boot,
with the kubelet and etcd of the earlier start still running, since stopping
picokube does not stop the kubelet. Power may be lost between any two file
operations. greenboot judges each boot through `required.d`, runs `red.d` on a
failure, counts attempts with GRUB's `boot_counter` and finally boots the
previous deployment. All of these communicate through files: the marker tells a
later boot, often of an older binary, to restore; `last-boot.json` tells the
next boot under which name to snapshot; the backup directories' mtimes tell
`LatestForDeployment` and `Prune` which backup is the newest; one manifest and the
directory `/var/lib/picokube` tell `init` that the node is taken. `init` and `reset`
run from an operator's shell and take no lock: the service may boot beside them. In
`waitAllReady` goroutines, a channel and a context meet.

### What is hard, and what makes each component correct

- *Boot and backup*: a snapshot must be taken while etcd is down and hold one
  moment of all trees; its name must be that of the boot whose data it holds; an
  interrupted restore must be begun again before anything reconciles; after a
  rollback the older binary must not run on the newer one's data; pruning must
  leave the backup a rollback needs.
- *Certificates*: a PKI directory must chain at every moment, no leaf may outlive
  its CA, what is stale must be renewed before the control plane starts,
  kubeconfigs must follow the CA, and the kubelet must hold a credential the CA
  vouches for.
- *Readiness*: the wait may succeed only when every check has passed, its verdict
  is final, it ends, and it leaks no goroutine.
- *Restore under power loss*: a tree that is being replaced is whole on disk at every
  moment, on both file systems; the marker disappears from disk only after all that the
  restore has replaced is there; a restore that is begun again copes with what an earlier
  one left.
- *Init and reset*: whatever a command that stopped half-way leaves is seen by
  `state.Exists`, also when a boot beside it writes back what it has read before; a node never carries the keys, credentials or data of two clusters;
  reset followed by init is a way out of every failure; a node on which the admin
  binding was never made is not recorded as healthy.
- *Configuration*: whatever the file says, the static pods that run are of the image's
  Kubernetes version.

The list of hazards, each at the line where it bites with the properties that
catch it, is in `PROJECT.json`.

## 2. Modules

| module | models | |
|---|---|---|
| `BootLifecycle` | `boot.go`, `backup.go`, `workspace.go`, `state.go`, the hooks and the unit | specification and properties |
| `MCBootLifecycle` | – | up to three images, the first of an older Kubernetes version than the others (`MCVersionOf`) |
| `BootLifecycleProofs` | – | four theorems: types, names, snapshots |
| `BootRollbackProofs` | – | five theorems: prune, restore and rollback; extends the former |
| `CertRotation` | `signers.go`, `expiry.go`, `types.go`, `kubeletfinalize.go`, the rotation in `boot.go` | specification and properties |
| `CertRotationProofs` | – | five theorems |
| `Readiness` | what the callers of `waitAllReady` rely on | abstract specification |
| `ControlPlaneWait` | `waitAllReady`, its goroutines and checks | detailed specification |
| `ControlPlaneWaitProofs` | – | type correctness and the refinement |
| `Config` | `config.Load`, `v1alpha1.Validate` | operators |
| `ClusterIdentity` | what init and reset promise about a node's identity | abstract specification |
| `NodeSetup` | `initialize.Run`, `teardown.Run`, `state.Exists`, the preflight, and `boot.Run` as it meets them | detailed specification, extends `Config` |
| `NodeSetupProofs` | – | three theorems: types, configuration, versions |
| `NodeIdentityProofs` | – | three theorems, one of them the refinement of `ClusterIdentity`; extends the former |
| `MCNodeSetup` | – | five configuration files: two that are accepted at first, three that are not |
| `RestoreDurability` | `maybeRestore`, `backup.Restore`, `atomic.SwapDir` call by call | specification and properties |
| `RestoreDurabilityProofs` | – | three theorems |

### BootLifecycle

The variables fall into four groups. The *host* is what ostree, GRUB, greenboot
and systemd keep. The *process* has `pc`, one value per point of `boot.Run` where
a crash or another actor can come in between, with the loop position `idx`, the
backup being restored and Prune's remaining victims. The *disk* has the trees in
place, the backups under their final names, the staging directory, the marker,
`last-boot.json` and the clock that stamps mtimes. Two *history* variables,
`half` and `healthy`, exist for the properties only and guard nothing.

The content of a tree is the boot that wrote it last, so "the data of boot 3 of
deployment d" can be told from any other; `Absent` is a missing tree. A backup is
its trees, whether `meta.json` is there, and its mtime. Trees are copied and
restored one per step, in the order of the code; each single replacement is atomic
because it is a rename. `Fail` is an error return with the deferred cleanup of the
workspace, `Kill` an end without it, `Reboot` a power loss or a reboot. The
deferred `ClearRestoreMarker` belongs to every return of `maybeRestore`, also the
error ones, and not to a kill.

Assumptions, stated where they enter the model:

- Three toggles separate what the design covers from what it does not:
  `EagerSwitch` (an operator upgrades a deployment that has no backup yet),
  `IOErrors` (a call of restore or of `last-boot.json` fails), `PruneInterrupts` (a
  `RemoveAll` stops half-way). The remaining errors (preflight, the copy, `Ensure`,
  the kubelet, every wait) may always happen, as may kills and power losses.
- A completed file-system call survives a power loss, and the clock is monotone.
- greenboot rolls back at most once per upgrade; GRUB's counter is decremented
  before a boot; a power loss at counter 0 stays in the same deployment; the
  service is not restarted between `red.d` and the reboot it announces.
- An upgrade goes to the same or a newer Kubernetes version, from a node judged
  green. The host is an ostree one; elsewhere `boot.Run` skips restore, snapshot and
  prune.

### CertRotation

A certificate is the generation of the CA that signed it and the month it expires,
a kubeconfig the client certificate embedded in it, `kubelet-client-current.pem`
the CA generation that signed it. A pass over the CAs stages a new PKI directory,
exchanges it, removes the displaced one and rewrites the kubeconfigs one by one;
then the stale leaves are renewed and `kubelet.conf` is finalised. A pass takes no
time; time moves while the node is up or down. Any step may be the last of a pass
(an error or a crash). The history variable `cut` is set when the regeneration of the
cluster CA, the only one with kubeconfigs, ends between the swap and its return, the
window the finding `mixed_kubeconfigs` is about, and cleared when a later one completes;
it guards nothing, and only `KubeconfigsChain` looks at it.
`LifetimeAssumption` is what kubeadm's default lifetimes (ten years for a CA, one
for a leaf) mean for the thresholds of `expiry.go`; an operator who configures
other lifetimes leaves it. Signing itself is upstream's. Not modelled here: the
expiry of the kubelet's own certificate and a service restart with the kubelet
running.

### ControlPlaneWait and Readiness

One goroutine per check is in its request, about to send, in its select, or has
returned; the caller counts reports. Conditions flip at any time, a request may
fail, the deadline or a cancellation may strike anywhere, and a select with two
ready cases takes either. `Readiness` says only: each check may be confirmed at any time
(a goroutine may see its check pass when the caller has already returned), and the result
becomes `nil` when all are confirmed or `error` at any time, once.

Fairness: Go schedules every goroutine and every request returns (WF of each
goroutine and of the caller), every caller passes a context with a deadline (WF of
`Deadline`), and a goroutine whose context is done cannot prefer the timer of its
select for ever, since the timer has only just been started when the case for the
context is ready (SF of `SeesDone`). Nothing is assumed of the conditions.

### NodeSetup, ClusterIdentity and Config

Three actors: the operator, who runs `init` and `reset` one at a time and follows the
procedure the commands print (`todo` is its next step); the service, which runs `boot`
whenever the host boots, once it is enabled, or when it is started by hand; and the
kubelet, which starts etcd on whatever it finds and obtains its certificate. The
commands have one step per write, and a command may stop after any of them
(`CommandStops`), with a removal half done. A file of a cluster's identity (the PKI,
the kubeconfigs, the etcd data, the kubelet's certificate) is the number of the cluster
it belongs to, a rendered file the Kubernetes version it was rendered for.

reset takes no notice of the service, so what a boot reads and writes later are separate
steps. `FinalizeKubeletKubeconfig` is three: it looks for the pem (`BootFinalize`), loads
kubelet.conf (`BootLoadConf`, into `loaded`) and writes it back with its directory
(`BootRewrite`), whatever has become of `/etc/kubernetes` in between; init has the same
three. A kubelet.conf that names the pem is the negated number of its cluster: it has the
cluster's CA certificate but no key. init keeps a kubeconfig that trusts the CA on disk and
fails on one that trusts another (`InitKubeconfigFails`), and its waits may time out on a
kubelet whose kubelet.conf a late write has spoilt (`InitTimesOut`). The history variable
`overtaken` says that kubelet.conf was last removed under a boot that had loaded it and was
about to write it; it guards nothing. `LeftoversAreDetected` makes that one exception, in
exactly these behaviours. An etcd
process that outlives its directory (a reset that could neither stop the kubelet nor
remove its pods) is not modelled.

`OneClusterAtATime` is a refinement: with the clusters of which a key, a credential or data
is on disk as its abstract state (`Carried`), `NodeSetup` implements `ClusterIdentity`, in which a new
cluster is provisioned only on a node that carries none. `last-boot.json` is left out of
`Carried`: it names a boot of the host, and a boot that a reset overtakes may write it
after the node has become another cluster's. TLC finds that behaviour when it is
included. Nor does a kubelet.conf without a key count.

`Config` holds `Load` as an operator from what the loader tells apart of a file, and the
image's version, to a configuration or `Rejected`. Kubeadm's parser is external, its
defaults (the certificates directory, the `stable-1` label) are what `load.go` says of it.

Three things the model shows that are no property here, because the code does them. A boot
has loaded kubelet.conf when reset removes `/etc/kubernetes`, and writes it back
(`kubeletfinalize.go:62`); reset goes on to remove `/var/lib/picokube`, `state.Exists` sees
neither of its signs, although `state.go:81` says it reports state "that init would
conflict with", and the next init makes a new CA before it fails on a kubelet.conf that
trusts another. With the exception taken out of `LeftoversAreDetected` TLC finds this
behaviour (a partial init, a reset and a boot beside it) in seconds. Next, a
preflight's write probe creates `/var/lib/picokube`, so that an init that fails there, or
a boot started after a reset, makes the next init refuse until another reset
(`preflight.go:17` forbids such side effects). And an init that stops between writing and
removing `super-admin.conf` leaves it for the boots that follow, until a reset
(`admin_rbac.go:21`). `RecoveryPathWorks` holds all the same.

Not in this model: the certificates' age, restore and snapshot within boot (the other
modules), two operators at a time, files edited by hand. The boots here find nothing to
restore and no certificate stale. One that restores, or renews a certificate, while a
reset removes the files would write more of them back in the way `BootRewrite` does, and
nothing here is shown of it.

Fairness: WF of the operator's commands (a command runs on unless it is stopped, and the
operator follows the procedure) and of `EtcdStarts` (a kubelet starts the pods it has
manifests for). Nothing is assumed of the service, of the kubelet's certificate or of
the faults, which their bound ends.

### RestoreDurability

`BootLifecycle` takes the replacement of a tree for one step that survives a power loss.
Here it is the calls of `restoreDir`, `replaceFile`, `SwapDir`, `SyncParent` and
`writeAtomic`. `cur` is what the running system sees; `crash` has, for each file system,
every image a power loss may leave: the state after each call since the last fsync. A
power loss picks one of each, independently. This assumes that a file system applies
changes of directory entries in order and that a copy's extents are part of that order
(reflinks on xfs or btrfs); on a file system that copies bytes and allocates them late, a
restored tree could be short of data, since `cp` syncs nothing. The process may be killed
and started again, and any call may fail; then the deferred function removes the marker
if it can. The backup itself is whole.

Fairness: WF of the restore's steps, a process that is not interrupted runs on.

## 3. What the runs check

Runs that pass:

| run | cfg, module | question | bounds |
|---|---|---|---|
| `lifecycle` | `Lifecycle.cfg`, `MCBootLifecycle` | do snapshots, restores, labels, upgrades, rollbacks and pruning fit together, with kills and power losses at every step? | six boots, three images, two attempts |
| `faults` | `Faults.cfg`, `MCBootLifecycle` | with failing calls, eager upgrades and removals that stop half-way, all at once: are only verified boots named? | three boots, two images, one attempt |
| `cert_rotation` | `CertRotation.cfg`, `CertRotation` | with interruptions anywhere: does the PKI chain, do leaves end first, is all fresh at the start, do the kubeconfigs follow the CA? | six months, two generations of a CA |
| `control_plane_wait` | `ControlPlaneWait.cfg`, `ControlPlaneWait` | does `waitAllReady` implement `Readiness`, and end? | four checks |
| `node_setup` | `NodeSetup.cfg`, `MCNodeSetup` | is the node one cluster at a time, are leftovers detected (but for a kubelet.conf that a boot writes back), do only pods of the image's version run, and is reset then init a way out? | two images, two faults, one reset of a healthy node, five configuration files |
| `restore_durability` | `RestoreDurability.cfg`, `RestoreDurability` | is the live data whole on disk whenever power fails, does the marker go last, does the restore end? | five parts, two power losses or kills, one failing call |

Why the bounds are enough. The properties of `BootLifecycle` are about a boot, the
one before it, the upgrade between them and the rollback after it. Reaching a
rollback with a backup takes init, a reboot that snapshots, an upgrade with its two
attempts and the boot after the rollback: five boots, and a sixth for a snapshot of
the restored data or one more power loss on the way. A second backup of a deployment,
which pruning needs, takes three boots, so the smaller runs reach it too; the third
image lets a deployment disappear from the host. The certificate lifetimes are scaled so that the order of all thresholds is
that of `LifetimeAssumption` and both CAs and leaves turn stale, and the time bound
spans two generations of a CA. Four checks are the number the code runs. In `NodeSetup`
two faults give a command that stops and a service started on what it left, a reset that
stops half-way after an init that did, or a reboot into the next image with an edited
configuration; the safety properties are proved for any number (section 4).
Two power losses interrupt a restore and its repetition; the parts are those of the code. Mutants of
the guards (an off-by-one in `red.d`, the oldest instead of the newest backup, a
forgotten kubeconfig, an unbuffered channel...) violate each property within the same
bounds, so each of these situations is reached.

The bound on boots stops the node, so the runs of `BootLifecycle` do not check
deadlock; nor do those of `NodeSetup` and `RestoreDurability`, in which a node that is
set up or restored may rest, and whose liveness properties say that it gets there; at the last month a node still reboots, and the certificate runs do check it. In `ControlPlaneWait` the surroundings never stop;
the end of the wait is the liveness property `WaitEnds`.

### Findings: runs that end in a violation

Each states what a comment of the repository promises, and TLC shows a behaviour of
the code that breaks it.

| run | property | what happens |
|---|---|---|
| `eager_label` | `LabelFaithful` | A node is upgraded before its first reboot. The first boot of a deployment takes no snapshot (`boot.go:162`), so when the upgrade fails, the rollback finds no backup and `last-boot.json` still names the old deployment: the data the newer one left is snapshotted under the old one's name. |
| `half_restore` | `NoReconcileOnHalfRestore` | `Restore` fails after the first tree. The deferred function removes the marker (`boot.go:320`), so the next start reconciles a mixture of two boots' trees. |
| `torn_prune` | `PruneKeepsTheMostRecent` | A `RemoveAll` that stops half-way gives the torn backup the newest mtime (`backup.go:341`); the next prune keeps it and removes the complete one. |
| `hot_restore` | `QuiescentRestore` | greenboot had nothing to roll back to; the marker stays, and a manual start restores under a running etcd. The unit has no `Before=kubelet.service` (`picokube.service:7`), which `backup.go:3` relies on. |
| `mixed_kubeconfigs` | `NextBootHealsKubeconfigs` | A crash between the swap and the last kubeconfig. The next boot looks only at the time left (`signers.go:194`), finds nothing stale and starts the control plane with kubeconfigs of the displaced CA. |
| `kubelet_credential` | `KubeletCanConnect` | After a CA rotation rewrote `kubelet.conf`, `FinalizeKubeletKubeconfig` points it back at the certificate of the old CA (`kubeletfinalize.go:59`). |

The first also breaks `RollbackFindsBackup`, which `lifecycle` checks for nodes that
are upgraded once they have a backup. The model of the wait shows one more thing that
is no property here: a check that has passed is not looked at again, so the conditions
need not hold at the same moment when `waitAllReady` returns nil.

## 4. What is proved

TLAPS proves the following for every value of the constants that satisfies the
assumptions in the modules: any number of deployments, boots, attempts, months and
checks.

**BootLifecycle** (`BootLifecycleProofs`)

- `TypeCorrect`: `TypeOK`, with all toggles free.
- `OnlyHealthyBootsNamed`: `OnlyHealthyBootsAreNamed`, with all toggles free. The
  invariant is strengthened by what the process is about to write: from `prune` on
  the running boot is in `healthy`.
- `SnapshotAtRest` and `SnapshotPointInTime`: `QuiescentSnapshot` and
  `SnapshotIsPointInTime`, assuming `~PruneInterrupts`. Neither is inductive. The
  argument: the kubelet runs only if this boot's process got as far as starting it
  (or this is the boot of init), at which point the snapshot of the boot recorded in
  `last-boot.json` exists, or is not due; that backup is the newest of its
  deployment, so Prune keeps it; hence a later start in the same kernel boot finds
  it and does not copy. The backups' mtimes follow the order in which they were
  revealed and none names the running boot. For the second theorem, while copying,
  the staged trees equal the live ones up to the loop position, because the kubelet
  is down and nobody else writes. An interrupted removal breaks the argument (it
  changes the order of mtimes), which is why the assumption is there.

**BootLifecycle, prune and rollback** (`BootRollbackProofs`)

- `PruneSparesTheLatest` (`PruneKeepsTheMostRecent`), assuming `~PruneInterrupts`. Prune
  goes by mtimes, the property by boots; `OrderInv` ties them: backups of one deployment
  were revealed in the order of their boots, a record that has no backup yet is of a
  later boot than all of them, and each victim on Prune's list leaves one of a later
  boot that is not on it. That a finite store has a newest backup at all (`Largest`)
  comes from the well-foundedness of the naturals.
- `RollbackHasABackup` (`RollbackFindsBackup`), assuming `~PruneInterrupts` and
  `~EagerSwitch`: no tree and no `meta.json` is ever missing (`CompleteInv`), and the
  deployment a rollback would boot keeps a backup (`ReturnInv`).
- `HalfRestoreNeverRuns` (`NoReconcileOnHalfRestore`), `BackupsHoldTheirBoot`
  (`LabelFaithful`) and `DataNeverDowngraded` (`NoDowngradedData`), assuming that none of
  the three faults happens; kills, power losses and all other errors may. They are
  proved together (`RollbackInv`), since none is inductive without the others. The idea
  they share is `RestorePending`: the marker is there, so is a backup, and the service is
  not past the restore. Half-restored trees (`HalfInv`), trees that are not of the boot
  in `last-boot.json` (`PristineInv`) and trees of a newer version (`DataInv`) exist only
  while a restore is pending. A rollback makes it pending, because `red.d` has left the
  marker (`VerdictInv`) and there is a backup (`ReturnInv`); it ends with all trees
  replaced by those of one backup, which holds the boot in its name.

The assumptions are not convenience: with a single fault switched on, TLC finds a
violation of each of these properties for each fault its theorem excludes, with two
images and six boots. One combination is left open, in which an exhaustive search was
too long: `NoDowngradedData` with `PruneInterrupts` alone.

**CertRotation** (`CertRotationProofs`)

- `TypeCorrect`, `ChainsAlways` (`PKIChains`), `LeavesEndFirst`
  (`NoLeafOutlivesItsCA`), `FreshAtStart` (`StartsFresh`), with interruptions
  anywhere. The inductive invariant adds that the staged directory already chains
  (`StagedInv`), that CAs the pass has visited are not stale (`VisitedInv`), and that
  outside the leaves still to renew none is (`RenewedInv`).
  `LeavesEndFirst` needs `LifetimeAssumption`: a CA whose remaining time is not below
  the long threshold has a leaf's lifetime ahead of it.
- `ConfsFollowCA` (`KubeconfigsChain`): `ConfsInv` says that the kubeconfigs follow the CA
  unless `cut` is set or the cluster CA is being regenerated, and, in its second part,
  which of them the regeneration has already rewritten, also after one that was cut short.

**ControlPlaneWait** (`ControlPlaneWaitProofs`)

- `TypeCorrect`, and `WaitImplementsReadiness`: the safety part of the specification
  implements `Readiness` for any finite set of checks. The caller counts, it does not
  look at names, so the invariant (`CountInv`) relates the three counts: the
  goroutines that have reported are as many as the reports in the channel and the
  reports already received together, and every one of them has been witnessed. When
  nothing remains to be received, all have reported.

**NodeSetup** (`NodeSetupProofs`)

- `LoadPins`: for every file and every image, `Load` rejects, or returns the image's
  version and picokube's PKI directory.
- `TypeCorrect`, and `PodsFollowImage` (`KubeletRunsImageVersion`), for all configuration
  files and any number of images, faults and rebuilds. The inductive invariant
  (`VersionInv`) follows the version through the two processes: who has loaded a
  configuration holds the image's version, by `LoadPins`; between rendering the manifests
  and starting the kubelet they stay of that version or are removed, because the other
  process has the same image; and a reboot, which may change the image under older
  manifests, stops the kubelet and drops what was loaded.

**NodeSetup, identity** (`NodeIdentityProofs`), all for every set of configuration files and
any number of images, faults and rebuilds

- `LeftoversSeen` (`LeftoversAreDetected`): any file of a cluster's identity comes with
  `/var/lib/picokube`, one of the two signs `state.Exists` looks for, or is a kubelet.conf
  without a key and `overtaken` is set (`TraceInv`). That is inductive only with how far
  init has got when it has made the directory (`InitInv`) and with what reset has removed
  before it removes the directory, last (`ResetInv`): nothing of it comes back, because all
  of it is derived from the PKI, which goes first, but for what a boot already holds. A
  boot that is about to write kubelet.conf back either has been overtaken, or the
  directory is there and no reset has got beyond `/etc/kubernetes` (`LateWriteInv`): it
  cannot have loaded, after that removal, a kubelet.conf it would rewrite.
- `RecordedHasAdmin` (`RecordedIsAdministrable`): `RecordInv` also covers the cluster a
  running boot is about to record, and says that a recorded cluster either has neither
  its CA nor its etcd data on disk any more, or has its etcd data with the binding.
- `NodeCarriesOneCluster` (`OneClusterAtATime`): `NodeSetup` implements `ClusterIdentity`
  under the mapping `Carried`. Every step is a stutter, `Provision` or `Wipe`: all files
  of an identity that are on disk are the current cluster's or have no key (`OwnerInv`),
  and init gets as far as provisioning only on a disk without any other.

**RestoreDurability** (`RestoreDurabilityProofs`), for any number of power losses, kills and
failing calls

- `TypeCorrect`, with the part that carries the others: the image the running system
  sees is always one of those a power loss may leave.
- `NeverHalfAPart` (`LiveIsWhole`): all images of a file system must be whole, not only the
  visible one, and a step adds one image or reduces them to it. The visible one stays
  whole because what is exchanged with the live part has been staged completely
  (`StageInv`).
- `NoRestoreIsSkipped` (`UnmarkedIsRestored`): every image that lacks the marker must be
  complete, on two file systems that lose power independently. During a restore every
  image has the marker (`MarkerInv`), the parts that have been taken are in place
  (`ProgressInv`), and once the restore has left `/etc` behind, all images of it have its
  part (`EtcInv`). So the first image without the marker is complete. The proof shows
  where the fsyncs matter: those of `/etc` are what `EtcInv` needs; in `/var`, where the
  marker itself lives, the order of the calls is enough.

The inductive invariants of all proofs were model-checked with the bounds of the
corresponding run before they were proved.

**Only model-checked**: the liveness properties `WaitEnds`, `RecoveryPathWorks` and
`RestoreConverges`; liveness under fairness is out of the prover's reach. All invariants
and action properties of the passing runs are theorems, and both refinements are, the
safety part of each. The six findings are counterexamples, found by TLC.

## 5. What is not modelled

- The durability of a new backup: `Create` syncs neither the copies nor `meta.json` nor
  the rename (`backup.go:163`), so nothing could be shown of a backup taken just before a
  power loss.
- Files that are torn while they are rewritten in place: the write of `kubelet.conf`
  (`kubeletfinalize.go:62`) and that of a renewed leaf are one step each.
- A boot that restores or renews certificates while a reset removes them (see
  `NodeSetup`).
- A clock that jumps back; free disk space (the space preflight may always fail, its
  arithmetic is left out); the composition and parsing of backup names.
- `.restoring` siblings that outlive a restore: the next restore clears them
  (`ClearStage`), but neither reset nor a "startup helper" (`backup.go:389`) exists for
  them, so a displaced tree may stay beside the live one, and after a reset.
- `config.Marshal` and `print-defaults`, `last-event`'s text, sd_notify and logging.
  `WaitForAPIServer` is one poll loop without goroutines. Paths, client construction and
  the CLI keep no state. Manifests, addons and signing are upstream kubeadm's.

## 6. Plan

Done: the models `BootLifecycle`, `CertRotation`, `Readiness` and `ControlPlaneWait`,
`NodeSetup` with `ClusterIdentity` and `Config`, `RestoreDurability`, and a theorem for
every safety property their runs check. What is left, in the order of importance:

1. What holds of the trees when faults do happen: for `IOErrors`, that a mixture of two
   boots' trees only ever follows a restore that has returned an error (a history
   variable like `failed` in `RestoreDurability`); for `PruneInterrupts`, that a torn
   backup is always one Prune had listed.
2. `RestoreDurability` as an implementation of the restore in `BootLifecycle`: a run of
   its calls is a stutter or one `RestorePart`.
3. The expiry of the kubelet's own certificate in `CertRotation`.
