--------------------------- MODULE BootLifecycle ---------------------------
(***************************************************************************)
(* The life of an initialised picokube node on an ostree host: what        *)
(* `picokube boot` does to the data trees, to last-boot.json and to the    *)
(* backup store on every start of picokube.service, interleaved with       *)
(* process and host crashes, with the cluster that the kubelet keeps       *)
(* running, with operator upgrades and with greenboot's verdict, red.d     *)
(* hook and rollback.                                                      *)
(*                                                                         *)
(* One value of pc per point of boot.Run (internal/boot/boot.go) where a   *)
(* crash or another actor can come in between.  Abstractions:              *)
(*  - the content of a data tree is the boot that wrote it last (a         *)
(*    BootRef); Absent is a tree that is not there;                        *)
(*  - a backup's directory name is the BootRef it is composed of;          *)
(*  - version strings are those of the image the deployment carries, so    *)
(*    LastBoot.Version is VersionOf[dep]; last-event is a log line and is  *)
(*    left out;                                                            *)
(*  - completed file-system calls survive a power loss, and the clock that *)
(*    stamps a backup's mtime does not run backwards;                      *)
(*  - the trees are swapped one after the other, each swap atomically (it  *)
(*    is a rename), and Ensure with the certificate rotation and           *)
(*    kubelet.conf finalisation writes its trees in a fixed order.         *)
(* The host is an ostree one: the non-ostree branch of boot.Run skips      *)
(* restore, snapshot and prune and has nothing left to check here.         *)
(***************************************************************************)
EXTENDS Integers, Sequences

CONSTANTS
    Deployments,      \* ostree deployment ids
    NoDeployment,     \* the empty deployment id
    VersionOf,        \* the Kubernetes version each deployment's image carries
    MaxBoots,         \* bound: kernel boots of the node
    MaxAttempts,      \* greenboot's number of attempts before a rollback
    EagerSwitch,      \* may an operator upgrade a deployment that has no backup yet?
    IOErrors,         \* may a file-system call of restore or of last-boot.json fail?
    PruneInterrupts   \* may a RemoveAll of prune stop half-way?

ASSUME DeploymentsAssumption == NoDeployment \notin Deployments
ASSUME VersionAssumption == VersionOf \in [Deployments -> Nat]
ASSUME MaxBootsAssumption == MaxBoots \in Nat \ {0}
ASSUME MaxAttemptsAssumption == MaxAttempts \in Nat \ {0}
ASSUME ToggleAssumption == {EagerSwitch, IOErrors, PruneInterrupts} \subseteq BOOLEAN

VARIABLES
    \* the host: ostree, GRUB, greenboot
    booted,       \* the booted deployment
    bootId,       \* /proc/sys/kernel/random/boot_id
    known,        \* the deployments `rpm-ostree status` lists
    rollbackTo,   \* the deployment a rollback would boot, if any
    counter,      \* GRUB's boot_counter, or Unset
    verdict,      \* how far greenboot is with judging this boot
    kubelet,      \* kubelet.service, and with it etcd, is running
    \* the picokube.service process
    pc, idx, source, doomed,
    \* the disk
    live,         \* the data trees in place
    backups,      \* the backup directories under their final names
    staging,      \* backups/.staging
    marker,       \* backups/restore
    lastBoot,     \* last-boot.json
    clock,        \* the next mtime
    \* history
    half,         \* a restore has begun and none has been completed since
    healthy       \* the boots whose control plane was verified

host == <<booted, bootId, known, rollbackTo, counter, verdict, kubelet>>
proc == <<pc, idx, source, doomed>>
disk == <<live, backups, staging, marker, lastBoot, clock>>
hist == <<half, healthy>>
vars == <<host, proc, disk, hist>>

-----------------------------------------------------------------------------
(* Data *)

Boots == 1..MaxBoots

\* state.LastBoot, and the name backup.Name makes of it
BootRef == [dep : Deployments, boot : Boots]

\* the zero LastBoot that ReadLastBoot returns when there is no record
NoBoot == [dep |-> NoDeployment, boot |-> 0]

\* the content of a tree that is not on disk
Absent == NoBoot

\* the trees and files a backup covers, in the order Create and Restore take them
Parts == <<"etcd", "kubernetes", "config.yaml", "instance-config.yaml", "kubeadm-flags.env">>
PartSet == {"etcd", "kubernetes", "config.yaml", "instance-config.yaml", "kubeadm-flags.env"}

\* the order in which Ensure, and the certificate steps after it, write them
EnsureOrder == <<"kubernetes", "kubeadm-flags.env", "instance-config.yaml", "config.yaml">>

Trees == [PartSet -> BootRef \union {Absent}]
NoTrees == [p \in PartSet |-> Absent]

\* a backup directory; meta: its meta.json is there (it repeats the name)
Backup == [trees : Trees, meta : BOOLEAN, mtime : Nat]

\* the entries of a backup directory, and the one each tree is in
Entries == {"etcd", "kubernetes", "kubelet", "meta.json"}
EntryOf(p) == IF p \in {"etcd", "kubernetes"} THEN p ELSE "kubelet"
HasEntry(b, e) == IF e = "meta.json" THEN b.meta
                  ELSE \E p \in PartSet : EntryOf(p) = e /\ b.trees[p] # Absent

PCs == {"inactive", "failed", "preflight", "maybeRestore", "restoring", "clearMarker",
        "snapshot", "copying", "ensure", "startKubelet", "wait", "prune", "removing",
        "record", "parked"}

Verdicts == {"pending", "green", "red", "retry", "rollback", "stuck"}

\* boot_counter when it is not in GRUB's environment
Unset == -1

\* what the running boot writes
Self == [dep |-> booted, boot |-> bootId]

\* List, and LatestForDeployment's filter on the name
OfDeployment(d) == {n \in DOMAIN backups : n.dep = d}

\* mutant: sorted oldest first
OldestFirst(S) == {n \in S : \A m \in S : backups[n].mtime <= backups[m].mtime}

\* sortByModTimeDesc, then the first: one backup, or several whose mtimes tie
Newest(S) == {n \in S : \A m \in S : backups[m].mtime <= backups[n].mtime}

\* LatestForDeployment; empty when it returns ""
Latest(d) == Newest(OfDeployment(d))

\* mutant: the boot id is not compared
DueInTheSameBoot == lastBoot # NoBoot /\ lastBoot.dep = booted

\* the guard of boot.Run's snapshot: a record of an earlier boot of this deployment
SnapshotDue == lastBoot # NoBoot /\ lastBoot.boot # bootId /\ lastBoot.dep = booted

\* mutant: only the booted deployment counts as known
DoomedUnlessBooted(keep) == {n \in DOMAIN backups : n.dep # booted \/ n \notin keep}

\* Prune's victims: every backup of a deployment that is gone, and of each
\* known deployment all but one that is newest
Doomed(keep) == {n \in DOMAIN backups : n.dep \notin known \/ n \notin keep}

-----------------------------------------------------------------------------
(* The initial state: `picokube init` has run in the first boot, and the    *)
(* kubelet it started is still up.  Init writes last-boot.json at its end,  *)
(* so an init that failed after its data was complete has left none.        *)

Init ==
    /\ booted \in Deployments
    /\ bootId = 1
    /\ known = {booted}
    /\ rollbackTo = NoDeployment
    /\ counter = Unset
    /\ verdict = "pending"
    /\ kubelet = TRUE
    /\ pc = "inactive" /\ idx = 1 /\ source = NoBoot /\ doomed = {}
    /\ live = [p \in PartSet |-> Self]
    /\ backups = << >>
    /\ staging = NoTrees
    /\ marker = FALSE
    /\ lastBoot \in {NoBoot, Self}
    /\ clock = 0
    /\ half = FALSE
    /\ healthy = {lastBoot} \ {NoBoot}

-----------------------------------------------------------------------------
(* picokube.service: one run of `picokube boot` *)

Goto(l) == pc' = l /\ UNCHANGED <<idx, source, doomed>>

\* boot.Run returns an error: the deferred cleanup removes the staging
\* directory and the unit is failed (Restart=no)
Fail ==
    /\ pc' = "failed" /\ idx' = 1 /\ source' = NoBoot /\ doomed' = {}
    /\ staging' = NoTrees

\* systemd starts the unit at boot; an operator may start it again later, but
\* not once greenboot has gone red and is about to reboot the host
StartService ==
    /\ pc \in {"inactive", "failed"}
    /\ verdict \in {"pending", "green", "stuck"}
    /\ Goto("preflight")
    /\ UNCHANGED <<host, disk, hist>>

\* config.Load, preflight (which wants the CAs under /etc/kubernetes), then
\* AllocateWorkspace, which empties the staging directory
Preflight ==
    /\ pc = "preflight"
    /\ live["kubernetes"] # Absent
    /\ staging' = NoTrees
    /\ Goto("maybeRestore")
    /\ UNCHANGED <<host, live, backups, marker, lastBoot, clock, hist>>

PreflightFails ==
    /\ pc = "preflight"
    /\ Fail
    /\ UNCHANGED <<host, live, backups, marker, lastBoot, clock, hist>>

\* maybeRestore without a marker
RestoreNotRequested ==
    /\ pc = "maybeRestore"
    /\ ~marker
    /\ Goto("snapshot")
    /\ UNCHANGED <<host, disk, hist>>

\* maybeRestore finds no backup of this deployment
RestoreFindsNothing ==
    /\ pc = "maybeRestore"
    /\ marker
    /\ Latest(booted) = {}
    /\ Goto("clearMarker")
    /\ UNCHANGED <<host, disk, hist>>

\* mutant: the marker is consumed before the trees are replaced
RestoreBeginsUnmarked ==
    /\ pc = "maybeRestore"
    /\ marker
    /\ \E n \in Latest(booted) : source' = n
    /\ pc' = "restoring" /\ idx' = 1
    /\ half' = TRUE
    /\ marker' = FALSE
    /\ UNCHANGED <<host, doomed, live, backups, staging, lastBoot, clock, healthy>>

RestoreBegins ==
    /\ pc = "maybeRestore"
    /\ marker
    /\ \E n \in Latest(booted) : source' = n
    /\ pc' = "restoring" /\ idx' = 1
    /\ half' = TRUE
    /\ UNCHANGED <<host, doomed, disk, healthy>>

\* restoreDir and replaceFile: the live tree becomes the backup's, and one that
\* the backup lacks is removed
Replaced(p, b) == [live EXCEPT ![p] = b.trees[p]]

\* Restore takes the trees one after the other
RestorePart ==
    /\ pc = "restoring"
    /\ idx <= Len(Parts)
    /\ live' = Replaced(Parts[idx], backups[source])
    /\ idx' = idx + 1
    /\ UNCHANGED <<host, pc, source, doomed, backups, staging, marker, lastBoot, clock, hist>>

\* mutant: last-boot.json gets the running boot instead of the backup's meta
RestoreRecordsSelf ==
    /\ pc = "restoring"
    /\ idx = Len(Parts) + 1
    /\ backups[source].meta
    /\ lastBoot' = Self
    /\ half' = FALSE
    /\ pc' = "clearMarker" /\ idx' = 1 /\ source' = NoBoot
    /\ UNCHANGED <<host, doomed, live, backups, staging, marker, clock, healthy>>

\* mutant: last-boot.json is not rewritten
RestoreLeavesRecord ==
    /\ pc = "restoring"
    /\ idx = Len(Parts) + 1
    /\ backups[source].meta
    /\ half' = FALSE
    /\ pc' = "clearMarker" /\ idx' = 1 /\ source' = NoBoot
    /\ UNCHANGED <<host, doomed, disk, healthy>>

\* ReadMeta and WriteLastBoot after the last tree
RestoreFinishes ==
    /\ pc = "restoring"
    /\ idx = Len(Parts) + 1
    /\ backups[source].meta
    /\ lastBoot' = source
    /\ half' = FALSE
    /\ pc' = "clearMarker" /\ idx' = 1 /\ source' = NoBoot
    /\ UNCHANGED <<host, doomed, live, backups, staging, marker, clock, healthy>>

\* ClearRestoreMarker on a return of maybeRestore; its error is only logged
MarkerAfterReturn == marker' = FALSE \/ (IOErrors /\ marker' = marker)

\* Restore, ReadMeta or WriteLastBoot returns an error; the deferred function
\* removes the marker all the same
RestoreFails ==
    /\ pc = "restoring"
    /\ IOErrors \/ (idx = Len(Parts) + 1 /\ ~backups[source].meta)
    /\ MarkerAfterReturn
    /\ Fail
    /\ UNCHANGED <<host, live, backups, lastBoot, clock, hist>>

ClearMarker ==
    /\ pc = "clearMarker"
    /\ MarkerAfterReturn
    /\ Goto("snapshot")
    /\ UNCHANGED <<host, live, backups, staging, lastBoot, clock, hist>>

\* no record, a record of this very boot, or one of another deployment
SnapshotSkipped ==
    /\ pc = "snapshot"
    /\ ~SnapshotDue
    /\ Goto("ensure")
    /\ UNCHANGED <<host, disk, hist>>

\* Create is a no-op when the final directory is there
SnapshotExists ==
    /\ pc = "snapshot"
    /\ SnapshotDue
    /\ lastBoot \in DOMAIN backups
    /\ Goto("ensure")
    /\ UNCHANGED <<host, disk, hist>>

SnapshotBegins ==
    /\ pc = "snapshot"
    /\ SnapshotDue
    /\ lastBoot \notin DOMAIN backups
    /\ pc' = "copying" /\ idx' = 1
    /\ UNCHANGED <<host, source, doomed, disk, hist>>

\* copyDirIfExists and copyFileIfExists: what is not there is not copied
CopyIfExists(p) == IF live[p] = Absent THEN staging ELSE [staging EXCEPT ![p] = live[p]]

\* Create copies the trees one after the other
CopyPart ==
    /\ pc = "copying"
    /\ idx <= Len(Parts)
    /\ staging' = CopyIfExists(Parts[idx])
    /\ idx' = idx + 1
    /\ UNCHANGED <<host, pc, source, doomed, live, backups, marker, lastBoot, clock, hist>>

\* mutant: the copy loop ends one file short
RevealEarly ==
    /\ pc = "copying"
    /\ idx = Len(Parts)
    /\ backups' = [n \in DOMAIN backups \union {lastBoot} |->
                     IF n = lastBoot
                     THEN [trees |-> staging, meta |-> TRUE, mtime |-> clock]
                     ELSE backups[n]]
    /\ clock' = clock + 1
    /\ staging' = NoTrees
    /\ pc' = "ensure" /\ idx' = 1
    /\ UNCHANGED <<host, source, doomed, live, marker, lastBoot, hist>>

\* writeMeta, which stamps the directory, and the rename to the final name
Reveal ==
    /\ pc = "copying"
    /\ idx = Len(Parts) + 1
    /\ backups' = [n \in DOMAIN backups \union {lastBoot} |->
                     IF n = lastBoot
                     THEN [trees |-> staging, meta |-> TRUE, mtime |-> clock]
                     ELSE backups[n]]
    /\ clock' = clock + 1
    /\ staging' = NoTrees
    /\ pc' = "ensure" /\ idx' = 1
    /\ UNCHANGED <<host, source, doomed, live, marker, lastBoot, hist>>

SnapshotFails ==
    /\ pc = "copying"
    /\ Fail
    /\ UNCHANGED <<host, live, backups, marker, lastBoot, clock, hist>>

\* the trees once the first n of EnsureOrder are written
Reconciled(n) == [p \in PartSet |->
                    IF \E i \in 1..n : EnsureOrder[i] = p THEN Self ELSE live[p]]

\* kubeadm.Ensure, rotateCertsIfStale and FinalizeKubeletKubeconfig
Ensure ==
    /\ pc = "ensure"
    /\ live' = Reconciled(Len(EnsureOrder))
    /\ Goto("startKubelet")
    /\ UNCHANGED <<host, backups, staging, marker, lastBoot, clock, hist>>

EnsureFails ==
    /\ pc = "ensure"
    /\ \E n \in 0..Len(EnsureOrder) : live' = Reconciled(n)
    /\ Fail
    /\ UNCHANGED <<host, backups, marker, lastBoot, clock, hist>>

StartKubelet ==
    /\ pc = "startKubelet"
    /\ kubelet' = TRUE
    /\ Goto("wait")
    /\ UNCHANGED <<booted, bootId, known, rollbackTo, counter, verdict, disk, hist>>

\* /readyz, the node and the static pods, then taints, RBAC and addons: all
\* writes to etcd
ControlPlaneReady ==
    /\ pc = "wait"
    /\ live' = [live EXCEPT !["etcd"] = Self]
    /\ healthy' = healthy \union {Self}
    /\ Goto("prune")
    /\ UNCHANGED <<host, backups, staging, marker, lastBoot, clock, half>>

\* systemctl fails, a wait times out, or a reconcile through the apiserver fails
KubeletFails ==
    /\ pc \in {"startKubelet", "wait"}
    /\ Fail
    /\ UNCHANGED <<host, live, backups, marker, lastBoot, clock, hist>>

\* Prune lists and sorts; for every known deployment it keeps one newest backup
PruneBegins ==
    /\ pc = "prune"
    /\ \E keep \in SUBSET DOMAIN backups :
         /\ \A d \in known : OfDeployment(d) # {} =>
              \E n \in Latest(d) : keep \intersect OfDeployment(d) = {n}
         /\ doomed' = Doomed(keep)
    /\ pc' = "removing"
    /\ UNCHANGED <<host, idx, source, disk, hist>>

\* rpm-ostree status or a listing fails: logged, and the boot goes on
PruneSkipped ==
    /\ pc = "prune"
    /\ Goto("record")
    /\ UNCHANGED <<host, disk, hist>>

\* os.RemoveAll of one victim runs to its end
RemoveBackup ==
    /\ pc = "removing"
    /\ \E n \in doomed :
         /\ backups' = [m \in DOMAIN backups \ {n} |-> backups[m]]
         /\ doomed' = doomed \ {n}
    /\ UNCHANGED <<host, pc, idx, source, live, staging, marker, lastBoot, clock, hist>>

\* it stops half-way: some entries of the directory are gone, which gives it a
\* new mtime, and Prune returns the error (or Kill comes next)
RemoveInterrupted ==
    /\ pc = "removing"
    /\ PruneInterrupts
    /\ \E n \in doomed, gone \in SUBSET Entries :
         /\ \E e \in gone : HasEntry(backups[n], e)
         /\ backups' = [backups EXCEPT ![n] =
              [trees |-> [p \in PartSet |-> IF EntryOf(p) \in gone THEN Absent ELSE @.trees[p]],
               meta |-> @.meta /\ "meta.json" \notin gone,
               mtime |-> clock]]
    /\ clock' = clock + 1
    /\ pc' = "record" /\ doomed' = {}
    /\ UNCHANGED <<host, idx, source, live, staging, marker, lastBoot, hist>>

PruneEnds ==
    /\ pc = "removing"
    /\ doomed = {}
    /\ Goto("record")
    /\ UNCHANGED <<host, disk, hist>>

\* WriteLastBoot and READY=1; an error of the former is only logged.  The
\* return of boot.Run runs the deferred cleanup, then the process parks.
Record ==
    /\ pc = "record"
    /\ lastBoot' = Self \/ (IOErrors /\ lastBoot' = lastBoot)
    /\ staging' = NoTrees
    /\ Goto("parked")
    /\ UNCHANGED <<host, live, backups, marker, clock, hist>>

-----------------------------------------------------------------------------
(* The rest of the node *)

\* the process ends without running its deferred functions (SIGKILL, an
\* overrun of TimeoutStartSec) or, when parked, is stopped; the kubelet stays
Kill ==
    /\ pc \notin {"inactive", "failed"}
    /\ pc' = "inactive" /\ idx' = 1 /\ source' = NoBoot /\ doomed' = {}
    /\ UNCHANGED <<host, disk, hist>>

\* the running cluster writes to its etcd
ClusterWrite ==
    /\ kubelet
    /\ live' = [live EXCEPT !["etcd"] = Self]
    /\ UNCHANGED <<host, proc, backups, staging, marker, lastBoot, clock, hist>>

\* mutant: the counter is decremented whatever it is
BootIntoDecrementing(d, count) ==
    /\ bootId < MaxBoots
    /\ booted' = d
    /\ bootId' = bootId + 1
    /\ counter' = count - 1
    /\ verdict' = "pending"
    /\ kubelet' = FALSE
    /\ pc' = "inactive" /\ idx' = 1 /\ source' = NoBoot /\ doomed' = {}
    /\ UNCHANGED <<live, backups, staging, lastBoot, clock, hist>>

\* the host comes up in d; GRUB has taken one off a boot_counter above zero
BootInto(d, count) ==
    /\ bootId < MaxBoots
    /\ booted' = d
    /\ bootId' = bootId + 1
    /\ counter' = IF count > 0 THEN count - 1 ELSE count
    /\ verdict' = "pending"
    /\ kubelet' = FALSE
    /\ pc' = "inactive" /\ idx' = 1 /\ source' = NoBoot /\ doomed' = {}
    /\ UNCHANGED <<live, backups, staging, lastBoot, clock, hist>>

\* a power loss, or a reboot by the operator
Reboot ==
    /\ BootInto(booted, counter)
    /\ UNCHANGED <<known, rollbackTo, marker>>

\* the operator deploys an image of the same or a newer version and reboots
Switch(d) ==
    /\ pc = "parked"
    /\ verdict = "green"
    /\ d # booted
    /\ VersionOf[d] >= VersionOf[booted]
    /\ EagerSwitch \/ Latest(booted) # {}
    /\ BootInto(d, MaxAttempts)
    /\ known' = {booted, d}
    /\ rollbackTo' = booted
    /\ UNCHANGED marker

\* required.d passes: no last-boot.json yet, or an active service and a healthy
\* control plane; greenboot clears its counter
JudgeGreen ==
    /\ verdict = "pending"
    /\ lastBoot = NoBoot \/ (pc = "parked" /\ kubelet)
    /\ verdict' = "green"
    /\ counter' = Unset
    /\ UNCHANGED <<booted, bootId, known, rollbackTo, kubelet, proc, disk, hist>>

\* required.d fails: the service is not active, or the health check fails
JudgeRed ==
    /\ verdict = "pending"
    /\ lastBoot # NoBoot
    /\ pc \in {"inactive", "failed", "parked"}
    /\ verdict' = "red"
    /\ UNCHANGED <<booted, bootId, known, rollbackTo, counter, kubelet, proc, disk, hist>>

\* mutant: red.d expects to run before the last decrement
RedDOneEarly ==
    /\ verdict = "red"
    /\ marker' = (marker \/ counter = 1)
    /\ verdict' = IF counter = 0 THEN "rollback" ELSE "retry"
    /\ UNCHANGED <<booted, bootId, known, rollbackTo, counter, kubelet, proc,
                   live, backups, staging, lastBoot, clock, hist>>

\* red.d: request a restore only on the attempt that trips the rollback
RedD ==
    /\ verdict = "red"
    /\ \/ counter = 0 /\ marker' = TRUE /\ verdict' = "rollback"
       \/ counter # 0 /\ marker' = marker /\ verdict' = "retry"
    /\ UNCHANGED <<booted, bootId, known, rollbackTo, counter, kubelet, proc,
                   live, backups, staging, lastBoot, clock, hist>>

\* greenboot tries this deployment again, counting down from MaxAttempts
Retry ==
    /\ verdict = "retry"
    /\ BootInto(booted, IF counter = Unset THEN MaxAttempts ELSE counter)
    /\ UNCHANGED <<known, rollbackTo, marker>>

\* greenboot boots the previous deployment
Rollback ==
    /\ verdict = "rollback"
    /\ rollbackTo # NoDeployment
    /\ BootInto(rollbackTo, Unset)
    /\ rollbackTo' = NoDeployment
    /\ UNCHANGED <<known, marker>>

\* there is none: greenboot asks for manual intervention
RollbackImpossible ==
    /\ verdict = "rollback"
    /\ rollbackTo = NoDeployment
    /\ verdict' = "stuck"
    /\ UNCHANGED <<booted, bootId, known, rollbackTo, counter, kubelet, proc, disk, hist>>

-----------------------------------------------------------------------------

Service ==
    \/ StartService \/ Preflight \/ PreflightFails
    \/ RestoreNotRequested \/ RestoreFindsNothing \/ RestoreBegins
    \/ RestorePart \/ RestoreFinishes \/ RestoreFails \/ ClearMarker
    \/ SnapshotSkipped \/ SnapshotExists \/ SnapshotBegins \/ CopyPart
    \/ Reveal \/ SnapshotFails
    \/ Ensure \/ EnsureFails \/ StartKubelet \/ ControlPlaneReady \/ KubeletFails
    \/ PruneBegins \/ PruneSkipped \/ RemoveBackup \/ RemoveInterrupted \/ PruneEnds
    \/ Record

Environment ==
    \/ Kill \/ ClusterWrite \/ Reboot
    \/ \E d \in Deployments : Switch(d)
    \/ JudgeGreen \/ JudgeRed \/ RedD \/ Retry \/ Rollback \/ RollbackImpossible

Next == Service \/ Environment

Spec == Init /\ [][Next]_vars
-----------------------------------------------------------------------------
(* Properties *)

TypeOK ==
    /\ booted \in Deployments
    /\ bootId \in Boots
    /\ known \subseteq Deployments
    /\ rollbackTo \in Deployments \union {NoDeployment}
    /\ counter \in Unset..MaxAttempts
    /\ verdict \in Verdicts
    /\ kubelet \in BOOLEAN
    /\ pc \in PCs
    /\ idx \in 1..(Len(Parts) + 1)
    /\ source \in BootRef \union {NoBoot}
    /\ pc = "restoring" => source \in DOMAIN backups
    /\ doomed \subseteq DOMAIN backups
    /\ live \in Trees
    /\ DOMAIN backups \subseteq BootRef
    /\ backups = [n \in DOMAIN backups |-> backups[n]]
    /\ \A n \in DOMAIN backups : backups[n] \in Backup
    /\ staging \in Trees
    /\ marker \in BOOLEAN
    /\ lastBoot \in BootRef \union {NoBoot}
    /\ pc = "copying" => lastBoot # NoBoot
    /\ clock \in Nat
    /\ half \in BOOLEAN
    /\ healthy \subseteq BootRef

\* Create never copies the trees of a running etcd: not even when the service
\* is restarted, or runs again after a kill, while the kubelet it started
\* earlier in the same kernel boot is up (backup.go: "the snapshot window
\* relies on etcd being stopped").
QuiescentSnapshot == pc = "copying" => ~kubelet

\* A backup that appears under its final name holds, tree by tree, what is on
\* disk at that very moment, although its trees were copied one at a time and
\* the copy may have been cut short and begun again.
SnapshotIsPointInTime ==
    [][\A n \in DOMAIN backups' \ DOMAIN backups : backups'[n].trees = live]_vars

\* boot.Run never goes past maybeRestore on trees that a restore has left half
\* replaced: an interrupted restore is begun again first.
NoReconcileOnHalfRestore ==
    half => pc \in {"inactive", "failed", "preflight", "maybeRestore", "restoring"}

\* A backup holds the data of the very boot in its name, tree by tree, through
\* failed and retried boots, upgrades and rollbacks (backup.go: "named after the
\* deployment+boot whose data is contained"; boot.Run's CR6: a wrong label "would
\* let a future rollback restore data the old binary cannot run").
LabelFaithful == \A n \in DOMAIN backups : \A p \in PartSet : backups[n].trees[p] \in {n, Absent}

\* The kubelet never runs on trees that a newer Kubernetes version has written,
\* through failed upgrades, rollbacks and interrupted restores.
NoDowngradedData ==
    kubelet => \A p \in PartSet :
        live[p] # Absent => VersionOf[live[p].dep] <= VersionOf[booted]

\* When greenboot rolls back, the deployment it returns to has a backup with
\* every tree and its meta.json, whatever was pruned since it last ran.
RollbackFindsBackup ==
    verdict = "rollback" /\ rollbackTo # NoDeployment =>
        \E n \in Latest(rollbackTo) :
            backups[n].meta /\ \A p \in PartSet : backups[n].trees[p] # Absent

\* last-boot.json, every backup and the source of every restore name a boot
\* whose control plane was verified ("one backup per successful boot"), however
\* boots are cut short and backups torn.
OnlyHealthyBootsAreNamed ==
    ({lastBoot, source} \ {NoBoot}) \union DOMAIN backups \subseteq healthy

\* Prune removes a backup only while a backup of the same deployment that was
\* revealed later stays, or when that deployment is gone from the host.
PruneKeepsTheMostRecent ==
    [][\A n \in DOMAIN backups \ DOMAIN backups' :
         n.dep \in known =>
            \E m \in DOMAIN backups' : m.dep = n.dep /\ m.boot > n.boot]_vars

\* A restore never replaces the trees under a running etcd (backup.go: restore
\* shares the snapshot's window, "picokube.service runs Before=kubelet.service").
QuiescentRestore == pc = "restoring" => ~kubelet
=============================================================================
