----------------------------- MODULE NodeSetup -----------------------------
(***************************************************************************)
(* How a node becomes a cluster and stops being one: an operator who runs  *)
(* `picokube init` (internal/initialize) and `picokube reset`              *)
(* (internal/teardown) one after the other, picokube.service running       *)
(* `picokube boot` beside them, and the kubelet.  What ties them together  *)
(* is state.Exists: init refuses a node that has state, and the comments   *)
(* of the repository promise that reset followed by init is a way out of   *)
(* every failure.                                                          *)
(*                                                                         *)
(* An operator's command may stop after any step, because it returns an    *)
(* error, is killed or loses its host.  The operator then tries again, or  *)
(* resets.  Abstractions:                                                  *)
(*  - a file of a cluster's identity is the number of the cluster it       *)
(*    belongs to, a rendered file the Kubernetes version it was rendered   *)
(*    for, and a file of several is taken for all that are written         *)
(*    together;                                                            *)
(*  - of boot.Run the steps that touch these files: restore and snapshot   *)
(*    are BootLifecycle's, certificate rotation is CertRotation's, and the *)
(*    boots here are those that find nothing to restore and nothing stale. *)
(***************************************************************************)
EXTENDS Config, Sequences

CONSTANTS
    Configs,       \* the configuration files the operator may put in place
    MaxImage,      \* bound: host images, each with the next Kubernetes version
    MaxFaults,     \* bound: stopped commands, reboots, bad edits, manual starts
    MaxRebuilds    \* bound: resets of a node that works

ASSUME ConfigsAssumption == Configs \subseteq Documents
ASSUME BoundsAssumption == {MaxImage, MaxFaults, MaxRebuilds} \subseteq Nat /\ MaxImage > 0

VARIABLES
    \* the host
    image,       \* version.KubernetesVersion of the booted image
    enabled,     \* picokube.service is enabled
    kubelet,     \* kubelet.service is running
    config,      \* /etc/picokube/config.yaml
    \* the disk
    disk,        \* the files, see Files
    varDir,      \* /var/lib/picokube exists
    seeded,      \* etcd holds the kubeadm:cluster-admins binding
    \* the operator
    todo,        \* what the procedure asks for next
    op,          \* where the running command is
    dir,         \* the position in reset's list of directories
    \* the service
    svc,         \* where boot.Run is
    seen,        \* the cluster whose control plane it has verified
    \* both
    cfg,         \* the Kubernetes version of the InitConfiguration each has loaded
    loaded,      \* the kubelet.conf each has loaded and is about to write back
    \* counters
    made, faults, rebuilds,
    \* history
    overtaken    \* kubelet.conf was last removed under a boot that had loaded it

host == <<image, enabled, kubelet, config>>
files == <<disk, varDir, seeded>>
counters == <<made, faults, rebuilds>>
both == <<cfg, loaded>>
vars == <<host, files, todo, op, dir, svc, seen, both, counters, overtaken>>

-----------------------------------------------------------------------------
(* Data *)

None == 0             \* no such file

\* a kubelet.conf of the cluster c that names kubelet-client-current.pem: it has c's
\* CA certificate, but no longer a key or a certificate of its own
PemReference(c) == -c

\* the cluster whose CA a kubeconfig trusts
ClusterOf(conf) == IF conf < 0 THEN -conf ELSE conf

\* ca: the PKI directory; admin.conf: the kubeconfigs of the control plane;
\* manifest: the static pods'; kubelet: the kubelet's configuration; pem:
\* kubelet-client-current.pem; record: last-boot.json
Identity == {"ca", "admin.conf", "kubelet.conf", "super-admin.conf", "etcd", "pem", "record"}
Files == Identity \union {"manifest", "kubelet"}

\* what reset removes, in its order
KubernetesDir == {"ca", "admin.conf", "kubelet.conf", "super-admin.conf", "manifest"}
EtcdDataDir == {"etcd"}
KubeletDir == {"kubelet", "pem"}
PicoKubeVarDir == {"record"}

\* mutant: the directory that init looks at goes first
VarDirFirst == <<PicoKubeVarDir, KubernetesDir, EtcdDataDir, KubeletDir>>

\* mutant: picokube's own directory is forgotten
VarDirForgotten == <<KubernetesDir, EtcdDataDir, KubeletDir>>

ManagedDirs == <<KubernetesDir, EtcdDataDir, KubeletDir, PicoKubeVarDir>>

Idle == "idle"
InitPCs == {"exists", "preflight", "ca", "admin.conf", "kubelet.conf", "manifest", "kubelet",
            "super-admin.conf", "start", "readyz", "seed", "drop", "wait", "finalize", "loadConf",
            "rewrite", "record"}
ResetPCs == {"stop", "unmount", "remove"}
BootPCs == {"load", "preflight", "workspace", "manifest", "kubelet", "rotate", "finalize", "loadConf",
            "rewrite", "start", "readyz", "wait", "record"}

\* state.Exists
Exists == disk["manifest"] # None \/ varDir

\* the apiserver answers: its pods run, with their certificates and data in place
APIServerUp == kubelet /\ \A f \in {"manifest", "ca", "etcd"} : disk[f] # None

\* the kubelet has a credential of this cluster: the one embedded in kubelet.conf, or
\* its own that kubelet.conf names
KubeletConnects ==
    \/ disk["kubelet.conf"] = disk["ca"]
    \/ disk["kubelet.conf"] = PemReference(disk["ca"]) /\ disk["pem"] # None

\* the file f is written with the value v
Put(f, v) == disk' = [disk EXCEPT ![f] = v]

-----------------------------------------------------------------------------

Init ==
    /\ image = 1 /\ enabled = FALSE /\ kubelet = FALSE /\ config \in Configs
    /\ disk = [f \in Files |-> None] /\ varDir = FALSE /\ seeded = FALSE
    /\ todo = "init" /\ op = Idle /\ dir = 1
    /\ svc = "inactive" /\ seen = None
    /\ cfg = [op |-> Unset, svc |-> Unset] /\ loaded = [op |-> None, svc |-> None]
    /\ made = 0 /\ faults = 0 /\ rebuilds = 0 /\ overtaken = FALSE

-----------------------------------------------------------------------------
(* `picokube init` *)

\* a command ends, and the operator's procedure goes on with t
Return(t) ==
    /\ op' = Idle /\ todo' = t /\ dir' = 1
    /\ cfg' = [cfg EXCEPT !.op = Unset] /\ loaded' = [loaded EXCEPT !.op = None]

\* a step of the running command that leaves the rest of the node alone
Step(l) == op' = l /\ UNCHANGED <<host, todo, dir, svc, seen, both, counters, overtaken>>

InitBegins ==
    /\ op = Idle /\ todo = "init"
    /\ op' = "exists"
    /\ UNCHANGED <<host, files, todo, dir, svc, seen, both, counters, overtaken>>

InitRefused ==
    /\ op = "exists"
    /\ Exists
    /\ Return("reset")
    /\ UNCHANGED <<host, files, svc, seen, counters, overtaken>>

InitLoadFails ==
    /\ op = "exists"
    /\ ~Exists
    /\ Load(config, image) = Rejected
    /\ Return("fix")
    /\ UNCHANGED <<host, files, svc, seen, counters, overtaken>>

\* mutant: init goes ahead whatever it finds
InitLoadsAnyway ==
    /\ op = "exists"
    /\ Load(config, image) # Rejected
    /\ cfg' = [cfg EXCEPT !.op = Load(config, image).kubernetesVersion]
    /\ op' = "preflight"
    /\ UNCHANGED <<host, files, todo, dir, svc, seen, loaded, counters, overtaken>>

InitLoads ==
    /\ op = "exists"
    /\ ~Exists
    /\ Load(config, image) # Rejected
    /\ cfg' = [cfg EXCEPT !.op = Load(config, image).kubernetesVersion]
    /\ op' = "preflight"
    /\ UNCHANGED <<host, files, todo, dir, svc, seen, loaded, counters, overtaken>>

\* the write probes make the directories they probe
InitPreflight ==
    /\ op = "preflight"
    /\ varDir' = TRUE
    /\ Step("ca")
    /\ UNCHANGED <<disk, seeded>>

\* EnsureAll: a PKI that is there is kept
InitPKI ==
    /\ op = "ca"
    /\ IF disk["ca"] = None
       THEN Put("ca", made + 1) /\ made' = made + 1
       ELSE UNCHANGED <<disk, made>>
    /\ op' = "admin.conf"
    /\ UNCHANGED <<host, varDir, seeded, todo, dir, svc, seen, both, overtaken, faults, rebuilds>>

\* and its kubeconfigs, of which one that trusts this CA is kept
InitKubeconfig ==
    /\ op \in {"admin.conf", "kubelet.conf"}
    /\ ClusterOf(disk[op]) \in {None, disk["ca"]}
    /\ Put(op, IF disk[op] = None THEN disk["ca"] ELSE disk[op])
    /\ Step(IF op = "admin.conf" THEN "kubelet.conf" ELSE "manifest")
    /\ UNCHANGED <<varDir, seeded>>

\* and one that trusts another CA is an error
InitKubeconfigFails ==
    /\ op \in {"admin.conf", "kubelet.conf"}
    /\ ClusterOf(disk[op]) \notin {None, disk["ca"]}
    /\ \E t \in {"init", "reset"} : Return(t)
    /\ UNCHANGED <<host, files, svc, seen, counters, overtaken>>

\* kubeadm.Ensure renders the manifests, then the kubelet's files
InitEnsure ==
    /\ op \in {"manifest", "kubelet"}
    /\ Put(op, cfg.op)
    /\ Step(IF op = "manifest" THEN "kubelet" ELSE "super-admin.conf")
    /\ UNCHANGED <<varDir, seeded>>

WriteSuperAdminKubeconfig ==
    /\ op = "super-admin.conf"
    /\ disk["super-admin.conf"] \in {None, disk["ca"]}
    /\ Put("super-admin.conf", disk["ca"])
    /\ Step("start")
    /\ UNCHANGED <<varDir, seeded>>

InitStartKubelet ==
    /\ op = "start"
    /\ kubelet' = TRUE
    /\ op' = "readyz"
    /\ UNCHANGED <<image, enabled, config, files, todo, dir, svc, seen, both, counters, overtaken>>

InitReadyz ==
    /\ op = "readyz"
    /\ APIServerUp /\ disk["admin.conf"] # None
    /\ Step("seed")
    /\ UNCHANGED files

\* EnsureAdminClusterRoleBinding: with admin.conf, or else with super-admin.conf
initAdminRBAC ==
    /\ op = "seed"
    /\ APIServerUp
    /\ seeded \/ disk["super-admin.conf"] # None
    /\ seeded' = TRUE
    /\ Step("drop")
    /\ UNCHANGED <<disk, varDir>>

removeSuperAdminKubeconfig ==
    /\ op = "drop"
    /\ Put("super-admin.conf", None)
    /\ Step("wait")
    /\ UNCHANGED <<varDir, seeded>>

\* the wait for the control plane, the marking of the node, the RBAC and the
\* addons all go through admin.conf
InitWait ==
    /\ op = "wait"
    /\ APIServerUp /\ seeded
    /\ Step("finalize")
    /\ UNCHANGED files

\* neither wait ends well for a kubelet that cannot connect, unless it has read its
\* kubelet.conf when it still could
InitTimesOut ==
    /\ op \in {"readyz", "wait"}
    /\ ~KubeletConnects
    /\ \E t \in {"init", "reset"} : Return(t)
    /\ UNCHANGED <<host, files, svc, seen, counters, overtaken>>

\* FinalizeKubeletKubeconfig in both flows: it looks for the pem, loads kubelet.conf,
\* and writes it back, with its directory, unless it names the pem already
AfterStat(next) == IF disk["pem"] = None THEN next ELSE "loadConf"
AfterLoad(next) == IF disk["kubelet.conf"] < 0 THEN next ELSE "rewrite"

LoadFromFile(p) ==
    /\ disk["kubelet.conf"] # None
    /\ loaded' = [loaded EXCEPT ![p] = disk["kubelet.conf"]]

WriteToFile(p) ==
    /\ Put("kubelet.conf", PemReference(loaded[p]))
    /\ loaded' = [loaded EXCEPT ![p] = None]

\* finalizeKubeletKubeconfig: the pem comes in time or it does not
InitFinalize ==
    /\ op = "finalize"
    /\ Step(AfterStat("record"))
    /\ UNCHANGED files

InitLoadConf ==
    /\ op = "loadConf"
    /\ LoadFromFile("op")
    /\ op' = AfterLoad("record")
    /\ UNCHANGED <<host, files, todo, dir, svc, seen, cfg, counters, overtaken>>

\* restartKubelet leaves it running
InitRewrite ==
    /\ op = "rewrite"
    /\ WriteToFile("op")
    /\ op' = "record"
    /\ UNCHANGED <<host, varDir, seeded, todo, dir, svc, seen, cfg, counters, overtaken>>

writeFirstBootState ==
    /\ op = "record"
    /\ Put("record", disk["ca"])
    /\ varDir' = TRUE
    /\ Return("enable")
    /\ UNCHANGED <<host, seeded, svc, seen, counters, overtaken>>

-----------------------------------------------------------------------------
(* `picokube reset` *)

ResetBegins ==
    /\ op = Idle /\ todo = "reset"
    /\ op' = "stop"
    /\ UNCHANGED <<host, files, todo, dir, svc, seen, both, counters, overtaken>>

\* best effort
ResetStopKubelet ==
    /\ op = "stop"
    /\ kubelet' \in {FALSE, kubelet}
    /\ op' = "unmount"
    /\ UNCHANGED <<image, enabled, config, files, todo, dir, svc, seen, both, counters, overtaken>>

\* unmountKubeletMounts and removeKubeContainers touch none of the files
ResetUnmount ==
    /\ op = "unmount"
    /\ Step("remove")
    /\ UNCHANGED files

\* os.RemoveAll of the next directory, of which it has removed gone when it stops
RemoveFiles(gone) ==
    /\ disk' = [f \in Files |-> IF f \in gone THEN None ELSE disk[f]]
    /\ overtaken' = IF "kubelet.conf" \in gone THEN svc = "rewrite" ELSE overtaken

\* mutant: the loop runs once more
ResetRemoveOnceMore ==
    /\ op = "remove"
    /\ RemoveFiles(ManagedDirs[dir])
    /\ varDir' = (varDir /\ ManagedDirs[dir] # PicoKubeVarDir)
    /\ IF dir <= Len(ManagedDirs) THEN dir' = dir + 1 /\ UNCHANGED <<op, todo, both>> ELSE Return("init")
    /\ UNCHANGED <<host, seeded, svc, seen, counters>>

ResetRemove ==
    /\ op = "remove"
    /\ RemoveFiles(ManagedDirs[dir])
    /\ varDir' = (varDir /\ ManagedDirs[dir] # PicoKubeVarDir)
    /\ IF dir < Len(ManagedDirs) THEN dir' = dir + 1 /\ UNCHANGED <<op, todo, both>> ELSE Return("init")
    /\ UNCHANGED <<host, seeded, svc, seen, counters>>

-----------------------------------------------------------------------------
(* The operator *)

\* init or reset returns an error or is killed; a removal may be cut short
CommandStops ==
    /\ op # Idle /\ faults < MaxFaults
    /\ faults' = faults + 1
    /\ \E gone \in SUBSET (IF op = "remove" THEN ManagedDirs[dir] ELSE {}) : RemoveFiles(gone)
    /\ \E t \in {"init", "reset"} : Return(t)
    /\ UNCHANGED <<host, varDir, seeded, svc, seen, made, rebuilds>>

\* `systemctl enable picokube.service`, init's last line
Enable ==
    /\ op = Idle /\ todo = "enable"
    /\ enabled' = TRUE
    /\ todo' = "done"
    /\ UNCHANGED <<image, kubelet, config, files, op, dir, svc, seen, both, counters, overtaken>>

FixConfig ==
    /\ op = Idle /\ todo = "fix"
    /\ config' \in {c \in Configs : Load(c, image) # Rejected}
    /\ todo' = "init"
    /\ UNCHANGED <<image, enabled, kubelet, files, op, dir, svc, seen, both, counters, overtaken>>

\* the operator puts any other file in place
EditConfig ==
    /\ faults < MaxFaults
    /\ faults' = faults + 1
    /\ config' \in Configs \ {config}
    /\ UNCHANGED <<image, enabled, kubelet, files, todo, op, dir, svc, seen, both, overtaken, made, rebuilds>>

\* the operator starts over with a node that works
Rebuild ==
    /\ op = Idle /\ todo = "done" /\ rebuilds < MaxRebuilds
    /\ rebuilds' = rebuilds + 1
    /\ todo' = "reset"
    /\ UNCHANGED <<host, files, op, dir, svc, seen, both, overtaken, made, faults>>

-----------------------------------------------------------------------------
(* picokube.service *)

BootStep(l) == svc' = l /\ UNCHANGED <<host, todo, op, dir, seen, both, counters, overtaken>>

\* `systemctl start` by hand; at boot the unit is started by Reboot
StartService ==
    /\ svc \in {"inactive", "failed"} /\ faults < MaxFaults
    /\ faults' = faults + 1
    /\ svc' = "load"
    /\ UNCHANGED <<host, files, todo, op, dir, seen, both, overtaken, made, rebuilds>>

BootLoads ==
    /\ svc = "load"
    /\ cfg' = [cfg EXCEPT !.svc = Load(config, image).kubernetesVersion]
    /\ svc' = IF Load(config, image) = Rejected THEN "failed" ELSE "preflight"
    /\ UNCHANGED <<host, files, todo, op, dir, seen, loaded, counters, overtaken>>

\* the write probes come before the test for the CAs
BootPreflight ==
    /\ svc = "preflight"
    /\ varDir' = TRUE
    /\ BootStep(IF disk["ca"] = None THEN "failed" ELSE "workspace")
    /\ UNCHANGED <<disk, seeded>>

\* AllocateWorkspace where there is an ostree, last-event on an upgrade
BootWorkspace ==
    /\ svc = "workspace"
    /\ varDir' \in {varDir, TRUE}
    /\ BootStep("manifest")
    /\ UNCHANGED <<disk, seeded>>

BootEnsure ==
    /\ svc \in {"manifest", "kubelet"}
    /\ Put(svc, cfg.svc)
    /\ BootStep(IF svc = "manifest" THEN "kubelet" ELSE "rotate")
    /\ UNCHANGED <<varDir, seeded>>

\* rotateCertsIfStale wants the CAs
BootRotate ==
    /\ svc = "rotate"
    /\ disk["ca"] # None
    /\ BootStep("finalize")
    /\ UNCHANGED files

BootFinalize ==
    /\ svc = "finalize"
    /\ BootStep(AfterStat("start"))
    /\ UNCHANGED files

BootLoadConf ==
    /\ svc = "loadConf"
    /\ LoadFromFile("svc")
    /\ svc' = AfterLoad("start")
    /\ UNCHANGED <<host, files, todo, op, dir, seen, cfg, counters, overtaken>>

\* whatever has become of /etc/kubernetes since it was loaded
BootRewrite ==
    /\ svc = "rewrite"
    /\ WriteToFile("svc")
    /\ svc' = "start"
    /\ UNCHANGED <<host, varDir, seeded, todo, op, dir, seen, cfg, counters, overtaken>>

BootStartKubelet ==
    /\ svc = "start"
    /\ kubelet' = TRUE
    /\ svc' = "readyz"
    /\ UNCHANGED <<image, enabled, config, files, todo, op, dir, seen, both, counters, overtaken>>

BootReadyz ==
    /\ svc = "readyz"
    /\ APIServerUp /\ disk["admin.conf"] # None
    /\ BootStep("wait")
    /\ UNCHANGED files

\* mutant: an apiserver that answers is taken for a control plane that is ready
BootTrustsReadyz ==
    /\ svc = "wait"
    /\ APIServerUp
    /\ seen' = disk["etcd"]
    /\ svc' = "record"
    /\ UNCHANGED <<host, files, todo, op, dir, both, counters, overtaken>>

\* waitControlPlane and what follows goes through admin.conf, which only the
\* cluster-admins binding authorises
BootWait ==
    /\ svc = "wait"
    /\ APIServerUp /\ seeded
    /\ seen' = disk["etcd"]
    /\ svc' = "record"
    /\ UNCHANGED <<host, files, todo, op, dir, both, counters, overtaken>>

BootRecords ==
    /\ svc = "record"
    /\ Put("record", seen)
    /\ varDir' = TRUE
    /\ BootStep("parked")
    /\ UNCHANGED seeded

\* an error or a kill; from Ensure on, bootFailed writes last-event
BootFails ==
    /\ svc \in BootPCs \union {"parked"}
    /\ svc' = "failed"
    /\ varDir' \in {varDir} \union (IF svc \in {"load", "preflight", "record", "parked"} THEN {} ELSE {TRUE})
    /\ loaded' = [loaded EXCEPT !.svc = None]
    /\ UNCHANGED <<host, disk, seeded, todo, op, dir, seen, cfg, counters, overtaken>>

-----------------------------------------------------------------------------
(* The kubelet and the host *)

\* the etcd pod finds no data and begins a new cluster's
EtcdStarts ==
    /\ kubelet
    /\ disk["manifest"] # None /\ disk["ca"] # None /\ disk["etcd"] = None
    /\ Put("etcd", disk["ca"])
    /\ seeded' = FALSE
    /\ UNCHANGED <<host, varDir, todo, op, dir, svc, seen, both, counters, overtaken>>

\* the kubelet's first certificate from the CSR API
KubeletCSR ==
    /\ APIServerUp /\ seeded
    /\ disk["kubelet.conf"] = disk["ca"] /\ disk["kubelet"] # None /\ disk["pem"] = None
    /\ Put("pem", disk["ca"])
    /\ UNCHANGED <<host, varDir, seeded, todo, op, dir, svc, seen, both, counters, overtaken>>

\* a reboot, possibly into the next image, or a power loss; the kubelet unit is
\* not enabled
Reboot ==
    /\ faults < MaxFaults
    /\ faults' = faults + 1
    /\ image' \in {image, image + 1} /\ image' <= MaxImage
    /\ kubelet' = FALSE
    /\ svc' = IF enabled THEN "load" ELSE "inactive"
    /\ op' = Idle /\ dir' = 1
    /\ todo' \in IF op = Idle THEN {todo} ELSE {"init", "reset"}
    /\ cfg' = [op |-> Unset, svc |-> Unset] /\ loaded' = [op |-> None, svc |-> None] /\ seen' = None
    /\ UNCHANGED <<enabled, config, files, made, rebuilds, overtaken>>

-----------------------------------------------------------------------------

InitCommand ==
    \/ InitBegins \/ InitRefused \/ InitLoadFails \/ InitLoads \/ InitPreflight \/ InitPKI
    \/ InitKubeconfig \/ InitKubeconfigFails \/ InitEnsure \/ WriteSuperAdminKubeconfig
    \/ InitStartKubelet \/ InitReadyz \/ initAdminRBAC \/ removeSuperAdminKubeconfig \/ InitWait
    \/ InitTimesOut \/ InitFinalize \/ InitLoadConf \/ InitRewrite \/ writeFirstBootState

ResetCommand == ResetBegins \/ ResetStopKubelet \/ ResetUnmount \/ ResetRemove

\* what the operator does of his own accord, and what he does to recover
Operator == InitCommand \/ ResetCommand \/ Enable \/ FixConfig

Service ==
    \/ BootLoads \/ BootPreflight \/ BootWorkspace \/ BootEnsure \/ BootRotate \/ BootFinalize
    \/ BootLoadConf \/ BootRewrite \/ BootStartKubelet \/ BootReadyz \/ BootWait \/ BootRecords \/ BootFails

Kubelet == EtcdStarts \/ KubeletCSR

Faults == CommandStops \/ EditConfig \/ Rebuild \/ StartService \/ Reboot

Next == Operator \/ Service \/ Kubelet \/ Faults

\* a command runs on unless it is stopped, the operator follows the procedure to
\* its end, and a kubelet that runs starts the pods it has manifests for
Fairness == WF_vars(Operator) /\ WF_vars(EtcdStarts)

Spec == Init /\ [][Next]_vars /\ Fairness

-----------------------------------------------------------------------------
(* Properties *)

TypeOK ==
    /\ image \in 1..MaxImage
    /\ {enabled, kubelet, varDir, seeded, overtaken} \subseteq BOOLEAN
    /\ config \in Configs
    /\ disk \in [Files -> Int]
    /\ todo \in {"init", "reset", "fix", "enable", "done"}
    /\ op \in InitPCs \union ResetPCs \union {Idle}
    /\ dir \in 1..Len(ManagedDirs)
    /\ svc \in BootPCs \union {"inactive", "parked", "failed"}
    /\ seen \in Int
    /\ cfg \in [op : Nat, svc : Nat] /\ loaded \in [op : Int, svc : Int]
    /\ made \in Nat
    /\ faults \in 0..MaxFaults
    /\ rebuilds \in 0..MaxRebuilds

\* The clusters whose keys, credentials or data are on disk.  last-boot.json names a
\* boot of the host and no cluster: a boot that a reset overtakes may still write it.
\* Nor has a kubelet.conf that names the pem a key: see LeftoversAreDetected.
Carried == {c \in {disk[f] : f \in Identity \ {"record"}} : c > 0}

Identities == INSTANCE ClusterIdentity WITH clusters <- Carried, last <- made

\* A node never carries parts of two clusters, such as a new CA beside the etcd
\* data or the kubelet certificate of an older one, however inits and resets are
\* cut short and a boot runs beside them (state.Exists: init is refused where it
\* would conflict; certs.Init: reseeding "would silently change identities").
OneClusterAtATime == Identities!Spec

\* Whatever an init or a reset that stopped half-way has left, state.Exists sees
\* it (initialize.go: "a partial Run ... leaves the node in a state state.Exists()
\* detects"), although a reset removes the two signs it looks for and a boot beside
\* it goes on writing.  The one exception is a kubelet.conf without a key, and that
\* only if a boot had loaded it when reset removed it and has written it back since:
\* init then makes a CA before it fails (InitKubeconfigFails).
LeftoversAreDetected ==
    op = Idle => \A f \in Identity : disk[f] # None =>
        Exists \/ (overtaken /\ f = "kubelet.conf" /\ disk[f] < 0)

\* A cluster that last-boot.json names can be administered: its cluster-admins
\* binding has been made, which init alone does and boot never repairs, even when
\* init was cut short and the service has been started on what it left.
RecordedIsAdministrable == disk["record"] # None /\ disk["record"] = disk["etcd"] => seeded

\* The kubelet never runs static pods of another version than the image's, through
\* upgrades of the image under an explicit version in the configuration and through
\* commands that are cut short (validate.go: the version "is pinned by the bootc
\* image").
KubeletRunsImageVersion == kubelet => disk["manifest"] \in {None, image}

\* `picokube reset` then `picokube init` is a way out of every failure: once
\* nothing more goes wrong the operator ends with a cluster that answers to
\* admin.conf and has no super-admin.conf (initialize.go: "the operator-recovery
\* path is uniform").
RecoveryPathWorks ==
    <>[](/\ todo = "done"
         /\ disk["ca"] # None /\ disk["etcd"] = disk["ca"] /\ seeded
         /\ disk["super-admin.conf"] = None)
=============================================================================
