------------------------- MODULE BootRollbackProofs -------------------------
(***************************************************************************)
(* What a rollback can rely on: prune leaves the backup it will look for,  *)
(* the backup is complete and holds what its name says, and an interrupted *)
(* restore is finished before anything else runs on the trees.  Each       *)
(* theorem names the faults it has to exclude; the runs EagerLabel,        *)
(* HalfRestore and TornPrune show what each of the three faults breaks.    *)
(***************************************************************************)
EXTENDS BootLifecycleProofs, WellFoundedInduction

(* Backups of a deployment were revealed in the order of their boots, a record without *)
(* a backup is of a later boot than all of them, and of each known deployment prune    *)
(* spares a backup of a later boot than those it removes.                              *)
OrderInv ==
    /\ \A m, n \in DOMAIN backups :
         m.dep = n.dep /\ backups[m].mtime < backups[n].mtime => m.boot < n.boot
    /\ lastBoot \in BootRef \ DOMAIN backups =>
         \A n \in OfDeployment(lastBoot.dep) : n.boot < lastBoot.boot
    /\ \A n \in doomed : n.dep \in known =>
         \E m \in OfDeployment(n.dep) \ doomed : m.boot > n.boot

(* No tree is missing, neither on disk nor from a backup. *)
CompleteInv ==
    /\ \A p \in PartSet : live[p] # Absent
    /\ \A n \in DOMAIN backups : backups[n].meta /\ \A p \in PartSet : backups[n].trees[p] # Absent

(* The deployment a rollback would boot has a backup. *)
ReturnInv == rollbackTo # NoDeployment => OfDeployment(rollbackTo) # {}

StoreKept == SnapshotInv /\ OrderInv /\ CompleteInv
-----------------------------------------------------------------------------
(* The newest backup *)

\* A bounded set of numbers that is not empty has a largest.
LEMMA Largest ==
    ASSUME NEW S \in SUBSET Nat, NEW n \in Nat, \A s \in S : s < n, S # {}
    PROVE  \E x \in S : \A y \in S : y <= x
<1> DEFINE T == {k \in Nat : \E s \in S : k = n - s}
           R == OpToRel(<, Nat)
<1>0. \A s \in S : s \in Nat /\ n - s \in T
  <2> SUFFICES ASSUME NEW s \in S PROVE s \in Nat /\ n - s \in Nat
    OBVIOUS
  <2>1. s \in Nat /\ s < n
    OBVIOUS
  <2> QED
    BY <2>1
<1>1. T \subseteq Nat /\ T # {}
  BY <1>0
<1>2. PICK x \in T : \A y \in T : ~ (<<y, x>> \in R)
  <2>1. IsWellFoundedOn(R, Nat)
    BY NatLessThanWellFounded
  <2> HIDE DEF R, T
  <2> QED
    BY <1>1, <2>1, WFMin
<1>3. \A y \in T : ~(y < x)
  BY <1>1, <1>2 DEF OpToRel
<1>4. PICK s \in S : x = n - s
  OBVIOUS
<1>5. ASSUME NEW y \in S PROVE y <= s
  <2>1. ~(n - y < n - s) /\ y \in Nat /\ s \in Nat
    BY <1>0, <1>3, <1>4
  <2> QED
    BY <2>1
<1> QED
  BY <1>5

\* LatestForDeployment finds a backup where there is one.
LEMMA LatestExists ==
    ASSUME SnapshotInv, NEW d, OfDeployment(d) # {}
    PROVE  Latest(d) # {}
<1> DEFINE S == {backups[n].mtime : n \in OfDeployment(d)}
<1>1. \A n \in OfDeployment(d) : backups[n].mtime \in Nat /\ backups[n].mtime < clock
  BY DEF SnapshotInv, StoreInv, TypeOK, Backup, OfDeployment
<1>2. S \in SUBSET Nat /\ S # {} /\ \A s \in S : s < clock
  BY <1>1
<1>3. clock \in Nat
  BY DEF SnapshotInv, TypeOK
<1>4. PICK x \in S : \A y \in S : y <= x
  <2> HIDE DEF S
  <2> QED
    BY <1>2, <1>3, Largest
<1>5. PICK n \in OfDeployment(d) : x = backups[n].mtime
  OBVIOUS
<1>6. n \in Latest(d)
  BY <1>4, <1>5 DEF Latest, Newest
<1> QED
  BY <1>6
-----------------------------------------------------------------------------
(* What prune leaves *)

\* The steps that change the store, its records or what prune goes by.
LEMMA StoreSteps ==
    ASSUME ~PruneInterrupts, [Next]_vars
    PROVE  \/ Reveal \/ RemoveBackup \/ PruneBegins \/ RestoreFinishes \/ Record
           \/ \E d \in Deployments : Switch(d)
           \/ UNCHANGED <<backups, lastBoot, known>> /\ doomed' \in {doomed, {}}
BY DEF Next, Service, Environment, vars, host, proc, disk, hist, Goto, Fail, BootInto,
       StartService, Preflight, PreflightFails, RestoreNotRequested, RestoreFindsNothing,
       RestoreBegins, RestorePart, RestoreFails, ClearMarker, SnapshotSkipped, SnapshotExists,
       SnapshotBegins, CopyPart, SnapshotFails, Ensure, EnsureFails, StartKubelet,
       ControlPlaneReady, KubeletFails, PruneSkipped, RemoveInterrupted, PruneEnds, Kill,
       ClusterWrite, Reboot, JudgeGreen, JudgeRed, RedD, Retry, Rollback, RollbackImpossible

\* The store keeps its order.
LEMMA OrderStep ==
    ASSUME ~PruneInterrupts, SnapshotInv, OrderInv, [Next]_vars
    PROVE  OrderInv'
<1> USE DEF host, proc, disk, hist, Goto, OfDeployment
<1>0. /\ bootId \in Nat /\ clock \in Nat /\ doomed \subseteq DOMAIN backups
      /\ \A n \in DOMAIN backups : /\ n \in BootRef /\ n.boot \in Nat /\ backups[n].mtime \in Nat
                                   /\ n.boot < bootId /\ backups[n].mtime < clock
      /\ \A m, n \in DOMAIN backups : m # n => backups[m].mtime # backups[n].mtime
  BY MaxBootsAssumption DEF SnapshotInv, StoreInv, TypeOK, Boots, BootRef, Backup
<1>1. CASE Reveal
  <2>1. /\ DOMAIN backups' = DOMAIN backups \union {lastBoot}
        /\ backups'[lastBoot].mtime = clock
        /\ \A n \in DOMAIN backups : n # lastBoot => backups'[n] = backups[n]
        /\ UNCHANGED <<lastBoot, doomed, known>>
    BY <1>1 DEF Reveal
  <2>2. lastBoot \in BootRef \ DOMAIN backups
    BY <1>1 DEF Reveal, SnapshotInv, CopyInv, TypeOK
  <2>3. \A m, n \in DOMAIN backups' :
          m.dep = n.dep /\ backups'[m].mtime < backups'[n].mtime => m.boot < n.boot
    BY <1>0, <2>1, <2>2 DEF OrderInv
  <2>4. \A n \in doomed' : n.dep \in known' =>
          \E m \in {k \in DOMAIN backups' : k.dep = n.dep} \ doomed' : m.boot > n.boot
    BY <1>0, <2>1, <2>2 DEF OrderInv
  <2> QED
    BY <2>1, <2>3, <2>4 DEF OrderInv
<1>2. CASE RemoveBackup
  <2>1. PICK n \in doomed :
          /\ backups' = [m \in DOMAIN backups \ {n} |-> backups[m]]
          /\ doomed' = doomed \ {n}
    BY <1>2 DEF RemoveBackup
  <2>2. /\ DOMAIN backups' = DOMAIN backups \ {n}
        /\ \A m \in DOMAIN backups' : backups'[m] = backups[m]
        /\ UNCHANGED <<lastBoot, known>>
    BY <1>2, <2>1 DEF RemoveBackup
  <2>3. ASSUME lastBoot \in BootRef \ DOMAIN backups', NEW m \in DOMAIN backups', m.dep = lastBoot.dep
        PROVE  m.boot < lastBoot.boot
    <3>1. CASE lastBoot \notin DOMAIN backups
      BY <2>2, <2>3, <3>1 DEF OrderInv
    <3>2. CASE lastBoot \in DOMAIN backups
      <4>1. m # lastBoot /\ m \in DOMAIN backups
        BY <2>2, <2>3
      <4>2. backups[m].mtime <= backups[lastBoot].mtime /\ backups[m].mtime # backups[lastBoot].mtime
        BY <1>0, <2>3, <3>2, <4>1 DEF SnapshotInv, RecordedIsNewest, Latest, Newest
      <4> QED
        BY <1>0, <2>3, <3>2, <4>1, <4>2 DEF OrderInv
    <3> QED
      BY <3>1, <3>2
  <2>4. \A k \in doomed' : k.dep \in known' =>
          \E m \in {j \in DOMAIN backups' : j.dep = k.dep} \ doomed' : m.boot > k.boot
    BY <2>1, <2>2 DEF OrderInv
  <2> QED
    BY <2>2, <2>3, <2>4 DEF OrderInv
<1>3. CASE PruneBegins
  <2>1. PICK keep \in SUBSET DOMAIN backups :
          /\ \A d \in known : OfDeployment(d) # {} =>
               \E n \in Latest(d) : keep \intersect OfDeployment(d) = {n}
          /\ doomed' = Doomed(keep)
    BY <1>3 DEF PruneBegins
  <2>2. UNCHANGED <<backups, lastBoot, known>>
    BY <1>3 DEF PruneBegins
  <2>3. ASSUME NEW n \in doomed', n.dep \in known
        PROVE  \E m \in OfDeployment(n.dep) \ doomed' : m.boot > n.boot
    <3>1. n \in DOMAIN backups /\ n \notin keep
      BY <2>1, <2>3 DEF Doomed
    <3>2. PICK m \in Latest(n.dep) : keep \intersect OfDeployment(n.dep) = {m}
      BY <2>1, <2>3, <3>1
    <3>3. m \in OfDeployment(n.dep) /\ m \in keep /\ m # n /\ backups[n].mtime <= backups[m].mtime
      BY <3>1, <3>2 DEF Latest, Newest
    <3>4. m \notin doomed'
      BY <2>1, <2>3, <3>3 DEF Doomed
    <3>5. m.boot > n.boot
      BY <1>0, <3>1, <3>3 DEF OrderInv
    <3> QED
      BY <3>3, <3>4, <3>5
  <2> QED
    BY <2>2, <2>3 DEF OrderInv
<1>4. CASE RestoreFinishes
  <2>1. lastBoot' = source /\ source \in DOMAIN backups /\ UNCHANGED <<backups, doomed, known>>
    BY <1>4 DEF RestoreFinishes, SnapshotInv, TypeOK
  <2> QED
    BY <2>1 DEF OrderInv
<1>5. CASE Record
  <2>1. lastBoot' = Self \/ lastBoot' = lastBoot
    BY <1>5 DEF Record
  <2>2. UNCHANGED <<backups, doomed, known>>
    BY <1>5 DEF Record
  <2>3. \A n \in DOMAIN backups : n.boot < Self.boot
    BY <1>0 DEF Self
  <2> QED
    BY <2>1, <2>2, <2>3 DEF OrderInv
<1>6. ASSUME NEW d \in Deployments, Switch(d)
      PROVE  OrderInv'
  BY <1>6 DEF Switch, BootInto, OrderInv
<1>7. CASE UNCHANGED <<backups, lastBoot, known>> /\ doomed' \in {doomed, {}}
  BY <1>7 DEF OrderInv
<1> QED
  BY <1>1, <1>2, <1>3, <1>4, <1>5, <1>6, <1>7, StoreSteps

\* The steps that change the trees or the backups.
LEMMA TreeSteps ==
    ASSUME ~PruneInterrupts, [Next]_vars
    PROVE  \/ RestorePart \/ Reveal \/ RemoveBackup \/ Ensure \/ EnsureFails
           \/ ControlPlaneReady \/ ClusterWrite
           \/ UNCHANGED <<live, backups>>
BY DEF Next, Service, Environment, vars, host, proc, disk, hist, Goto, Fail, BootInto,
       StartService, Preflight, PreflightFails, RestoreNotRequested, RestoreFindsNothing,
       RestoreBegins, RestoreFinishes, RestoreFails, ClearMarker, SnapshotSkipped,
       SnapshotExists, SnapshotBegins, CopyPart, SnapshotFails, StartKubelet, KubeletFails,
       PruneBegins, PruneSkipped, RemoveInterrupted, PruneEnds, Record, Kill, Reboot, Switch,
       JudgeGreen, JudgeRed, RedD, Retry, Rollback, RollbackImpossible

\* What Create reveals is what is on disk.
LEMMA RevealedTrees ==
    ASSUME SnapshotInv, Reveal
    PROVE  staging = live
<1>1. \A p \in PartSet : staging[p] = live[p]
  BY PartsFacts DEF SnapshotInv, CopyInv, Reveal
<1> QED
  BY <1>1 DEF SnapshotInv, TypeOK, Trees

\* No tree gets lost.
LEMMA CompleteStep ==
    ASSUME ~PruneInterrupts, SnapshotInv, CompleteInv, [Next]_vars
    PROVE  CompleteInv'
<1>0. Self # Absent /\ live \in Trees
  BY SelfType, NoBootFacts DEF SnapshotInv, TypeOK, Absent
<1>1. CASE RestorePart
  <2>1. /\ live' = [live EXCEPT ![Parts[idx]] = backups[source].trees[Parts[idx]]]
        /\ UNCHANGED backups
        /\ source \in DOMAIN backups /\ Parts[idx] \in PartSet
    BY <1>1, PartsFacts DEF RestorePart, Replaced, SnapshotInv, TypeOK
  <2> QED
    BY <1>0, <2>1 DEF CompleteInv, Trees
<1>2. CASE Reveal
  BY <1>2, RevealedTrees DEF Reveal, CompleteInv
<1>3. CASE RemoveBackup
  BY <1>3 DEF RemoveBackup, CompleteInv
<1>4. CASE Ensure \/ EnsureFails
  BY <1>0, <1>4 DEF Ensure, EnsureFails, Reconciled, CompleteInv
<1>5. CASE ControlPlaneReady \/ ClusterWrite
  BY <1>0, <1>5 DEF ControlPlaneReady, ClusterWrite, CompleteInv, Trees
<1>6. CASE UNCHANGED <<live, backups>>
  BY <1>6 DEF CompleteInv
<1> QED
  BY <1>1, <1>2, <1>3, <1>4, <1>5, <1>6, TreeSteps

LEMMA StoreInit == Init => OrderInv /\ CompleteInv
<1> SUFFICES ASSUME Init PROVE OrderInv /\ CompleteInv
  OBVIOUS
<1>1. DOMAIN backups = {} /\ doomed = {}
  BY DEF Init
<1>2. Self # Absent
  BY SelfType, TypeInit, NoBootFacts DEF Absent
<1> QED
  BY <1>1, <1>2 DEF Init, OrderInv, CompleteInv, OfDeployment

LEMMA StoreInvariant ==
    ASSUME ~PruneInterrupts
    PROVE  Spec => []StoreKept
<1>1. SnapshotInv /\ OrderInv /\ CompleteInv /\ [Next]_vars => OrderInv' /\ CompleteInv'
  BY OrderStep, CompleteStep
<1> QED
  BY <1>1, SnapshotInvariant, StoreInit, PTL DEF Spec, StoreKept

\* As long as no removal is cut short, prune removes a backup of a known deployment
\* only while one of a later boot of it stays: for every number of deployments, boots
\* and attempts, with failing calls and with hasty upgrades.
THEOREM PruneSparesTheLatest ==
    ASSUME ~PruneInterrupts
    PROVE  Spec => PruneKeepsTheMostRecent
<1>1. ASSUME StoreKept, [Next]_vars
      PROVE  [\A n \in DOMAIN backups \ DOMAIN backups' :
                n.dep \in known =>
                  \E m \in DOMAIN backups' : m.dep = n.dep /\ m.boot > n.boot]_vars
  <2>1. CASE RemoveBackup
    BY <1>1, <2>1 DEF RemoveBackup, StoreKept, OrderInv, OfDeployment
  <2>2. CASE DOMAIN backups \subseteq DOMAIN backups'
    BY <2>2
  <2>3. CASE Reveal
    BY <2>2, <2>3 DEF Reveal
  <2> QED
    BY <1>1, <2>1, <2>2, <2>3, TreeSteps
       DEF RestorePart, Ensure, EnsureFails, ControlPlaneReady, ClusterWrite
<1> QED
  BY <1>1, StoreInvariant, PTL DEF Spec, PruneKeepsTheMostRecent
-----------------------------------------------------------------------------
(* What a rollback finds *)

\* The deployment that would be booted keeps a backup.
LEMMA ReturnStep ==
    ASSUME ~PruneInterrupts, ~EagerSwitch, StoreKept, ReturnInv, [Next]_vars
    PROVE  ReturnInv'
<1> USE DEF host, proc, disk, hist, Goto, Fail, OfDeployment
<1>1. CASE RemoveBackup
  <2>1. PICK n \in doomed : backups' = [m \in DOMAIN backups \ {n} |-> backups[m]]
    BY <1>1 DEF RemoveBackup
  <2>2. UNCHANGED <<rollbackTo, known>>
    BY <1>1 DEF RemoveBackup
  <2>3. ASSUME rollbackTo # NoDeployment
        PROVE  \E m \in DOMAIN backups : m # n /\ m.dep = rollbackTo
    <3>1. CASE n.dep = rollbackTo
      BY <2>3, <3>1 DEF StoreKept, SnapshotInv, HostInv, OrderInv
    <3>2. CASE n.dep # rollbackTo
      BY <2>3, <3>2 DEF ReturnInv
    <3> QED
      BY <3>1, <3>2
  <2> QED
    BY <2>1, <2>2, <2>3 DEF ReturnInv
<1>2. ASSUME NEW d \in Deployments, Switch(d)
      PROVE  ReturnInv'
  BY <1>2 DEF Switch, BootInto, ReturnInv, Latest, Newest
<1>3. CASE Reveal
  BY <1>3 DEF Reveal, ReturnInv
<1>4. CASE Rollback
  BY <1>4 DEF Rollback, ReturnInv
<1>5. CASE UNCHANGED <<backups, rollbackTo>>
  BY <1>5 DEF ReturnInv
<1> QED
  BY <1>1, <1>2, <1>3, <1>4, <1>5
     DEF Next, Service, Environment, vars, BootInto, StartService, Preflight, PreflightFails,
         RestoreNotRequested, RestoreFindsNothing, RestoreBegins, RestorePart, RestoreFinishes,
         RestoreFails, ClearMarker, SnapshotSkipped, SnapshotExists, SnapshotBegins, CopyPart,
         SnapshotFails, Ensure, EnsureFails, StartKubelet, ControlPlaneReady, KubeletFails,
         PruneBegins, PruneSkipped, RemoveInterrupted, PruneEnds, Record, Kill, ClusterWrite,
         Reboot, JudgeGreen, JudgeRed, RedD, Retry, RollbackImpossible

LEMMA ReturnInvariant ==
    ASSUME ~PruneInterrupts, ~EagerSwitch
    PROVE  Spec => []ReturnInv
<1>1. Init => ReturnInv
  BY DEF Init, ReturnInv
<1>2. StoreKept /\ ReturnInv /\ [Next]_vars => ReturnInv'
  BY ReturnStep
<1> QED
  BY <1>1, <1>2, StoreInvariant, PTL DEF Spec

\* When greenboot rolls back, the deployment it returns to has a complete newest backup,
\* provided no removal is cut short and no deployment is upgraded before it has one.
THEOREM RollbackHasABackup ==
    ASSUME ~PruneInterrupts, ~EagerSwitch
    PROVE  Spec => []RollbackFindsBackup
<1>1. StoreKept /\ ReturnInv => RollbackFindsBackup
  <2> SUFFICES ASSUME StoreKept, ReturnInv, rollbackTo # NoDeployment
               PROVE  \E n \in Latest(rollbackTo) :
                        backups[n].meta /\ \A p \in PartSet : backups[n].trees[p] # Absent
    BY DEF RollbackFindsBackup
  <2>1. PICK n \in Latest(rollbackTo) : TRUE
    BY LatestExists DEF StoreKept, ReturnInv
  <2>2. n \in DOMAIN backups
    BY DEF Latest, Newest, OfDeployment
  <2> QED
    BY <2>1, <2>2 DEF StoreKept, CompleteInv
<1> QED
  BY <1>1, StoreInvariant, ReturnInvariant, PTL
-----------------------------------------------------------------------------
(* The next run of the service will restore, before it does anything else. *)
RestorePending ==
    /\ marker /\ OfDeployment(booted) # {}
    /\ pc \in {"inactive", "failed", "preflight", "maybeRestore", "restoring"}

(* greenboot's verdict stops the service, and the one to roll back leaves the marker. *)
VerdictInv ==
    /\ verdict \in {"red", "retry", "rollback"} => pc \in {"inactive", "failed", "parked"}
    /\ verdict = "rollback" => marker

(* A boot that got that far has written the trees and has started the kubelet. *)
RunInv ==
    /\ pc \in {"startKubelet", "wait", "prune", "removing", "record", "parked"} =>
         \A p \in PartSet \ {"etcd"} : live[p] = Self
    /\ pc \in {"prune", "removing", "record", "parked"} => live["etcd"] = Self
    /\ pc \in {"wait", "prune", "removing", "record", "parked"} => kubelet
    /\ pc = "parked" => lastBoot = Self

(* A restore that has begun is begun again until it is complete. *)
HalfInv == (half => RestorePending) /\ (pc = "restoring" => half)

(* A record of this deployment that has no backup yet is of the trees on disk, *)
(* or they are about to be replaced.                                           *)
PristineInv ==
    lastBoot \in BootRef \ DOMAIN backups /\ lastBoot.dep = booted =>
        (\A p \in PartSet : live[p] = lastBoot) \/ RestorePending

(* The image can run on the tree p. *)
Runs(p) == live[p] # Absent => VersionOf[live[p].dep] <= VersionOf[booted]

(* The image can run on all trees, or they are about to be replaced and nothing runs. *)
DataInv ==
    /\ (\A p \in PartSet : Runs(p)) \/ (RestorePending /\ ~kubelet)
    /\ pc = "restoring" => \A i \in 1..(idx - 1) : Runs(Parts[i])

RollbackInv == VerdictInv /\ RunInv /\ HalfInv /\ PristineInv /\ LabelFaithful /\ DataInv

\* Where the trees may be written, a record of this deployment without a backup is the
\* running boot's own.
LEMMA OwnRecord ==
    ASSUME SnapshotInv, kubelet \/ pc \in {"ensure", "startKubelet"},
           lastBoot \in BootRef \ DOMAIN backups, lastBoot.dep = booted
    PROVE  lastBoot = Self
<1>1. lastBoot.boot = bootId
  BY NoBootFacts DEF SnapshotInv, TakenInv, SnapshotDue
<1> QED
  BY <1>1 DEF BootRef, Self

\* Every step keeps a pending restore pending until it is complete.
LEMMA RollbackStep ==
    ASSUME ~PruneInterrupts, ~EagerSwitch, ~IOErrors,
           StoreKept, ReturnInv, RollbackInv, TypeOK', [Next]_vars
    PROVE  RollbackInv'
<1>0. /\ TypeOK /\ SnapshotInv /\ CompleteInv
      /\ Self \in BootRef /\ Self # NoBoot /\ Self.dep = booted /\ Self.boot = bootId
      /\ Self \notin DOMAIN backups
      /\ live \in [PartSet -> BootRef \union {Absent}]
      /\ \A d \in Deployments : VersionOf[d] \in Nat
      /\ booted \in Deployments
  <2>1. TypeOK /\ SnapshotInv /\ CompleteInv
    BY DEF StoreKept, SnapshotInv
  <2>2. Self \in BootRef /\ Self # NoBoot /\ Self.dep = booted /\ Self.boot = bootId
    BY <2>1, SelfType, NoBootFacts
  <2>3. bootId \in Nat /\ \A n \in DOMAIN backups : n.boot < bootId
    BY <2>1, MaxBootsAssumption DEF SnapshotInv, StoreInv, TypeOK, Boots
  <2> QED
    BY <2>1, <2>2, <2>3, VersionAssumption DEF TypeOK, Trees
<1> USE DEF host, proc, disk, hist, Goto, Fail, RollbackInv, VerdictInv, RunInv, HalfInv,
            PristineInv, LabelFaithful, DataInv, Runs, RestorePending, OfDeployment, Self
<1>1. CASE UNCHANGED vars
  BY <1>0, <1>1 DEF vars
<1>2. CASE StartService
  BY <1>0, <1>2 DEF StartService
<1>3. CASE Preflight
  BY <1>0, <1>3 DEF Preflight
<1>4. CASE PreflightFails
  BY <1>0, <1>4 DEF PreflightFails
<1>5. CASE RestoreNotRequested
  BY <1>0, <1>5 DEF RestoreNotRequested
<1>6. CASE RestoreFindsNothing
  <2>1. OfDeployment(booted) = {}
    BY <1>0, <1>6, LatestExists DEF RestoreFindsNothing
  <2> QED
    BY <1>0, <1>6, <2>1 DEF RestoreFindsNothing
<1>7. CASE RestoreBegins
  <2>1. OfDeployment(booted) # {} /\ marker
    BY <1>7 DEF RestoreBegins, Latest, Newest
  <2>2. /\ pc = "maybeRestore" /\ pc' = "restoring" /\ idx' = 1
        /\ UNCHANGED <<host, disk, healthy>>
    BY <1>7 DEF RestoreBegins
  <2>3. 1..(idx' - 1) = {}
    BY <2>2
  <2>4. half'
    BY <1>7 DEF RestoreBegins
  <2>5. RestorePending'
    BY <2>1, <2>2
  <2>6. VerdictInv' /\ HalfInv'
    BY <2>2, <2>4, <2>5
  <2>7. RunInv' /\ LabelFaithful'
    BY <2>2
  <2>8. PristineInv' /\ DataInv'
    BY <2>2, <2>3, <2>5
  <2> QED
    BY <2>6, <2>7, <2>8
<1>8. CASE RestorePart
  <2>1. /\ pc = "restoring" /\ UNCHANGED <<host, pc, backups, marker, lastBoot, half>>
        /\ live' = [live EXCEPT ![Parts[idx]] = backups[source].trees[Parts[idx]]]
        /\ idx' = idx + 1 /\ idx \in 1..5 /\ Parts[idx] \in PartSet
    BY <1>0, <1>8, PartsFacts DEF RestorePart, Replaced, TypeOK
  <2>2. RestorePending /\ half
    BY <2>1
  <2>3. source \in DOMAIN backups /\ source.dep = booted
    BY <1>0, <2>1 DEF SnapshotInv, SourceInv, Latest, Newest
  <2>4. backups[source].trees[Parts[idx]] \in {source, Absent}
    BY <2>1, <2>3
  <2>5. \A p \in PartSet : live'[p] = IF p = Parts[idx] THEN backups[source].trees[p] ELSE live[p]
    BY <1>0, <2>1
  <2>6. \A p \in PartSet : Runs(p) \/ p = Parts[idx] => Runs(p)'
    BY <1>0, <2>1, <2>3, <2>4, <2>5
  <2>7. \A i \in 1..(idx' - 1) : Runs(Parts[i])'
    <3>1. \A i \in 1..(idx' - 1) : Parts[i] \in PartSet /\ (i \in 1..(idx - 1) \/ i = idx)
      BY <2>1, PartsFacts
    <3> QED
      BY <2>1, <2>6, <3>1
  <2>8. DataInv'
    <3> HIDE DEF Runs
    <3>1. (\A p \in PartSet : Runs(p)) \/ (RestorePending /\ ~kubelet)
      OBVIOUS
    <3>2. RestorePending' /\ kubelet' = kubelet
      BY <2>1, <2>2
    <3> QED
      BY <2>1, <2>6, <2>7, <3>1, <3>2
  <2> QED
    BY <2>1, <2>2, <2>8
<1>9. CASE RestoreFinishes
  <2>1. /\ pc = "restoring" /\ idx = 6 /\ lastBoot' = source /\ pc' = "clearMarker"
        /\ half' = FALSE /\ UNCHANGED <<host, live, backups>>
    BY <1>9, PartsFacts DEF RestoreFinishes
  <2>2. source \in DOMAIN backups
    BY <1>0, <2>1 DEF TypeOK
  <2>3. \A p \in PartSet : Runs(p)
    <3> HIDE DEF Runs
    <3> QED
      BY <2>1, PartsFacts
  <2> QED
    BY <2>1, <2>2, <2>3
<1>10. CASE RestoreFails
  <2>1. backups[source].meta
    BY <1>0, <1>10 DEF RestoreFails, TypeOK, CompleteInv
  <2> QED
    BY <1>10, <2>1 DEF RestoreFails
<1>11. CASE ClearMarker
  BY <1>0, <1>11 DEF ClearMarker, MarkerAfterReturn
<1>12. CASE SnapshotSkipped
  BY <1>0, <1>12 DEF SnapshotSkipped, SnapshotDue
<1>13. CASE SnapshotExists
  BY <1>0, <1>13 DEF SnapshotExists, SnapshotDue
<1>14. CASE SnapshotBegins
  BY <1>0, <1>14 DEF SnapshotBegins, SnapshotDue
<1>15. CASE CopyPart
  BY <1>0, <1>15 DEF CopyPart
<1>16. CASE Reveal
  <2>1. /\ pc = "copying" /\ pc' = "ensure"
        /\ DOMAIN backups' = DOMAIN backups \union {lastBoot}
        /\ backups'[lastBoot].trees = live
        /\ \A n \in DOMAIN backups : n # lastBoot => backups'[n] = backups[n]
        /\ UNCHANGED <<host, live, lastBoot, hist>>
    BY <1>0, <1>16, RevealedTrees DEF Reveal
  <2>2. \A p \in PartSet : live[p] = lastBoot
    BY <1>0, <2>1 DEF SnapshotInv, CopyInv, SnapshotDue, TypeOK
  <2> QED
    BY <1>0, <2>1, <2>2
<1>17. CASE SnapshotFails
  BY <1>0, <1>17 DEF SnapshotFails
<1>18. CASE Ensure
  <2>1. /\ pc = "ensure" /\ pc' = "startKubelet"
        /\ UNCHANGED <<host, backups, marker, lastBoot, hist>>
        /\ live' = Reconciled(Len(EnsureOrder))
    BY <1>18 DEF Ensure
  <2>2. \A p \in PartSet : live'[p] = IF p # "etcd" THEN Self ELSE live[p]
    BY <2>1 DEF Reconciled, EnsureOrder, PartSet
  <2>3. lastBoot \in BootRef \ DOMAIN backups /\ lastBoot.dep = booted => lastBoot = Self
    BY <1>0, <2>1, OwnRecord
  <2> QED
    BY <1>0, <2>1, <2>2, <2>3
<1>19. CASE EnsureFails
  <2>1. /\ pc = "ensure" /\ pc' = "failed"
        /\ UNCHANGED <<host, backups, marker, lastBoot, hist>>
        /\ \A p \in PartSet : live'[p] \in {Self, live[p]}
    BY <1>19 DEF EnsureFails, Reconciled
  <2>2. lastBoot \in BootRef \ DOMAIN backups /\ lastBoot.dep = booted => lastBoot = Self
    BY <1>0, <2>1, OwnRecord
  <2> QED
    BY <1>0, <2>1, <2>2
<1>20. CASE StartKubelet
  BY <1>0, <1>20 DEF StartKubelet
<1>21. CASE ControlPlaneReady
  <2>1. /\ pc = "wait" /\ pc' = "prune"
        /\ UNCHANGED <<host, backups, marker, lastBoot, half>>
        /\ \A p \in PartSet : live'[p] = IF p = "etcd" THEN Self ELSE live[p]
    BY <1>0, <1>21 DEF ControlPlaneReady
  <2>2. "etcd" \in PartSet /\ kubelet
    BY <2>1 DEF PartSet
  <2>3. lastBoot \in BootRef \ DOMAIN backups /\ lastBoot.dep = booted => lastBoot = Self
    BY <1>0, <2>2, OwnRecord
  <2> QED
    BY <1>0, <2>1, <2>2, <2>3
<1>22. CASE KubeletFails
  BY <1>0, <1>22 DEF KubeletFails
<1>23. CASE PruneBegins
  BY <1>0, <1>23 DEF PruneBegins
<1>24. CASE PruneSkipped
  BY <1>0, <1>24 DEF PruneSkipped
<1>25. CASE RemoveBackup
  <2>1. PICK n \in doomed : backups' = [m \in DOMAIN backups \ {n} |-> backups[m]]
    BY <1>25 DEF RemoveBackup
  <2>2. pc = "removing" /\ UNCHANGED <<host, pc, live, marker, lastBoot, hist>>
    BY <1>25 DEF RemoveBackup
  <2>3. lastBoot \in BootRef /\ lastBoot.dep = booted => lastBoot # n
    <3>1. CASE lastBoot.boot = bootId
      <4>1. lastBoot \in BootRef /\ lastBoot.dep = booted => lastBoot = Self
        BY <3>1 DEF BootRef
      <4> QED
        BY <1>0, <4>1 DEF TypeOK
    <3>2. CASE lastBoot.boot # bootId
      BY <1>0, <2>2, <3>2, NoBootFacts DEF SnapshotInv, PruneInv, SnapshotDue
    <3> QED
      BY <3>1, <3>2
  <2> QED
    BY <1>0, <2>1, <2>2, <2>3
<1>26. CASE RemoveInterrupted
  BY <1>0, <1>26 DEF RemoveInterrupted
<1>27. CASE PruneEnds
  BY <1>0, <1>27 DEF PruneEnds
<1>28. CASE Record
  BY <1>0, <1>28 DEF Record
<1>29. CASE Kill
  BY <1>0, <1>29 DEF Kill
<1>30. CASE ClusterWrite
  <2>1. /\ kubelet /\ UNCHANGED <<host, proc, backups, marker, lastBoot, hist>>
        /\ \A p \in PartSet : live'[p] = IF p = "etcd" THEN Self ELSE live[p]
    BY <1>0, <1>30 DEF ClusterWrite
  <2>2. lastBoot \in BootRef \ DOMAIN backups /\ lastBoot.dep = booted => lastBoot = Self
    BY <1>0, <2>1, OwnRecord
  <2>3. \A p \in PartSet : Runs(p)'
    BY <1>0, <2>1
  <2>4. PristineInv' /\ RunInv' /\ HalfInv'
    <3>1. RestorePending' = RestorePending /\ half' = half /\ Self' = Self
      BY <2>1
    <3>2. PristineInv'
      BY <1>0, <2>1, <2>2, <3>1
    <3>3. RunInv'
      <4>1. /\ pc' = pc /\ kubelet' = kubelet /\ lastBoot' = lastBoot
            /\ live'["etcd"] = Self /\ \A p \in PartSet \ {"etcd"} : live'[p] = live[p]
        BY <2>1 DEF PartSet
      <4> HIDE DEF Self
      <4> QED
        BY <3>1, <4>1
    <3>4. HalfInv'
      BY <2>1, <3>1
    <3> QED
      BY <3>2, <3>3, <3>4
  <2>5. \A i \in 1..(idx - 1) : Parts[i] \in PartSet
    BY <1>0, PartsFacts DEF TypeOK
  <2> QED
    BY <1>0, <2>1, <2>3, <2>4, <2>5
<1>31. CASE JudgeGreen
  BY <1>0, <1>31 DEF JudgeGreen
<1>32. CASE JudgeRed
  BY <1>0, <1>32 DEF JudgeRed
<1>33. CASE RedD
  BY <1>0, <1>33 DEF RedD
<1>34. CASE RollbackImpossible
  BY <1>0, <1>34 DEF RollbackImpossible
<1>35. CASE Reboot
  BY <1>0, <1>35 DEF Reboot, BootInto
<1>36. CASE Retry
  BY <1>0, <1>36 DEF Retry, BootInto
<1>37. CASE Rollback
  <2>1. /\ verdict = "rollback" /\ booted' = rollbackTo /\ rollbackTo # NoDeployment
        /\ kubelet' = FALSE /\ pc' = "inactive" /\ verdict' = "pending"
        /\ UNCHANGED <<live, backups, marker, lastBoot, half>>
    BY <1>37 DEF Rollback, BootInto
  <2>2. RestorePending'
    BY <2>1 DEF ReturnInv
  <2>3. ~kubelet'
    BY <2>1
  <2>4. VerdictInv' /\ RunInv' /\ HalfInv' /\ LabelFaithful'
    BY <2>1, <2>2
  <2>5. PristineInv' /\ DataInv'
    BY <2>1, <2>2, <2>3
  <2> QED
    BY <2>4, <2>5
<1>38. ASSUME NEW d \in Deployments, Switch(d)
      PROVE  RollbackInv'
  BY <1>0, <1>38 DEF Switch, BootInto
<1> QED
  BY <1>1, <1>2, <1>3, <1>4, <1>5, <1>6, <1>7, <1>8, <1>9, <1>10, <1>11, <1>12, <1>13,
     <1>14, <1>15, <1>16, <1>17, <1>18, <1>19, <1>20, <1>21, <1>22, <1>23, <1>24, <1>25,
     <1>26, <1>27, <1>28, <1>29, <1>30, <1>31, <1>32, <1>33, <1>34, <1>35, <1>36, <1>37,
     <1>38 DEF Next, Service, Environment

LEMMA RollbackInvariant ==
    ASSUME ~PruneInterrupts, ~EagerSwitch, ~IOErrors
    PROVE  Spec => []RollbackInv
<1>1. Init => RollbackInv
  <2> SUFFICES ASSUME Init PROVE RollbackInv
    OBVIOUS
  <2>1. /\ TypeOK /\ pc = "inactive" /\ ~half /\ verdict = "pending" /\ DOMAIN backups = {}
        /\ lastBoot \in {NoBoot, Self} /\ \A p \in PartSet : live[p] = Self
    BY TypeInit DEF Init
  <2>2. Self.dep = booted /\ VersionOf[booted] \in Nat
    BY <2>1, VersionAssumption DEF Self, TypeOK
  <2>3. VerdictInv /\ RunInv /\ HalfInv /\ LabelFaithful
    BY <2>1 DEF VerdictInv, RunInv, HalfInv, LabelFaithful
  <2>4. PristineInv
    BY <2>1, NoBootFacts DEF PristineInv
  <2>5. DataInv
    BY <2>1, <2>2 DEF DataInv, Runs
  <2> QED
    BY <2>3, <2>4, <2>5 DEF RollbackInv
<1>2. StoreKept /\ ReturnInv /\ RollbackInv /\ TypeOK' /\ [Next]_vars => RollbackInv'
  BY RollbackStep
<1>3. StoreKept => TypeOK
  BY DEF StoreKept, SnapshotInv
<1> QED
  BY <1>1, <1>2, <1>3, StoreInvariant, ReturnInvariant, PTL DEF Spec

\* As long as neither a file-system call of restore fails nor a removal is cut short and
\* no deployment is upgraded before it has a backup, boot.Run never goes past
\* maybeRestore on half-restored trees, wherever kills and power losses strike.
THEOREM HalfRestoreNeverRuns ==
    ASSUME ~PruneInterrupts, ~EagerSwitch, ~IOErrors
    PROVE  Spec => []NoReconcileOnHalfRestore
<1>1. RollbackInv => NoReconcileOnHalfRestore
  BY DEF RollbackInv, HalfInv, RestorePending, NoReconcileOnHalfRestore
<1> QED
  BY <1>1, RollbackInvariant, PTL

\* Under the same assumptions every backup holds, tree by tree, the data of the boot it
\* is named after, for every number of deployments, boots, upgrades and rollbacks.
THEOREM BackupsHoldTheirBoot ==
    ASSUME ~PruneInterrupts, ~EagerSwitch, ~IOErrors
    PROVE  Spec => []LabelFaithful
<1>1. RollbackInv => LabelFaithful
  BY DEF RollbackInv
<1> QED
  BY <1>1, RollbackInvariant, PTL

\* Under the same assumptions the kubelet never runs on data that a newer Kubernetes
\* version has written, whatever the versions of the deployments are.
THEOREM DataNeverDowngraded ==
    ASSUME ~PruneInterrupts, ~EagerSwitch, ~IOErrors
    PROVE  Spec => []NoDowngradedData
<1>1. RollbackInv => NoDowngradedData
  BY DEF RollbackInv, DataInv, Runs, NoDowngradedData
<1> QED
  BY <1>1, RollbackInvariant, PTL
=============================================================================
