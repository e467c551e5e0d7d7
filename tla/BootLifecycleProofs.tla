------------------------ MODULE BootLifecycleProofs ------------------------
(***************************************************************************)
(* Proofs about BootLifecycle, for every set of deployments, every number  *)
(* of boots and attempts and every combination of faults, unless a         *)
(* theorem's assumption rules one out.                                     *)
(***************************************************************************)
EXTENDS BootLifecycle, TLAPS

(* The deployments greenboot and prune work with are on the host. *)
HostInv == booted \in known /\ (rollbackTo # NoDeployment => rollbackTo \in known)

(* Backups were revealed in this order and never for the running boot. *)
StoreInv ==
    /\ \A n \in DOMAIN backups : n.boot < bootId /\ backups[n].mtime < clock
    /\ \A m, n \in DOMAIN backups : m # n => backups[m].mtime # backups[n].mtime
    /\ lastBoot.boot <= bootId

(* The backup that last-boot.json names, if there is one, is its deployment's newest. *)
RecordedIsNewest ==
    lastBoot \in DOMAIN backups => lastBoot \in Latest(lastBoot.dep)

(* The restore reads a backup that is there and is its deployment's newest. *)
SourceInv == pc = "restoring" => source \in Latest(booted)

(* Past the snapshot step a snapshot that was due has been taken, and it stays so while *)
(* the kubelet that was then started runs.                                              *)
TakenInv ==
    (kubelet \/ pc \in {"ensure", "startKubelet"}) /\ SnapshotDue => lastBoot \in DOMAIN backups

(* Prune does not remove the backup a later start in this boot would look for. *)
PruneInv == pc = "removing" /\ SnapshotDue => lastBoot \notin doomed

(* What has been copied is still what is on disk. *)
CopyInv ==
    pc = "copying" =>
        /\ ~kubelet
        /\ SnapshotDue
        /\ lastBoot \notin DOMAIN backups
        /\ \A i \in 1..Len(Parts) :
             staging[Parts[i]] = IF i < idx THEN live[Parts[i]] ELSE Absent

(* Create finds the staging directory empty. *)
StagingInv == pc \in {"maybeRestore", "restoring", "clearMarker", "snapshot"} => staging = NoTrees

SnapshotInv ==
    /\ TypeOK /\ HostInv /\ StoreInv /\ RecordedIsNewest /\ SourceInv
    /\ TakenInv /\ PruneInv /\ CopyInv /\ StagingInv
-----------------------------------------------------------------------------
(* Facts about the data *)

LEMMA PartsFacts ==
    /\ Len(Parts) = 5
    /\ \A i \in 1..5 : Parts[i] \in PartSet
    /\ \A p \in PartSet : \E i \in 1..5 : Parts[i] = p
    /\ \A i, j \in 1..5 : Parts[i] = Parts[j] => i = j
BY DEF Parts, PartSet

LEMMA EnsureOrderFacts == Len(EnsureOrder) = 4
BY DEF EnsureOrder

LEMMA NoBootFacts == NoBoot \notin BootRef
BY DeploymentsAssumption DEF NoBoot, BootRef

LEMMA SelfType ==
    ASSUME TypeOK
    PROVE  /\ Self \in BootRef
           /\ Self.dep = booted /\ Self.boot = bootId
BY DEF TypeOK, Self, BootRef

LEMMA NoTreesType == NoTrees \in Trees
BY DEF NoTrees, Trees

LEMMA TreesUpdate ==
    ASSUME NEW t \in Trees, NEW p \in PartSet, NEW r \in BootRef \union {Absent}
    PROVE  [t EXCEPT ![p] = r] \in Trees
BY DEF Trees

LEMMA ReconciledType ==
    ASSUME TypeOK, NEW n
    PROVE  Reconciled(n) \in Trees
<1>1. Self \in BootRef
  BY SelfType
<1> QED
  BY <1>1 DEF TypeOK, Reconciled, Trees

-----------------------------------------------------------------------------
(* Type correctness *)

\* Every step of the service and of the node keeps TypeOK.
LEMMA TypeStep ==
    ASSUME TypeOK, [Next]_vars
    PROVE  TypeOK'
<1> USE DEF host, proc, disk, hist, Goto, Fail
<1>1. CASE UNCHANGED vars
  BY <1>1 DEF vars, TypeOK
<1>2. CASE StartService
  BY <1>2 DEF StartService, TypeOK, PCs
<1>3. CASE Preflight
  BY <1>3, NoTreesType DEF Preflight, TypeOK, PCs
<1>4. CASE PreflightFails
  BY <1>4, NoTreesType, PartsFacts DEF PreflightFails, TypeOK, PCs
<1>5. CASE RestoreNotRequested
  BY <1>5 DEF RestoreNotRequested, TypeOK, PCs
<1>6. CASE RestoreFindsNothing
  BY <1>6 DEF RestoreFindsNothing, TypeOK, PCs
<1>7. CASE RestoreBegins
  BY <1>7, PartsFacts DEF RestoreBegins, TypeOK, PCs, Latest, Newest, OfDeployment
<1>8. CASE RestoreFails
  <2>1. /\ Fail
        /\ UNCHANGED <<host, live, backups, lastBoot, clock, hist>>
        /\ marker' \in BOOLEAN
    BY <1>8, Zenon DEF RestoreFails, MarkerAfterReturn, TypeOK
  <2> QED
    BY <2>1, NoTreesType, PartsFacts DEF TypeOK, PCs
<1>9. CASE ClearMarker
  BY <1>9 DEF ClearMarker, TypeOK, PCs, MarkerAfterReturn
<1>10. CASE RestoreFinishes
  <2>1. /\ lastBoot' = source /\ half' = FALSE
        /\ pc' = "clearMarker" /\ idx' = 1 /\ source' = NoBoot
        /\ UNCHANGED <<host, doomed, live, backups, staging, marker, clock, healthy>>
    BY <1>10, Zenon DEF RestoreFinishes
  <2>2. lastBoot' \in BootRef \union {NoBoot} /\ half' \in BOOLEAN
    BY <2>1 DEF TypeOK
  <2> QED
    BY <2>1, <2>2, PartsFacts DEF TypeOK, PCs
<1>11. CASE SnapshotSkipped
  BY <1>11 DEF SnapshotSkipped, TypeOK, PCs
<1>12. CASE SnapshotExists
  BY <1>12 DEF SnapshotExists, TypeOK, PCs
<1>13. CASE SnapshotBegins
  BY <1>13, PartsFacts DEF SnapshotBegins, SnapshotDue, TypeOK, PCs
<1>14. CASE SnapshotFails
  BY <1>14, NoTreesType, PartsFacts DEF SnapshotFails, TypeOK, PCs
<1>15. CASE StartKubelet
  BY <1>15 DEF StartKubelet, TypeOK, PCs
<1>16. CASE KubeletFails
  BY <1>16, NoTreesType, PartsFacts DEF KubeletFails, TypeOK, PCs
<1>17. CASE PruneBegins
  BY <1>17 DEF PruneBegins, TypeOK, PCs, Doomed
<1>18. CASE PruneSkipped
  BY <1>18 DEF PruneSkipped, TypeOK, PCs
<1>19. CASE PruneEnds
  BY <1>19 DEF PruneEnds, TypeOK, PCs
<1>20. CASE Record
  BY <1>20, NoTreesType, SelfType DEF Record, TypeOK, PCs
<1>21. CASE Kill
  BY <1>21, PartsFacts DEF Kill, TypeOK, PCs
<1>22. CASE RestorePart
  <2>1. Parts[idx] \in PartSet /\ idx + 1 \in 1..(Len(Parts) + 1)
    BY <1>22, PartsFacts DEF RestorePart, TypeOK
  <2>2. backups[source].trees[Parts[idx]] \in BootRef \union {Absent}
    <3>1. backups[source] \in Backup
      BY <1>22 DEF RestorePart, TypeOK
    <3> QED
      BY <2>1, <3>1 DEF Trees, Backup
  <2>3. live' \in Trees
    BY <1>22, <2>1, <2>2, TreesUpdate DEF RestorePart, Replaced, TypeOK
  <2> QED
    BY <1>22, <2>1, <2>3 DEF RestorePart, TypeOK
<1>23. CASE CopyPart
  <2>1. Parts[idx] \in PartSet /\ idx + 1 \in 1..(Len(Parts) + 1)
    BY <1>23, PartsFacts DEF CopyPart, TypeOK
  <2>2. staging' \in Trees
    BY <1>23, <2>1, TreesUpdate DEF CopyPart, CopyIfExists, TypeOK, Trees
  <2> QED
    BY <1>23, <2>1, <2>2 DEF CopyPart, TypeOK
<1>24. CASE Reveal
  <2> DEFINE new == [trees |-> staging, meta |-> TRUE, mtime |-> clock]
  <2>1. new \in Backup
    BY DEF Backup, TypeOK
  <2>2. lastBoot \in BootRef
    BY <1>24 DEF Reveal, TypeOK
  <2>3. /\ DOMAIN backups' = DOMAIN backups \union {lastBoot}
        /\ \A n \in DOMAIN backups' : backups'[n] = IF n = lastBoot THEN new ELSE backups[n]
        /\ backups' = [n \in DOMAIN backups' |-> backups'[n]]
    BY <1>24 DEF Reveal
  <2>4. \A n \in DOMAIN backups' : backups'[n] \in Backup
    BY <2>1, <2>3 DEF TypeOK
  <2> QED
    <3>1. /\ DOMAIN backups' \subseteq BootRef
          /\ doomed' \subseteq DOMAIN backups'
          /\ clock' \in Nat /\ staging' \in Trees
          /\ idx' \in 1..(Len(Parts) + 1) /\ pc' \in PCs
          /\ pc' \notin {"copying", "restoring"}
      BY <1>24, <2>2, <2>3, PartsFacts, NoTreesType DEF Reveal, TypeOK, PCs
    <3> QED
      BY <1>24, <2>3, <2>4, <3>1 DEF Reveal, TypeOK
<1>25. CASE Ensure
  BY <1>25, ReconciledType DEF Ensure, TypeOK, PCs
<1>26. CASE EnsureFails
  BY <1>26, ReconciledType, NoTreesType, PartsFacts DEF EnsureFails, TypeOK, PCs
<1>27. CASE ControlPlaneReady
  BY <1>27, SelfType, TreesUpdate DEF ControlPlaneReady, TypeOK, PCs, PartSet
<1>28. CASE ClusterWrite
  BY <1>28, SelfType, TreesUpdate DEF ClusterWrite, TypeOK, PCs, PartSet
<1>29. CASE RemoveBackup
  BY <1>29 DEF RemoveBackup, TypeOK
<1>30. CASE RemoveInterrupted
  <2>1. PICK n \in doomed, gone \in SUBSET Entries :
          backups' = [backups EXCEPT ![n] =
            [trees |-> [p \in PartSet |-> IF EntryOf(p) \in gone THEN Absent ELSE backups[n].trees[p]],
             meta |-> backups[n].meta /\ "meta.json" \notin gone,
             mtime |-> clock]]
    BY <1>30 DEF RemoveInterrupted
  <2> DEFINE torn == [trees |-> [p \in PartSet |-> IF EntryOf(p) \in gone THEN Absent
                                                  ELSE backups[n].trees[p]],
                      meta |-> backups[n].meta /\ "meta.json" \notin gone,
                      mtime |-> clock]
  <2>2. torn \in Backup
    <3>1. backups[n] \in Backup
      BY DEF TypeOK
    <3> QED
      BY <3>1 DEF TypeOK, Backup, Trees
  <2>3. /\ backups' = [backups EXCEPT ![n] = torn]
        /\ n \in DOMAIN backups
    BY <2>1 DEF TypeOK
  <2> HIDE DEF torn
  <2>4. /\ DOMAIN backups' = DOMAIN backups
        /\ backups' = [m \in DOMAIN backups' |-> backups'[m]]
        /\ \A m \in DOMAIN backups' : backups'[m] \in Backup
    BY <2>2, <2>3 DEF TypeOK
  <2> QED
    BY <1>30, <2>4 DEF RemoveInterrupted, TypeOK, PCs
<1>31. CASE JudgeGreen
  BY <1>31, MaxAttemptsAssumption DEF JudgeGreen, TypeOK, Verdicts, Unset
<1>32. CASE JudgeRed
  BY <1>32 DEF JudgeRed, TypeOK, Verdicts
<1>33. CASE RedD
  BY <1>33 DEF RedD, TypeOK, Verdicts
<1>34. CASE RollbackImpossible
  BY <1>34 DEF RollbackImpossible, TypeOK, Verdicts
<1>35. ASSUME NEW d \in Deployments, NEW count \in Unset..MaxAttempts, BootInto(d, count),
              known' \subseteq Deployments, rollbackTo' \in Deployments \union {NoDeployment},
              marker' \in BOOLEAN
       PROVE  TypeOK'
  <2>1. bootId' \in Boots
    BY <1>35, MaxBootsAssumption DEF BootInto, TypeOK, Boots
  <2>2. counter' \in Unset..MaxAttempts
    BY <1>35, MaxAttemptsAssumption DEF BootInto, Unset
  <2>3. /\ booted' \in Deployments /\ verdict' \in Verdicts /\ kubelet' \in BOOLEAN
        /\ pc' \in PCs /\ pc' \notin {"copying", "restoring"}
        /\ idx' \in 1..(Len(Parts) + 1) /\ source' = NoBoot /\ doomed' = {}
    <3>1. /\ booted' = d /\ verdict' = "pending" /\ kubelet' = FALSE
          /\ pc' = "inactive" /\ idx' = 1 /\ source' = NoBoot /\ doomed' = {}
      BY <1>35, Zenon DEF BootInto
    <3>2. booted' \in Deployments
      BY <1>35, <3>1
    <3>3. kubelet' \in BOOLEAN
      BY <3>1
    <3>4. verdict' \in Verdicts
      BY <3>1 DEF Verdicts
    <3>5. pc' \in PCs /\ pc' \notin {"copying", "restoring"}
      BY <3>1 DEF PCs
    <3>6. idx' \in 1..(Len(Parts) + 1)
      BY <3>1, PartsFacts
    <3> QED
      BY <3>1, <3>2, <3>3, <3>4, <3>5, <3>6
  <2>4. UNCHANGED <<live, backups, staging, lastBoot, clock, half, healthy>>
    BY <1>35 DEF BootInto
  <2> QED
    BY <1>35, <2>1, <2>2, <2>3, <2>4 DEF TypeOK
<1>36. CASE Reboot
  BY <1>35, <1>36 DEF Reboot, TypeOK
<1>37. CASE Retry
  BY <1>35, <1>37, MaxAttemptsAssumption DEF Retry, TypeOK, Unset
<1>38. CASE Rollback
  BY <1>35, <1>38, MaxAttemptsAssumption DEF Rollback, TypeOK, Unset
<1>39. ASSUME NEW d \in Deployments, Switch(d)
       PROVE  TypeOK'
  BY <1>35, <1>39, MaxAttemptsAssumption DEF Switch, TypeOK, Unset
<1> QED
  BY <1>1, <1>2, <1>3, <1>4, <1>5, <1>6, <1>7, <1>8, <1>9, <1>10, <1>11, <1>12, <1>13, <1>14, <1>15, <1>16, <1>17, <1>18, <1>19, <1>20, <1>21, <1>22, <1>23, <1>24, <1>25, <1>26, <1>27, <1>28, <1>29, <1>30, <1>31, <1>32, <1>33, <1>34, <1>36, <1>37, <1>38, <1>39 DEF Next, Service, Environment
\* The state `picokube init` leaves has the types.
LEMMA TypeInit == Init => TypeOK
<1> SUFFICES ASSUME Init PROVE TypeOK
  OBVIOUS
<1>1. Self \in BootRef /\ 1 \in Boots
  BY MaxBootsAssumption DEF Init, Self, BootRef, Boots
<1>2. live \in Trees
  BY <1>1 DEF Init, Trees
<1>3. lastBoot \in BootRef \union {NoBoot} /\ healthy \subseteq BootRef
  BY <1>1 DEF Init
<1>4. counter \in Unset..MaxAttempts
  BY MaxAttemptsAssumption DEF Init, Unset
<1>5. DOMAIN backups = {} /\ backups = [n \in DOMAIN backups |-> backups[n]]
  BY DEF Init
<1>6. /\ pc \in PCs /\ pc \notin {"copying", "restoring"} /\ verdict \in Verdicts
      /\ idx \in 1..(Len(Parts) + 1) /\ source = NoBoot /\ doomed = {}
  BY PartsFacts DEF Init, PCs, Verdicts
<1>7. kubelet \in BOOLEAN /\ marker \in BOOLEAN /\ half \in BOOLEAN
  BY DEF Init
<1> QED
  BY <1>1, <1>2, <1>3, <1>4, <1>5, <1>6, <1>7, NoTreesType DEF Init, TypeOK

\* The node's state keeps its types: for every set of deployments, every bound
\* and every combination of faults, a restore reads a backup that is on disk,
\* prune works on backups that are there and a snapshot has a record to be
\* named after.
THEOREM TypeCorrect == Spec => []TypeOK
<1>1. TypeOK /\ [Next]_vars => TypeOK'
  BY TypeStep
<1> QED
  BY <1>1, TypeInit, PTL DEF Spec

-----------------------------------------------------------------------------
(* Which boots the records name *)

HealthInv ==
    /\ OnlyHealthyBootsAreNamed
    /\ pc \in {"prune", "removing", "record"} => Self \in healthy

LEMMA HealthStep ==
    ASSUME TypeOK, HealthInv, [Next]_vars
    PROVE  HealthInv'
<1> USE DEF host, proc, disk, hist, Goto, Fail, HealthInv, OnlyHealthyBootsAreNamed, Self
<1>1. CASE UNCHANGED vars
  BY <1>1 DEF vars
<1>2. CASE StartService
  BY <1>2 DEF StartService
<1>3. CASE Preflight
  BY <1>3 DEF Preflight
<1>4. CASE PreflightFails
  BY <1>4 DEF PreflightFails
<1>5. CASE RestoreNotRequested
  BY <1>5 DEF RestoreNotRequested
<1>6. CASE RestoreFindsNothing
  BY <1>6 DEF RestoreFindsNothing
<1>7. CASE RestoreBegins
  BY <1>7 DEF RestoreBegins, Latest, Newest, OfDeployment
<1>8. CASE RestorePart
  BY <1>8 DEF RestorePart
<1>9. CASE RestoreFinishes
  BY <1>9 DEF RestoreFinishes, TypeOK
<1>10. CASE RestoreFails
  BY <1>10 DEF RestoreFails
<1>11. CASE ClearMarker
  BY <1>11 DEF ClearMarker
<1>12. CASE SnapshotSkipped
  BY <1>12 DEF SnapshotSkipped
<1>13. CASE SnapshotExists
  BY <1>13 DEF SnapshotExists
<1>14. CASE SnapshotBegins
  BY <1>14 DEF SnapshotBegins
<1>15. CASE CopyPart
  BY <1>15 DEF CopyPart
<1>16. CASE Reveal
  BY <1>16 DEF Reveal, TypeOK
<1>17. CASE SnapshotFails
  BY <1>17 DEF SnapshotFails
<1>18. CASE Ensure
  BY <1>18 DEF Ensure
<1>19. CASE EnsureFails
  BY <1>19 DEF EnsureFails
<1>20. CASE StartKubelet
  BY <1>20 DEF StartKubelet
<1>21. CASE ControlPlaneReady
  BY <1>21 DEF ControlPlaneReady
<1>22. CASE KubeletFails
  BY <1>22 DEF KubeletFails
<1>23. CASE PruneBegins
  BY <1>23 DEF PruneBegins
<1>24. CASE PruneSkipped
  BY <1>24 DEF PruneSkipped
<1>25. CASE RemoveBackup
  BY <1>25 DEF RemoveBackup
<1>26. CASE RemoveInterrupted
  BY <1>26 DEF RemoveInterrupted
<1>27. CASE PruneEnds
  BY <1>27 DEF PruneEnds
<1>28. CASE Record
  BY <1>28 DEF Record
<1>29. CASE Kill
  BY <1>29 DEF Kill
<1>30. CASE ClusterWrite
  BY <1>30 DEF ClusterWrite
<1>31. CASE JudgeGreen
  BY <1>31 DEF JudgeGreen
<1>32. CASE JudgeRed
  BY <1>32 DEF JudgeRed
<1>33. CASE RedD
  BY <1>33 DEF RedD
<1>34. CASE RollbackImpossible
  BY <1>34 DEF RollbackImpossible
<1>35. ASSUME NEW d, NEW count, BootInto(d, count)
       PROVE  HealthInv'
  BY <1>35 DEF BootInto
<1>36. CASE Reboot \/ Retry \/ Rollback \/ \E d \in Deployments : Switch(d)
  BY <1>35, <1>36 DEF Reboot, Retry, Rollback, Switch
<1> QED
  BY <1>1, <1>2, <1>3, <1>4, <1>5, <1>6, <1>7, <1>8, <1>9, <1>10, <1>11, <1>12, <1>13, <1>14, <1>15, <1>16, <1>17, <1>18, <1>19, <1>20, <1>21, <1>22, <1>23, <1>24, <1>25, <1>26, <1>27, <1>28, <1>29, <1>30, <1>31, <1>32, <1>33, <1>34, <1>36 DEF Next, Service, Environment

\* last-boot.json, backups and restores only ever name boots whose control plane
\* was verified, whatever crashes, I/O errors, interrupted removals and upgrades
\* happen: for every value of the constants.
THEOREM OnlyHealthyBootsNamed == Spec => []OnlyHealthyBootsAreNamed
<1>1. Init => HealthInv
  BY DEF Init, HealthInv, OnlyHealthyBootsAreNamed
<1>2. TypeOK /\ HealthInv /\ [Next]_vars => HealthInv'
  BY HealthStep
<1>3. HealthInv => OnlyHealthyBootsAreNamed
  BY DEF HealthInv
<1> QED
  BY <1>1, <1>2, <1>3, TypeCorrect, PTL DEF Spec
-----------------------------------------------------------------------------
(* The snapshot is taken from trees at rest *)

LEMMA SnapshotStep ==
    ASSUME ~PruneInterrupts, SnapshotInv, TypeOK', [Next]_vars
    PROVE  SnapshotInv'
<1>0. /\ bootId \in Nat /\ clock \in Nat
      /\ \A n \in DOMAIN backups : n \in BootRef /\ n.boot \in Nat /\ backups[n].mtime \in Nat
  BY MaxBootsAssumption DEF SnapshotInv, TypeOK, Boots, BootRef, Backup
<1> USE DEF host, proc, disk, hist, Goto, Fail, SnapshotInv, HostInv, StoreInv, RecordedIsNewest,
            SourceInv, TakenInv, PruneInv, CopyInv, StagingInv, SnapshotDue, Latest, Newest, OfDeployment
<1>1. CASE UNCHANGED vars
  BY <1>1 DEF vars
<1>2. CASE StartService
  BY <1>2 DEF StartService
<1>3. CASE Preflight
  BY <1>3 DEF Preflight
<1>4. CASE PreflightFails
  BY <1>4 DEF PreflightFails
<1>5. CASE RestoreNotRequested
  BY <1>5 DEF RestoreNotRequested
<1>6. CASE RestoreFindsNothing
  BY <1>6 DEF RestoreFindsNothing
<1>7. CASE RestoreBegins
  BY <1>7 DEF RestoreBegins
<1>8. CASE RestorePart
  BY <1>8 DEF RestorePart
<1>9. CASE RestoreFinishes
  <2>1. /\ pc = "restoring" /\ lastBoot' = source /\ pc' = "clearMarker"
        /\ UNCHANGED <<host, doomed, live, backups, staging, clock>>
    BY <1>9, Zenon DEF RestoreFinishes
  <2>2. source \in Latest(booted) /\ source.dep = booted /\ source.boot < bootId
    BY <2>1
  <2> QED
    BY <1>0, <2>1, <2>2
<1>10. CASE RestoreFails
  BY <1>10 DEF RestoreFails
<1>11. CASE ClearMarker
  BY <1>11 DEF ClearMarker
<1>12. CASE SnapshotSkipped
  BY <1>12 DEF SnapshotSkipped
<1>13. CASE SnapshotExists
  BY <1>13 DEF SnapshotExists
<1>14. CASE SnapshotBegins
  <2>1. \A i \in 1..Len(Parts) : ~(i < 1) /\ staging[Parts[i]] = Absent
    BY <1>14, PartsFacts DEF SnapshotBegins, NoTrees
  <2> QED
    BY <1>14, <2>1 DEF SnapshotBegins
<1>15. CASE CopyPart
  <2>1. /\ Parts[idx] \in PartSet /\ idx \in 1..Len(Parts)
        /\ staging' = CopyIfExists(Parts[idx])
        /\ staging \in [PartSet -> BootRef \union {Absent}]
    BY <1>15, PartsFacts DEF CopyPart, TypeOK, Trees
  <2>2. staging[Parts[idx]] = Absent
    BY <1>15, <2>1 DEF CopyPart
  <2>3. \A p \in PartSet : staging'[p] = IF p = Parts[idx] THEN live[p] ELSE staging[p]
    BY <2>1, <2>2 DEF CopyIfExists
  <2>4. ASSUME NEW i \in 1..Len(Parts)
        PROVE  staging'[Parts[i]] = IF i < idx + 1 THEN live[Parts[i]] ELSE Absent
    <3>1. Parts[i] \in PartSet /\ (Parts[i] = Parts[idx] => i = idx)
      BY <2>1, PartsFacts
    <3>2. staging[Parts[i]] = IF i < idx THEN live[Parts[i]] ELSE Absent
      BY <1>15 DEF CopyPart
    <3>3. i \in Nat /\ idx \in Nat /\ (i < idx + 1 <=> i < idx \/ i = idx) /\ ~(idx < idx)
      BY <2>1, PartsFacts
    <3>4. CASE i = idx
      BY <2>3, <3>1, <3>3, <3>4
    <3>5. CASE i # idx
      BY <2>3, <3>1, <3>2, <3>3, <3>5
    <3> QED
      BY <3>4, <3>5
  <2> QED
    BY <1>15, <2>4 DEF CopyPart
<1>16. CASE Reveal
  <2>1. /\ DOMAIN backups' = DOMAIN backups \union {lastBoot}
        /\ backups'[lastBoot].mtime = clock
        /\ \A n \in DOMAIN backups : n # lastBoot => backups'[n] = backups[n]
        /\ clock' = clock + 1 /\ pc' = "ensure"
        /\ UNCHANGED <<host, lastBoot>>
    BY <1>16 DEF Reveal
  <2>2. lastBoot \notin DOMAIN backups /\ ~kubelet /\ lastBoot.dep = booted
    BY <1>16 DEF Reveal
  <2>3. lastBoot.boot < bootId
    BY <1>0, <1>16 DEF Reveal, TypeOK, BootRef, Boots
  <2>4. StoreInv'
    BY <1>0, <2>1, <2>2, <2>3
  <2>5. RecordedIsNewest'
    BY <1>0, <2>1, <2>2
  <2> QED
    BY <2>1, <2>2, <2>4, <2>5
<1>17. CASE SnapshotFails
  BY <1>17 DEF SnapshotFails
<1>18. CASE Ensure
  BY <1>18 DEF Ensure
<1>19. CASE EnsureFails
  BY <1>19 DEF EnsureFails
<1>20. CASE StartKubelet
  BY <1>20 DEF StartKubelet
<1>21. CASE ControlPlaneReady
  BY <1>21 DEF ControlPlaneReady
<1>22. CASE KubeletFails
  BY <1>22 DEF KubeletFails
<1>23. CASE PruneBegins
  <2>1. PICK keep \in SUBSET DOMAIN backups :
          /\ \A d \in known : OfDeployment(d) # {} =>
               \E n \in Latest(d) : keep \intersect OfDeployment(d) = {n}
          /\ doomed' = Doomed(keep)
    BY <1>23 DEF PruneBegins
  <2>2. pc' = "removing" /\ UNCHANGED <<host, source, disk>>
    BY <1>23 DEF PruneBegins
  <2>3. ASSUME SnapshotDue PROVE lastBoot \notin doomed'
    <3>1. CASE lastBoot \in DOMAIN backups
      <4>1. lastBoot \in Latest(booted) /\ booted \in known /\ lastBoot \in OfDeployment(booted)
        BY <2>3, <3>1
      <4>2. PICK n \in Latest(booted) : keep \intersect OfDeployment(booted) = {n}
        BY <2>1, <4>1
      <4>3. backups[n].mtime = backups[lastBoot].mtime
        BY <1>0, <4>1
      <4>4. lastBoot \in keep
        BY <4>1, <4>2, <4>3
      <4> QED
        BY <2>1, <4>1, <4>4 DEF Doomed
    <3>2. CASE lastBoot \notin DOMAIN backups
      BY <2>1, <3>2 DEF Doomed
    <3> QED
      BY <3>1, <3>2
  <2> QED
    BY <2>2, <2>3
<1>24. CASE PruneSkipped
  BY <1>24 DEF PruneSkipped
<1>25. CASE RemoveBackup
  BY <1>25 DEF RemoveBackup
<1>26. CASE RemoveInterrupted
  BY <1>26 DEF RemoveInterrupted
<1>27. CASE PruneEnds
  BY <1>27 DEF PruneEnds
<1>28. CASE Record
  <2>1. /\ lastBoot' = Self \/ lastBoot' = lastBoot
        /\ pc' = "parked"
        /\ UNCHANGED <<host, live, backups, clock>>
    BY <1>28, Zenon DEF Record
  <2>2. Self \notin DOMAIN backups /\ Self.boot = bootId
    BY <1>0 DEF Self
  <2> QED
    BY <1>0, <2>1, <2>2
<1>29. CASE Kill
  BY <1>29 DEF Kill
<1>30. CASE ClusterWrite
  BY <1>30 DEF ClusterWrite
<1>31. CASE JudgeGreen
  BY <1>31 DEF JudgeGreen
<1>32. CASE JudgeRed
  BY <1>32 DEF JudgeRed
<1>33. CASE RedD
  BY <1>33 DEF RedD
<1>34. CASE RollbackImpossible
  BY <1>34 DEF RollbackImpossible
<1>35. ASSUME NEW d, NEW count, BootInto(d, count), d \in known', 
              rollbackTo' # NoDeployment => rollbackTo' \in known'
       PROVE  SnapshotInv'
  <2>1. /\ bootId' = bootId + 1 /\ booted' = d /\ kubelet' = FALSE /\ pc' = "inactive"
        /\ UNCHANGED <<backups, lastBoot, clock>>
    BY <1>35, Zenon DEF BootInto
  <2>2. lastBoot.boot \in Nat
    BY DEF TypeOK, BootRef, Boots, NoBoot
  <2> QED
    BY <1>0, <1>35, <2>1, <2>2
<1>36. CASE Reboot
  BY <1>35, <1>36 DEF Reboot
<1>37. CASE Retry
  BY <1>35, <1>37 DEF Retry
<1>38. CASE Rollback
  BY <1>35, <1>38 DEF Rollback
<1>39. ASSUME NEW d \in Deployments, Switch(d)
       PROVE  SnapshotInv'
  BY <1>35, <1>39 DEF Switch
<1> QED
  BY <1>1, <1>2, <1>3, <1>4, <1>5, <1>6, <1>7, <1>8, <1>9, <1>10, <1>11, <1>12, <1>13, <1>14, <1>15, <1>16, <1>17, <1>18, <1>19, <1>20, <1>21, <1>22, <1>23, <1>24, <1>25, <1>26, <1>27, <1>28, <1>29, <1>30, <1>31, <1>32, <1>33, <1>34, <1>36, <1>37, <1>38, <1>39 DEF Next, Service, Environment
LEMMA SnapshotInit == Init => SnapshotInv
<1> SUFFICES ASSUME Init PROVE SnapshotInv
  OBVIOUS
<1>1. TypeOK
  BY TypeInit
<1>2. DOMAIN backups = {} /\ (lastBoot = NoBoot \/ lastBoot.boot = bootId)
  BY DEF Init, Self
<1>3. lastBoot.boot <= bootId
  BY <1>2 DEF Init, Self, NoBoot
<1> QED
  BY <1>1, <1>2, <1>3 DEF Init, SnapshotInv, HostInv, StoreInv, RecordedIsNewest, SourceInv,
     TakenInv, PruneInv, CopyInv, StagingInv, SnapshotDue

LEMMA SnapshotInvariant ==
    ASSUME ~PruneInterrupts
    PROVE  Spec => []SnapshotInv
<1>1. SnapshotInv /\ TypeOK' /\ [Next]_vars => SnapshotInv'
  BY SnapshotStep
<1> QED
  BY <1>1, SnapshotInit, TypeCorrect, PTL DEF Spec

\* As long as no removal of a backup is cut short, the trees are never copied
\* while the kubelet runs, for every schedule of restarts, kills, reboots,
\* upgrades, rollbacks, manual restarts and lost writes of last-boot.json.
THEOREM SnapshotAtRest ==
    ASSUME ~PruneInterrupts
    PROVE  Spec => []QuiescentSnapshot
<1>1. SnapshotInv => QuiescentSnapshot
  BY DEF SnapshotInv, CopyInv, QuiescentSnapshot
<1> QED
  BY <1>1, SnapshotInvariant, PTL

\* Under the same assumption a backup that appears under its final name equals
\* the trees on disk at that moment.
THEOREM SnapshotPointInTime ==
    ASSUME ~PruneInterrupts
    PROVE  Spec => SnapshotIsPointInTime
<1> USE DEF host, proc, disk, hist, Goto, Fail
<1>1. ASSUME SnapshotInv, [Next]_vars
      PROVE  [\A n \in DOMAIN backups' \ DOMAIN backups : backups'[n].trees = live]_vars
  <2>1. CASE Reveal
    <3>1. staging = live
      <4>1. \A p \in PartSet : staging[p] = live[p]
        BY <1>1, <2>1, PartsFacts DEF SnapshotInv, CopyInv, Reveal
      <4> QED
        BY <1>1, <4>1 DEF SnapshotInv, TypeOK, Trees
    <3> QED
      BY <2>1, <3>1 DEF Reveal
  <2>2. CASE UNCHANGED backups
    BY <2>2
  <2>3. CASE RemoveBackup
    BY <2>3 DEF RemoveBackup
  <2>4. CASE Reveal \/ RemoveBackup \/ UNCHANGED backups
    BY <2>1, <2>2, <2>3, <2>4
  <2> QED
    BY <1>1, <2>4 DEF Next, Service, Environment, vars, BootInto, StartService, Preflight,
       PreflightFails, RestoreNotRequested, RestoreFindsNothing, RestoreBegins, RestorePart,
       RestoreFinishes, RestoreFails, ClearMarker, SnapshotSkipped, SnapshotExists,
       SnapshotBegins, CopyPart, SnapshotFails, Ensure, EnsureFails, StartKubelet,
       ControlPlaneReady, KubeletFails, PruneBegins, PruneSkipped, RemoveInterrupted, PruneEnds,
       Record, Kill, ClusterWrite, Reboot, Switch, JudgeGreen, JudgeRed, RedD, Retry, Rollback,
       RollbackImpossible
<1> QED
  BY <1>1, SnapshotInvariant, PTL DEF Spec, SnapshotIsPointInTime
=============================================================================
