------------------------- MODULE NodeIdentityProofs -------------------------
(***************************************************************************)
(* Whatever configuration files, images, stopped commands, reboots and     *)
(* boots beside them: a node carries one cluster at most, what an init or  *)
(* a reset has left is detected, unless a boot has brought a kubelet.conf  *)
(* back, and a cluster that is recorded can be administered.               *)
(***************************************************************************)
EXTENDS NodeSetupProofs

(* The files that make a cluster's identity; last-boot.json names a boot. *)
Credentials == Identity \ {"record"}

(* A node that has any of the files has picokube's directory, but for a    *)
(* kubelet.conf that a boot has written back after a reset removed it: see *)
(* LateWriteInv.                                                           *)
TraceInv ==
    \A f \in Identity : disk[f] # None =>
        varDir \/ (overtaken /\ f = "kubelet.conf" /\ disk[f] < 0)

(* All of them are of the last cluster that was made, but for a kubelet.conf *)
(* that names the pem and has no key.                                        *)
OwnerInv ==
    /\ \A f \in Credentials : \/ disk[f] \in {None, made}
                              \/ f = "kubelet.conf" /\ disk[f] < 0
    /\ disk["record"] \in 0..made /\ seen \in 0..made
    /\ op = "rewrite" => loaded.op > 0

(* Where init gets to: it has found a node without a key or data, has made the *)
(* directory, and has the cluster it is about to record.                       *)
InitInv ==
    /\ op \in {"preflight", "ca"} => \A f \in Credentials :
          disk[f] = None \/ (f = "kubelet.conf" /\ disk[f] < 0)
    /\ op \in InitPCs \ {"exists", "preflight"} => varDir
    /\ op \in {"finalize", "loadConf", "rewrite", "record"} =>
          disk["ca"] # None /\ disk["etcd"] = disk["ca"] /\ seeded

(* What reset has removed stays away: all of it comes from the PKI, which goes *)
(* first, but for the kubelet.conf of a boot that had loaded it.               *)
ResetInv ==
    /\ op # "remove" => dir = 1
    /\ dir > 1 => \A f \in KubernetesDir \ {"manifest"} :
          disk[f] = None \/ (overtaken /\ f = "kubelet.conf" /\ disk[f] < 0)
    /\ dir > 2 => disk["etcd"] = None
    /\ dir > 3 => disk["pem"] = None

(* A boot that is about to write kubelet.conf back has loaded one with a key, and *)
(* either a reset has removed that one since, or none has got beyond the point    *)
(* where it would.                                                                *)
LateWriteInv == svc = "rewrite" => loaded.svc > 0 /\ (overtaken \/ (varDir /\ dir = 1))

(* A cluster that is recorded, or about to be, either has nothing left on disk that *)
(* counts or is the one that runs, with its binding.                                *)
RecordInv ==
    \A r \in {disk["record"], seen} \ {None} :
        r \in {disk["ca"], disk["etcd"]} => disk["etcd"] = r /\ seeded

IdentityInv ==
    TypeOK /\ TraceInv /\ OwnerInv /\ InitInv /\ ResetInv /\ LateWriteInv /\ RecordInv

(* A step that makes no cluster. *)
Unprovisioned == \A f \in Credentials : disk[f] <= 0
NoNewCluster == made' = made /\ (Unprovisioned => Unprovisioned')

\* Every step keeps the invariant, and only the making of a PKI begins a cluster.
LEMMA IdentityStep ==
    ASSUME IdentityInv, [Next]_vars
    PROVE  IdentityInv' /\ (InitPKI \/ NoNewCluster)
  <1>0. /\ disk \in [Files -> Int] /\ made \in Nat /\ seen \in Int /\ dir \in 1..4
        /\ loaded \in [op : Int, svc : Int] /\ TypeOK'
    BY TypeStep DEF IdentityInv, TypeOK, ManagedDirs
  <1> USE DEF IdentityInv, TraceInv, OwnerInv, InitInv, ResetInv, LateWriteInv, RecordInv,
              NoNewCluster, Unprovisioned, Credentials, Identity, Files, KubernetesDir, EtcdDataDir, KubeletDir,
              PicoKubeVarDir, ManagedDirs, Idle, InitPCs, None, PemReference,
              host, files, both, counters
  <1>u. CASE UNCHANGED vars
    BY <1>0, <1>u DEF vars
  <1>o. CASE Operator
    <2>1. CASE InitBegins
      BY <1>0, <2>1 DEF InitBegins
    <2>2. CASE InitRefused
      BY <1>0, <2>2 DEF InitRefused, Return
    <2>3. CASE InitLoadFails
      BY <1>0, <2>3 DEF InitLoadFails, Return
    <2>4. CASE InitLoads
      BY <1>0, <2>4 DEF InitLoads, Exists
    <2>5. CASE InitPreflight
      BY <1>0, <2>5 DEF InitPreflight, Step
    <2>6. CASE InitPKI
      BY <1>0, <2>6 DEF InitPKI, Put
    <2>7. CASE InitKubeconfig
      BY <1>0, <2>7 DEF InitKubeconfig, Step, Put
    <2>8. CASE InitKubeconfigFails
      BY <1>0, <2>8 DEF InitKubeconfigFails, Return
    <2>9. CASE InitEnsure
      BY <1>0, <2>9 DEF InitEnsure, Step, Put
    <2>10. CASE WriteSuperAdminKubeconfig
      BY <1>0, <2>10 DEF WriteSuperAdminKubeconfig, Step, Put
    <2>11. CASE InitStartKubelet
      BY <1>0, <2>11 DEF InitStartKubelet
    <2>12. CASE InitReadyz
      BY <1>0, <2>12 DEF InitReadyz, Step
    <2>13. CASE initAdminRBAC
      BY <1>0, <2>13 DEF initAdminRBAC, Step
    <2>14. CASE removeSuperAdminKubeconfig
      BY <1>0, <2>14 DEF removeSuperAdminKubeconfig, Step, Put
    <2>15. CASE InitWait
      BY <1>0, <2>15 DEF InitWait, Step, APIServerUp
    <2>16. CASE InitTimesOut
      BY <1>0, <2>16 DEF InitTimesOut, Return
    <2>17. CASE InitFinalize
      BY <1>0, <2>17 DEF InitFinalize, Step, AfterStat
    <2>18. CASE InitLoadConf
      BY <1>0, <2>18 DEF InitLoadConf, AfterLoad, LoadFromFile
    <2>19. CASE InitRewrite
      BY <1>0, <2>19 DEF InitRewrite, WriteToFile, Put
    <2>20. CASE writeFirstBootState
      BY <1>0, <2>20 DEF writeFirstBootState, Return, Put
    <2>21. CASE ResetBegins
      BY <1>0, <2>21 DEF ResetBegins
    <2>22. CASE ResetStopKubelet
      BY <1>0, <2>22 DEF ResetStopKubelet
    <2>23. CASE ResetUnmount
      BY <1>0, <2>23 DEF ResetUnmount, Step
    <2>24. CASE ResetRemove
      <3>1. /\ op = "remove"
            /\ \A f \in Files : disk'[f] = IF f \in ManagedDirs[dir] THEN None ELSE disk[f]
            /\ UNCHANGED <<seeded, seen, made, svc>> /\ loaded'.svc = loaded.svc
        BY <1>0, <2>24 DEF ResetRemove, RemoveFiles, Return
      <3>o. /\ dir = 1 /\ svc = "rewrite" => overtaken'
            /\ dir > 1 => overtaken' = overtaken
        <4>1. "kubelet.conf" \in ManagedDirs[dir] <=> dir = 1
          BY <1>0
        <4>2. overtaken' = IF "kubelet.conf" \in ManagedDirs[dir] THEN svc = "rewrite" ELSE overtaken
          BY <2>24 DEF ResetRemove, RemoveFiles
        <4>3. dir > 1 => dir # 1
          BY <1>0
        <4>4. overtaken \in BOOLEAN /\ overtaken' \in BOOLEAN
          BY <1>0 DEF TypeOK
        <4> HIDE DEF ManagedDirs
        <4> QED
          BY <4>1, <4>2, <4>3, <4>4
      <3>2. /\ dir < 4 => varDir' = varDir /\ dir' = dir + 1 /\ op' = op
            /\ dir = 4 => op' = Idle /\ dir' = 1
        <4>1. dir < 4 => ManagedDirs[dir] # PicoKubeVarDir
          <5>1. /\ "ca" \in ManagedDirs[1] /\ "etcd" \in ManagedDirs[2] /\ "pem" \in ManagedDirs[3]
                /\ PicoKubeVarDir = {"record"}
            OBVIOUS
          <5>2. dir < 4 => dir \in {1, 2, 3}
            BY <1>0
          <5> QED
            BY <5>1, <5>2
        <4>2. varDir \in BOOLEAN /\ varDir' = (varDir /\ ManagedDirs[dir] # PicoKubeVarDir)
          BY <2>24 DEF ResetRemove, TypeOK
        <4>3. dir < 4 => varDir' = varDir
          BY <4>1, <4>2, Zenon
        <4>4. /\ dir < 4 => dir' = dir + 1 /\ op' = op
              /\ dir = 4 => op' = Idle /\ dir' = 1
          BY <1>0, <2>24 DEF ResetRemove, Return
        <4> QED
          BY <4>3, <4>4
      <3>3. CASE dir = 1
        BY <1>0, <3>1, <3>o, <3>2, <3>3
      <3>4. CASE dir = 2
        BY <1>0, <3>1, <3>o, <3>2, <3>4
      <3>5. CASE dir = 3
        BY <1>0, <3>1, <3>o, <3>2, <3>5
      <3>6. CASE dir = 4
        BY <1>0, <3>1, <3>o, <3>2, <3>6
      <3> QED
        BY <1>0, <3>3, <3>4, <3>5, <3>6
    <2>25. CASE Enable
      BY <1>0, <2>25 DEF Enable
    <2>26. CASE FixConfig
      BY <1>0, <2>26 DEF FixConfig
    <2> QED  BY <1>o, <2>1, <2>2, <2>3, <2>4, <2>5, <2>6, <2>7, <2>8, <2>9, <2>10,
       <2>11, <2>12, <2>13, <2>14, <2>15, <2>16, <2>17, <2>18, <2>19, <2>20, <2>21,
       <2>22, <2>23, <2>24, <2>25, <2>26 DEF InitCommand, ResetCommand, Operator
  <1>s. CASE Service
    <2>1. CASE BootLoads
      BY <1>0, <2>1 DEF BootLoads
    <2>2. CASE BootPreflight
      BY <1>0, <2>2 DEF BootPreflight, BootStep
    <2>3. CASE BootWorkspace
      BY <1>0, <2>3 DEF BootWorkspace, BootStep
    <2>4. CASE BootEnsure
      BY <1>0, <2>4 DEF BootEnsure, Put, BootStep
    <2>5. CASE BootRotate
      BY <1>0, <2>5 DEF BootRotate, BootStep
    <2>6. CASE BootFinalize
      BY <1>0, <2>6 DEF BootFinalize, BootStep, AfterStat
    <2>7. CASE BootLoadConf
      BY <1>0, <2>7 DEF BootLoadConf, AfterLoad, LoadFromFile
    <2>8. CASE BootRewrite
      BY <1>0, <2>8 DEF BootRewrite, WriteToFile, Put
    <2>9. CASE BootStartKubelet
      BY <1>0, <2>9 DEF BootStartKubelet
    <2>10. CASE BootReadyz
      BY <1>0, <2>10 DEF BootReadyz, BootStep
    <2>11. CASE BootWait
      BY <1>0, <2>11 DEF BootWait
    <2>12. CASE BootRecords
      BY <1>0, <2>12 DEF BootRecords, Put, BootStep
    <2>13. CASE BootFails
      BY <1>0, <2>13 DEF BootFails
    <2> QED  BY <1>s, <2>1, <2>2, <2>3, <2>4, <2>5, <2>6, <2>7, <2>8, <2>9, <2>10,
       <2>11, <2>12, <2>13 DEF Service
  <1>k. CASE Kubelet
    <2>1. CASE EtcdStarts
      BY <1>0, <2>1 DEF EtcdStarts, Put
    <2>2. CASE KubeletCSR
      BY <1>0, <2>2 DEF KubeletCSR, Put
    <2> QED  BY <1>k, <2>1, <2>2 DEF Kubelet
  <1>f. CASE Faults
    <2>1. CASE CommandStops
      <3>1. PICK gone \in SUBSET (IF op = "remove" THEN ManagedDirs[dir] ELSE {}) : RemoveFiles(gone)
        BY <2>1 DEF CommandStops
      <3>2. /\ \A f \in Files : disk'[f] = IF f \in gone THEN None ELSE disk[f]
            /\ "kubelet.conf" \in gone /\ svc = "rewrite" => overtaken'
            /\ "kubelet.conf" \notin gone => overtaken' = overtaken
        BY <3>1 DEF RemoveFiles
      <3>3. /\ op' = Idle /\ dir' = 1
            /\ UNCHANGED <<varDir, seeded, seen, made, svc>> /\ loaded'.svc = loaded.svc
        BY <1>0, <2>1 DEF CommandStops, Return
      <3> QED
        BY <1>0, <3>2, <3>3
    <2>2. CASE EditConfig
      BY <1>0, <2>2 DEF EditConfig
    <2>3. CASE Rebuild
      BY <1>0, <2>3 DEF Rebuild
    <2>4. CASE StartService
      BY <1>0, <2>4 DEF StartService
    <2>5. CASE Reboot
      BY <1>0, <2>5 DEF Reboot
    <2> QED  BY <1>f, <2>1, <2>2, <2>3, <2>4, <2>5 DEF Faults
  <1> QED  BY <1>u, <1>o, <1>s, <1>k, <1>f DEF Next

\* The node starts without any of the files.
LEMMA IdentityInit == Init => IdentityInv
  <1> SUFFICES ASSUME Init PROVE IdentityInv
    OBVIOUS
  <1>1. TypeOK
    BY VersionInit DEF VersionInv
  <1>2. \A f \in Files : disk[f] = None
    BY DEF Init
  <1> QED
    BY <1>1, <1>2
    DEF Init, IdentityInv, TraceInv, OwnerInv, InitInv, ResetInv, LateWriteInv, RecordInv,
        Credentials, Identity, Files, InitPCs, Idle, None

LEMMA IdentityInvariant == Spec => []IdentityInv
  <1>1. IdentityInv /\ [Next]_vars => IdentityInv'
    BY IdentityStep
  <1> QED
    BY <1>1, IdentityInit, PTL DEF Spec

\* Whatever an init or a reset that was stopped has left of a cluster, state.Exists sees
\* it, unless it is a kubelet.conf without a key that a boot has written back after a
\* reset removed the one it had loaded: for all configuration files and any number of
\* images, faults and rebuilds.
THEOREM LeftoversSeen == Spec => []LeftoversAreDetected
  <1>1. IdentityInv => LeftoversAreDetected
    BY DEF IdentityInv, TraceInv, LeftoversAreDetected, Exists
  <1> QED
    BY <1>1, IdentityInvariant, PTL

\* A cluster that last-boot.json names has its cluster-admins binding, whichever of init
\* and boot wrote the file and however they and reset were interleaved.
THEOREM RecordedHasAdmin == Spec => []RecordedIsAdministrable
  <1>1. IdentityInv => RecordedIsAdministrable
    BY DEF IdentityInv, RecordInv, RecordedIsAdministrable
  <1> QED
    BY <1>1, IdentityInvariant, PTL

\* Of credentials that are all of one cluster, or have no key, that cluster is carried.
LEMMA CarriedShape ==
    ASSUME NEW d \in [Files -> Int], NEW m \in Nat,
           \A f \in Credentials : d[f] \in {0, m} \/ d[f] < 0
    PROVE  LET C == {c \in {d[f] : f \in Identity \ {"record"}} : c > 0}
           IN  /\ C = {} \/ C = {m}
               /\ (\A f \in Credentials : d[f] <= 0) <=> C = {}
  <1>1. \A f \in Credentials : d[f] \in Int
    BY DEF Credentials, Files
  <1> QED
    BY <1>1 DEF Credentials

\* What is on disk belongs to the last cluster.
LEMMA CarriedFacts ==
    ASSUME IdentityInv
    PROVE  /\ Carried = {} \/ Carried = {made}
           /\ Unprovisioned <=> Carried = {}
  BY CarriedShape DEF IdentityInv, OwnerInv, TypeOK, None, Carried, Unprovisioned

\* The PKI that init makes on a node without keys and data begins the next cluster.
LEMMA PKIProvisions ==
    ASSUME IdentityInv, InitPKI
    PROVE  Identities!Provision
  <1>1. /\ \A f \in Credentials : disk[f] = 0 \/ (f = "kubelet.conf" /\ disk[f] < 0)
        /\ disk \in [Files -> Int] /\ made \in Nat
    BY DEF IdentityInv, InitInv, InitPKI, TypeOK, None
  <1>2. disk' = [disk EXCEPT !["ca"] = made + 1] /\ made' = made + 1
    BY <1>1 DEF InitPKI, Put, Credentials, Identity, None
  <1>3. Carried = {}
    <2>1. \A f \in Credentials : disk[f] \in {0, made} \/ disk[f] < 0
      BY <1>1
    <2>2. \A f \in Credentials : disk[f] <= 0
      BY <1>1 DEF Credentials, Files
    <2> QED
      BY <1>1, <2>1, <2>2, CarriedShape DEF Carried
  <1>4. disk'["ca"] = made' /\ "ca" \in Credentials
    BY <1>1, <1>2 DEF Credentials, Identity, Files
  <1>5. Carried' = {made'}
    <2>0. made' \in Nat /\ made' > 0 /\ made + 1 \in Int
      BY <1>1, <1>2
    <2>1. disk' \in [Files -> Int] /\ made' \in Nat /\ made' > 0
      BY <1>1, <1>2, <2>0
    <2>2. \A f \in Credentials : disk'[f] \in {0, made'} \/ disk'[f] < 0
      BY <1>1, <1>2 DEF Credentials, Identity, Files
    <2>3. ~ \A f \in Credentials : disk'[f] <= 0
      BY <1>4, <2>1
    <2> QED
      BY <2>1, <2>2, <2>3, CarriedShape DEF Carried
  <1> QED
    BY <1>2, <1>3, <1>5 DEF Identities!Provision

\* NodeSetup implements ClusterIdentity: a new cluster is begun on a node that carries
\* none and is never one the node has had, and between two clusters the last key and the
\* last data of the first are gone, for all configuration files and any number of images and faults.
THEOREM NodeCarriesOneCluster == Spec => OneClusterAtATime
  <1>1. Init => Identities!Init
    <2> SUFFICES ASSUME Init PROVE Carried = {} /\ made = 0
      BY DEF Identities!Init
    <2> QED
      BY DEF Init, Carried, Identity, Files, None
  <1>2. IdentityInv /\ [Next]_vars => [Identities!Next]_(Identities!vars)
    <2> SUFFICES ASSUME IdentityInv, [Next]_vars
                 PROVE  [Identities!Next]_(Identities!vars)
      OBVIOUS
    <2>1. CASE InitPKI
      BY <2>1, PKIProvisions DEF Identities!Next
    <2>2. CASE NoNewCluster
      <3>1. /\ Carried = {} \/ Carried = {made}
            /\ Carried' = {} \/ Carried' = {made'}
            /\ Unprovisioned <=> Carried = {}
            /\ Unprovisioned' <=> Carried' = {}
        <4>1. IdentityInv'
          BY IdentityStep
        <4>2. (Carried = {} \/ Carried = {made})' /\ (Unprovisioned <=> Carried = {})'
          BY <4>1, CarriedShape DEF IdentityInv, OwnerInv, TypeOK, None, Carried, Unprovisioned
        <4> QED
          BY <4>2, CarriedFacts
      <3>2. made' = made
        BY <2>2 DEF NoNewCluster
      <3>3. CASE Carried' = {}
        BY <3>2, <3>3 DEF Identities!Next, Identities!Wipe
      <3>4. CASE Carried' # {}
        <4>1. Carried = {made} /\ Carried' = {made}
          BY <2>2, <3>1, <3>2, <3>4 DEF NoNewCluster
        <4> QED
          BY <3>2, <4>1 DEF Identities!vars
      <3> QED
        BY <3>3, <3>4
    <2> QED
      BY <2>1, <2>2, IdentityStep
  <1> QED
    BY <1>1, <1>2, IdentityInvariant, PTL DEF Spec, OneClusterAtATime, Identities!Spec
=============================================================================
