--------------------------- MODULE NodeSetupProofs ---------------------------
(***************************************************************************)
(* Whatever the operator writes into config.yaml and however images,       *)
(* commands and boots follow each other, the kubelet runs static pods of   *)
(* the image's version only.                                               *)
(***************************************************************************)
EXTENDS NodeSetup, TLAPS

\* Load: a configuration that is not rejected has the image's version and picokube's
\* PKI directory, whatever the file says of either.
THEOREM LoadPins ==
    ASSUME NEW doc \in Documents, NEW v \in Nat
    PROVE  \/ Load(doc, v) = Rejected
           \/ Load(doc, v) = [kubernetesVersion |-> v, certificatesDir |-> PKIDir]
  BY StableAssumption
  DEF Load, Documents, Rejected, extractWrapper, pinKubernetesVersion, Validate,
      BytesToInitConfiguration, Unset, UnsetDir, DefaultCertificatesDir, PKIDir

\* What a command has loaded is a version.
LEMMA LoadedVersion ==
    ASSUME TypeOK
    PROVE  /\ Load(config, image).kubernetesVersion \in {Unset, image}
           /\ Load(config, image) # Rejected => Load(config, image).kubernetesVersion = image
           /\ image \in Nat \ {0} /\ Unset = 0
  <1>1. config \in Documents /\ image \in Nat \ {0}
    BY ConfigsAssumption, BoundsAssumption DEF TypeOK
  <1>2. QED
    BY <1>1, LoadPins DEF Rejected, Unset

\* Every step keeps the types.
LEMMA TypeStep == TypeOK /\ [Next]_vars => TypeOK'
  <1> SUFFICES ASSUME TypeOK, [Next]_vars PROVE TypeOK'
    OBVIOUS
  <1>u. CASE UNCHANGED vars
    BY <1>u DEF TypeOK, vars, host, files, both, counters
  <1>o. CASE Operator
    <2>1. CASE InitBegins
      BY <2>1 DEF InitBegins, host, files, both, counters, Idle, TypeOK, Files,
         Identity, InitPCs, ResetPCs, BootPCs, ManagedDirs
    <2>2. CASE InitRefused
      BY <2>2 DEF InitRefused, Return, host, files, counters, Idle, TypeOK, Files,
         Identity, InitPCs, ResetPCs, BootPCs, ManagedDirs, Unset, None
    <2>3. CASE InitLoadFails
      BY <2>3 DEF InitLoadFails, Return, host, files, counters, Idle, TypeOK, Files,
         Identity, InitPCs, ResetPCs, BootPCs, ManagedDirs, Unset, None
    <2>4. CASE InitLoads
      BY <2>4, LoadedVersion DEF InitLoads, host, files, counters, TypeOK, Files,
         Identity, InitPCs, ResetPCs, BootPCs, Idle, ManagedDirs
    <2>5. CASE InitPreflight
      BY <2>5 DEF InitPreflight, Step, host, both, counters, TypeOK, Files, Identity,
         InitPCs, ResetPCs, BootPCs, Idle, ManagedDirs
    <2>6. CASE InitPKI
      BY <2>6 DEF InitPKI, Put, host, both, TypeOK, Files, Identity, InitPCs, ResetPCs,
         BootPCs, Idle, ManagedDirs, None
    <2>7. CASE InitKubeconfig
      BY <2>7 DEF InitKubeconfig, Step, Put, host, both, counters, TypeOK, Files,
         Identity, InitPCs, ResetPCs, BootPCs, Idle, ManagedDirs, None
    <2>8. CASE InitKubeconfigFails
      BY <2>8 DEF InitKubeconfigFails, Return, host, files, counters, Idle, TypeOK,
         Files, Identity, InitPCs, ResetPCs, BootPCs, ManagedDirs, Unset, None
    <2>9. CASE InitEnsure
      BY <2>9 DEF InitEnsure, Step, Put, host, both, counters, TypeOK, Files, Identity,
         InitPCs, ResetPCs, BootPCs, Idle, ManagedDirs
    <2>10. CASE WriteSuperAdminKubeconfig
      BY <2>10 DEF WriteSuperAdminKubeconfig, Step, Put, host, both, counters, TypeOK,
         Files, Identity, InitPCs, ResetPCs, BootPCs, Idle, ManagedDirs, None
    <2>11. CASE InitStartKubelet
      BY <2>11 DEF InitStartKubelet, files, both, counters, TypeOK, Files, Identity,
         InitPCs, ResetPCs, BootPCs, Idle, ManagedDirs
    <2>12. CASE InitReadyz
      BY <2>12 DEF InitReadyz, Step, files, host, both, counters, TypeOK, Files,
         Identity, InitPCs, ResetPCs, BootPCs, Idle, ManagedDirs, None
    <2>13. CASE initAdminRBAC
      BY <2>13 DEF initAdminRBAC, Step, host, both, counters, TypeOK, Files, Identity,
         InitPCs, ResetPCs, BootPCs, Idle, ManagedDirs, None
    <2>14. CASE removeSuperAdminKubeconfig
      BY <2>14 DEF removeSuperAdminKubeconfig, Step, Put, host, both, counters, TypeOK,
         Files, Identity, InitPCs, ResetPCs, BootPCs, Idle, ManagedDirs, None
    <2>15. CASE InitWait
      BY <2>15 DEF InitWait, Step, files, host, both, counters, TypeOK, Files, Identity,
         InitPCs, ResetPCs, BootPCs, Idle, ManagedDirs
    <2>16. CASE InitTimesOut
      BY <2>16 DEF InitTimesOut, Return, host, files, counters, Idle, TypeOK, Files,
         Identity, InitPCs, ResetPCs, BootPCs, ManagedDirs, Unset, None
    <2>17. CASE InitFinalize
      BY <2>17 DEF InitFinalize, Step, AfterStat, files, host, both, counters, TypeOK,
         Files, Identity, InitPCs, ResetPCs, BootPCs, Idle, ManagedDirs, None
    <2>18. CASE InitLoadConf
      BY <2>18 DEF InitLoadConf, AfterLoad, LoadFromFile, host, files, counters, TypeOK,
         Files, Identity, InitPCs, ResetPCs, BootPCs, Idle, ManagedDirs, None
    <2>19. CASE InitRewrite
      BY <2>19 DEF InitRewrite, WriteToFile, host, counters, Put, PemReference, TypeOK,
         Files, Identity, InitPCs, ResetPCs, BootPCs, Idle, ManagedDirs, None
    <2>20. CASE writeFirstBootState
      BY <2>20 DEF writeFirstBootState, Return, Put, host, counters, Idle, TypeOK,
         Files, Identity, InitPCs, ResetPCs, BootPCs, ManagedDirs, Unset, None
    <2>21. CASE ResetBegins
      BY <2>21 DEF ResetBegins, host, files, both, counters, Idle, TypeOK, Files,
         Identity, InitPCs, ResetPCs, BootPCs, ManagedDirs
    <2>22. CASE ResetStopKubelet
      BY <2>22 DEF ResetStopKubelet, files, both, counters, TypeOK, Files, Identity,
         InitPCs, ResetPCs, BootPCs, Idle, ManagedDirs
    <2>23. CASE ResetUnmount
      BY <2>23 DEF ResetUnmount, Step, files, host, both, counters, TypeOK, Files,
         Identity, InitPCs, ResetPCs, BootPCs, Idle, ManagedDirs
    <2>24. CASE ResetRemove
      <3>1. overtaken' \in BOOLEAN /\ varDir' \in BOOLEAN
        <4>1. overtaken \in BOOLEAN /\ varDir \in BOOLEAN
          BY DEF TypeOK
        <4>2. QED
          BY <2>24, <4>1, Zenon DEF ResetRemove, RemoveFiles
      <3>2. UNCHANGED <<image, enabled, kubelet, config, seeded, svc, seen, made, faults, rebuilds>>
        BY <2>24 DEF ResetRemove, host, counters
      <3>3. disk' \in [Files -> Int]
        BY <2>24 DEF ResetRemove, RemoveFiles, TypeOK, None
      <3>4. /\ op' \in InitPCs \union ResetPCs \union {Idle} /\ dir' \in 1..Len(ManagedDirs)
            /\ todo' \in {"init", "reset", "fix", "enable", "done"}
            /\ cfg' \in [op : Nat, svc : Nat] /\ loaded' \in [op : Int, svc : Int]
        BY <2>24 DEF ResetRemove, Return, both, ManagedDirs, TypeOK, Unset, None
      <3>5. QED
        BY <3>1, <3>2, <3>3, <3>4 DEF TypeOK
    <2>25. CASE Enable
      BY <2>25 DEF Enable, files, both, counters, Idle, TypeOK, Files, Identity,
         InitPCs, ResetPCs, BootPCs, ManagedDirs
    <2>26. CASE FixConfig
      BY <2>26 DEF FixConfig, files, both, counters, Idle, TypeOK, Files, Identity,
         InitPCs, ResetPCs, BootPCs, ManagedDirs
    <2> QED  BY <1>o, <2>1, <2>2, <2>3, <2>4, <2>5, <2>6, <2>7, <2>8, <2>9, <2>10,
       <2>11, <2>12, <2>13, <2>14, <2>15, <2>16, <2>17, <2>18, <2>19, <2>20, <2>21,
       <2>22, <2>23, <2>24, <2>25, <2>26 DEF InitCommand, ResetCommand, Operator
  <1>s. CASE Service
    <2>1. CASE BootLoads
      BY <2>1, LoadedVersion DEF BootLoads, host, files, counters, TypeOK, Files,
         Identity, InitPCs, ResetPCs, BootPCs, Idle, ManagedDirs
    <2>2. CASE BootPreflight
      BY <2>2 DEF BootPreflight, BootStep, host, both, counters, TypeOK, Files,
         Identity, InitPCs, ResetPCs, BootPCs, Idle, ManagedDirs, None
    <2>3. CASE BootWorkspace
      BY <2>3 DEF BootWorkspace, BootStep, host, both, counters, TypeOK, Files,
         Identity, InitPCs, ResetPCs, BootPCs, Idle, ManagedDirs
    <2>4. CASE BootEnsure
      BY <2>4 DEF BootEnsure, Put, BootStep, host, both, counters, TypeOK, Files,
         Identity, InitPCs, ResetPCs, BootPCs, Idle, ManagedDirs
    <2>5. CASE BootRotate
      BY <2>5 DEF BootRotate, BootStep, files, host, both, counters, TypeOK, Files,
         Identity, InitPCs, ResetPCs, BootPCs, Idle, ManagedDirs, None
    <2>6. CASE BootFinalize
      BY <2>6 DEF BootFinalize, BootStep, AfterStat, files, host, both, counters,
         TypeOK, Files, Identity, InitPCs, ResetPCs, BootPCs, Idle, ManagedDirs, None
    <2>7. CASE BootLoadConf
      BY <2>7 DEF BootLoadConf, AfterLoad, LoadFromFile, host, files, counters, TypeOK,
         Files, Identity, InitPCs, ResetPCs, BootPCs, Idle, ManagedDirs, None
    <2>8. CASE BootRewrite
      BY <2>8 DEF BootRewrite, WriteToFile, host, counters, Put, PemReference, TypeOK,
         Files, Identity, InitPCs, ResetPCs, BootPCs, Idle, ManagedDirs, None
    <2>9. CASE BootStartKubelet
      BY <2>9 DEF BootStartKubelet, files, both, counters, TypeOK, Files, Identity,
         InitPCs, ResetPCs, BootPCs, Idle, ManagedDirs
    <2>10. CASE BootReadyz
      BY <2>10 DEF BootReadyz, BootStep, files, host, both, counters, TypeOK, Files,
         Identity, InitPCs, ResetPCs, BootPCs, Idle, ManagedDirs, None
    <2>11. CASE BootWait
      BY <2>11 DEF BootWait, host, files, both, counters, TypeOK, Files, Identity,
         InitPCs, ResetPCs, BootPCs, Idle, ManagedDirs
    <2>12. CASE BootRecords
      BY <2>12 DEF BootRecords, Put, BootStep, host, both, counters, TypeOK, Files,
         Identity, InitPCs, ResetPCs, BootPCs, Idle, ManagedDirs
    <2>13. CASE BootFails
      <3>1. varDir' \in BOOLEAN
        <4>1. varDir \in BOOLEAN
          BY DEF TypeOK
        <4>2. QED
          BY <2>13, <4>1, Zenon DEF BootFails
      <3>2. loaded' \in [op : Int, svc : Int]
        BY <2>13 DEF BootFails, TypeOK, None
      <3>3. QED
        BY <2>13, <3>1, <3>2 DEF BootFails, host, counters, TypeOK
    <2> QED  BY <1>s, <2>1, <2>2, <2>3, <2>4, <2>5, <2>6, <2>7, <2>8, <2>9, <2>10,
       <2>11, <2>12, <2>13 DEF Service
  <1>k. CASE Kubelet
    <2>1. CASE EtcdStarts
      BY <2>1 DEF EtcdStarts, Put, host, both, counters, TypeOK, Files, Identity,
         InitPCs, ResetPCs, BootPCs, Idle, ManagedDirs, None
    <2>2. CASE KubeletCSR
      BY <2>2 DEF KubeletCSR, Put, host, both, counters, TypeOK, Files, Identity,
         InitPCs, ResetPCs, BootPCs, Idle, ManagedDirs, None
    <2> QED  BY <1>k, <2>1, <2>2 DEF Kubelet
  <1>f. CASE Faults
    <2>1. CASE CommandStops
      <3>1. PICK gone \in SUBSET (IF op = "remove" THEN ManagedDirs[dir] ELSE {}) : RemoveFiles(gone)
        BY <2>1 DEF CommandStops
      <3>2. overtaken' \in BOOLEAN
        <4>1. overtaken \in BOOLEAN
          BY DEF TypeOK
        <4>2. QED
          BY <3>1, <4>1, Zenon DEF RemoveFiles
      <3>3. disk' \in [Files -> Int]
        BY <3>1 DEF RemoveFiles, TypeOK, None
      <3>4. /\ op' = Idle /\ dir' \in 1..Len(ManagedDirs)
            /\ todo' \in {"init", "reset", "fix", "enable", "done"}
            /\ cfg' \in [op : Nat, svc : Nat] /\ loaded' \in [op : Int, svc : Int]
        BY <2>1 DEF CommandStops, Return, ManagedDirs, TypeOK, Unset, None
      <3>5. /\ UNCHANGED <<image, enabled, kubelet, config, varDir, seeded, svc, seen, made, rebuilds>>
            /\ faults' \in 0..MaxFaults
        BY <2>1, BoundsAssumption DEF CommandStops, host, TypeOK
      <3>6. QED
        BY <3>2, <3>3, <3>4, <3>5 DEF TypeOK
    <2>2. CASE EditConfig
      BY <2>2, BoundsAssumption DEF EditConfig, files, both, TypeOK, Files, Identity,
         InitPCs, ResetPCs, BootPCs, Idle, ManagedDirs
    <2>3. CASE Rebuild
      BY <2>3, BoundsAssumption DEF Rebuild, host, files, both, Idle, TypeOK, Files,
         Identity, InitPCs, ResetPCs, BootPCs, ManagedDirs
    <2>4. CASE StartService
      BY <2>4, BoundsAssumption DEF StartService, host, files, both, TypeOK, Files,
         Identity, InitPCs, ResetPCs, BootPCs, Idle, ManagedDirs
    <2>5. CASE Reboot
      <3>1. /\ cfg' \in [op : Nat, svc : Nat] /\ loaded' \in [op : Int, svc : Int]
            /\ image' \in 1..MaxImage
        BY <2>5, BoundsAssumption DEF Reboot, TypeOK, Unset, None
      <3>2. faults' \in 0..MaxFaults /\ dir' \in 1..Len(ManagedDirs) /\ seen' \in Int
        BY <2>5, BoundsAssumption DEF Reboot, TypeOK, ManagedDirs, None
      <3>3. todo' \in {"init", "reset", "fix", "enable", "done"}
        BY <2>5 DEF Reboot, TypeOK
      <3>4. /\ UNCHANGED <<enabled, config, disk, varDir, seeded, made, rebuilds, overtaken>>
            /\ op' = Idle
        BY <2>5 DEF Reboot, files
      <3>5. svc' \in {"load", "inactive"} /\ kubelet' = FALSE
        BY <2>5 DEF Reboot
      <3>6. QED
        BY <3>1, <3>2, <3>3, <3>4, <3>5 DEF TypeOK, BootPCs
    <2> QED  BY <1>f, <2>1, <2>2, <2>3, <2>4, <2>5 DEF Faults
  <1> QED  BY <1>u, <1>o, <1>s, <1>k, <1>f DEF Next

\* the version of the manifests on disk
Rendered == disk["manifest"] \in {None, image}

\* Who has loaded a configuration has the image's version, and who is about to start
\* the kubelet has rendered the manifests since.
VersionInv ==
    /\ TypeOK
    /\ cfg.op \in {Unset, image} /\ cfg.svc \in {Unset, image}
    /\ op \in {"preflight", "ca", "admin.conf", "kubelet.conf", "manifest"} => cfg.op = image
    /\ op \in {"kubelet", "super-admin.conf", "start"} => Rendered
    /\ svc \in {"preflight", "workspace", "manifest"} => cfg.svc = image
    /\ svc \in {"kubelet", "rotate", "finalize", "loadConf", "rewrite", "start"} => Rendered
    /\ kubelet => Rendered

\* Every step keeps the versions.
LEMMA VersionStep == VersionInv /\ [Next]_vars => VersionInv'
  <1> SUFFICES ASSUME VersionInv, [Next]_vars PROVE VersionInv'
    OBVIOUS
  <1>t. TypeOK /\ TypeOK'
    BY TypeStep DEF VersionInv
  <1>u. CASE UNCHANGED vars
    BY <1>u, <1>t DEF VersionInv, Rendered, vars, host, files, both, counters
  <1>o. CASE Operator
    <2>1. CASE InitBegins
      BY <2>1, <1>t DEF InitBegins, host, files, both, counters, Idle, VersionInv,
         Rendered, TypeOK, Files, Identity, None
    <2>2. CASE InitRefused
      BY <2>2, <1>t DEF InitRefused, Return, host, files, counters, Idle, VersionInv,
         Rendered, TypeOK, Files, Identity, None, Unset
    <2>3. CASE InitLoadFails
      BY <2>3, <1>t DEF InitLoadFails, Return, host, files, counters, Idle, VersionInv,
         Rendered, TypeOK, Files, Identity, None, Unset
    <2>4. CASE InitLoads
      BY <2>4, <1>t, LoadedVersion DEF InitLoads, host, files, counters, VersionInv,
         Rendered, TypeOK, Files, Identity, None, Idle
    <2>5. CASE InitPreflight
      BY <2>5, <1>t DEF InitPreflight, Step, host, both, counters, VersionInv, Rendered,
         TypeOK, Files, Identity, None, Idle
    <2>6. CASE InitPKI
      BY <2>6, <1>t DEF InitPKI, Put, host, both, VersionInv, Rendered, TypeOK, Files,
         Identity, None, Idle
    <2>7. CASE InitKubeconfig
      BY <2>7, <1>t DEF InitKubeconfig, Step, Put, host, both, counters, VersionInv,
         Rendered, TypeOK, Files, Identity, None, Idle
    <2>8. CASE InitKubeconfigFails
      BY <2>8, <1>t DEF InitKubeconfigFails, Return, host, files, counters, Idle,
         VersionInv, Rendered, TypeOK, Files, Identity, None, Unset
    <2>9. CASE InitEnsure
      BY <2>9, <1>t DEF InitEnsure, Step, Put, host, both, counters, VersionInv,
         Rendered, TypeOK, Files, Identity, None, Idle
    <2>10. CASE WriteSuperAdminKubeconfig
      BY <2>10, <1>t DEF WriteSuperAdminKubeconfig, Step, Put, host, both, counters,
         VersionInv, Rendered, TypeOK, Files, Identity, None, Idle
    <2>11. CASE InitStartKubelet
      BY <2>11, <1>t DEF InitStartKubelet, files, both, counters, VersionInv, Rendered,
         TypeOK, Files, Identity, None, Idle
    <2>12. CASE InitReadyz
      BY <2>12, <1>t DEF InitReadyz, Step, files, host, both, counters, VersionInv,
         Rendered, TypeOK, Files, Identity, None, Idle
    <2>13. CASE initAdminRBAC
      BY <2>13, <1>t DEF initAdminRBAC, Step, host, both, counters, VersionInv,
         Rendered, TypeOK, Files, Identity, None, Idle
    <2>14. CASE removeSuperAdminKubeconfig
      BY <2>14, <1>t DEF removeSuperAdminKubeconfig, Step, Put, host, both, counters,
         VersionInv, Rendered, TypeOK, Files, Identity, None, Idle
    <2>15. CASE InitWait
      BY <2>15, <1>t DEF InitWait, Step, files, host, both, counters, VersionInv,
         Rendered, TypeOK, Files, Identity, None, Idle
    <2>16. CASE InitTimesOut
      BY <2>16, <1>t DEF InitTimesOut, Return, host, files, counters, Idle, VersionInv,
         Rendered, TypeOK, Files, Identity, None, Unset
    <2>17. CASE InitFinalize
      BY <2>17, <1>t DEF InitFinalize, Step, AfterStat, files, host, both, counters,
         VersionInv, Rendered, TypeOK, Files, Identity, None, Idle
    <2>18. CASE InitLoadConf
      BY <2>18, <1>t DEF InitLoadConf, AfterLoad, LoadFromFile, host, files, counters,
         VersionInv, Rendered, TypeOK, Files, Identity, None, Idle
    <2>19. CASE InitRewrite
      BY <2>19, <1>t DEF InitRewrite, WriteToFile, host, counters, Put, PemReference,
         VersionInv, Rendered, TypeOK, Files, Identity, None, Idle
    <2>20. CASE writeFirstBootState
      BY <2>20, <1>t DEF writeFirstBootState, Return, Put, host, counters, Idle,
         VersionInv, Rendered, TypeOK, Files, Identity, None, Unset
    <2>21. CASE ResetBegins
      BY <2>21, <1>t DEF ResetBegins, host, files, both, counters, Idle, VersionInv,
         Rendered, TypeOK, Files, Identity, None
    <2>22. CASE ResetStopKubelet
      <3>1. kubelet' => kubelet
        BY <2>22, Zenon DEF ResetStopKubelet
      <3>2. UNCHANGED <<image, disk, svc, cfg>> /\ op' = "unmount"
        BY <2>22 DEF ResetStopKubelet, files, both
      <3>3. QED
        BY <1>t, <3>1, <3>2 DEF VersionInv, Rendered
    <2>23. CASE ResetUnmount
      BY <2>23, <1>t DEF ResetUnmount, Step, files, host, both, counters, VersionInv,
         Rendered, TypeOK, Files, Identity, None, Idle
    <2>24. CASE ResetRemove
      BY <2>24, <1>t DEF ResetRemove, Return, RemoveFiles, host, both, counters,
         PicoKubeVarDir, ManagedDirs, Idle, KubernetesDir, EtcdDataDir, KubeletDir,
         VersionInv, Rendered, TypeOK, Files, Identity, None, Unset
    <2>25. CASE Enable
      BY <2>25, <1>t DEF Enable, files, both, counters, Idle, VersionInv, Rendered,
         TypeOK, Files, Identity, None
    <2>26. CASE FixConfig
      BY <2>26, <1>t DEF FixConfig, files, both, counters, Idle, VersionInv, Rendered,
         TypeOK, Files, Identity, None
    <2> QED  BY <1>o, <2>1, <2>2, <2>3, <2>4, <2>5, <2>6, <2>7, <2>8, <2>9, <2>10,
       <2>11, <2>12, <2>13, <2>14, <2>15, <2>16, <2>17, <2>18, <2>19, <2>20, <2>21,
       <2>22, <2>23, <2>24, <2>25, <2>26 DEF InitCommand, ResetCommand, Operator
  <1>s. CASE Service
    <2>1. CASE BootLoads
      BY <2>1, <1>t, LoadedVersion DEF BootLoads, host, files, counters, VersionInv,
         Rendered, TypeOK, Files, Identity, None, Idle
    <2>2. CASE BootPreflight
      BY <2>2, <1>t DEF BootPreflight, BootStep, host, both, counters, VersionInv,
         Rendered, TypeOK, Files, Identity, None, Idle
    <2>3. CASE BootWorkspace
      BY <2>3, <1>t DEF BootWorkspace, BootStep, host, both, counters, VersionInv,
         Rendered, TypeOK, Files, Identity, None, Idle
    <2>4. CASE BootEnsure
      BY <2>4, <1>t DEF BootEnsure, Put, BootStep, host, both, counters, VersionInv,
         Rendered, TypeOK, Files, Identity, None, Idle
    <2>5. CASE BootRotate
      BY <2>5, <1>t DEF BootRotate, BootStep, files, host, both, counters, VersionInv,
         Rendered, TypeOK, Files, Identity, None, Idle
    <2>6. CASE BootFinalize
      BY <2>6, <1>t DEF BootFinalize, BootStep, AfterStat, files, host, both, counters,
         VersionInv, Rendered, TypeOK, Files, Identity, None, Idle
    <2>7. CASE BootLoadConf
      BY <2>7, <1>t DEF BootLoadConf, AfterLoad, LoadFromFile, host, files, counters,
         VersionInv, Rendered, TypeOK, Files, Identity, None, Idle
    <2>8. CASE BootRewrite
      BY <2>8, <1>t DEF BootRewrite, WriteToFile, host, counters, Put, PemReference,
         VersionInv, Rendered, TypeOK, Files, Identity, None, Idle
    <2>9. CASE BootStartKubelet
      BY <2>9, <1>t DEF BootStartKubelet, files, both, counters, VersionInv, Rendered,
         TypeOK, Files, Identity, None, Idle
    <2>10. CASE BootReadyz
      BY <2>10, <1>t DEF BootReadyz, BootStep, files, host, both, counters, VersionInv,
         Rendered, TypeOK, Files, Identity, None, Idle
    <2>11. CASE BootWait
      BY <2>11, <1>t DEF BootWait, host, files, both, counters, VersionInv, Rendered,
         TypeOK, Files, Identity, None, Idle
    <2>12. CASE BootRecords
      BY <2>12, <1>t DEF BootRecords, Put, BootStep, host, both, counters, VersionInv,
         Rendered, TypeOK, Files, Identity, None, Idle
    <2>13. CASE BootFails
      BY <2>13, <1>t DEF BootFails, host, counters, VersionInv, Rendered, TypeOK, Files,
         Identity, None, Idle
    <2> QED  BY <1>s, <2>1, <2>2, <2>3, <2>4, <2>5, <2>6, <2>7, <2>8, <2>9, <2>10,
       <2>11, <2>12, <2>13 DEF Service
  <1>k. CASE Kubelet
    <2>1. CASE EtcdStarts
      BY <2>1, <1>t DEF EtcdStarts, Put, host, both, counters, VersionInv, Rendered,
         TypeOK, Files, Identity, None, Idle
    <2>2. CASE KubeletCSR
      BY <2>2, <1>t DEF KubeletCSR, Put, host, both, counters, VersionInv, Rendered,
         TypeOK, Files, Identity, None, Idle
    <2> QED  BY <1>k, <2>1, <2>2 DEF Kubelet
  <1>f. CASE Faults
    <2>1. CASE CommandStops
      BY <2>1, <1>t DEF CommandStops, Return, RemoveFiles, host, ManagedDirs, Idle,
         KubernetesDir, EtcdDataDir, KubeletDir, PicoKubeVarDir, VersionInv, Rendered,
         TypeOK, Files, Identity, None, Unset
    <2>2. CASE EditConfig
      BY <2>2, <1>t DEF EditConfig, files, both, VersionInv, Rendered, TypeOK, Files,
         Identity, None, Idle
    <2>3. CASE Rebuild
      BY <2>3, <1>t DEF Rebuild, host, files, both, Idle, VersionInv, Rendered, TypeOK,
         Files, Identity, None
    <2>4. CASE StartService
      BY <2>4, <1>t DEF StartService, host, files, both, VersionInv, Rendered, TypeOK,
         Files, Identity, None, Idle
    <2>5. CASE Reboot
      BY <2>5, <1>t DEF Reboot, files, Idle, VersionInv, Rendered, TypeOK, Files,
         Identity, None, Unset
    <2> QED  BY <1>f, <2>1, <2>2, <2>3, <2>4, <2>5 DEF Faults
  <1> QED  BY <1>u, <1>o, <1>s, <1>k, <1>f DEF Next

\* The node starts with nothing rendered, loaded or running.
LEMMA VersionInit == Init => VersionInv
  <1> SUFFICES ASSUME Init PROVE VersionInv
    OBVIOUS
  <1>1. TypeOK
    <2>1. {enabled, kubelet, varDir, seeded, overtaken} \subseteq BOOLEAN
      BY DEF Init
    <2>2. /\ disk \in [Files -> Int] /\ cfg \in [op : Nat, svc : Nat]
          /\ loaded \in [op : Int, svc : Int]
      BY DEF Init, None, Unset
    <2>3. image \in 1..MaxImage /\ dir \in 1..Len(ManagedDirs)
      BY BoundsAssumption DEF Init, ManagedDirs
    <2>4. QED
      BY <2>1, <2>2, <2>3, BoundsAssumption
      DEF Init, TypeOK, None, Idle, InitPCs, ResetPCs, BootPCs
  <1>2. QED
    BY <1>1 DEF Init, VersionInv, Rendered, Files, Identity, None, Idle, Unset

\* Types: for all configuration files, any number of images, faults and rebuilds.
THEOREM TypeCorrect == Spec => []TypeOK
  <1>1. Init => TypeOK
    BY VersionInit DEF VersionInv
  <1>2. QED
    BY <1>1, TypeStep, PTL DEF Spec

\* The kubelet only ever runs static pods of the image's version (validate.go: it "is
\* pinned by the bootc image"), for all configuration files and any number of images.
THEOREM PodsFollowImage == Spec => []KubeletRunsImageVersion
  <1>1. VersionInv => KubeletRunsImageVersion
    BY DEF VersionInv, Rendered, KubeletRunsImageVersion
  <1>2. QED
    BY <1>1, VersionInit, VersionStep, PTL DEF Spec
=============================================================================
