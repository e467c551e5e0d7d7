---------------------- MODULE RestoreDurabilityProofs ----------------------
(***************************************************************************)
(* The restore under power loss, for every number of power losses, kills   *)
(* and failing calls: what a power loss may leave on disk at any moment.   *)
(***************************************************************************)
EXTENDS RestoreDurability, TLAPS

(* What is put in place was copied in full into a staging sibling that was cleared,   *)
(* and only what the backup lacks is removed.                                         *)
StageInv ==
    /\ pc = "wipe" => Part \notin covered
    /\ pc \in {"clear", "copy", "copying", "swap", "sync", "drop", "rename"} => Part \in covered
    /\ pc = "copy" => Stage(Part) = "absent"
    /\ pc = "copying" => Stage(Part) = "part"
    /\ pc \in {"swap", "rename"} => Stage(Part) = "new"

(* As long as the marker is there, no power loss can leave a disk without it. *)
MarkerInv ==
    /\ cur["var"].marker => \A v \in crash["var"] : v.marker
    /\ pc \in InRestore => cur["var"].marker

(* The parts that have been taken are the backup's. *)
ProgressInv ==
    pc \in InRestore =>
        /\ \A i \in 1..(idx - 1) : Live(Parts[i]) = Restored(Parts[i])
        /\ pc \in {"sync", "drop"} => Live(Part) = Restored(Part)
        /\ pc = "rename" => Part \notin Trees
        /\ pc \in {"record", "unmark"} => idx = Len(Parts) + 1
        /\ pc = "unmark" => cur["var"].record

(* Once the restore has left /etc behind, a power loss can no longer undo what it did there; *)
(* /var keeps its own order, so there the fsyncs are not needed.                             *)
EtcInv ==
    /\ "kubernetes" \in covered
    /\ pc \in InRestore /\ (idx > 2 \/ (idx = 2 /\ pc = "drop")) =>
         \A e \in crash["etc"] : e.live["kubernetes"] = "new"

RestoreInv == ~failed => MarkerInv /\ ProgressInv /\ EtcInv /\ UnmarkedIsRestored

(* A call has changed the part p alone, whose tree is now l and whose sibling is s. *)
PartWritten(p, l, s) ==
    /\ cur' \in [FileSystems -> Image] /\ crash' \in [FileSystems -> SUBSET Image]
    /\ \A f \in FileSystems : /\ crash'[f] = crash[f] \union {cur'[f]}
                              /\ cur'[f].marker = cur[f].marker
                              /\ cur'[f].record = cur[f].record
    /\ cur'[Home(p)].live[p] = l /\ cur'[Home(p)].stage[p] = s
    /\ \A q \in PartSet \ {p} : /\ cur'[Home(q)].live[q] = cur[Home(q)].live[q]
                                /\ cur'[Home(q)].stage[q] = cur[Home(q)].stage[q]
-----------------------------------------------------------------------------
(* Facts about the data and the calls *)

LEMMA PartsFacts ==
    /\ Len(Parts) = 5 /\ Parts[2] = "kubernetes"
    /\ \A i \in 1..5 : Parts[i] \in PartSet
    /\ \A p \in PartSet : \E i \in 1..5 : Parts[i] = p
    /\ \A i, j \in 1..5 : Parts[i] = Parts[j] => i = j
BY DEF Parts, PartSet

LEMMA HomeFacts ==
    /\ \A p \in PartSet : Home(p) \in FileSystems
    /\ Home("kubernetes") = "etc" /\ "kubernetes" \in PartSet
    /\ \A p \in PartSet : Home(p) = "etc" => p = "kubernetes"
    /\ FileSystems = {"var", "etc"} /\ "var" # "etc"
BY DEF Home, FileSystems, PartSet

\* Show changes one file system, and a power loss may leave the new image.
LEMMA ShowFacts ==
    ASSUME TypeOK, NEW f \in FileSystems, NEW img \in Image, Show(f, img)
    PROVE  /\ cur' \in [FileSystems -> Image] /\ crash' \in [FileSystems -> SUBSET Image]
           /\ cur'[f] = img
           /\ \A g \in FileSystems \ {f} : cur'[g] = cur[g]
           /\ \A g \in FileSystems : crash'[g] = crash[g] \union {cur'[g]}
BY DEF TypeOK, Show

LEMMA WritePart ==
    ASSUME TypeOK, NEW p \in PartSet, NEW l \in Contents, NEW s \in Contents,
           Show(Home(p), [cur[Home(p)] EXCEPT !.live[p] = l, !.stage[p] = s])
    PROVE  PartWritten(p, l, s)
<1> DEFINE f == Home(p)
           img == [cur[f] EXCEPT !.live[p] = l, !.stage[p] = s]
<1>1. f \in FileSystems /\ cur[f] \in Image
  BY HomeFacts DEF TypeOK
<1>2. /\ img \in Image
      /\ img.live[p] = l /\ img.stage[p] = s
      /\ img.marker = cur[f].marker /\ img.record = cur[f].record
      /\ \A q \in PartSet \ {p} : img.live[q] = cur[f].live[q] /\ img.stage[q] = cur[f].stage[q]
  BY <1>1 DEF Image
<1> HIDE DEF img
<1>3. Show(f, img)
  BY DEF img
<1>4. /\ cur' \in [FileSystems -> Image] /\ crash' \in [FileSystems -> SUBSET Image]
      /\ cur'[f] = img
      /\ \A g \in FileSystems \ {f} : cur'[g] = cur[g]
      /\ \A g \in FileSystems : crash'[g] = crash[g] \union {cur'[g]}
  BY <1>1, <1>2, <1>3, ShowFacts
<1> HIDE DEF f
<1>5. \A q \in PartSet \ {p} : /\ cur'[Home(q)].live[q] = cur[Home(q)].live[q]
                               /\ cur'[Home(q)].stage[q] = cur[Home(q)].stage[q]
  BY <1>2, <1>4, HomeFacts
<1>6. \A g \in FileSystems : cur'[g].marker = cur[g].marker /\ cur'[g].record = cur[g].record
  BY <1>2, <1>4
<1> QED
  BY <1>2, <1>4, <1>5, <1>6 DEF f, PartWritten

LEMMA ContentsOf ==
    ASSUME TypeOK, NEW p \in PartSet
    PROVE  Live(p) \in Contents /\ Stage(p) \in Contents
<1>1. cur[Home(p)] \in Image
  BY HomeFacts DEF TypeOK
<1> QED
  BY <1>1 DEF Image, Live, Stage

LEMMA SetLiveWrites ==
    ASSUME TypeOK, NEW p \in PartSet, NEW c \in Contents, SetLive(p, c)
    PROVE  PartWritten(p, c, Stage(p))
<1>1. cur[Home(p)] \in Image
  BY HomeFacts DEF TypeOK
<1>2. [cur[Home(p)] EXCEPT !.live[p] = c] = [cur[Home(p)] EXCEPT !.live[p] = c, !.stage[p] = Stage(p)]
  BY <1>1 DEF Image, Stage
<1> QED
  BY <1>2, ContentsOf, WritePart DEF SetLive

LEMMA SetStageWrites ==
    ASSUME TypeOK, NEW p \in PartSet, NEW c \in Contents, SetStage(p, c)
    PROVE  PartWritten(p, Live(p), c)
<1>1. cur[Home(p)] \in Image
  BY HomeFacts DEF TypeOK
<1>2. [cur[Home(p)] EXCEPT !.stage[p] = c] = [cur[Home(p)] EXCEPT !.live[p] = Live(p), !.stage[p] = c]
  BY <1>1 DEF Image, Live
<1> QED
  BY <1>2, ContentsOf, WritePart DEF SetStage

\* last-boot.json and the marker are written to /var and change no part.
LEMMA WriteVar ==
    ASSUME TypeOK, NEW m \in BOOLEAN, NEW r \in BOOLEAN,
           Show("var", [cur["var"] EXCEPT !.marker = m, !.record = r])
    PROVE  /\ cur' \in [FileSystems -> Image] /\ crash' \in [FileSystems -> SUBSET Image]
           /\ \A f \in FileSystems : crash'[f] = crash[f] \union {cur'[f]}
           /\ crash'["etc"] = crash["etc"]
           /\ cur'["var"].marker = m /\ cur'["var"].record = r
           /\ \A q \in PartSet : /\ cur'[Home(q)].live[q] = cur[Home(q)].live[q]
                                 /\ cur'[Home(q)].stage[q] = cur[Home(q)].stage[q]
<1> DEFINE img == [cur["var"] EXCEPT !.marker = m, !.record = r]
<1>1. cur["var"] \in Image
  BY HomeFacts DEF TypeOK
<1>2. /\ img \in Image /\ img.live = cur["var"].live /\ img.stage = cur["var"].stage
      /\ img.marker = m /\ img.record = r
  BY <1>1 DEF Image
<1> HIDE DEF img
<1>3. Show("var", img)
  BY DEF img
<1>4. /\ cur' \in [FileSystems -> Image] /\ crash' \in [FileSystems -> SUBSET Image]
      /\ cur'["var"] = img
      /\ \A g \in FileSystems \ {"var"} : cur'[g] = cur[g]
      /\ \A g \in FileSystems : crash'[g] = crash[g] \union {cur'[g]}
  BY <1>2, <1>3, ShowFacts, HomeFacts
<1>5. crash'["etc"] = crash["etc"]
  <2>1. cur'["etc"] \in crash["etc"] /\ crash'["etc"] = crash["etc"] \union {cur'["etc"]}
    BY <1>4, HomeFacts DEF TypeOK
  <2> QED
    BY <2>1
<1> QED
  BY <1>2, <1>4, <1>5, HomeFacts

LEMMA RecordWrites ==
    ASSUME TypeOK, NEW r \in BOOLEAN, Show("var", [cur["var"] EXCEPT !.record = r])
    PROVE  Show("var", [cur["var"] EXCEPT !.marker = cur["var"].marker, !.record = r])
           /\ cur["var"].marker \in BOOLEAN
<1>1. cur["var"] \in Image
  BY HomeFacts DEF TypeOK
<1>2. [cur["var"] EXCEPT !.record = r] = [cur["var"] EXCEPT !.marker = cur["var"].marker, !.record = r]
  BY <1>1 DEF Image
<1> QED
  BY <1>1, <1>2 DEF Image

LEMMA MarkerWrites ==
    ASSUME TypeOK, NEW m \in BOOLEAN, Show("var", [cur["var"] EXCEPT !.marker = m])
    PROVE  Show("var", [cur["var"] EXCEPT !.marker = m, !.record = cur["var"].record])
           /\ cur["var"].record \in BOOLEAN
<1>1. cur["var"] \in Image
  BY HomeFacts DEF TypeOK
<1>2. [cur["var"] EXCEPT !.marker = m] = [cur["var"] EXCEPT !.marker = m, !.record = cur["var"].record]
  BY <1>1 DEF Image
<1> QED
  BY <1>1, <1>2 DEF Image

\* What each action of the restore that writes to a part leaves of it.
LEMMA ActionWrites ==
    ASSUME TypeOK
    PROVE  /\ RemoveSome => \/ pc = "wipe" /\ PartWritten(Part, "part", Stage(Part))
                            \/ pc \in {"clear", "drop"} /\ PartWritten(Part, Live(Part), "part")
           /\ WipePart => PartWritten(Part, "absent", Stage(Part))
           /\ ClearStage \/ DropDisplaced => PartWritten(Part, Live(Part), "absent")
           /\ CopyBegins => PartWritten(Part, Live(Part), IF Stage(Part) = "absent" THEN "part" ELSE "mixed")
           /\ CopyEnds => PartWritten(Part, Live(Part), IF Stage(Part) = "part" THEN "new" ELSE Stage(Part))
           /\ SwapDir => PartWritten(Part, Stage(Part), Live(Part))
           /\ RenameFile => PartWritten(Part, Stage(Part), "absent")
<1>0. pc \in {"wipe", "clear", "copy", "copying", "swap", "sync", "drop", "rename"} =>
        Part \in PartSet /\ Live(Part) \in Contents /\ Stage(Part) \in Contents
  BY PartsFacts, ContentsOf DEF TypeOK, Part
<1>1. {"absent", "part", "mixed", "new"} \subseteq Contents
  BY DEF Contents
<1>2. RemoveSome => \/ pc = "wipe" /\ PartWritten(Part, "part", Stage(Part))
                    \/ pc \in {"clear", "drop"} /\ PartWritten(Part, Live(Part), "part")
  BY <1>0, <1>1, SetLiveWrites, SetStageWrites DEF RemoveSome
<1>3. WipePart => PartWritten(Part, "absent", Stage(Part))
  BY <1>0, <1>1, SetLiveWrites DEF WipePart
<1>4. ClearStage \/ DropDisplaced => PartWritten(Part, Live(Part), "absent")
  BY <1>0, <1>1, SetStageWrites DEF ClearStage, DropDisplaced
<1>5. CopyBegins => PartWritten(Part, Live(Part), IF Stage(Part) = "absent" THEN "part" ELSE "mixed")
  BY <1>0, <1>1, SetStageWrites DEF CopyBegins
<1>6. CopyEnds => PartWritten(Part, Live(Part), IF Stage(Part) = "part" THEN "new" ELSE Stage(Part))
  BY <1>0, <1>1, SetStageWrites DEF CopyEnds
<1>7. SwapDir => PartWritten(Part, Stage(Part), Live(Part))
  BY <1>0, WritePart DEF SwapDir
<1>8. RenameFile => PartWritten(Part, Stage(Part), "absent")
  BY <1>0, <1>1, WritePart DEF RenameFile
<1> QED
  BY <1>2, <1>3, <1>4, <1>5, <1>6, <1>7, <1>8

\* A failing call changes the marker and a staging sibling, and no part.
LEMMA FailWrites ==
    ASSUME TypeOK, RestoreFails
    PROVE  /\ cur' \in [FileSystems -> Image] /\ crash' \in [FileSystems -> SUBSET Image]
           /\ \A f \in FileSystems : crash'[f] = crash[f] \union {cur'[f]}
           /\ \A f \in FileSystems : cur'[f].live = cur[f].live
<1>1. PICK c \in IF pc \in {"copy", "copying", "swap", "sync"} THEN {"absent", "part", Stage(Part)} ELSE {"keep"},
           m \in BOOLEAN :
        cur' = [[f \in FileSystems |->
                   IF c = "keep" \/ Home(Part) # f THEN cur[f]
                   ELSE [cur[f] EXCEPT !.stage[Part] = c]] EXCEPT !["var"].marker = m]
  BY DEF RestoreFails
<1>2. c = "keep" \/ (c \in Contents /\ Part \in PartSet)
  <2>1. pc \in {"copy", "copying", "swap", "sync"} => Part \in PartSet /\ Stage(Part) \in Contents
    BY PartsFacts, ContentsOf DEF TypeOK, Part
  <2> QED
    BY <1>1, <2>1 DEF Contents
<1> DEFINE dropped == [f \in FileSystems |->
                         IF c = "keep" \/ Home(Part) # f THEN cur[f]
                         ELSE [cur[f] EXCEPT !.stage[Part] = c]]
<1>3. \A f \in FileSystems : dropped[f] \in Image /\ dropped[f].live = cur[f].live
  <2> SUFFICES ASSUME NEW f \in FileSystems PROVE dropped[f] \in Image /\ dropped[f].live = cur[f].live
    OBVIOUS
  <2>1. cur[f] \in Image
    BY DEF TypeOK
  <2> QED
    BY <1>2, <2>1 DEF Image
<1>4. dropped = [f \in FileSystems |-> dropped[f]]
  OBVIOUS
<1>5. cur' = [dropped EXCEPT !["var"].marker = m]
  BY <1>1
<1> HIDE DEF dropped
<1>6. \A f \in FileSystems :
        cur'[f] = IF f = "var" THEN [dropped[f] EXCEPT !.marker = m] ELSE dropped[f]
  BY <1>4, <1>5
<1>7. \A f \in FileSystems : cur'[f] \in Image /\ cur'[f].live = cur[f].live
  BY <1>3, <1>6 DEF Image
<1>8. cur' = [f \in FileSystems |-> cur'[f]]
  BY <1>4, <1>5
<1>9. crash' = [f \in FileSystems |-> crash[f] \union {cur'[f]}]
  BY DEF RestoreFails
<1> QED
  BY <1>7, <1>8, <1>9 DEF TypeOK
-----------------------------------------------------------------------------
(* Type correctness *)

\* Every step keeps the types.
LEMMA TypeStep ==
    ASSUME TypeOK, [Next]_vars
    PROVE  TypeOK'
<1> USE DEF env, Quiet
<1>1. CASE UNCHANGED vars
  BY <1>1 DEF vars, TypeOK
<1>2. CASE RestoreRequested
  BY <1>2, PartsFacts DEF RestoreRequested, TypeOK, PCs
<1>3. CASE BeginPart
  BY <1>3, PartsFacts DEF BeginPart, TypeOK, PCs
<1>4. CASE RemoveSome
  BY <1>4, ActionWrites DEF RemoveSome, PartWritten, TypeOK
<1>5. CASE WipePart
  BY <1>5, ActionWrites, PartsFacts DEF WipePart, NextPart, PartWritten, TypeOK, PCs
<1>6. CASE ClearStage
  BY <1>6, ActionWrites DEF ClearStage, PartWritten, TypeOK, PCs
<1>7. CASE CopyBegins
  BY <1>7, ActionWrites DEF CopyBegins, PartWritten, TypeOK, PCs
<1>8. CASE CopyEnds
  BY <1>8, ActionWrites DEF CopyEnds, PartWritten, TypeOK, PCs
<1>9. CASE SwapDir
  BY <1>9, ActionWrites DEF SwapDir, PartWritten, TypeOK, PCs
<1>10. CASE SyncParent
  <2>1. Home(Part) \in FileSystems
    BY <1>10, HomeFacts, PartsFacts DEF SyncParent, TypeOK, Part
  <2> QED
    BY <1>10, <2>1 DEF SyncParent, TypeOK, PCs
<1>11. CASE DropDisplaced
  BY <1>11, ActionWrites, PartsFacts DEF DropDisplaced, NextPart, PartWritten, TypeOK, PCs
<1>12. CASE RenameFile
  BY <1>12, ActionWrites, PartsFacts DEF RenameFile, NextPart, PartWritten, TypeOK, PCs
<1>13. CASE WriteLastBoot
  BY <1>13, RecordWrites, WriteVar DEF WriteLastBoot, TypeOK, PCs
<1>14. CASE ClearRestoreMarker
  <2>1. /\ cur' \in [FileSystems -> Image] /\ crash' \in [FileSystems -> SUBSET Image]
        /\ \A f \in FileSystems : cur'[f] \in crash'[f]
    BY <1>14, MarkerWrites, WriteVar DEF ClearRestoreMarker
  <2> QED
    BY <1>14, <2>1, PartsFacts DEF ClearRestoreMarker, TypeOK, PCs
<1>15. CASE RestoreFails
  <2>1. /\ cur' \in [FileSystems -> Image] /\ crash' \in [FileSystems -> SUBSET Image]
        /\ \A f \in FileSystems : cur'[f] \in crash'[f]
    BY <1>15, FailWrites
  <2>2. /\ errors < MaxErrors /\ errors' = errors + 1 /\ pc' = "failed" /\ idx' = 1
        /\ UNCHANGED <<env, crashes>>
    BY <1>15 DEF RestoreFails
  <2>3. failed' \in BOOLEAN
    BY <1>15 DEF RestoreFails
  <2> QED
    BY <2>1, <2>2, <2>3, PartsFacts, CrashAssumption DEF TypeOK, PCs
<1>16. CASE ClearFails
  BY <1>16, PartsFacts, CrashAssumption DEF ClearFails, TypeOK, PCs
<1>17. CASE Kill
  BY <1>17, PartsFacts, CrashAssumption DEF Kill, TypeOK, PCs
<1>18. CASE PowerLoss
  <2>1. PICK v \in crash["var"], e \in crash["etc"] :
          /\ cur' = [f \in FileSystems |-> IF f = "var" THEN v ELSE e]
          /\ crash' = [f \in FileSystems |-> {cur'[f]}]
    BY <1>18 DEF PowerLoss
  <2>2. v \in Image /\ e \in Image
    BY HomeFacts DEF TypeOK
  <2>3. /\ cur' \in [FileSystems -> Image] /\ crash' \in [FileSystems -> SUBSET Image]
        /\ \A f \in FileSystems : cur'[f] \in crash'[f]
    BY <2>1, <2>2
  <2> QED
    BY <1>18, <2>3, PartsFacts, CrashAssumption DEF PowerLoss, TypeOK, PCs
<1> QED
  BY <1>1, <1>2, <1>3, <1>4, <1>5, <1>6, <1>7, <1>8, <1>9, <1>10, <1>11, <1>12, <1>13, <1>14,
     <1>15, <1>16, <1>17, <1>18 DEF Next, Restore

LEMMA TypeInit == Init => TypeOK
<1> SUFFICES ASSUME Init PROVE TypeOK
  OBVIOUS
<1>1. PICK q \in {"etcd", "config.yaml"}, leftover \in {"absent", "part"} :
        cur = [f \in FileSystems |->
                 [live |-> [p \in PartSet |-> IF Home(p) # f \/ p \in missing THEN "absent" ELSE "old"],
                  stage |-> [p \in PartSet |-> IF p = q /\ Home(p) = f THEN leftover ELSE "absent"],
                  marker |-> f = "var", record |-> FALSE]]
  BY DEF Init
<1>2. cur \in [FileSystems -> Image]
  BY <1>1 DEF Image, Contents
<1>3. crash = [f \in FileSystems |-> {cur[f]}]
  BY DEF Init
<1>4. crash \in [FileSystems -> SUBSET Image] /\ \A f \in FileSystems : cur[f] \in crash[f]
  BY <1>2, <1>3
<1>5. covered \subseteq PartSet /\ missing \subseteq PartSet
  BY DEF Init, PartSet
<1>6. /\ pc = "start" /\ idx = 1
      /\ crashes \in 0..MaxCrashes /\ errors \in 0..MaxErrors
  BY CrashAssumption DEF Init
<1>7. failed \in BOOLEAN
  BY DEF Init
<1> QED
  BY <1>2, <1>4, <1>5, <1>6, <1>7, PartsFacts DEF TypeOK, PCs

\* The state of the restore keeps its types: the image a file system shows is always
\* one a power loss may leave, and a part is worked on only inside the list of parts.
THEOREM TypeCorrect == Spec => []TypeOK
<1>1. TypeOK /\ [Next]_vars => TypeOK'
  BY TypeStep
<1> QED
  BY <1>1, TypeInit, PTL DEF Spec
-----------------------------------------------------------------------------
(* No part is ever half-way on disk *)

WholePart(p, c) == c \in {"old", "new"} \/ (c = "absent" /\ p \in missing)

\* The images a power loss may leave stay whole when what is shown now is whole.
LEMMA StaysWhole ==
    ASSUME LiveIsWhole, UNCHANGED env, covered \subseteq PartSet,
           \A f \in FileSystems : crash'[f] \subseteq crash[f] \union {cur'[f]},
           \A p \in covered : WholePart(p, cur'[Home(p)].live[p])
    PROVE  LiveIsWhole'
BY DEF LiveIsWhole, env, WholePart

LEMMA WholeNow ==
    ASSUME TypeOK, LiveIsWhole
    PROVE  \A p \in covered : WholePart(p, Live(p))
BY HomeFacts DEF TypeOK, LiveIsWhole, Live, WholePart

LEMMA WholeStep ==
    ASSUME TypeOK, StageInv, LiveIsWhole, [Next]_vars
    PROVE  StageInv' /\ LiveIsWhole'
<1> USE DEF env, Quiet
<1>0. /\ covered \subseteq PartSet
      /\ pc \in {"wipe", "clear", "copy", "copying", "swap", "sync", "drop", "rename"} =>
           Part \in PartSet
  BY PartsFacts DEF TypeOK, Part
<1>a. ASSUME NEW l, NEW s, PartWritten(Part, l, s), UNCHANGED env, Part \in PartSet,
             Part \in covered => WholePart(Part, l)
      PROVE  LiveIsWhole'
  <2>1. \A p \in covered : WholePart(p, cur'[Home(p)].live[p])
    BY <1>0, <1>a, WholeNow DEF PartWritten, Live
  <2>2. \A f \in FileSystems : crash'[f] \subseteq crash[f] \union {cur'[f]}
    BY <1>a DEF PartWritten
  <2> QED
    BY <1>0, <1>a, <2>1, <2>2, StaysWhole
<1>b. ASSUME UNCHANGED env, \A f \in FileSystems : crash'[f] \subseteq crash[f]
      PROVE  LiveIsWhole'
  BY <1>b DEF LiveIsWhole
<1>c. ASSUME UNCHANGED env,
             \A f \in FileSystems : crash'[f] = crash[f] \union {cur'[f]},
             \A p \in PartSet : cur'[Home(p)].live[p] = cur[Home(p)].live[p]
      PROVE  LiveIsWhole'
  <2>1. \A p \in covered : WholePart(p, cur'[Home(p)].live[p])
    BY <1>0, <1>c, WholeNow DEF Live
  <2> QED
    BY <1>0, <1>c, <2>1, StaysWhole
<1>1. CASE UNCHANGED vars
  BY <1>1 DEF vars, StageInv, LiveIsWhole, Part, Stage
<1>2. CASE RestoreRequested
  BY <1>2, <1>b DEF RestoreRequested, StageInv
<1>3. CASE BeginPart
  <2>1. LiveIsWhole'
    BY <1>3, <1>b DEF BeginPart
  <2> QED
    BY <1>3, <2>1, PartsFacts DEF BeginPart, StageInv, Part, TypeOK
<1>4. CASE RemoveSome
  <2>1. CASE pc = "wipe" /\ PartWritten(Part, "part", Stage(Part))
    <3>1. LiveIsWhole'
      BY <1>0, <1>4, <1>a, <2>1 DEF RemoveSome, StageInv
    <3> QED
      BY <1>4, <2>1, <3>1 DEF RemoveSome, StageInv, Part
  <2>2. CASE pc \in {"clear", "drop"} /\ PartWritten(Part, Live(Part), "part")
    <3>1. LiveIsWhole'
      BY <1>0, <1>4, <1>a, <2>2, WholeNow DEF RemoveSome
    <3> QED
      BY <1>4, <2>2, <3>1 DEF RemoveSome, StageInv, Part
  <2> QED
    BY <1>4, <2>1, <2>2, ActionWrites
<1>5. CASE WipePart
  <2>1. LiveIsWhole'
    BY <1>0, <1>5, <1>a, ActionWrites DEF WipePart, StageInv
  <2> QED
    BY <1>5, <2>1 DEF WipePart, NextPart, StageInv
<1>6. CASE ClearStage
  <2>1. LiveIsWhole'
    BY <1>0, <1>6, <1>a, ActionWrites, WholeNow DEF ClearStage
  <2> QED
    BY <1>6, <2>1, ActionWrites DEF ClearStage, StageInv, Part, Stage, PartWritten
<1>7. CASE CopyBegins
  <2>1. LiveIsWhole'
    BY <1>0, <1>7, <1>a, ActionWrites, WholeNow DEF CopyBegins
  <2> QED
    BY <1>7, <2>1, ActionWrites DEF CopyBegins, StageInv, Part, Stage, PartWritten
<1>8. CASE CopyEnds
  <2>1. LiveIsWhole'
    BY <1>0, <1>8, <1>a, ActionWrites, WholeNow DEF CopyEnds
  <2> QED
    BY <1>8, <2>1, ActionWrites DEF CopyEnds, StageInv, Part, Stage, PartWritten
<1>9. CASE SwapDir
  <2>1. LiveIsWhole'
    BY <1>0, <1>9, <1>a, ActionWrites DEF SwapDir, StageInv, WholePart
  <2> QED
    BY <1>9, <2>1 DEF SwapDir, StageInv, Part
<1>10. CASE SyncParent
  <2>1. \A f \in FileSystems : crash'[f] \subseteq crash[f]
    BY <1>0, <1>10, HomeFacts DEF SyncParent, TypeOK
  <2>2. LiveIsWhole'
    BY <1>10, <1>b, <2>1 DEF SyncParent
  <2> QED
    BY <1>10, <2>2 DEF SyncParent, StageInv, Part
<1>11. CASE DropDisplaced
  <2>1. LiveIsWhole'
    BY <1>0, <1>11, <1>a, ActionWrites, WholeNow DEF DropDisplaced
  <2> QED
    BY <1>11, <2>1 DEF DropDisplaced, NextPart, StageInv
<1>12. CASE RenameFile
  <2>1. LiveIsWhole'
    BY <1>0, <1>12, <1>a, ActionWrites DEF RenameFile, StageInv, WholePart
  <2> QED
    BY <1>12, <2>1 DEF RenameFile, NextPart, StageInv
<1>13. CASE WriteLastBoot
  <2>1. LiveIsWhole'
    BY <1>13, <1>c, RecordWrites, WriteVar DEF WriteLastBoot
  <2> QED
    BY <1>13, <2>1 DEF WriteLastBoot, StageInv
<1>14. CASE ClearRestoreMarker
  <2>1. LiveIsWhole'
    BY <1>14, <1>c, MarkerWrites, WriteVar DEF ClearRestoreMarker
  <2> QED
    BY <1>14, <2>1 DEF ClearRestoreMarker, StageInv
<1>15. CASE RestoreFails
  <2>1. LiveIsWhole'
    BY <1>15, <1>c, FailWrites, HomeFacts DEF RestoreFails
  <2> QED
    BY <1>15, <2>1 DEF RestoreFails, StageInv
<1>16. CASE ClearFails
  BY <1>16, <1>b DEF ClearFails, StageInv
<1>17. CASE Kill
  BY <1>17, <1>b DEF Kill, StageInv
<1>18. CASE PowerLoss
  <2>1. \A f \in FileSystems : crash'[f] \subseteq crash[f]
    BY <1>18, HomeFacts DEF PowerLoss
  <2>2. LiveIsWhole'
    BY <1>18, <1>b, <2>1 DEF PowerLoss
  <2> QED
    BY <1>18, <2>2 DEF PowerLoss, StageInv
<1> QED
  BY <1>1, <1>2, <1>3, <1>4, <1>5, <1>6, <1>7, <1>8, <1>9, <1>10, <1>11, <1>12, <1>13, <1>14,
     <1>15, <1>16, <1>17, <1>18 DEF Next, Restore

LEMMA WholeInit == Init => StageInv /\ LiveIsWhole
<1> SUFFICES ASSUME Init PROVE StageInv /\ LiveIsWhole
  OBVIOUS
<1>1. \A f \in FileSystems : \A p \in PartSet : Home(p) = f =>
        cur[f].live[p] = IF p \in missing THEN "absent" ELSE "old"
  BY DEF Init
<1>2. \A f \in FileSystems : crash[f] = {cur[f]}
  BY DEF Init
<1>3. covered \subseteq PartSet
  BY TypeInit DEF TypeOK
<1> QED
  BY <1>1, <1>2, <1>3 DEF Init, StageInv, LiveIsWhole

\* A power loss at any moment, also in the middle of a removal or a copy, and an error
\* of any call leave every part the backup holds as it was or as the backup has it:
\* for every number of power losses, kills and errors.
THEOREM NeverHalfAPart == Spec => []LiveIsWhole
<1>1. TypeOK /\ StageInv /\ LiveIsWhole /\ [Next]_vars => StageInv' /\ LiveIsWhole'
  BY WholeStep
<1> QED
  BY <1>1, WholeInit, TypeCorrect, PTL DEF Spec
-----------------------------------------------------------------------------
(* The marker outlives an incomplete restore *)

\* As long as all images have the marker, nothing is asked of them.
LEMMA MarkedKept ==
    ASSUME MarkerInv, cur["var"].marker, cur'["var"].marker,
           crash'["var"] \subseteq crash["var"] \union {cur'["var"]}
    PROVE  MarkerInv' /\ UnmarkedIsRestored'
BY DEF MarkerInv, UnmarkedIsRestored

\* A call on another tree leaves what is settled of /etc alone.
LEMMA EtcKept ==
    ASSUME TypeOK, NEW l, NEW s, NEW p \in PartSet, PartWritten(p, l, s),
           \A e \in crash["etc"] : e.live["kubernetes"] = "new",
           p = "kubernetes" => l = Live(p)
    PROVE  \A e \in crash'["etc"] : e.live["kubernetes"] = "new"
<1>1. cur["etc"] \in crash["etc"] /\ crash'["etc"] = crash["etc"] \union {cur'["etc"]}
  BY HomeFacts DEF TypeOK, PartWritten
<1>2. cur'["etc"].live["kubernetes"] = cur["etc"].live["kubernetes"]
  BY HomeFacts DEF PartWritten, Live
<1> QED
  BY <1>1, <1>2

LEMMA MarkerStep ==
    ASSUME TypeOK, StageInv, RestoreInv, [Next]_vars
    PROVE  RestoreInv'
<1> USE DEF env, Quiet
<1>0. /\ idx \in 1..6 /\ Len(Parts) = 5 /\ idx' \in 1..6
      /\ pc \in {"wipe", "clear", "copy", "copying", "swap", "sync", "drop", "rename"} =>
           Part \in PartSet /\ idx \in 1..5
  BY PartsFacts, TypeStep DEF TypeOK, Part
<1>1. CASE RestoreFails
  BY <1>1 DEF RestoreFails, RestoreInv
<1>2. CASE failed
  BY <1>1, <1>2 DEF RestoreInv, Next, Restore, vars, RestoreRequested, BeginPart, RemoveSome,
     WipePart, ClearStage, CopyBegins, CopyEnds, SwapDir, SyncParent, DropDisplaced, RenameFile,
     WriteLastBoot, ClearRestoreMarker, ClearFails, Kill, PowerLoss
<1>3. CASE ~failed /\ ~RestoreFails
  <2>1. MarkerInv /\ ProgressInv /\ EtcInv /\ UnmarkedIsRestored
    BY <1>3 DEF RestoreInv
  <2>2. SUFFICES MarkerInv' /\ ProgressInv' /\ EtcInv' /\ UnmarkedIsRestored'
    BY DEF RestoreInv
  <2> DEFINE Taken(n) == \A i \in 1..n : cur'[Home(Parts[i])].live[Parts[i]] = Restored(Parts[i])
             Settled == \A e \in crash'["etc"] : e.live["kubernetes"] = "new"
             AtPart == {"wipe", "clear", "copy", "copying", "swap", "sync", "drop", "rename"}
  <2>3. AtPart \subseteq InRestore /\ {"begin", "record", "unmark"} \subseteq InRestore
        /\ {"start", "run", "failed"} \cap InRestore = {}
    BY DEF InRestore, PCs
  <2>4. ASSUME NEW l, NEW s, PartWritten(Part, l, s), pc \in AtPart, UNCHANGED env
        PROVE  /\ MarkerInv' /\ UnmarkedIsRestored' /\ Taken(idx - 1)
               /\ l = Restored(Part) => Taken(idx)
               /\ idx > 2 => Settled
               /\ idx = 2 /\ pc = "drop" /\ l = Live(Part) => Settled
    <3>1. MarkerInv' /\ UnmarkedIsRestored'
      BY <2>1, <2>3, <2>4, MarkedKept, HomeFacts DEF MarkerInv, PartWritten
    <3>2. \A i \in 1..(idx - 1) : Parts[i] \in PartSet \ {Part}
      BY <1>0, <2>4, PartsFacts DEF Part
    <3>3. Taken(idx - 1)
      BY <2>1, <2>3, <2>4, <3>2 DEF ProgressInv, PartWritten, Live
    <3>4. l = Restored(Part) => Taken(idx)
      BY <1>0, <2>4, <3>3 DEF PartWritten, Part
    <3>5. idx > 2 => Part # "kubernetes"
      BY <1>0, <2>4, PartsFacts DEF Part
    <3>6. idx > 2 => Settled
      BY <1>0, <2>1, <2>3, <2>4, <3>5, EtcKept DEF EtcInv
    <3>7. idx = 2 /\ pc = "drop" /\ l = Live(Part) => Settled
      BY <1>0, <2>1, <2>3, <2>4, EtcKept DEF EtcInv
    <3> QED
      BY <3>1, <3>3, <3>4, <3>6, <3>7
  <2> HIDE DEF Taken, Settled
  <2>5. ASSUME /\ MarkerInv' /\ UnmarkedIsRestored' /\ UNCHANGED covered
               /\ Taken(idx' - 1) /\ pc' \notin {"unmark"}
               /\ pc' \in {"sync", "drop"} => cur'[Home(Parts[idx'])].live[Parts[idx']] = Restored(Parts[idx'])
               /\ pc' = "rename" => Parts[idx'] \notin Trees
               /\ pc' = "record" => idx' = Len(Parts) + 1
               /\ idx' > 2 \/ (idx' = 2 /\ pc' = "drop") => Settled
        PROVE  MarkerInv' /\ ProgressInv' /\ EtcInv' /\ UnmarkedIsRestored'
    BY <2>1, <2>5 DEF Taken, Settled, ProgressInv, EtcInv, Live, Part, Restored
  <2>6. CASE RemoveSome
    <3>1. CASE pc = "wipe" /\ PartWritten(Part, "part", Stage(Part))
      BY <1>0, <1>3, <2>4, <2>5, <2>6, <3>1 DEF RemoveSome
    <3>2. CASE pc \in {"clear", "drop"} /\ PartWritten(Part, Live(Part), "part")
      BY <1>0, <2>1, <2>3, <2>4, <2>5, <2>6, <3>2 DEF RemoveSome, ProgressInv, PartWritten, Part
    <3> QED
      BY <2>6, <3>1, <3>2, ActionWrites
  <2>7. CASE WipePart
    <3>1. idx # 2
      BY <2>1, <2>7, PartsFacts DEF WipePart, StageInv, EtcInv, Part
    <3> QED
      BY <1>0, <2>4, <2>5, <2>7, <3>1, ActionWrites DEF WipePart, NextPart, StageInv, Restored
  <2>8. CASE ClearStage
    BY <1>0, <2>4, <2>5, <2>8, ActionWrites DEF ClearStage
  <2>9. CASE CopyBegins
    BY <1>0, <2>4, <2>5, <2>9, ActionWrites DEF CopyBegins
  <2>10. CASE CopyEnds
    BY <1>0, <2>4, <2>5, <2>10, ActionWrites DEF CopyEnds, Part
  <2>11. CASE SwapDir
    BY <1>0, <2>4, <2>5, <2>11, ActionWrites DEF SwapDir, StageInv, Restored, PartWritten, Part
  <2>12. CASE SyncParent
    <3>1. /\ pc = "sync" /\ pc' = "drop" /\ UNCHANGED <<idx, cur, env>>
          /\ crash' = [crash EXCEPT ![Home(Part)] = {cur[Home(Part)]}]
      BY <2>12 DEF SyncParent
    <3>2. \A f \in FileSystems : crash'[f] = IF f = Home(Part) THEN {cur[f]} ELSE crash[f]
      BY <1>0, <3>1, HomeFacts DEF TypeOK
    <3>3. MarkerInv' /\ UnmarkedIsRestored'
      <4>1. crash'["var"] \subseteq crash["var"] \union {cur'["var"]}
        BY <3>1, <3>2, HomeFacts
      <4> QED
        BY <2>1, <2>3, <3>1, <4>1, MarkedKept DEF MarkerInv
    <3>4. Taken(idx - 1) /\ cur'[Home(Part)].live[Part] = Restored(Part)
      BY <2>1, <2>3, <3>1 DEF ProgressInv, Taken, Live
    <3>5. idx > 2 => Settled
      <4>1. ASSUME idx > 2 PROVE crash'["etc"] \subseteq crash["etc"]
        BY <1>0, <3>1, <3>2, HomeFacts DEF TypeOK
      <4> QED
        BY <2>1, <2>3, <3>1, <4>1 DEF EtcInv, Settled
    <3>6. idx = 2 => Settled
      BY <1>0, <2>1, <3>1, <3>2, <3>4, PartsFacts, HomeFacts DEF EtcInv, Settled, Restored, Part
    <3> QED
      BY <2>5, <3>1, <3>3, <3>4, <3>5, <3>6 DEF Part
  <2>13. CASE DropDisplaced
    <3>1. Live(Part) = Restored(Part)
      BY <2>1, <2>3, <2>13 DEF DropDisplaced, ProgressInv
    <3> QED
      BY <1>0, <2>4, <2>5, <2>13, <3>1, ActionWrites DEF DropDisplaced, NextPart
  <2>14. CASE RenameFile
    <3>1. idx # 2
      BY <2>1, <2>3, <2>14, PartsFacts DEF RenameFile, ProgressInv, Part, Trees
    <3> QED
      BY <1>0, <2>4, <2>5, <2>14, <3>1, ActionWrites DEF RenameFile, NextPart, StageInv, Restored
  <2>15. CASE BeginPart
    <3>1. pc = "begin" /\ UNCHANGED <<idx, cur, crash, env>>
      BY <2>15 DEF BeginPart
    <3>2. MarkerInv' /\ UnmarkedIsRestored'
      BY <2>1, <2>3, <3>1, MarkedKept DEF MarkerInv
    <3>3. Taken(idx - 1) /\ (idx > 2 => Settled)
      BY <2>1, <2>3, <3>1 DEF ProgressInv, EtcInv, Taken, Settled, Live
    <3>4. pc' \in {"record", "wipe", "clear"} /\ (pc' = "record" => idx > Len(Parts))
      BY <2>15 DEF BeginPart
    <3> QED
      BY <1>0, <2>5, <3>1, <3>2, <3>3, <3>4
  <2>16. CASE RestoreRequested
    <3>1. pc' \in {"begin", "run"} /\ idx' = 1 /\ UNCHANGED <<cur, crash, env, failed>>
          /\ (pc' = "begin" => cur["var"].marker)
      BY <2>16 DEF RestoreRequested
    <3>2. MarkerInv' /\ UnmarkedIsRestored'
      BY <2>1, <2>3, <3>1 DEF MarkerInv, UnmarkedIsRestored, Restored
    <3>3. Taken(idx' - 1)
      BY <3>1 DEF Taken
    <3> QED
      BY <2>5, <3>1, <3>2, <3>3
  <2>17. CASE WriteLastBoot
    <3>1. /\ pc = "record" /\ pc' = "unmark" /\ UNCHANGED <<idx, env>>
          /\ crash'["etc"] = crash["etc"] /\ crash'["var"] = crash["var"] \union {cur'["var"]}
          /\ cur'["var"].marker = cur["var"].marker /\ cur'["var"].record = TRUE
          /\ \A q \in PartSet : cur'[Home(q)].live[q] = cur[Home(q)].live[q]
      BY <2>17, RecordWrites, WriteVar, HomeFacts DEF WriteLastBoot
    <3>2. MarkerInv' /\ UnmarkedIsRestored'
      BY <2>1, <2>3, <3>1, MarkedKept DEF MarkerInv
    <3>3. ProgressInv'
      BY <1>0, <2>1, <2>3, <3>1, PartsFacts DEF ProgressInv, Live, Restored
    <3> QED
      BY <2>1, <2>3, <3>1, <3>2, <3>3 DEF EtcInv
  <2>18. CASE ClearRestoreMarker
    <3>1. /\ pc = "unmark" /\ pc' = "run" /\ UNCHANGED env
          /\ crash'["etc"] = crash["etc"] /\ crash'["var"] = crash["var"] \union {cur'["var"]}
          /\ cur'["var"].marker = FALSE /\ cur'["var"].record = cur["var"].record
          /\ \A q \in PartSet : cur'[Home(q)].live[q] = cur[Home(q)].live[q]
      BY <2>18, MarkerWrites, WriteVar, HomeFacts DEF ClearRestoreMarker
    <3>2. \A q \in PartSet : Live(q) = Restored(q)
      BY <1>0, <2>1, <2>3, <3>1, PartsFacts DEF ProgressInv
    <3>3. \A e \in crash["etc"] : e.live["kubernetes"] = Restored("kubernetes")
      BY <1>0, <2>1, <2>3, <3>1 DEF ProgressInv, EtcInv, Restored
    <3>4. cur["var"].record
      BY <2>1, <2>3, <3>1 DEF ProgressInv
    <3>5. \A q \in PartSet : Home(q) = "var" => cur'["var"].live[q] = Restored(q)
      BY <3>1, <3>2 DEF Live
    <3>6. ASSUME NEW v \in crash'["var"], NEW e \in crash'["etc"], ~v.marker
          PROVE  v.record /\ \A p \in PartSet :
                   (IF Home(p) = "var" THEN v ELSE e).live[p] = Restored(p)
      <4>1. v = cur'["var"]
        BY <2>1, <2>3, <3>1, <3>6 DEF MarkerInv
      <4> QED
        BY <3>1, <3>3, <3>4, <3>5, <4>1, HomeFacts
    <3>7. UnmarkedIsRestored'
      BY <3>1, <3>6 DEF UnmarkedIsRestored, Restored
    <3> QED
      BY <2>1, <2>3, <3>1, <3>7 DEF MarkerInv, ProgressInv, EtcInv
  <2>19. CASE ClearFails \/ Kill
    <3>1. pc' \in {"run", "start"} /\ UNCHANGED <<cur, crash, env, failed>>
      BY <2>19 DEF ClearFails, Kill
    <3> QED
      BY <2>1, <2>3, <3>1 DEF MarkerInv, ProgressInv, EtcInv, UnmarkedIsRestored, Restored
  <2>20. CASE PowerLoss
    <3>1. PICK v \in crash["var"], e \in crash["etc"] :
            /\ cur' = [f \in FileSystems |-> IF f = "var" THEN v ELSE e]
            /\ crash' = [f \in FileSystems |-> {cur'[f]}]
      BY <2>20 DEF PowerLoss
    <3>2. pc' = "start" /\ UNCHANGED <<env, failed>>
      BY <2>20 DEF PowerLoss
    <3>3. crash'["var"] = {v} /\ crash'["etc"] = {e} /\ cur'["var"] = v
      BY <3>1, HomeFacts
    <3>4. MarkerInv'
      BY <2>3, <3>2, <3>3 DEF MarkerInv
    <3>5. UnmarkedIsRestored'
      BY <2>1, <3>2, <3>3 DEF UnmarkedIsRestored, Restored
    <3> QED
      BY <2>1, <2>3, <3>2, <3>4, <3>5 DEF ProgressInv, EtcInv
  <2>21. CASE UNCHANGED vars
    BY <2>1, <2>21 DEF vars, MarkerInv, ProgressInv, EtcInv, UnmarkedIsRestored, Restored, Live, Part
  <2> QED
    BY <1>3, <2>6, <2>7, <2>8, <2>9, <2>10, <2>11, <2>12, <2>13, <2>14, <2>15, <2>16, <2>17,
       <2>18, <2>19, <2>20, <2>21 DEF Next, Restore
<1> QED
  BY <1>1, <1>2, <1>3

LEMMA MarkerInit == Init => RestoreInv
<1> SUFFICES ASSUME Init PROVE RestoreInv
  OBVIOUS
<1>1. cur["var"].marker /\ crash["var"] = {cur["var"]}
  <2>1. PICK q \in {"etcd", "config.yaml"}, leftover \in {"absent", "part"} :
          cur = [f \in FileSystems |->
                   [live |-> [p \in PartSet |-> IF Home(p) # f \/ p \in missing THEN "absent" ELSE "old"],
                    stage |-> [p \in PartSet |-> IF p = q /\ Home(p) = f THEN leftover ELSE "absent"],
                    marker |-> f = "var", record |-> FALSE]]
    BY DEF Init
  <2>2. cur["var"].marker = ("var" = "var")
    BY <2>1, HomeFacts
  <2> QED
    BY <2>2, HomeFacts DEF Init
<1>2. "kubernetes" \in covered
  BY DEF Init, PartSet
<1>3. pc \notin InRestore
  BY DEF Init, InRestore, PCs
<1> QED
  BY <1>1, <1>2, <1>3 DEF RestoreInv, MarkerInv, ProgressInv, EtcInv, UnmarkedIsRestored

\* Unless a restore has returned an error, no power loss at any moment leaves a disk
\* without the marker on which the restore is not complete, on both file systems, with
\* its last-boot.json: for every number of power losses, kills and restarts.
THEOREM NoRestoreIsSkipped == Spec => []UnmarkedIsRestored
<1>1. TypeOK /\ StageInv /\ LiveIsWhole /\ [Next]_vars => StageInv' /\ LiveIsWhole'
  BY WholeStep
<1>2. TypeOK /\ StageInv /\ RestoreInv /\ [Next]_vars => RestoreInv'
  BY MarkerStep
<1>3. RestoreInv => UnmarkedIsRestored
  BY DEF RestoreInv, UnmarkedIsRestored
<1> QED
  BY <1>1, <1>2, <1>3, WholeInit, MarkerInit, TypeCorrect, PTL DEF Spec
=============================================================================
