------------------------- MODULE RestoreDurability -------------------------
(***************************************************************************)
(* maybeRestore (internal/boot/boot.go), backup.Restore and                *)
(* atomic.SwapDir at the level of the file system, under power loss.       *)
(* BootLifecycle takes the replacement of a tree for one step that         *)
(* survives; here it is made of the calls that the code makes: removals    *)
(* and copies that can stop half-way, an exchange, an fsync.               *)
(*                                                                         *)
(* /etc and /var are file systems of their own.  What a call has changed   *)
(* is visible at once, but reaches the disk later, unless an fsync of that *)
(* file system has returned: for each of the two the model keeps the set   *)
(* of the images that a power loss may leave, one for every call since the *)
(* last fsync.  That is the order ext4 and xfs keep for directory entries; *)
(* the extents of a reflinked copy are part of it.  An fsync of a file     *)
(* settles that file only.                                                 *)
(***************************************************************************)
EXTENDS Integers, Sequences

CONSTANTS
    MaxCrashes,   \* bound: power losses and kills
    MaxErrors     \* bound: calls that fail

ASSUME CrashAssumption == {MaxCrashes, MaxErrors} \subseteq Nat

VARIABLES
    covered,   \* the parts that are in the backup
    missing,   \* the parts that are not on the node when the restore is requested
    cur,       \* what each file system shows
    crash,     \* the images a power loss may leave of it
    pc, idx,   \* where maybeRestore is, and at which part
    \* history
    failed,    \* a restore has returned an error
    crashes, errors

env == <<covered, missing>>
vars == <<env, cur, crash, pc, idx, failed, crashes, errors>>

-----------------------------------------------------------------------------
(* Data *)

\* the trees, then the kubelet's files, in the order of Restore
Parts == <<"etcd", "kubernetes", "config.yaml", "instance-config.yaml", "kubeadm-flags.env">>
PartSet == {"etcd", "kubernetes", "config.yaml", "instance-config.yaml", "kubeadm-flags.env"}
Trees == {"etcd", "kubernetes"}

FileSystems == {"var", "etc"}
Home(p) == IF p = "kubernetes" THEN "etc" ELSE "var"

\* mixed: a copy into something that was there before
Contents == {"absent", "part", "mixed", "old", "new"}

\* stage: the part's .restoring sibling; record: last-boot.json is the backup's
Image == [live : [PartSet -> Contents], stage : [PartSet -> Contents],
          marker : BOOLEAN, record : BOOLEAN]

PCs == {"start", "begin", "wipe", "clear", "copy", "copying", "swap", "sync", "drop",
        "rename", "record", "unmark", "run", "failed"}
InRestore == PCs \ {"start", "run", "failed"}

Part == Parts[idx]
Live(p) == cur[Home(p)].live[p]
Stage(p) == cur[Home(p)].stage[p]

-----------------------------------------------------------------------------
(* File-system calls *)

\* the file system f now shows img, which a power loss may leave or not
Show(f, img) == /\ cur' = [cur EXCEPT ![f] = img]
                /\ crash' = [crash EXCEPT ![f] = @ \union {img}]

SetLive(p, c) == Show(Home(p), [cur[Home(p)] EXCEPT !.live[p] = c])
SetStage(p, c) == Show(Home(p), [cur[Home(p)] EXCEPT !.stage[p] = c])

Quiet == UNCHANGED <<env, failed, crashes, errors>>

-----------------------------------------------------------------------------
(* The node has been rolled back and greenboot's hook has left the marker.   *)
(* A tree and a file stand for all: the node may lack them, and an earlier   *)
(* restore may have left the staging sibling of one of them.  The backup may *)
(* lack a tree or a file too, but never /etc/kubernetes: it was taken of a   *)
(* healthy boot, and no boot gets that far without the CAs                   *)
(* (CAExistPreflighter).                                                     *)

Init ==
    /\ missing \in {{}, {"etcd", "config.yaml"}}
    /\ covered \in {PartSet, PartSet \ {"etcd"}, PartSet \ {"kubeadm-flags.env"}}
    /\ \E q \in {"etcd", "config.yaml"}, leftover \in {"absent", "part"} :
         cur = [f \in FileSystems |->
                  [live |-> [p \in PartSet |-> IF Home(p) # f \/ p \in missing THEN "absent" ELSE "old"],
                   stage |-> [p \in PartSet |-> IF p = q /\ Home(p) = f THEN leftover ELSE "absent"],
                   marker |-> f = "var", record |-> FALSE]]
    /\ crash = [f \in FileSystems |-> {cur[f]}]
    /\ pc = "start" /\ idx = 1
    /\ failed = FALSE /\ crashes = 0 /\ errors = 0

-----------------------------------------------------------------------------
(* maybeRestore *)

RestoreRequested ==
    /\ pc = "start"
    /\ pc' = IF cur["var"].marker THEN "begin" ELSE "run"
    /\ idx' = 1
    /\ UNCHANGED <<cur, crash>> /\ Quiet

\* restoreDir and replaceFile: what the backup lacks is removed
BeginPart ==
    /\ pc = "begin"
    /\ pc' = CASE idx > Len(Parts) -> "record"
               [] idx <= Len(Parts) /\ Part \notin covered -> "wipe"
               [] OTHER -> "clear"
    /\ UNCHANGED <<idx, cur, crash>> /\ Quiet

\* mutant: the body of the loop advances it too
NextPartTwice == pc' = "begin" /\ idx' = idx + 2

NextPart == pc' = "begin" /\ idx' = idx + 1

\* RemoveAll of a tree has removed some of it
RemoveSome ==
    /\ idx <= Len(Parts) /\ Part \in Trees
    /\ \/ pc = "wipe" /\ Live(Part) \in {"old", "new"} /\ SetLive(Part, "part")
       \/ pc \in {"clear", "drop"} /\ Stage(Part) \in {"old", "new"} /\ SetStage(Part, "part")
    /\ UNCHANGED <<pc, idx>> /\ Quiet

WipePart ==
    /\ pc = "wipe"
    /\ SetLive(Part, "absent")
    /\ NextPart
    /\ Quiet

\* mutant: Remove, which does not remove a directory that has entries
ClearStageShallow ==
    /\ pc = "clear"
    /\ Stage(Part) = "absent"
    /\ SetStage(Part, "absent")
    /\ pc' = "copy"
    /\ UNCHANGED idx /\ Quiet

ClearStage ==
    /\ pc = "clear"
    /\ SetStage(Part, "absent")
    /\ pc' = "copy"
    /\ UNCHANGED idx /\ Quiet

\* cp, with --no-target-directory
CopyBegins ==
    /\ pc = "copy"
    /\ SetStage(Part, IF Stage(Part) = "absent" THEN "part" ELSE "mixed")
    /\ pc' = "copying"
    /\ UNCHANGED idx /\ Quiet

CopyEnds ==
    /\ pc = "copying"
    /\ SetStage(Part, IF Stage(Part) = "part" THEN "new" ELSE Stage(Part))
    /\ pc' = IF Part \in Trees THEN "swap" ELSE "rename"
    /\ UNCHANGED idx /\ Quiet

\* mutant: the pattern before CR1, RemoveAll(dst) and then Rename(staged, dst)
RemoveThenRename ==
    /\ pc = "swap"
    /\ IF Live(Part) = "absent"
       THEN /\ Show(Home(Part), [cur[Home(Part)] EXCEPT !.live[Part] = Stage(Part),
                                                        !.stage[Part] = "absent"])
            /\ pc' = "sync"
       ELSE SetLive(Part, "absent") /\ pc' = pc
    /\ UNCHANGED idx /\ Quiet

\* SwapDir: RENAME_EXCHANGE, or a rename where there is nothing to exchange with
SwapDir ==
    /\ pc = "swap"
    /\ Show(Home(Part), [cur[Home(Part)] EXCEPT !.live[Part] = Stage(Part),
                                                !.stage[Part] = Live(Part)])
    /\ pc' = "sync"
    /\ UNCHANGED idx /\ Quiet

\* mutant: the directory is opened and closed
SyncParentForgotten ==
    /\ pc = "sync"
    /\ pc' = "drop"
    /\ UNCHANGED <<idx, cur, crash>> /\ Quiet

\* SyncParent: nothing that was done to this file system can be lost any more
SyncParent ==
    /\ pc = "sync"
    /\ crash' = [crash EXCEPT ![Home(Part)] = {cur[Home(Part)]}]
    /\ pc' = "drop"
    /\ UNCHANGED <<idx, cur>> /\ Quiet

DropDisplaced ==
    /\ pc = "drop"
    /\ SetStage(Part, "absent")
    /\ NextPart
    /\ Quiet

\* replaceFile: a rename, and no fsync
RenameFile ==
    /\ pc = "rename"
    /\ Show(Home(Part), [cur[Home(Part)] EXCEPT !.live[Part] = Stage(Part),
                                                !.stage[Part] = "absent"])
    /\ NextPart
    /\ Quiet

\* WriteLastBoot: writeAtomic's temporary file is synced before it is renamed
WriteLastBoot ==
    /\ pc = "record"
    /\ Show("var", [cur["var"] EXCEPT !.record = TRUE])
    /\ pc' = "unmark"
    /\ UNCHANGED idx /\ Quiet

ClearRestoreMarker ==
    /\ pc = "unmark"
    /\ Show("var", [cur["var"] EXCEPT !.marker = FALSE])
    /\ pc' = "run" /\ idx' = 1
    /\ Quiet

\* a call fails; restoreDir and replaceFile remove what they staged if they can,
\* and the deferred function removes the marker if it can
RestoreFails ==
    /\ pc \in InRestore \ {"unmark"} /\ errors < MaxErrors
    /\ errors' = errors + 1
    /\ \E c \in IF pc \in {"copy", "copying", "swap", "sync"} THEN {"absent", "part", Stage(Part)} ELSE {"keep"} :
         LET dropped == [f \in FileSystems |->
                           IF c = "keep" \/ Home(Part) # f THEN cur[f]
                           ELSE [cur[f] EXCEPT !.stage[Part] = c]]
         IN  \E m \in BOOLEAN : cur' = [dropped EXCEPT !["var"].marker = m]
    /\ crash' = [f \in FileSystems |-> crash[f] \union {cur'[f]}]
    /\ failed' = TRUE
    /\ pc' = "failed" /\ idx' = 1
    /\ UNCHANGED <<env, crashes>>

\* that function's own error is only logged
ClearFails ==
    /\ pc = "unmark" /\ errors < MaxErrors
    /\ errors' = errors + 1
    /\ pc' = "run" /\ idx' = 1
    /\ UNCHANGED <<env, cur, crash, failed, crashes>>

-----------------------------------------------------------------------------
(* The host *)

\* the process is killed, and the service started again
Kill ==
    /\ pc # "start" /\ crashes < MaxCrashes
    /\ crashes' = crashes + 1
    /\ pc' = "start" /\ idx' = 1
    /\ UNCHANGED <<env, cur, crash, failed, errors>>

PowerLoss ==
    /\ crashes < MaxCrashes
    /\ crashes' = crashes + 1
    /\ \E v \in crash["var"], e \in crash["etc"] :
         /\ cur' = [f \in FileSystems |-> IF f = "var" THEN v ELSE e]
         /\ crash' = [f \in FileSystems |-> {cur'[f]}]
    /\ pc' = "start" /\ idx' = 1
    /\ UNCHANGED <<env, failed, errors>>

-----------------------------------------------------------------------------

Restore ==
    \/ RestoreRequested \/ BeginPart \/ RemoveSome \/ WipePart \/ ClearStage \/ CopyBegins
    \/ CopyEnds \/ SwapDir \/ SyncParent \/ DropDisplaced \/ RenameFile \/ WriteLastBoot
    \/ ClearRestoreMarker

Next == Restore \/ RestoreFails \/ ClearFails \/ Kill \/ PowerLoss

\* a process that is not interrupted runs on
Spec == Init /\ [][Next]_vars /\ WF_vars(Restore)

-----------------------------------------------------------------------------
(* Properties *)

TypeOK ==
    /\ covered \subseteq PartSet /\ missing \subseteq PartSet
    /\ cur \in [FileSystems -> Image]
    /\ crash \in [FileSystems -> SUBSET Image]
    /\ \A f \in FileSystems : cur[f] \in crash[f]
    /\ pc \in PCs
    /\ idx \in 1..(Len(Parts) + 1)
    /\ pc \in {"wipe", "clear", "copy", "copying", "swap", "sync", "drop", "rename"} => idx <= Len(Parts)
    /\ failed \in BOOLEAN
    /\ crashes \in 0..MaxCrashes /\ errors \in 0..MaxErrors

\* Whenever the power fails, every part that the backup holds is on disk either as
\* it was or as the backup has it, errors included (restoreDir's CR1: "the live data
\* is never in a half-state on disk").
LiveIsWhole ==
    \A f \in FileSystems : \A img \in crash[f] : \A p \in covered :
        Home(p) = f => \/ img.live[p] \in {"old", "new"}
                       \/ img.live[p] = "absent" /\ p \in missing

\* what a completed restore leaves of a part
Restored(p) == IF p \in covered THEN "new" ELSE "absent"

\* Whenever the power fails and the marker is gone from the disk, all parts on both
\* file systems and last-boot.json are the backup's: no boot skips a restore that
\* is not complete on disk, unless a restore has returned an error.
UnmarkedIsRestored ==
    ~failed =>
        \A v \in crash["var"], e \in crash["etc"] :
            v.marker \/ /\ v.record
                        /\ \A p \in PartSet :
                             (IF Home(p) = "var" THEN v ELSE e).live[p] = Restored(p)

\* However often the process is killed or the power fails, and whatever a cut-short restore has left, in the
\* end the node runs on the backup's data, or a restore has returned an error.
RestoreConverges ==
    <>[](failed \/ (pc = "run" /\ \A p \in PartSet : Live(p) = Restored(p)))
=============================================================================
