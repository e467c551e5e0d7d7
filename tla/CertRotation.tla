--------------------------- MODULE CertRotation ---------------------------
(***************************************************************************)
(* The certificates of a picokube node over the years: the PKI directory   *)
(* with its three CAs, the kubeconfigs, the kubelet's own client           *)
(* certificate, and what rotateCertsIfStale (internal/boot/boot.go) and    *)
(* FinalizeKubeletKubeconfig do to them on every boot, with crashes and    *)
(* errors between any two of their steps.                                  *)
(*                                                                         *)
(* A certificate is the generation of the CA that signed it (a CA: its own *)
(* generation) and the time it expires; a rotation takes no time, the      *)
(* months pass while the node is up or down.  A kubeconfig is the client   *)
(* certificate embedded in it.                                             *)
(***************************************************************************)
EXTENDS Integers, Sequences

CONSTANTS
    CAValidity,        \* lifetime of a CA
    LeafValidity,      \* lifetime of any other certificate
    ShortLivedCutoff,  \* a certificate with a shorter lifetime is short-lived
    MonthsShort,       \* a short-lived one is stale when less than this is left
    MonthsLong,        \* and any other when less than this is left
    MaxTime            \* bound: the last month

ASSUME TimeAssumption ==
    {CAValidity, LeafValidity, ShortLivedCutoff, MonthsShort, MonthsLong, MaxTime} \subseteq Nat

\* kubeadm's default lifetimes (ten years and one) against the thresholds of
\* expiry.go: a CA is long-lived, a leaf is short-lived, and a CA is replaced
\* while it still has a leaf's lifetime ahead of it
ASSUME LifetimeAssumption ==
    /\ LeafValidity < ShortLivedCutoff /\ ShortLivedCutoff <= CAValidity
    /\ MonthsShort <= LeafValidity /\ LeafValidity <= MonthsLong /\ MonthsLong <= CAValidity

VARIABLES
    now,       \* the month
    pki,       \* /etc/kubernetes/pki
    regen,     \* /etc/kubernetes/pki.regen
    conf,      \* the kubeconfigs under /etc/kubernetes
    pem,       \* kubelet-client-current.pem: the CA generation that signed it
    \* the process
    pc,
    ca,        \* the position in AllCAs
    i,         \* the position in dependentKubeconfigs
    stale,     \* the leaves RenewLeaves has still to renew
    \* history
    cut        \* the last RegenerateCA that had kubeconfigs to rewrite was cut short
               \* between the swap and its return

proc == <<pc, ca, i, stale>>
vars == <<now, pki, regen, conf, pem, proc, cut>>

-----------------------------------------------------------------------------
(* Data *)

AllCAs == <<"ca", "etcd/ca", "front-proxy-ca">>
CAKinds == {"ca", "etcd/ca", "front-proxy-ca"}

PKILeaves == {"apiserver", "apiserver-kubelet-client", "apiserver-etcd-client",
              "front-proxy-client", "etcd-server", "etcd-peer", "etcd-healthcheck-client"}
ConfLeaves == {"admin.conf", "super-admin.conf", "controller-manager.conf", "scheduler.conf"}
LeafKinds == PKILeaves \union ConfLeaves
Kubeconfigs == ConfLeaves \union {"kubelet.conf"}

AllLeaves == <<"apiserver", "apiserver-kubelet-client", "apiserver-etcd-client",
               "front-proxy-client", "etcd-server", "etcd-peer", "etcd-healthcheck-client",
               "admin.conf", "super-admin.conf", "controller-manager.conf", "scheduler.conf">>

\* mutant: the etcd CA's client in apiserver's hands is forgotten
DependentLeavesButOne(c) ==
    CASE c = "ca" -> {"apiserver", "apiserver-kubelet-client"}
      [] c = "etcd/ca" -> {"etcd-server", "etcd-peer", "etcd-healthcheck-client"}
      [] c = "front-proxy-ca" -> {"front-proxy-client"}

dependentLeaves(c) ==
    CASE c = "ca" -> {"apiserver", "apiserver-kubelet-client"}
      [] c = "etcd/ca" -> {"etcd-server", "etcd-peer", "etcd-healthcheck-client",
                           "apiserver-etcd-client"}
      [] c = "front-proxy-ca" -> {"front-proxy-client"}

\* mutant: the scheduler is forgotten
DependentKubeconfigsButOne(c) ==
    IF c = "ca" THEN <<"admin.conf", "controller-manager.conf", "kubelet.conf">> ELSE << >>

dependentKubeconfigs(c) ==
    IF c = "ca"
    THEN <<"admin.conf", "controller-manager.conf", "scheduler.conf", "kubelet.conf">>
    ELSE << >>

\* the CA that is being regenerated has kubeconfigs to rewrite
HasKubeconfigs == dependentKubeconfigs(AllCAs[ca]) # << >>

\* the CA kubeadm signs a PKI leaf with
SignerOf(l) == CASE l \in {"apiserver", "apiserver-kubelet-client"} -> "ca"
                 [] l = "front-proxy-client" -> "front-proxy-ca"
                 [] OTHER -> "etcd/ca"

Cert == [gen : Nat, notAfter : Nat]
PKI == [ca : [CAKinds -> Cert], leaf : [PKILeaves -> Cert]]

NoFile == [gen |-> 0, notAfter |-> 0]              \* no such kubeconfig
PemReference == [gen |-> 0, notAfter |-> 1]        \* kubelet.conf names the pem
NoPem == 0
NoPKI == [ca |-> [c \in CAKinds |-> NoFile], leaf |-> [l \in PKILeaves |-> NoFile]]

PCs == {"down", "cas", "swap", "displaced", "confs", "renew", "finalize", "up"}

\* mutant: every certificate is measured against the threshold of the short-lived
NeedsRotationLate(c, validity) == now > c.notAfter \/ c.notAfter - now < MonthsShort

NeedsRotation(c, validity) ==
    \/ now > c.notAfter
    \/ c.notAfter - now < (IF validity < ShortLivedCutoff THEN MonthsShort ELSE MonthsLong)

CAStale(c) == NeedsRotation(pki.ca[c], CAValidity)

\* a certificate signed now by the CA c of the PKI directory p
Issued(p, c) == [gen |-> p.ca[c].gen, notAfter |-> now + LeafValidity]

\* what a leaf's file holds; for a kubeconfig the certificate embedded in it
CertOf(l) == IF l \in PKILeaves THEN pki.leaf[l] ELSE conf[l]

\* mutant: only what has expired
ExpiredLeaves == {l \in LeafKinds : CertOf(l) # NoFile /\ now > CertOf(l).notAfter}

\* CheckLeaves, and rotateCertsIfStale's second pass over its report
StaleLeaves == {l \in LeafKinds : CertOf(l) # NoFile /\ NeedsRotation(CertOf(l), LeafValidity)}

\* a copy of the PKI directory in which CreatePKIAssets has made c and its leaves anew
Regenerated(c) ==
    LET renewed == [pki EXCEPT !.ca[c] = [gen |-> @.gen + 1, notAfter |-> now + CAValidity]]
    IN [renewed EXCEPT !.leaf = [l \in PKILeaves |->
            IF l \in dependentLeaves(c) THEN Issued(renewed, c) ELSE pki.leaf[l]]]

-----------------------------------------------------------------------------
(* The initial state: `picokube init` has made every certificate; it may    *)
(* have failed before it removed super-admin.conf, or before the kubelet    *)
(* had a certificate of its own.                                            *)

Init ==
    LET leaf == [gen |-> 1, notAfter |-> LeafValidity]
    IN  /\ now = 0
        /\ pki = [ca |-> [c \in CAKinds |-> [gen |-> 1, notAfter |-> CAValidity]],
                  leaf |-> [l \in PKILeaves |-> leaf]]
        /\ regen = NoPKI
        /\ \E super \in {NoFile, leaf}, kubelet \in {leaf, PemReference} :
             /\ conf = [k \in Kubeconfigs |-> CASE k = "super-admin.conf" -> super
                                                [] k = "kubelet.conf" -> kubelet
                                                [] OTHER -> leaf]
             /\ pem = IF kubelet = PemReference THEN 1 ELSE NoPem
        /\ pc = "down" /\ ca = 1 /\ i = 1 /\ stale = {} /\ cut = FALSE

-----------------------------------------------------------------------------
(* One boot *)

Down == pc' = "down" /\ ca' = 1 /\ i' = 1 /\ stale' = {}

\* rotateCertsIfStale begins; the files of every CA are there (CAExistPreflighter)
BootBegins ==
    /\ pc = "down"
    /\ pc' = "cas" /\ ca' = 1
    /\ UNCHANGED <<now, pki, regen, conf, pem, i, stale, cut>>

CAHealthy ==
    /\ pc = "cas" /\ ca <= Len(AllCAs)
    /\ ~CAStale(AllCAs[ca])
    /\ ca' = ca + 1
    /\ UNCHANGED <<now, pki, regen, conf, pem, pc, i, stale, cut>>

\* mutant: the loop goes on to the next CA before the swap
StagePKIAndAdvance ==
    /\ pc = "cas" /\ ca <= Len(AllCAs)
    /\ CAStale(AllCAs[ca])
    /\ regen' = Regenerated(AllCAs[ca])
    /\ pc' = "swap" /\ ca' = ca + 1
    /\ UNCHANGED <<now, pki, conf, pem, i, stale, cut>>

\* RegenerateCA up to the swap
StagePKI ==
    /\ pc = "cas" /\ ca <= Len(AllCAs)
    /\ CAStale(AllCAs[ca])
    /\ regen' = Regenerated(AllCAs[ca])
    /\ pc' = "swap"
    /\ UNCHANGED <<now, pki, conf, pem, ca, i, stale, cut>>

\* an error before the exchange: the staging directory is dropped
StagingFails ==
    /\ pc = "swap"
    /\ regen' = NoPKI
    /\ Down
    /\ UNCHANGED <<now, pki, conf, pem, cut>>

\* atomic.SwapDir
SwapPKI ==
    /\ pc = "swap"
    /\ pki' = regen
    /\ regen' = pki
    /\ pc' = "displaced"
    /\ UNCHANGED <<now, conf, pem, ca, i, stale, cut>>

\* SwapDir returns the error of its fsync although the directories are
\* exchanged; the deferred function drops the displaced one
SwapUnsynced ==
    /\ pc = "swap"
    /\ pki' = regen
    /\ regen' = NoPKI
    /\ cut' = (cut \/ HasKubeconfigs)
    /\ Down
    /\ UNCHANGED <<now, conf, pem>>

RemoveDisplaced ==
    /\ pc = "displaced"
    /\ regen' = NoPKI
    /\ pc' = "confs" /\ i' = 1
    /\ UNCHANGED <<now, pki, conf, pem, ca, stale, cut>>

\* writeKubeconfigAtomic for the next kubeconfig of the CA
WriteKubeconfig ==
    /\ pc = "confs" /\ i <= Len(dependentKubeconfigs(AllCAs[ca]))
    /\ conf' = [conf EXCEPT ![dependentKubeconfigs(AllCAs[ca])[i]] = Issued(pki, AllCAs[ca])]
    /\ i' = i + 1
    /\ UNCHANGED <<now, pki, regen, pem, pc, ca, stale, cut>>

RegenerateCAReturns ==
    /\ pc = "confs" /\ i = Len(dependentKubeconfigs(AllCAs[ca])) + 1
    /\ pc' = "cas" /\ ca' = ca + 1 /\ i' = 1
    /\ cut' = (cut /\ ~HasKubeconfigs)
    /\ UNCHANGED <<now, pki, regen, conf, pem, stale>>

\* RemoveAll of the displaced directory or the writing of a kubeconfig fails
RegenerateCAFails ==
    /\ pc \in {"displaced", "confs"}
    /\ cut' = (cut \/ HasKubeconfigs)
    /\ Down
    /\ UNCHANGED <<now, pki, regen, conf, pem>>

CheckLeaves ==
    /\ pc = "cas" /\ ca = Len(AllCAs) + 1
    /\ stale' = StaleLeaves
    /\ pc' = "renew"
    /\ UNCHANGED <<now, pki, regen, conf, pem, ca, i, cut>>

\* RenewUsingLocalCA signs l with the CA that is on disk
Renew(l) ==
    \/ /\ l \in PKILeaves
       /\ pki' = [pki EXCEPT !.leaf[l] = Issued(pki, SignerOf(l))]
       /\ conf' = conf
    \/ /\ l \in ConfLeaves
       /\ conf' = [conf EXCEPT ![l] = Issued(pki, "ca")]
       /\ pki' = pki

\* RenewLeaves takes the stale leaves in the order of AllLeaves
RenewLeaf ==
    /\ pc = "renew"
    /\ \E k \in DOMAIN AllLeaves :
         /\ AllLeaves[k] \in stale
         /\ \A j \in 1..(k - 1) : AllLeaves[j] \notin stale
         /\ Renew(AllLeaves[k])
         /\ stale' = stale \ {AllLeaves[k]}
    /\ UNCHANGED <<now, regen, pem, pc, ca, i, cut>>

RenewFails ==
    /\ pc = "renew"
    /\ Down
    /\ UNCHANGED <<now, pki, regen, conf, pem, cut>>

RenewReturns ==
    /\ pc = "renew" /\ stale = {}
    /\ pc' = "finalize"
    /\ UNCHANGED <<now, pki, regen, conf, pem, ca, i, stale, cut>>

\* FinalizeKubeletKubeconfig, and the start of the kubelet right after it
FinalizeKubeletKubeconfig ==
    /\ pc = "finalize"
    /\ conf' = IF pem = NoPem THEN conf ELSE [conf EXCEPT !["kubelet.conf"] = PemReference]
    /\ pc' = "up"
    /\ UNCHANGED <<now, pki, regen, pem, ca, i, stale, cut>>

-----------------------------------------------------------------------------
(* The rest of the node *)

\* the CA generation that signed the credential the kubelet starts with
KubeletGen == IF conf["kubelet.conf"] = PemReference THEN pem ELSE conf["kubelet.conf"].gen

\* the kubelet gets a certificate through the CSR API, which trusts the CA on disk
KubeletCSR ==
    /\ pc = "up"
    /\ KubeletGen = pki.ca["ca"].gen
    /\ pem' = pki.ca["ca"].gen
    /\ UNCHANGED <<now, pki, regen, conf, proc, cut>>

\* `picokube kubeconfig super-admin` writes the file when there is none, keeps one
\* of the CA on disk, and is refused otherwise
SuperAdminCommand ==
    /\ pc \in {"down", "up"}
    /\ conf["super-admin.conf"] = NoFile
    /\ conf' = [conf EXCEPT !["super-admin.conf"] = Issued(pki, "ca")]
    /\ UNCHANGED <<now, pki, regen, pem, proc, cut>>

\* a reboot, a power loss or a kill
Crash ==
    /\ pc # "down"
    /\ cut' = (cut \/ (pc \in {"displaced", "confs"} /\ HasKubeconfigs))
    /\ Down
    /\ UNCHANGED <<now, pki, regen, conf, pem>>

Month ==
    /\ pc \in {"down", "up"}
    /\ now < MaxTime
    /\ now' = now + 1
    /\ UNCHANGED <<pki, regen, conf, pem, proc, cut>>

-----------------------------------------------------------------------------

Next ==
    \/ BootBegins \/ CAHealthy \/ StagePKI \/ StagingFails \/ SwapPKI \/ SwapUnsynced
    \/ RemoveDisplaced \/ WriteKubeconfig \/ RegenerateCAReturns \/ RegenerateCAFails
    \/ CheckLeaves \/ RenewLeaf \/ RenewFails \/ RenewReturns \/ FinalizeKubeletKubeconfig
    \/ KubeletCSR \/ SuperAdminCommand \/ Crash \/ Month

Spec == Init /\ [][Next]_vars

-----------------------------------------------------------------------------
(* Properties *)

TypeOK ==
    /\ now \in 0..MaxTime
    /\ pki \in PKI
    /\ regen \in PKI
    /\ conf \in [Kubeconfigs -> Cert]
    /\ pem \in Nat
    /\ pc \in PCs
    /\ ca \in 1..(Len(AllCAs) + 1)
    /\ pc \in {"swap", "displaced", "confs"} => ca <= Len(AllCAs)
    /\ i \in 1..5
    /\ stale \subseteq LeafKinds
    /\ cut \in BOOLEAN

\* Every leaf under /etc/kubernetes/pki is signed by the CA that is next to it, at
\* every moment of a rotation and after any crash or error (RegenerateCA's CR2: a
\* failure must not leave "the node bricked").
PKIChains == \A l \in PKILeaves : pki.leaf[l].gen = pki.ca[SignerOf(l)].gen

\* No leaf is valid for longer than the CA that signed it, although leaves are
\* renewed years after the CA was made: rotateCertsIfStale looks at the CAs first,
\* with the larger threshold.
NoLeafOutlivesItsCA == \A l \in PKILeaves : pki.leaf[l].notAfter <= pki.ca[SignerOf(l)].notAfter

\* The kubelet is only started once no certificate is close to its end, however
\* many earlier passes were cut short.
StartsFresh ==
    pc = "finalize" =>
        /\ \A c \in CAKinds : ~CAStale(c)
        /\ \A l \in LeafKinds : CertOf(l) # NoFile => ~NeedsRotation(CertOf(l), LeafValidity)

ControlPlaneConfs == {"admin.conf", "controller-manager.conf", "scheduler.conf"}

\* Unless the last RegenerateCA of the cluster CA was cut short after the exchange of
\* the directories, every boot starts the control plane with kubeconfigs signed by the
\* CA on disk, whatever failed before an exchange, in the rotation of the other CAs or
\* during renewals; a later one that completes repairs what an earlier one left.
KubeconfigsChain ==
    ~cut /\ pc \in {"finalize", "up"} =>
        \A k \in ControlPlaneConfs : conf[k].gen = pki.ca["ca"].gen

\* The same without the exception: RegenerateCA's comment says of a crash in its
\* kubeconfig loop that a mix of old and new kubeconfigs is healed by the next boot.
NextBootHealsKubeconfigs ==
    pc \in {"finalize", "up"} =>
        \A k \in ControlPlaneConfs : conf[k].gen = pki.ca["ca"].gen

\* The kubelet starts with a credential that the CA on disk has signed
\* (dependentLeaves' comment: CA rotation must rewrite kubelet.conf, as "CSR
\* rotation can't run without a valid bootstrap cred").
KubeletCanConnect == pc = "up" => KubeletGen = pki.ca["ca"].gen
=============================================================================
