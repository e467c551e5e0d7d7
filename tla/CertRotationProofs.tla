------------------------ MODULE CertRotationProofs ------------------------
(***************************************************************************)
(* What CertRotation keeps for every lifetime and threshold that satisfies *)
(* its assumptions, with crashes and errors between any two steps.         *)
(***************************************************************************)
EXTENDS CertRotation, TLAPS

\* The lists of CAs and leaves enumerate their sets, and each leaf that
\* dependentLeaves names for a CA is one that CA signs.
LEMMA KindFacts ==
    /\ Len(AllCAs) = 3
    /\ \A c \in 1..3 : AllCAs[c] \in CAKinds
    /\ \A c \in CAKinds : \E n \in 1..3 : AllCAs[n] = c
    /\ \A m, n \in 1..3 : AllCAs[m] = AllCAs[n] => m = n
    /\ \A k \in DOMAIN AllLeaves : AllLeaves[k] \in LeafKinds
    /\ \A l \in PKILeaves : SignerOf(l) \in CAKinds
  <1>1. /\ Len(AllCAs) = 3
        /\ \A c \in 1..3 : AllCAs[c] \in CAKinds
        /\ \A c \in CAKinds : \E n \in 1..3 : AllCAs[n] = c
        /\ \A m, n \in 1..3 : AllCAs[m] = AllCAs[n] => m = n
    BY DEF AllCAs, CAKinds
  <1>2. \A k \in DOMAIN AllLeaves : AllLeaves[k] \in LeafKinds
    BY DEF AllLeaves, LeafKinds, PKILeaves, ConfLeaves
  <1>3. \A l \in PKILeaves : SignerOf(l) \in CAKinds
    BY DEF SignerOf, PKILeaves, CAKinds
  <1>4. QED  BY <1>1, <1>2, <1>3

\* dependentLeaves is the inverse of SignerOf.
LEMMA DependentFacts ==
    \A c \in CAKinds : \A l \in PKILeaves : l \in dependentLeaves(c) <=> SignerOf(l) = c
  BY DEF dependentLeaves, SignerOf, CAKinds, PKILeaves

\* Only the cluster CA has kubeconfigs, and there are four of them.
LEMMA ConfFacts ==
    \A c \in CAKinds :
        /\ Len(dependentKubeconfigs(c)) \in {0, 4}
        /\ Len(dependentKubeconfigs(c)) = 4 <=> c = "ca"
        /\ \A n \in 1..Len(dependentKubeconfigs(c)) : dependentKubeconfigs(c)[n] \in Kubeconfigs
  BY DEF dependentKubeconfigs, CAKinds, Kubeconfigs, ConfLeaves

\* What RegenerateCA puts into the staging directory: a new generation of one CA
\* and of its leaves, and everything else as it was.
LEMMA RegeneratedFacts ==
    ASSUME pki \in PKI, now \in Nat, NEW c \in CAKinds
    PROVE  /\ Regenerated(c) \in PKI
           /\ Regenerated(c).ca[c] = [gen |-> pki.ca[c].gen + 1, notAfter |-> now + CAValidity]
           /\ \A d \in CAKinds \ {c} : Regenerated(c).ca[d] = pki.ca[d]
           /\ \A l \in PKILeaves : Regenerated(c).leaf[l] =
                IF SignerOf(l) = c
                THEN [gen |-> pki.ca[c].gen + 1, notAfter |-> now + LeafValidity]
                ELSE pki.leaf[l]
  <1> DEFINE made == [gen |-> pki.ca[c].gen + 1, notAfter |-> now + CAValidity]
             renewed == [pki EXCEPT !.ca[c] = made]
             leaves == [l \in PKILeaves |->
                          IF l \in dependentLeaves(c) THEN Issued(renewed, c) ELSE pki.leaf[l]]
  <1>1. /\ pki.ca \in [CAKinds -> Cert]
        /\ pki.leaf \in [PKILeaves -> Cert]
        /\ pki = [ca |-> pki.ca, leaf |-> pki.leaf]
    BY DEF PKI
  <1>2. made \in Cert
    BY <1>1, TimeAssumption DEF Cert
  <1>3. /\ renewed = [ca |-> [pki.ca EXCEPT ![c] = made], leaf |-> pki.leaf]
        /\ [pki.ca EXCEPT ![c] = made] \in [CAKinds -> Cert]
        /\ renewed.ca[c] = made
    BY <1>1, <1>2
  <1>4. Issued(renewed, c) = [gen |-> pki.ca[c].gen + 1, notAfter |-> now + LeafValidity]
    BY <1>3 DEF Issued
  <1>5. Issued(renewed, c) \in Cert
    BY <1>1, <1>4, TimeAssumption DEF Cert
  <1>6. leaves \in [PKILeaves -> Cert]
    BY <1>1, <1>5
  <1>7. Regenerated(c) = [ca |-> [pki.ca EXCEPT ![c] = made], leaf |-> leaves]
    <2>1. Regenerated(c) = [renewed EXCEPT !.leaf = leaves]
      BY Zenon DEF Regenerated
    <2>2. QED  BY <1>3, <2>1
  <1>8. Regenerated(c) \in PKI
    BY <1>3, <1>6, <1>7 DEF PKI
  <1>9. \A l \in PKILeaves : Regenerated(c).leaf[l] =
          IF SignerOf(l) = c
          THEN [gen |-> pki.ca[c].gen + 1, notAfter |-> now + LeafValidity]
          ELSE pki.leaf[l]
    BY <1>4, <1>7, DependentFacts
  <1>10. QED  BY <1>1, <1>7, <1>8, <1>9

-----------------------------------------------------------------------------
(* Type correctness *)

\* A certificate that is issued now is a certificate.
LEMMA IssuedType ==
    ASSUME pki \in PKI, now \in Nat, NEW c \in CAKinds
    PROVE  /\ Issued(pki, c) \in Cert
           /\ Issued(pki, c).gen = pki.ca[c].gen
           /\ Issued(pki, c).notAfter = now + LeafValidity
  BY TimeAssumption DEF Issued, PKI, Cert

\* Every step keeps the type invariant.
LEMMA TypeStep == TypeOK /\ [Next]_vars => TypeOK'
  <1> SUFFICES ASSUME TypeOK, [Next]_vars PROVE TypeOK'
    OBVIOUS
  <1> USE KindFacts
  <1>1. CASE BootBegins
    BY <1>1 DEF TypeOK, BootBegins, PCs
  <1>2. CASE CAHealthy
    BY <1>2 DEF TypeOK, CAHealthy, PCs
  <1>3. CASE StagePKI
    <2>1. /\ pki \in PKI /\ now \in Nat /\ AllCAs[ca] \in CAKinds
      BY <1>3, TimeAssumption DEF TypeOK, StagePKI
    <2>2. regen' \in PKI
      BY <1>3, <2>1, RegeneratedFacts DEF StagePKI
    <2>3. QED  BY <1>3, <2>2 DEF TypeOK, StagePKI, PCs
  <1>4. CASE StagingFails
    <2>1. NoPKI \in PKI
      BY DEF NoPKI, PKI, Cert, NoFile
    <2>2. QED  BY <1>4, <2>1 DEF TypeOK, StagingFails, Down, PCs
  <1>5. CASE SwapPKI
    BY <1>5 DEF TypeOK, SwapPKI, PCs
  <1>6. CASE SwapUnsynced
    <2>1. NoPKI \in PKI
      BY DEF NoPKI, PKI, Cert, NoFile
    <2>2. QED  BY <1>6, <2>1 DEF TypeOK, SwapUnsynced, Down, PCs
  <1>7. CASE RemoveDisplaced
    <2>1. NoPKI \in PKI
      BY DEF NoPKI, PKI, Cert, NoFile
    <2>2. QED  BY <1>7, <2>1 DEF TypeOK, RemoveDisplaced, PCs
  <1>8. CASE WriteKubeconfig
    <2>1. /\ pki \in PKI /\ now \in Nat /\ AllCAs[ca] \in CAKinds
      BY <1>8, TimeAssumption DEF TypeOK, WriteKubeconfig
    <2>2. /\ Len(dependentKubeconfigs(AllCAs[ca])) \in {0, 4}
          /\ i \in 1..Len(dependentKubeconfigs(AllCAs[ca]))
      BY <1>8, <2>1, ConfFacts DEF WriteKubeconfig, TypeOK
    <2>3. conf' \in [Kubeconfigs -> Cert]
      BY <1>8, <2>1, <2>2, ConfFacts, IssuedType DEF WriteKubeconfig, TypeOK
    <2>4. i' \in 1..5
      BY <1>8, <2>2 DEF WriteKubeconfig, TypeOK
    <2>5. QED  BY <1>8, <2>3, <2>4 DEF TypeOK, WriteKubeconfig, PCs
  <1>9. CASE RegenerateCAReturns
    BY <1>9 DEF TypeOK, RegenerateCAReturns, PCs
  <1>10. CASE RegenerateCAFails
    BY <1>10 DEF TypeOK, RegenerateCAFails, Down, PCs
  <1>11. CASE CheckLeaves
    BY <1>11 DEF TypeOK, CheckLeaves, StaleLeaves, PCs
  <1>12. CASE RenewLeaf
    <2>1. PICK k \in DOMAIN AllLeaves : /\ Renew(AllLeaves[k])
                                        /\ stale' = stale \ {AllLeaves[k]}
      BY <1>12 DEF RenewLeaf
    <2>2. pki \in PKI /\ now \in Nat /\ "ca" \in CAKinds
      BY TimeAssumption DEF TypeOK, CAKinds
    <2>3. CASE /\ AllLeaves[k] \in PKILeaves
               /\ pki' = [pki EXCEPT !.leaf[AllLeaves[k]] = Issued(pki, SignerOf(AllLeaves[k]))]
               /\ conf' = conf
      <3>1. Issued(pki, SignerOf(AllLeaves[k])) \in Cert
        BY <2>2, <2>3, IssuedType
      <3>2. pki' \in PKI
        BY <2>2, <2>3, <3>1 DEF PKI
      <3>3. QED  BY <1>12, <2>1, <2>3, <3>2 DEF TypeOK, RenewLeaf
    <2>4. CASE /\ AllLeaves[k] \in ConfLeaves
               /\ conf' = [conf EXCEPT ![AllLeaves[k]] = Issued(pki, "ca")]
               /\ pki' = pki
      <3>1. Issued(pki, "ca") \in Cert
        BY <2>2, IssuedType
      <3>2. conf' \in [Kubeconfigs -> Cert]
        BY <2>4, <3>1 DEF TypeOK, Kubeconfigs
      <3>3. QED  BY <1>12, <2>1, <2>4, <3>2 DEF TypeOK, RenewLeaf
    <2>5. QED  BY <2>1, <2>3, <2>4 DEF Renew
  <1>13. CASE RenewFails
    BY <1>13 DEF TypeOK, RenewFails, Down, PCs
  <1>14. CASE RenewReturns
    BY <1>14 DEF TypeOK, RenewReturns, PCs
  <1>15. CASE FinalizeKubeletKubeconfig
    <2>1. conf' \in [Kubeconfigs -> Cert]
      BY <1>15 DEF TypeOK, FinalizeKubeletKubeconfig, PemReference, Cert
    <2>2. QED  BY <1>15, <2>1 DEF TypeOK, FinalizeKubeletKubeconfig, PCs
  <1>16. CASE KubeletCSR
    <2>1. pki.ca["ca"].gen \in Nat
      BY DEF TypeOK, PKI, Cert, CAKinds
    <2>2. QED  BY <1>16, <2>1 DEF TypeOK, KubeletCSR, proc
  <1>17. CASE SuperAdminCommand
    <2>1. Issued(pki, "ca") \in Cert
      BY IssuedType, TimeAssumption DEF TypeOK, CAKinds
    <2>2. conf' \in [Kubeconfigs -> Cert]
      BY <1>17, <2>1 DEF TypeOK, SuperAdminCommand
    <2>3. QED  BY <1>17, <2>2 DEF TypeOK, SuperAdminCommand, proc
  <1>18. CASE Crash
    BY <1>18 DEF TypeOK, Crash, Down, PCs
  <1>19. CASE Month
    BY <1>19, TimeAssumption DEF TypeOK, Month, proc
  <1>20. CASE UNCHANGED vars
    BY <1>20 DEF TypeOK, vars, proc
  <1>21. QED
    BY <1>1, <1>2, <1>3, <1>4, <1>5, <1>6, <1>7, <1>8, <1>9, <1>10, <1>11, <1>12, <1>13,
       <1>14, <1>15, <1>16, <1>17, <1>18, <1>19, <1>20 DEF Next

\* The type invariant holds initially.
LEMMA TypeInit == Init => TypeOK
  <1> SUFFICES ASSUME Init PROVE TypeOK
    OBVIOUS
  <1> DEFINE leaf == [gen |-> 1, notAfter |-> LeafValidity]
  <1>1. /\ leaf \in Cert /\ NoFile \in Cert /\ PemReference \in Cert
        /\ [gen |-> 1, notAfter |-> CAValidity] \in Cert
    BY TimeAssumption DEF Cert, NoFile, PemReference
  <1>2. pki \in PKI
    BY <1>1 DEF Init, PKI
  <1>3. regen \in PKI
    BY <1>1 DEF Init, NoPKI, PKI
  <1>4. conf \in [Kubeconfigs -> Cert] /\ pem \in Nat
    BY <1>1 DEF Init, NoPem
  <1>5. cut \in BOOLEAN
    BY Zenon DEF Init
  <1>6. QED  BY <1>2, <1>3, <1>4, <1>5, KindFacts, TimeAssumption DEF Init, TypeOK, PCs

\* The types of CertRotation, for all lifetimes and with interruptions anywhere.
THEOREM TypeCorrect == Spec => []TypeOK
  BY TypeInit, TypeStep, PTL DEF Spec

-----------------------------------------------------------------------------
(* The rotation pass.  The chains of the live PKI directory rest on what the *)
(* staging directory holds when it is exchanged; that no leaf outlives its   *)
(* CA rests on the CAs already visited by this pass being fresh.             *)

StagedInv == pc = "swap" => regen = Regenerated(AllCAs[ca])

VisitedInv ==
    /\ pc \in {"cas", "swap", "displaced", "confs"} =>
         \A n \in 1..3 : n < ca => ~CAStale(AllCAs[n])
    /\ pc \in {"displaced", "confs"} => ~CAStale(AllCAs[ca])
    /\ pc \in {"renew", "finalize"} => \A c \in CAKinds : ~CAStale(c)

RenewedInv ==
    pc \in {"renew", "finalize"} =>
        \A l \in LeafKinds : \/ pc = "renew" /\ l \in stale
                             \/ CertOf(l) = NoFile
                             \/ ~NeedsRotation(CertOf(l), LeafValidity)

RotationInv == TypeOK /\ PKIChains /\ NoLeafOutlivesItsCA /\ StagedInv /\ VisitedInv /\ RenewedInv

\* A certificate with a lifetime ahead of it that is no shorter than its threshold
\* is fresh, and a CA that is fresh has a leaf's lifetime ahead of it.
LEMMA Freshness ==
    ASSUME TypeOK
    PROVE  /\ \A c \in Cert : c.notAfter = now + LeafValidity => ~NeedsRotation(c, LeafValidity)
           /\ \A c \in Cert : c.notAfter = now + CAValidity => ~NeedsRotation(c, CAValidity)
           /\ \A c \in Cert : ~NeedsRotation(c, CAValidity) => now + LeafValidity <= c.notAfter
  <1>1. now \in Nat /\ \A c \in Cert : c.notAfter \in Nat
    BY TimeAssumption DEF TypeOK, Cert
  <1>2. QED  BY <1>1, TimeAssumption, LifetimeAssumption DEF NeedsRotation

\* The exchange of the directories keeps every chain, and makes the CA fresh.
LEMMA Exchange ==
    ASSUME RotationInv, pc = "swap", pki' = regen, now' = now
    PROVE  /\ PKIChains' /\ NoLeafOutlivesItsCA'
           /\ \A n \in 1..3 : n <= ca => ~CAStale(AllCAs[n])'
  <1>1. /\ pki \in PKI /\ now \in Nat /\ ca \in 1..3 /\ AllCAs[ca] \in CAKinds
    BY KindFacts, TimeAssumption DEF RotationInv, TypeOK
  <1> DEFINE c == AllCAs[ca]
  <1>2. /\ pki' \in PKI
        /\ pki'.ca[c] = [gen |-> pki.ca[c].gen + 1, notAfter |-> now + CAValidity]
        /\ \A d \in CAKinds \ {c} : pki'.ca[d] = pki.ca[d]
        /\ \A l \in PKILeaves : pki'.leaf[l] =
             IF SignerOf(l) = c
             THEN [gen |-> pki.ca[c].gen + 1, notAfter |-> now + LeafValidity]
             ELSE pki.leaf[l]
    BY <1>1, RegeneratedFacts DEF RotationInv, StagedInv
  <1>3. PKIChains'
    <2> SUFFICES ASSUME NEW l \in PKILeaves PROVE pki'.leaf[l].gen = pki'.ca[SignerOf(l)].gen
      BY DEF PKIChains
    <2>1. CASE SignerOf(l) = c
      BY <1>2, <2>1
    <2>2. CASE SignerOf(l) # c
      BY <1>2, <2>2, KindFacts DEF RotationInv, PKIChains
    <2>3. QED  BY <2>1, <2>2
  <1>4. NoLeafOutlivesItsCA'
    <2> SUFFICES ASSUME NEW l \in PKILeaves
                 PROVE  pki'.leaf[l].notAfter <= pki'.ca[SignerOf(l)].notAfter
      BY DEF NoLeafOutlivesItsCA
    <2>1. CASE SignerOf(l) = c
      BY <1>1, <1>2, <2>1, TimeAssumption, LifetimeAssumption
    <2>2. CASE SignerOf(l) # c
      BY <1>2, <2>2, KindFacts DEF RotationInv, NoLeafOutlivesItsCA
    <2>3. QED  BY <2>1, <2>2
  <1>5. ASSUME NEW n \in 1..3, n <= ca PROVE ~CAStale(AllCAs[n])'
    <2>1. CASE n = ca
      <3>1. pki'.ca[c] \in Cert /\ pki'.ca[c].notAfter = now + CAValidity
        BY <1>1, <1>2 DEF PKI
      <3>2. ~NeedsRotation(pki'.ca[c], CAValidity)
        BY <3>1, Freshness DEF RotationInv
      <3>3. QED  BY <2>1, <3>2 DEF CAStale, NeedsRotation
    <2>2. CASE n # ca
      <3>1. AllCAs[n] \in CAKinds \ {c} /\ n < ca
        BY <1>1, <1>5, <2>2, KindFacts
      <3>2. ~CAStale(AllCAs[n])
        BY <3>1 DEF RotationInv, VisitedInv
      <3>3. QED  BY <1>2, <3>1, <3>2 DEF CAStale, NeedsRotation
    <2>3. QED  BY <2>1, <2>2
  <1>6. QED  BY <1>3, <1>4, <1>5

\* The steps that leave the PKI directory and the clock alone keep its chains.
LEMMA Untouched ==
    ASSUME UNCHANGED pki PROVE (PKIChains <=> PKIChains') /\ (NoLeafOutlivesItsCA <=> NoLeafOutlivesItsCA')
  BY DEF PKIChains, NoLeafOutlivesItsCA

\* No step breaks the rotation invariant.
LEMMA RotationStep == RotationInv /\ [Next]_vars => RotationInv'
  <1> SUFFICES ASSUME RotationInv, [Next]_vars PROVE RotationInv'
    OBVIOUS
  <1>t. TypeOK /\ TypeOK'
    BY TypeStep DEF RotationInv
  <1> USE KindFacts
  <1>d. ASSUME Down, UNCHANGED pki PROVE RotationInv'
    BY <1>d, <1>t, Untouched DEF RotationInv, Down, StagedInv, VisitedInv, RenewedInv
  <1>1. CASE BootBegins
    BY <1>1, <1>t, Untouched DEF RotationInv, BootBegins, StagedInv, VisitedInv, RenewedInv
  <1>2. CASE CAHealthy
    <2>1. VisitedInv'
      BY <1>2, <1>t DEF RotationInv, CAHealthy, VisitedInv, TypeOK, CAStale, NeedsRotation
    <2>2. QED
      BY <1>2, <1>t, <2>1, Untouched DEF RotationInv, CAHealthy, StagedInv, RenewedInv
  <1>3. CASE StagePKI
    <2>1. StagedInv'
      BY <1>3 DEF StagePKI, StagedInv, Regenerated, Issued
    <2>2. VisitedInv'
      BY <1>3, <1>t DEF RotationInv, StagePKI, VisitedInv, TypeOK, CAStale, NeedsRotation
    <2>3. QED
      BY <1>3, <1>t, <2>1, <2>2, Untouched DEF RotationInv, StagePKI, RenewedInv
  <1>4. CASE StagingFails
    BY <1>4, <1>d DEF StagingFails
  <1>5. CASE SwapPKI
    <2>1. /\ PKIChains' /\ NoLeafOutlivesItsCA'
          /\ \A n \in 1..3 : n <= ca => ~CAStale(AllCAs[n])'
      BY <1>5, Exchange DEF SwapPKI
    <2>2. ca \in 1..3 /\ ca' = ca /\ pc' = "displaced"
      BY <1>5, <1>t DEF SwapPKI, TypeOK
    <2>3. VisitedInv'
      BY <2>1, <2>2 DEF VisitedInv, CAStale
    <2>4. QED  BY <1>t, <2>1, <2>2, <2>3 DEF RotationInv, StagedInv, RenewedInv
  <1>6. CASE SwapUnsynced
    <2>1. PKIChains' /\ NoLeafOutlivesItsCA'
      BY <1>6, Exchange DEF SwapUnsynced
    <2>2. pc' = "down"
      BY <1>6 DEF SwapUnsynced, Down
    <2>3. QED  BY <1>t, <2>1, <2>2 DEF RotationInv, StagedInv, VisitedInv, RenewedInv
  <1>7. CASE RemoveDisplaced
    <2>1. VisitedInv'
      BY <1>7 DEF RotationInv, RemoveDisplaced, VisitedInv, CAStale, NeedsRotation
    <2>2. QED
      BY <1>7, <1>t, <2>1, Untouched DEF RotationInv, RemoveDisplaced, StagedInv, RenewedInv
  <1>8. CASE WriteKubeconfig
    <2>1. VisitedInv'
      BY <1>8 DEF RotationInv, WriteKubeconfig, VisitedInv, CAStale, NeedsRotation
    <2>2. QED
      BY <1>8, <1>t, <2>1, Untouched DEF RotationInv, WriteKubeconfig, StagedInv, RenewedInv
  <1>9. CASE RegenerateCAReturns
    <2>1. VisitedInv'
      BY <1>9, <1>t DEF RotationInv, RegenerateCAReturns, VisitedInv, TypeOK, CAStale, NeedsRotation
    <2>2. QED
      BY <1>9, <1>t, <2>1, Untouched DEF RotationInv, RegenerateCAReturns, StagedInv, RenewedInv
  <1>10. CASE RegenerateCAFails
    BY <1>10, <1>d DEF RegenerateCAFails
  <1>11. CASE CheckLeaves
    <2>1. \A c \in CAKinds : ~CAStale(c)
      BY <1>11, <1>t DEF RotationInv, CheckLeaves, VisitedInv, TypeOK
    <2>2. VisitedInv'
      BY <1>11, <2>1 DEF CheckLeaves, VisitedInv, CAStale, NeedsRotation
    <2>3. RenewedInv'
      BY <1>11 DEF CheckLeaves, RenewedInv, StaleLeaves, CertOf, NeedsRotation
    <2>4. QED
      BY <1>11, <1>t, <2>2, <2>3, Untouched DEF RotationInv, CheckLeaves, StagedInv
  <1>12. CASE RenewLeaf
    <2>1. PICK k \in DOMAIN AllLeaves : /\ Renew(AllLeaves[k])
                                        /\ stale' = stale \ {AllLeaves[k]}
      BY <1>12 DEF RenewLeaf
    <2> DEFINE l == AllLeaves[k]
    <2>2. /\ pki \in PKI /\ now \in Nat /\ "ca" \in CAKinds /\ l \in LeafKinds
          /\ pc = "renew" /\ pc' = "renew" /\ now' = now
      BY <1>12, <1>t, TimeAssumption DEF RenewLeaf, TypeOK, CAKinds
    <2>3. \A c \in CAKinds : /\ ~CAStale(c)
                             /\ pki.ca[c] \in Cert
                             /\ Issued(pki, c) \in Cert
                             /\ Issued(pki, c).gen = pki.ca[c].gen
                             /\ Issued(pki, c).notAfter <= pki.ca[c].notAfter
                             /\ ~NeedsRotation(Issued(pki, c), LeafValidity)
      BY <1>t, <2>2, IssuedType, Freshness DEF RotationInv, VisitedInv, CAStale, PKI
    <2>4. CASE /\ l \in PKILeaves
               /\ pki' = [pki EXCEPT !.leaf[l] = Issued(pki, SignerOf(l))]
               /\ conf' = conf
      <3>1. /\ pki'.ca = pki.ca
            /\ pki'.leaf = [pki.leaf EXCEPT ![l] = Issued(pki, SignerOf(l))]
            /\ pki.leaf \in [PKILeaves -> Cert]
            /\ SignerOf(l) \in CAKinds
        BY <2>2, <2>4 DEF PKI
      <3>2. PKIChains'
        BY <2>3, <3>1 DEF RotationInv, PKIChains
      <3>3. NoLeafOutlivesItsCA'
        BY <2>3, <3>1 DEF RotationInv, NoLeafOutlivesItsCA
      <3>4. VisitedInv'
        BY <2>2, <2>3, <3>1 DEF VisitedInv, CAStale, NeedsRotation
      <3>5. RenewedInv'
        <4> SUFFICES ASSUME NEW m \in LeafKinds, m \notin stale', CertOf(m)' # NoFile
                     PROVE  ~NeedsRotation(CertOf(m), LeafValidity)'
          BY <2>2 DEF RenewedInv
        <4>1. CASE m = l
          BY <2>2, <2>3, <2>4, <3>1, <4>1 DEF CertOf, NeedsRotation
        <4>2. CASE m # l
          <5>1. CertOf(m)' = CertOf(m)
            BY <2>4, <3>1, <4>2 DEF CertOf
          <5>2. ~NeedsRotation(CertOf(m), LeafValidity)
            BY <2>1, <2>2, <4>2, <5>1 DEF RotationInv, RenewedInv
          <5>3. QED  BY <2>2, <5>1, <5>2 DEF NeedsRotation
        <4>3. QED  BY <4>1, <4>2
      <3>6. QED  BY <1>t, <2>2, <3>2, <3>3, <3>4, <3>5 DEF RotationInv, StagedInv
    <2>5. CASE /\ l \in ConfLeaves
               /\ conf' = [conf EXCEPT ![l] = Issued(pki, "ca")]
               /\ pki' = pki
      <3>1. /\ l \notin PKILeaves /\ conf \in [Kubeconfigs -> Cert] /\ l \in Kubeconfigs
        BY <1>t, <2>5 DEF ConfLeaves, PKILeaves, TypeOK, Kubeconfigs
      <3>2. VisitedInv'
        BY <2>2, <2>3, <2>5 DEF VisitedInv, CAStale, NeedsRotation
      <3>3. RenewedInv'
        <4> SUFFICES ASSUME NEW m \in LeafKinds, m \notin stale', CertOf(m)' # NoFile
                     PROVE  ~NeedsRotation(CertOf(m), LeafValidity)'
          BY <2>2 DEF RenewedInv
        <4>1. CASE m = l
          BY <2>2, <2>3, <2>5, <3>1, <4>1 DEF CertOf, NeedsRotation
        <4>2. CASE m # l
          <5>1. CertOf(m)' = CertOf(m)
            BY <2>5, <3>1, <4>2 DEF CertOf
          <5>2. ~NeedsRotation(CertOf(m), LeafValidity)
            BY <2>1, <2>2, <4>2, <5>1 DEF RotationInv, RenewedInv
          <5>3. QED  BY <2>2, <5>1, <5>2 DEF NeedsRotation
        <4>3. QED  BY <4>1, <4>2
      <3>4. QED  BY <1>t, <2>2, <2>5, <3>2, <3>3, Untouched DEF RotationInv, StagedInv
    <2>6. QED  BY <2>1, <2>4, <2>5 DEF Renew
  <1>13. CASE RenewFails
    BY <1>13, <1>d DEF RenewFails
  <1>14. CASE RenewReturns
    <2>1. VisitedInv'
      BY <1>14 DEF RotationInv, RenewReturns, VisitedInv, CAStale, NeedsRotation
    <2>2. RenewedInv'
      BY <1>14 DEF RotationInv, RenewReturns, RenewedInv, CertOf, NeedsRotation
    <2>3. QED
      BY <1>14, <1>t, <2>1, <2>2, Untouched DEF RotationInv, RenewReturns, StagedInv
  <1>15. CASE FinalizeKubeletKubeconfig
    BY <1>15, <1>t, Untouched
       DEF RotationInv, FinalizeKubeletKubeconfig, StagedInv, VisitedInv, RenewedInv
  <1>16. CASE KubeletCSR
    BY <1>16, <1>t, Untouched
       DEF RotationInv, KubeletCSR, proc, StagedInv, VisitedInv, RenewedInv
  <1>17. CASE SuperAdminCommand
    BY <1>17, <1>t, Untouched
       DEF RotationInv, SuperAdminCommand, proc, StagedInv, VisitedInv, RenewedInv
  <1>18. CASE Crash
    BY <1>18, <1>d DEF Crash
  <1>19. CASE Month
    BY <1>19, <1>t, Untouched
       DEF RotationInv, Month, proc, StagedInv, VisitedInv, RenewedInv
  <1>20. CASE UNCHANGED vars
    <2>1. UNCHANGED <<now, pki, regen, conf, pc, ca, stale>>
      BY <1>20 DEF vars, proc
    <2>2. StagedInv'
      BY <2>1 DEF RotationInv, StagedInv, Regenerated, Issued
    <2>3. VisitedInv' /\ RenewedInv'
      BY <2>1 DEF RotationInv, VisitedInv, RenewedInv, CAStale, CertOf, NeedsRotation
    <2>4. QED  BY <1>t, <2>1, <2>2, <2>3, Untouched DEF RotationInv
  <1>21. QED
    BY <1>1, <1>2, <1>3, <1>4, <1>5, <1>6, <1>7, <1>8, <1>9, <1>10, <1>11, <1>12, <1>13,
       <1>14, <1>15, <1>16, <1>17, <1>18, <1>19, <1>20 DEF Next

\* The rotation invariant holds initially.
LEMMA RotationInit == Init => RotationInv
  <1> SUFFICES ASSUME Init PROVE RotationInv
    OBVIOUS
  <1>1. TypeOK
    BY TypeInit
  <1>2. /\ \A l \in PKILeaves : pki.leaf[l] = [gen |-> 1, notAfter |-> LeafValidity]
        /\ \A c \in CAKinds : pki.ca[c] = [gen |-> 1, notAfter |-> CAValidity]
        /\ pc = "down"
    BY DEF Init
  <1>3. PKIChains
    BY <1>2, KindFacts DEF PKIChains
  <1>4. NoLeafOutlivesItsCA
    BY <1>2, KindFacts, TimeAssumption, LifetimeAssumption DEF NoLeafOutlivesItsCA
  <1>5. QED  BY <1>1, <1>2, <1>3, <1>4 DEF RotationInv, StagedInv, VisitedInv, RenewedInv

\* The rotation invariant is invariant.
LEMMA RotationInvariant == Spec => []RotationInv
  BY RotationInit, RotationStep, PTL DEF Spec

\* Whatever is interrupted, every leaf in the PKI directory is signed by the CA
\* next to it.
THEOREM ChainsAlways == Spec => []PKIChains
  <1>1. RotationInv => PKIChains
    BY DEF RotationInv
  <1>2. QED  BY <1>1, RotationInvariant, PTL

\* With the lifetimes assumed, no leaf is valid for longer than its CA.
THEOREM LeavesEndFirst == Spec => []NoLeafOutlivesItsCA
  <1>1. RotationInv => NoLeafOutlivesItsCA
    BY DEF RotationInv
  <1>2. QED  BY <1>1, RotationInvariant, PTL

\* The kubelet is only started when no certificate is due for rotation.
THEOREM FreshAtStart == Spec => []StartsFresh
  <1>1. RotationInv => StartsFresh
    BY DEF RotationInv, VisitedInv, RenewedInv, StartsFresh
  <1>2. QED  BY <1>1, RotationInvariant, PTL

-----------------------------------------------------------------------------
(* The kubeconfigs follow the cluster CA unless its last RegenerateCA was    *)
(* cut short once it had exchanged the directories; one that completes has   *)
(* rewritten them all, whatever they were before.                            *)

ConfsInv ==
    /\ ~cut => \/ pc \in {"displaced", "confs"} /\ AllCAs[ca] = "ca"
               \/ \A k \in ControlPlaneConfs : conf[k].gen = pki.ca["ca"].gen
    /\ pc = "confs" /\ AllCAs[ca] = "ca" =>
         \A n \in 1..4 : n < i => conf[dependentKubeconfigs("ca")[n]].gen = pki.ca["ca"].gen

\* The steps that change neither a kubeconfig of the control plane nor the cluster
\* CA, outside the rewriting loop, keep ConfsInv.
LEMMA ConfsUntouched ==
    ASSUME ConfsInv, pc \notin {"displaced", "confs"}, pc' \notin {"displaced", "confs"}, cut => cut',
           \A k \in ControlPlaneConfs : conf'[k] = conf[k],
           pki'.ca["ca"] = pki.ca["ca"]
    PROVE  ConfsInv'
  BY DEF ConfsInv

\* The cluster CA is the one that has kubeconfigs.
LEMMA HasKubeconfigsFacts ==
    ASSUME ca \in 1..3 PROVE HasKubeconfigs <=> AllCAs[ca] = "ca"
  BY KindFacts, ConfFacts DEF HasKubeconfigs, dependentKubeconfigs

\* The exchange of the directories leaves the other CAs as they were.
LEMMA ClusterCAKept ==
    ASSUME RotationInv, pc = "swap", pki' = regen, AllCAs[ca] # "ca"
    PROVE  pki'.ca["ca"] = pki.ca["ca"]
  <1>1. /\ ca \in 1..3 /\ AllCAs[ca] \in CAKinds /\ "ca" \in CAKinds
        /\ pki \in PKI /\ now \in Nat /\ pki' = Regenerated(AllCAs[ca])
    BY KindFacts, TimeAssumption DEF RotationInv, TypeOK, StagedInv, CAKinds
  <1>2. \A d \in CAKinds \ {AllCAs[ca]} : Regenerated(AllCAs[ca]).ca[d] = pki.ca[d]
    BY <1>1, RegeneratedFacts
  <1>3. QED  BY <1>1, <1>2, Zenon

\* Every step keeps ConfsInv: the steps that would break it set cut.
LEMMA ConfsStep ==
    ASSUME RotationInv, ConfsInv, [Next]_vars
    PROVE  ConfsInv'
  <1>t. TypeOK
    BY DEF RotationInv
  <1>k. /\ conf \in [Kubeconfigs -> Cert] /\ "ca" \in CAKinds /\ pki \in PKI /\ now \in Nat
        /\ ControlPlaneConfs \subseteq Kubeconfigs
    BY <1>t, TimeAssumption DEF TypeOK, CAKinds, ControlPlaneConfs, Kubeconfigs, ConfLeaves
  <1> USE KindFacts
  <1>1. CASE BootBegins
    BY <1>1, ConfsUntouched DEF BootBegins
  <1>2. CASE CAHealthy
    BY <1>2, ConfsUntouched DEF CAHealthy
  <1>3. CASE StagePKI
    BY <1>3, ConfsUntouched DEF StagePKI
  <1>4. CASE StagingFails
    BY <1>4, ConfsUntouched DEF StagingFails, Down
  <1>5. CASE SwapPKI
    <2>1. ca' = ca /\ conf' = conf /\ pc' = "displaced" /\ cut' = cut /\ pc = "swap"
      BY <1>5 DEF SwapPKI
    <2>2. CASE AllCAs[ca] = "ca"
      BY <2>1, <2>2 DEF ConfsInv
    <2>3. CASE AllCAs[ca] # "ca"
      <3>1. pki'.ca["ca"] = pki.ca["ca"]
        BY <1>5, <2>3, ClusterCAKept DEF SwapPKI
      <3>2. QED  BY <2>1, <2>3, <3>1 DEF ConfsInv
    <2>4. QED  BY <2>2, <2>3
  <1>6. CASE SwapUnsynced
    <2>1. /\ conf' = conf /\ pc' = "down" /\ pc = "swap" /\ ca \in 1..3
          /\ cut' = (cut \/ HasKubeconfigs)
      BY <1>6, <1>t DEF SwapUnsynced, Down, TypeOK
    <2>2. CASE AllCAs[ca] = "ca"
      BY <2>1, <2>2, HasKubeconfigsFacts DEF ConfsInv
    <2>3. CASE AllCAs[ca] # "ca"
      <3>1. pki'.ca["ca"] = pki.ca["ca"]
        BY <1>6, <2>3, ClusterCAKept DEF SwapUnsynced
      <3>2. QED  BY <2>1, <2>3, <3>1 DEF ConfsInv
    <2>4. QED  BY <2>2, <2>3
  <1>7. CASE RemoveDisplaced
    <2>1. /\ pc = "displaced" /\ pc' = "confs" /\ i' = 1 /\ UNCHANGED <<conf, pki, ca, cut>>
      BY <1>7 DEF RemoveDisplaced
    <2>2. \A n \in 1..4 : ~(n < i')
      BY <2>1
    <2>3. QED  BY <2>1, <2>2 DEF ConfsInv
  <1>8. CASE WriteKubeconfig
    <2>1. /\ pc = "confs" /\ pc' = "confs" /\ i' = i + 1 /\ UNCHANGED <<pki, ca, cut>>
          /\ i \in 1..5 /\ ca \in 1..3 /\ AllCAs[ca] \in CAKinds
          /\ i <= Len(dependentKubeconfigs(AllCAs[ca]))
          /\ conf' = [conf EXCEPT ![dependentKubeconfigs(AllCAs[ca])[i]] = Issued(pki, AllCAs[ca])]
      BY <1>8, <1>t DEF WriteKubeconfig, TypeOK
    <2>2. AllCAs[ca] = "ca" /\ i \in 1..4
      BY <2>1, ConfFacts
    <2>3. \A n \in 1..4 : dependentKubeconfigs("ca")[n] \in Kubeconfigs
      BY <1>k, ConfFacts
    <2>4. ASSUME NEW n \in 1..4, n < i'
          PROVE  conf'[dependentKubeconfigs("ca")[n]].gen = pki.ca["ca"].gen
      <3>1. Issued(pki, "ca").gen = pki.ca["ca"].gen
        BY <1>k, IssuedType
      <3>2. CASE n = i
        BY <1>k, <2>1, <2>2, <2>3, <3>1, <3>2
      <3>3. CASE n # i
        <4>1. conf[dependentKubeconfigs("ca")[n]].gen = pki.ca["ca"].gen
          BY <2>1, <2>2, <2>4, <3>3 DEF ConfsInv
        <4>2. QED  BY <1>k, <2>1, <2>2, <2>3, <3>1, <4>1
      <3>4. QED  BY <3>2, <3>3
    <2>5. QED  BY <2>1, <2>2, <2>4 DEF ConfsInv
  <1>9. CASE RegenerateCAReturns
    <2>1. /\ pc = "confs" /\ pc' = "cas" /\ UNCHANGED <<pki, conf>>
          /\ i = Len(dependentKubeconfigs(AllCAs[ca])) + 1
          /\ ca \in 1..3 /\ AllCAs[ca] \in CAKinds
      BY <1>9, <1>t DEF RegenerateCAReturns, TypeOK
    <2>2. CASE AllCAs[ca] = "ca"
      <3>a. Len(dependentKubeconfigs("ca")) = 4
        BY <1>k, ConfFacts
      <3>b. i = 4 + 1
        BY <2>1, <2>2, <3>a, Zenon
      <3>1. i = 5
        BY <3>b
      <3>2. \A n \in 1..4 : conf[dependentKubeconfigs("ca")[n]].gen = pki.ca["ca"].gen
        BY <2>1, <2>2, <3>1 DEF ConfsInv
      <3>3. \A k \in ControlPlaneConfs : \E n \in 1..4 : dependentKubeconfigs("ca")[n] = k
        <4>1. /\ dependentKubeconfigs("ca")[1] = "admin.conf"
              /\ dependentKubeconfigs("ca")[2] = "controller-manager.conf"
              /\ dependentKubeconfigs("ca")[3] = "scheduler.conf"
          BY DEF dependentKubeconfigs
        <4>2. QED  BY <4>1 DEF ControlPlaneConfs
      <3>4. QED  BY <2>1, <3>2, <3>3 DEF ConfsInv
    <2>3. CASE AllCAs[ca] # "ca"
      BY <1>9, <2>1, <2>3, HasKubeconfigsFacts DEF RegenerateCAReturns, ConfsInv
    <2>4. QED  BY <2>2, <2>3
  <1>10. CASE RegenerateCAFails
    <2>1. /\ UNCHANGED <<conf, pki>> /\ pc' = "down" /\ ca \in 1..3
          /\ cut' = (cut \/ HasKubeconfigs)
      BY <1>10, <1>t DEF RegenerateCAFails, Down, TypeOK
    <2>2. QED  BY <2>1, HasKubeconfigsFacts DEF ConfsInv
  <1>11. CASE CheckLeaves
    BY <1>11, ConfsUntouched DEF CheckLeaves
  <1>12. CASE RenewLeaf
    <2>1. PICK k \in DOMAIN AllLeaves : Renew(AllLeaves[k])
      BY <1>12 DEF RenewLeaf
    <2>2. pc = "renew" /\ pc' = "renew" /\ cut' = cut
      BY <1>12 DEF RenewLeaf
    <2>3. CASE /\ AllLeaves[k] \in PKILeaves
               /\ pki' = [pki EXCEPT !.leaf[AllLeaves[k]] = Issued(pki, SignerOf(AllLeaves[k]))]
               /\ conf' = conf
      <3>1. pki'.ca = pki.ca
        BY <1>k, <2>3 DEF PKI
      <3>2. QED  BY <2>2, <2>3, <3>1, ConfsUntouched
    <2>4. CASE /\ AllLeaves[k] \in ConfLeaves
               /\ conf' = [conf EXCEPT ![AllLeaves[k]] = Issued(pki, "ca")]
               /\ pki' = pki
      <3>1. Issued(pki, "ca").gen = pki.ca["ca"].gen
        BY <1>k, IssuedType
      <3>2. ~cut => \A f \in ControlPlaneConfs : conf[f].gen = pki.ca["ca"].gen
        BY <2>2 DEF ConfsInv
      <3>3. ~cut' => \A f \in ControlPlaneConfs : conf'[f].gen = pki'.ca["ca"].gen
        BY <1>k, <2>2, <2>4, <3>1, <3>2
      <3>4. QED  BY <2>2, <3>3 DEF ConfsInv
    <2>5. QED  BY <2>1, <2>3, <2>4 DEF Renew
  <1>13. CASE RenewFails
    BY <1>13, ConfsUntouched DEF RenewFails, Down
  <1>14. CASE RenewReturns
    BY <1>14, ConfsUntouched DEF RenewReturns
  <1>15. CASE FinalizeKubeletKubeconfig
    <2>1. \A k \in ControlPlaneConfs : conf'[k] = conf[k]
      BY <1>15, <1>k DEF FinalizeKubeletKubeconfig, ControlPlaneConfs
    <2>2. QED  BY <1>15, <2>1, ConfsUntouched DEF FinalizeKubeletKubeconfig
  <1>16. CASE KubeletCSR
    BY <1>16, ConfsUntouched DEF KubeletCSR, proc
  <1>17. CASE SuperAdminCommand
    <2>1. \A k \in ControlPlaneConfs : conf'[k] = conf[k]
      BY <1>17, <1>k DEF SuperAdminCommand, ControlPlaneConfs
    <2>2. QED  BY <1>17, <2>1, ConfsUntouched DEF SuperAdminCommand, proc
  <1>18. CASE Crash
    <2>1. /\ UNCHANGED <<conf, pki>> /\ pc' = "down"
          /\ cut' = (cut \/ (pc \in {"displaced", "confs"} /\ HasKubeconfigs))
          /\ pc \in {"displaced", "confs"} => ca \in 1..3
      BY <1>18, <1>t DEF Crash, Down, TypeOK
    <2>2. CASE pc \in {"displaced", "confs"}
      BY <2>1, <2>2, HasKubeconfigsFacts DEF ConfsInv
    <2>3. CASE pc \notin {"displaced", "confs"}
      BY <2>1, <2>3 DEF ConfsInv
    <2>4. QED  BY <2>2, <2>3
  <1>19. CASE Month
    BY <1>19, ConfsUntouched DEF Month, proc
  <1>20. CASE UNCHANGED vars
    BY <1>20 DEF vars, proc, ConfsInv
  <1>21. QED
    BY <1>1, <1>2, <1>3, <1>4, <1>5, <1>6, <1>7, <1>8, <1>9, <1>10, <1>11, <1>12, <1>13,
       <1>14, <1>15, <1>16, <1>17, <1>18, <1>19, <1>20 DEF Next

\* Unless the last RegenerateCA of the cluster CA was cut short after the exchange of
\* the directories, the control plane never starts with a kubeconfig of another CA, for
\* all lifetimes, and however many rotations of this or another CA were cut short before.
THEOREM ConfsFollowCA == Spec => []KubeconfigsChain
  <1>1. Init => ConfsInv
    BY DEF Init, ConfsInv, ControlPlaneConfs, Kubeconfigs, ConfLeaves, CAKinds
  <1>2. RotationInv /\ ConfsInv /\ [Next]_vars => ConfsInv'
    BY ConfsStep
  <1>3. ConfsInv => KubeconfigsChain
    BY DEF ConfsInv, KubeconfigsChain, ControlPlaneConfs
  <1>4. QED  BY <1>1, <1>2, <1>3, RotationInvariant, PTL DEF Spec
=============================================================================
