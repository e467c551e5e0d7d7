------------------------------- MODULE Config -------------------------------
(***************************************************************************)
(* config.Load (internal/config/load.go) and the gates of the v1alpha1     *)
(* package: from the documents of a configuration file to the              *)
(* InitConfiguration that init and boot render with, or a refusal.         *)
(*                                                                         *)
(* A file is what the loader tells apart of its documents: whether there   *)
(* is a JoinConfiguration, the state of the PicoKubeConfig wrapper and of  *)
(* the ClusterConfiguration, and the two fields of the latter that         *)
(* picokube looks at.  SplitConfigDocuments admits one document of a kind, *)
(* and finds the wrapper by its apiVersion and kind, so that SetDefaults   *)
(* and the first two tests of Validate have nothing left to do.  A file    *)
(* that cannot be read counts as one without a wrapper.                    *)
(***************************************************************************)
EXTENDS Integers

CONSTANT StableRelease    \* what upstream's stable-1 label resolves to

ASSUME StableAssumption == StableRelease \in Nat \ {0}

\* an optional field that the user left out
Unset == 0
UnsetDir == ""

DefaultCertificatesDir == "/etc/kubernetes/pki"
PKIDir == "/etc/kubernetes/pki"

Documents ==
    [join : BOOLEAN,
     wrapper : {"missing", "malformed", "valid"},
     cluster : {"missing", "malformed", "valid"},
     kubernetesVersion : Nat,
     certificatesDir : {UnsetDir, PKIDir, "elsewhere"}]

\* Load returned an error
Rejected == [kubernetesVersion |-> Unset, certificatesDir |-> UnsetDir]

extractWrapper(doc) == doc.wrapper = "valid"

\* the image's version goes into a ClusterConfiguration that has none, or into a
\* new one; a version of the user's, or a document that does not parse, stays
pinKubernetesVersion(doc, image) ==
    CASE doc.cluster = "missing" ->
           [doc EXCEPT !.cluster = "valid", !.kubernetesVersion = image, !.certificatesDir = UnsetDir]
      [] doc.cluster = "valid" /\ doc.kubernetesVersion = Unset ->
           [doc EXCEPT !.kubernetesVersion = image]
      [] OTHER -> doc

\* kubeadm's parser and defaulter
BytesToInitConfiguration(doc) ==
    IF doc.cluster # "valid" THEN Rejected
    ELSE [kubernetesVersion |-> IF doc.kubernetesVersion = Unset THEN StableRelease
                                ELSE doc.kubernetesVersion,
          certificatesDir |-> IF doc.certificatesDir = UnsetDir THEN DefaultCertificatesDir
                              ELSE doc.certificatesDir]

\* mutant: an explicit version is taken as it is
ValidateDirOnly(cfg, image) == cfg.certificatesDir \in {UnsetDir, PKIDir}

Validate(cfg, image) ==
    /\ cfg.kubernetesVersion \in {Unset, image}
    /\ cfg.certificatesDir \in {UnsetDir, PKIDir}

\* parse; kubeadm's default directory is taken back to unset for Validate
Load(doc, image) ==
    LET parsed == BytesToInitConfiguration(pinKubernetesVersion(doc, image))
        explicit == IF parsed.certificatesDir = DefaultCertificatesDir
                    THEN [parsed EXCEPT !.certificatesDir = UnsetDir] ELSE parsed
    IN  IF ~doc.join /\ extractWrapper(doc) /\ parsed # Rejected /\ Validate(explicit, image)
        THEN [explicit EXCEPT !.certificatesDir = PKIDir]
        ELSE Rejected
=============================================================================
