---------------------------- MODULE MCNodeSetup ----------------------------
(* NodeSetup for TLC: a file that leaves the version to the image, one that  *)
(* names the first image's, and three that the loader rejects.               *)
EXTENDS NodeSetup

Plain == [join |-> FALSE, wrapper |-> "valid", cluster |-> "missing",
          kubernetesVersion |-> Unset, certificatesDir |-> UnsetDir]

MCConfigs ==
    {Plain,
     [Plain EXCEPT !.cluster = "valid", !.kubernetesVersion = 1, !.certificatesDir = PKIDir],
     [Plain EXCEPT !.join = TRUE],
     [Plain EXCEPT !.wrapper = "malformed"],
     [Plain EXCEPT !.cluster = "valid", !.certificatesDir = "elsewhere"]}
=============================================================================
