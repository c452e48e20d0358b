---------------------------- MODULE MCSysSetting ----------------------------
(* Small instances of SysSetting for TLC. *)
EXTENDS SysSetting, TLC

\* Client threads differ in nothing; no run with this symmetry checks liveness.
HostSymmetry == Permutations(Host)
=============================================================================
