---------------------------- MODULE MC_NameServer ----------------------------
(* Model-checking instances of NameServer: four port ids, the adapter's    *)
(* own port the second lowest, so that the first port of a walk can be a   *)
(* remote one that leaves.                                                 *)
EXTENDS NameServer

MC_PORTS == {1, 2, 3, 4}
MC_LOCAL_PORT == 2
=============================================================================
