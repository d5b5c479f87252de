---------------------------- MODULE MC_Repository ----------------------------
(* Model values for Repository: two rports, of which only rport 1 is a    *)
(* SCSI target (it has a target directory), and two LUNs.                  *)
EXTENDS Repository, TLC

MC_RPORTS == 1..2
MC_TARGETS == {1}
MC_LUNS == {1, 2}
(* The threads (model values in the .cfg) are interchangeable: each runs  *)
(* the same calls on the one handle.                                       *)
MC_Symmetry == Permutations(THREADS)
(* No guard reads the leak counters dirs and sgFds or a thread's last      *)
(* result res (MappingMatchesRepository looks only at the result a step    *)
(* sets), so states that differ only in them have the same futures and    *)
(* are explored once.                                                      *)
MC_View == <<sysPorts, sysLuns, ports, tpc, todo, found, count, calls,
             changes, scsi, mem>>
=============================================================================
