------------------------------- MODULE MC_Vlib -------------------------------
(* The library with one adapter, two application threads and three event  *)
(* slots, the fewest with which popEvent can put a slot on a non-empty    *)
(* free list while another event is still queued.  Four heap addresses    *)
(* leave room for one slot more than an adapter holds.                     *)
EXTENDS Vlib

MC_ADDRS == 1..4
MC_THREADS == {"t1", "t2"}
\* one thread making three calls: load, open, one HBA_GetEventBuffer
MC_ONE_THREAD == {"t1"}
MC_ADDRS_EXACT == 1..3
\* a LIP code dispatch_event drops, a link event, an RSCN, a vendor code
\* process_event discards
MC_EVENT_CODES == {1, 2, 5, 65535}
====
