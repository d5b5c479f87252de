----------------------------- MODULE NameServer -----------------------------
(***************************************************************************)
(* show_ns_info (fc_tools/zfcp_show.c), the "zfcp_show -n" walk of the     *)
(* fabric name server with GA_NXT: ask for the entry after port_id until  *)
(* the first entry comes round again.                                      *)
(*                                                                         *)
(* Each send_ct is one atomic query that answers with an accepted CT IU    *)
(* or NULL, as CtEngine shows send_ct does.  The name                     *)
(* server holds the N_Port ids registered in the fabric; between two      *)
(* queries a remote port can log out of or into the fabric, at most        *)
(* MAX_CHANGES times.  Our own port (LOCAL_PORT) stays registered.              *)
(***************************************************************************)
EXTENDS Naturals, FiniteSets

CONSTANTS
    PORTS,        \* N_Port ids that can be registered (24-bit ids, > 0)
    LOCAL_PORT,   \* the id of the adapter's own port
    MAX_CHANGES   \* fabric logins/logouts during the walk

ASSUME /\ PORTS \subseteq Nat \ {0}
       /\ LOCAL_PORT \in PORTS
       /\ MAX_CHANGES \in Nat

VARIABLES
    value,       \* the -p value, or 0 when no ATTACHMENT filter is set
    pc,          \* "walk" (in the do-while loop) or "done" (returned)
    tmp,         \* show_ns_info's tmp: the first id seen, 0 before
    port_id,     \* show_ns_info's port_id: the GA_NXT argument
    printed,     \* ids printed so far
    dup,         \* an id has been printed twice
    failed,      \* the walk ended because send_ct returned NULL
    registered,  \* the ids the name server holds
    changes,     \* logins/logouts so far
    firstLeft    \* the first id of the walk has logged out of the fabric

vars == <<value, pc, tmp, port_id, printed, dup, failed, registered, changes, firstLeft>>

TypeOK ==
    /\ value \in PORTS \cup {0}
    /\ pc \in {"walk", "done"}
    /\ tmp \in PORTS \cup {0}
    /\ port_id \in PORTS \cup {0}
    /\ printed \subseteq PORTS
    /\ dup \in BOOLEAN
    /\ failed \in BOOLEAN
    /\ LOCAL_PORT \in registered /\ registered \subseteq PORTS
    /\ changes \in 0..MAX_CHANGES
    /\ firstLeft \in BOOLEAN

(* Any fabric that holds our port, any -p value or none.                  *)
Init ==
    /\ value \in PORTS \cup {0}
    /\ pc = "walk"
    /\ tmp = 0
    /\ port_id = 0
    /\ printed = {}
    /\ dup = FALSE
    /\ failed = FALSE
    /\ registered \in {S \in SUBSET PORTS : LOCAL_PORT \in S}
    /\ changes = 0
    /\ firstLeft = FALSE

LeastOf(S) == CHOOSE p \in S : \A q \in S : p <= q

(* The name server's GA_NXT: the registered id after id, wrapping round   *)
(* to the lowest one.                                                      *)
GaNxt(reg, id) ==
    IF \E p \in reg : p > id THEN LeastOf({p \in reg : p > id}) ELSE LeastOf(reg)

(* The big-endian word at payload + 1 of the GA_NXT accept: the three      *)
(* port id bytes followed by the first byte of the port name, which is    *)
(* 0x50 for an NAA 5 WWPN.                                                 *)
PORT_NAME_BYTE0 == 80
AnswerWord(id) == id * 256 + PORT_NAME_BYTE0

(* Seeded fault for mutation analysis: the id masked instead of shifted.   *)
PortIdOfMasked(w) == w % 16777216

(* port_id = (*(uint32_t *)(payload + 1)) >> 8                             *)
PortIdOf(w) == w \div 256

(* Seeded fault: tmp = port_id on every pass.                              *)
FirstSeenAlways(t0, pid) == pid

(* if (!tmp) tmp = port_id;                                                *)
FirstSeen(t0, pid) == IF t0 = 0 THEN pid ELSE t0

(* Seeded fault: the ATTACHMENT bit of display_detail not tested.          *)
FilteredOutNoFlag(id) == value # id

(* (display_detail & ATTACHMENT) && !(value == port_id || ...)             *)
FilteredOut(id) == value # 0 /\ value # id

(* One pass of the do-while loop: send_ct(GA_NXT, port_id); if (!resp)    *)
(* return; if (!tmp) tmp = port_id; port_id = the answer; then break when *)
(* tmp == port_id, continue when filtered out, else print and free(resp). *)
(* The buffers break and continue leave behind are not tracked.           *)
NsQuery ==
    /\ pc = "walk"
    /\ \/ /\ pc' = "done"                         \* send_ct returned NULL
          /\ failed' = TRUE
          /\ UNCHANGED <<tmp, port_id, printed, dup>>
       \/ LET t == FirstSeen(tmp, port_id)
              id == PortIdOf(AnswerWord(GaNxt(registered, port_id)))
          IN /\ tmp' = t
             /\ port_id' = id
             /\ UNCHANGED failed
             /\ IF t = id
                   THEN pc' = "done" /\ UNCHANGED <<printed, dup>>
                   ELSE IF FilteredOut(id)
                   THEN UNCHANGED <<pc, printed, dup>>
                   ELSE /\ printed' = printed \cup {id}
                        /\ dup' = (dup \/ id \in printed)
                        /\ UNCHANGED pc
    /\ UNCHANGED <<value, registered, changes, firstLeft>>

(* The id the loop waits to see again: tmp, or the first answer before    *)
(* the second pass has copied it into tmp.                                 *)
FirstId == IF tmp = 0 THEN port_id ELSE tmp

(* A remote port logs out of or into the fabric while the walk runs.      *)
FabricChange ==
    /\ pc = "walk"
    /\ changes < MAX_CHANGES
    /\ \E p \in PORTS \ {LOCAL_PORT} :
         /\ registered' = IF p \in registered THEN registered \ {p}
                                              ELSE registered \cup {p}
         /\ firstLeft' = (firstLeft \/ (p = FirstId /\ p \in registered))
    /\ changes' = changes + 1
    /\ UNCHANGED <<value, pc, tmp, port_id, printed, dup, failed>>

Next == NsQuery \/ FabricChange

(* zfcp_show runs the loop without waiting on anything but send_ct.       *)
Spec == Init /\ [][Next]_vars /\ WF_vars(NsQuery)

-----------------------------------------------------------------------------
(* Properties                                                              *)

(* In a fabric that does not change, a walk that was not cut short by a   *)
(* failed query lists every registered port the filter lets through, and *)
(* none twice.                                                             *)
CompleteWalkListsFabric ==
    (pc = "done" /\ ~failed /\ changes = 0) =>
        /\ printed = {p \in registered : value \in {0, p}}
        /\ ~dup

(* Logins and logouts of other ports never make the walk list a port      *)
(* twice; only the loss of the port the loop waits for can.               *)
NoDuplicateWhileFirstStays ==
    dup => firstLeft

(* The walk ends.                                                          *)
NsTerminates == <>(pc = "done")
=============================================================================
