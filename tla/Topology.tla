------------------------------ MODULE Topology ------------------------------
(***************************************************************************)
(* The topology walk do_something (fc_tools/zfcp_show.c): for every        *)
(* interconnect element (ICE) of the fabric configuration server ask for   *)
(* its domain id and port list; for every port its state and physical     *)
(* port number; for every online port its attached ports and their        *)
(* destination ids; collect one ice_conn edge per E_Port (gen_topology)    *)
(* and finally print the inter-switch links (print_topology).              *)
(*                                                                         *)
(* Each get_* call is one send_ct query: it answers from the              *)
(* fabric, or fails (send_ct returned NULL, or the calloc of the list      *)
(* failed), at most MAX_FAILURES times in a behaviour.  The fabric is a    *)
(* constant; the display filter and its value are what main() left in     *)
(* display_detail and value.  Text layout is abstracted to the facts a    *)
(* line shows: the ports, attached ports and links printed.                *)
(***************************************************************************)
EXTENDS Integers, Sequences, FiniteSets, Bitwise

CONSTANTS
    ICE_LIST,      \* the GIEL answer: the ICE names in order
    DomainOf,      \* ICE name -> domain id (1..239)
    PortsOf,       \* ICE name -> the GPL answer: sequence of port names
    StateOf,       \* port name -> GPS port state
    TypeOf,        \* port name -> port type of the port list entry
    PpnOf,         \* port name -> GPPN physical port number
    AttachedOf,    \* port name -> GAPNL answer: sequence of attached names
    DidOf,         \* attached port name -> GID_PN destination id
    DETAILS,       \* [dd, value] pairs main() can pass to do_something
    MAX_FAILURES   \* queries and allocations that fail in one behaviour

(* display_detail bits, zfcp_show.c:21-24 and zfcp_util.h:88-89, and the  *)
(* port state and type codes, zfcp_util.h:186,255-256.                     *)
TOPOLOGY == 1024
ATTACHMENT == 2048
DOMAIN_BIT == 4096   \* DOMAIN in the source; DOMAIN is a TLA+ keyword
CSV == 8192
VERBOSE == 512
ONLINE == 1
E_PORT == 132
(* get_ppn's 0xFFFFFFFF; TLC's integers stop short of 2^32, so -1 stands   *)
(* for the all-ones uint32.                                                *)
PPN_UNKNOWN == -1

Ports == UNION {{PortsOf[s][i] : i \in 1..Len(PortsOf[s])} : s \in DOMAIN PortsOf}
Edge == [domain_id : Nat, ppn : Int, port_name : Nat, local_port : Nat]
Link == [domain_id : Nat, ppn : Int, peer_ppn : Int, peer_domain : Nat]

VARIABLES
    pc,          \* "start", "ice", "port", "att", "end" or "segv"
    dd,          \* display_detail
    value,       \* the -i / -p value
    ice_cnt,     \* ICEs of ICE_LIST finished
    domain_id,   \* get_domain_id of the current ICE (0 when it failed)
    ple,         \* the port list of the current ICE (<<>> when it failed)
    ple_cnt,     \* entries of ple finished
    ppn,         \* get_ppn of the current port
    incompl,     \* the incomplete flag
    icc,         \* the ice_conn list icc_start heads
    failed,      \* the kinds of queries that failed so far (environment)
    failures,    \* how many failed
    shown,       \* ports a line was printed for
    attShown,    \* attached ports a line was printed for
    links,       \* the lines print_topology printed
    banner       \* the "Data might be incomplete" warning was printed

vars == <<pc, dd, value, ice_cnt, domain_id, ple, ple_cnt, ppn, incompl, icc,
          failed, failures, shown, attShown, links, banner>>

QueryKinds == {"giel", "gdid", "gpl", "gps", "gppn", "gapnl", "gid_pn", "calloc"}

TypeOK ==
    /\ pc \in {"start", "ice", "port", "att", "end", "segv"}
    /\ [dd |-> dd, value |-> value] \in DETAILS
    /\ ice_cnt \in 0..Len(ICE_LIST)
    /\ domain_id \in Nat
    /\ ple \in Seq(Ports)
    /\ ple_cnt \in 0..Len(ple)
    /\ ppn \in Int
    /\ incompl \in BOOLEAN
    /\ icc \in Seq(Edge)
    /\ failed \subseteq QueryKinds
    /\ failures \in 0..MAX_FAILURES
    /\ shown \subseteq Ports
    /\ attShown \subseteq DOMAIN DidOf
    /\ links \in Seq(Link)
    /\ banner \in BOOLEAN

Init ==
    /\ pc = "start"
    /\ \E d \in DETAILS : dd = d.dd /\ value = d.value
    /\ ice_cnt = 0
    /\ domain_id = 0
    /\ ple = <<>>
    /\ ple_cnt = 0
    /\ ppn = 0
    /\ incompl = FALSE
    /\ icc = <<>>
    /\ failed = {}
    /\ failures = 0
    /\ shown = {}
    /\ attShown = {}
    /\ links = <<>>
    /\ banner = FALSE

Has(bits) == (dd & bits) # 0

(* The sets of queries of one step, out of K, that fail: as many as the  *)
(* failures left allow.                                                   *)
FailSets(K) == {F \in SUBSET K : failures + Cardinality(F) <= MAX_FAILURES}

(* Record n failed queries of the kinds Kinds.                            *)
Fail(n, Kinds) == /\ failed' = failed \cup Kinds
                  /\ failures' = failures + n

(* The listing, attachment and topology modes print no per-port lines.   *)
PlainListing == ~Has(ATTACHMENT + TOPOLOGY + CSV)

(* The query library: what each get_* function returns when its send_ct   *)
(* answers (from the fabric) and when it returns NULL (fails).  The lists *)
(* are also empty when their calloc fails.                                 *)
GetDomainId(s, fails) == IF fails THEN 0 ELSE DomainOf[s]
GetPortList(s, fails) == IF fails THEN <<>> ELSE PortsOf[s]
GetPortState(p, fails) == IF fails THEN 0 ELSE StateOf[p]
GetPpn(p, fails) == IF fails THEN PPN_UNKNOWN ELSE PpnOf[p]
GetAttPortList(p, fails) == IF fails THEN <<>> ELSE AttachedOf[p]
GetDestinationId(a, fails) == IF fails THEN 0 ELSE DidOf[a]

(* get_ice_list: no entries ends the walk with "ERROR: no interconnect    *)
(* elements found." and return 1.                                         *)
GetIceList ==
    /\ pc = "start"
    /\ \E F \in FailSets({"giel"}) :
         /\ pc' = IF F = {} THEN "ice" ELSE "end"
         /\ Fail(Cardinality(F), F)
    /\ UNCHANGED <<dd, value, ice_cnt, domain_id, ple, ple_cnt, ppn, incompl, icc,
                   shown, attShown, links, banner>>

(* Seeded fault for mutation analysis: an empty list not noticed.         *)
ListFailedNever(list) == FALSE

(* if (!ple_no) / if (!apn_no) incompl |= 1                                *)
ListFailed(list) == list = <<>>

(* Seeded fault: the port loop entered without ple_cnt = 0.                *)
StartPortLoopNoReset(pl) == /\ pc' = "port"
                            /\ ple' = pl
                            /\ UNCHANGED ple_cnt

(* for (ple_cnt = 0; ple_cnt < ple_no; ple_cnt++) over the new list.       *)
StartPortLoop(pl) == /\ pc' = "port"
                     /\ ple' = pl
                     /\ ple_cnt' = 0

(* One pass of the ICE loop up to the port loop: get_domain_id (0 when it  *)
(* fails, which marks the walk incomplete), the -i filter, get_port_list  *)
(* (no entries mark it incomplete).  print_ice_info's own GIEIL and GIELN  *)
(* queries only change the text of the ICE block and are abstracted.      *)
VisitIce ==
    /\ pc = "ice"
    /\ ice_cnt < Len(ICE_LIST)
    /\ LET s == ICE_LIST[ice_cnt + 1] IN
       \E F \in FailSets({"gdid", "gpl"}) :
         LET d == GetDomainId(s, "gdid" \in F)
             skip == Has(DOMAIN_BIT) /\ value # d
             pl == GetPortList(s, "gpl" \in F)
         IN /\ "gpl" \in F => ~skip
            /\ domain_id' = d
            /\ Fail(Cardinality(F), F)
            /\ IF skip
                  THEN /\ ice_cnt' = ice_cnt + 1
                       /\ incompl' = (incompl \/ d = 0)
                       /\ UNCHANGED <<pc, ple, ple_cnt>>
                  ELSE /\ StartPortLoop(pl)
                       /\ incompl' = (incompl \/ d = 0 \/ ListFailed(pl))
                       /\ UNCHANGED ice_cnt
    /\ UNCHANGED <<dd, value, ppn, icc, shown, attShown, links, banner>>

(* The port loop up to the attached ports: get_port_state (0 when it      *)
(* fails), continue unless display_detail & ps, get_ppn (0xFFFFFFFF when   *)
(* it fails), print_ple_info, and for a port that is not online the CSV    *)
(* row and continue.                                                       *)
PortState ==
    /\ pc = "port"
    /\ ple_cnt < Len(ple)
    /\ LET p == ple[ple_cnt + 1] IN
       \E F \in FailSets({"gps", "gppn"}) :
         LET ps == GetPortState(p, "gps" \in F)
             n == GetPpn(p, "gppn" \in F)
         IN /\ "gppn" \in F => Has(ps)
            /\ Fail(Cardinality(F), F)
            /\ IF ~Has(ps)
                  THEN /\ ple_cnt' = ple_cnt + 1
                       /\ UNCHANGED <<pc, ppn, shown>>
                  ELSE /\ ppn' = n
                       /\ shown' = IF PlainListing \/ (ps # ONLINE /\ Has(CSV))
                                      THEN shown \cup {p} ELSE shown
                       /\ IF ps = ONLINE
                             THEN pc' = "att" /\ UNCHANGED ple_cnt
                             ELSE ple_cnt' = ple_cnt + 1 /\ UNCHANGED pc
    /\ UNCHANGED <<dd, value, ice_cnt, domain_id, ple, incompl, icc, attShown,
                   links, banner>>

(* Seeded fault: value == d_id || apn[apn_cnt].port_name                  *)
MatchesAlways(d_id, name) == Has(ATTACHMENT)

(* -p: the attached port matches by destination id or by port name.       *)
Matches(d_id, name) == Has(ATTACHMENT) /\ (value = d_id \/ value = name)

(* Seeded fault: gen_topology returns the new node, not the list head.    *)
GenTopologyReturnsTail(start, apn, p, allocFails) ==
    IF TypeOf[p] # E_PORT THEN start
    ELSE IF allocFails THEN <<>>
    ELSE <<[domain_id |-> domain_id, ppn |-> ppn, port_name |-> apn[1], local_port |-> p]>>

(* gen_topology: nothing for a port that is not an E_Port; a failed       *)
(* calloc marks the walk incomplete and returns NULL, which becomes        *)
(* icc_start; otherwise the edge {domain_id, ppn, apn->port_name,          *)
(* ple->port_name} is appended and the head returned.                      *)
GenTopology(start, apn, p, allocFails) ==
    IF TypeOf[p] # E_PORT THEN start
    ELSE IF allocFails THEN <<>>
    ELSE Append(start, [domain_id |-> domain_id, ppn |-> ppn,
                        port_name |-> apn[1], local_port |-> p])

(* The attached ports of an online port: get_att_port_list (NULL and no    *)
(* entries when it fails, which marks the walk incomplete), for each of    *)
(* them get_destination_id (0 when it fails) and the -p, listing and CSV  *)
(* lines, then gen_topology in topology or verbose mode and free(apn).     *)
(* gen_topology dereferences apn for an E_Port: with a NULL apn the        *)
(* process dies of SIGSEGV.                                                *)
AttachedPorts ==
    /\ pc = "att"
    /\ LET p == ple[ple_cnt + 1]
           topo == Has(TOPOLOGY + VERBOSE)
       IN \E F \in FailSets({"gapnl", "calloc"}),
             D \in SUBSET (1..Len(AttachedOf[p])) :
         LET apn == GetAttPortList(p, "gapnl" \in F)
             did(i) == GetDestinationId(apn[i], i \in D)
             hits == {i \in 1..Len(apn) : Matches(did(i), apn[i])}
             listed == IF PlainListing \/ Has(CSV) THEN 1..Len(apn) ELSE {}
             gen == topo /\ TypeOf[p] = E_PORT
         IN /\ failures + Cardinality(F) + Cardinality(D) <= MAX_FAILURES
            /\ D \subseteq 1..Len(apn)
            /\ "calloc" \in F => gen /\ apn # <<>>
            /\ Fail(Cardinality(F) + Cardinality(D),
                    F \cup (IF D = {} THEN {} ELSE {"gid_pn"}))
            /\ attShown' = attShown \cup {apn[i] : i \in hits \cup listed}
            /\ shown' = IF hits # {} \/ (Has(CSV) /\ apn # <<>>)
                          THEN shown \cup {p} ELSE shown
            /\ incompl' = (incompl \/ ListFailed(apn) \/ "calloc" \in F)
            /\ IF gen /\ apn = <<>>
                  THEN pc' = "segv" /\ UNCHANGED <<ple_cnt, icc>>
                  ELSE /\ pc' = "port"
                       /\ ple_cnt' = ple_cnt + 1
                       /\ icc' = IF topo THEN GenTopology(icc, apn, p, "calloc" \in F)
                                         ELSE icc
    /\ UNCHANGED <<dd, value, ice_cnt, domain_id, ple, ppn, links, banner>>

(* The port loop is over: free(ple), next ICE.                             *)
EndPorts ==
    /\ pc = "port"
    /\ ple_cnt = Len(ple)
    /\ pc' = "ice"
    /\ ice_cnt' = ice_cnt + 1
    /\ UNCHANGED <<dd, value, domain_id, ple, ple_cnt, ppn, incompl, icc, failed,
                   failures, shown, attShown, links, banner>>

FirstOf(S) == CHOOSE j \in S : \A k \in S : j <= k

(* Seeded fault: the inner loop compares tmp->port_name, not local_port.  *)
PrintTopologyWrongField(ic) ==
    LET peers(i) == {j \in 1..Len(ic) : ic[j].port_name = ic[i].port_name}
        ix == SelectSeq([i \in 1..Len(ic) |-> i], LAMBDA i : peers(i) # {})
        line(i) == LET j == FirstOf(peers(i)) IN
                   [domain_id |-> ic[i].domain_id, ppn |-> ic[i].ppn,
                    peer_ppn |-> ic[j].ppn, peer_domain |-> ic[j].domain_id]
    IN [k \in 1..Len(ix) |-> line(ix[k])]

(* print_topology: for every edge, the first edge whose local_port is this *)
(* edge's attached port_name; an edge without one is skipped, one with one *)
(* prints "physical port <ppn> to physical port <peer ppn> of domain <d>". *)
PrintTopology(ic) ==
    LET peers(i) == {j \in 1..Len(ic) : ic[j].local_port = ic[i].port_name}
        ix == SelectSeq([i \in 1..Len(ic) |-> i], LAMBDA i : peers(i) # {})
        line(i) == LET j == FirstOf(peers(i)) IN
                   [domain_id |-> ic[i].domain_id, ppn |-> ic[i].ppn,
                    peer_ppn |-> ic[j].ppn, peer_domain |-> ic[j].domain_id]
    IN [k \in 1..Len(ix) |-> line(ix[k])]

(* After the ICE loop: free(ice); in topology or verbose mode print the    *)
(* links of the list (or "No topology information available") and free    *)
(* it; print the incomplete warning when incompl is set; return 0.         *)
Finish ==
    /\ pc = "ice"
    /\ ice_cnt = Len(ICE_LIST)
    /\ pc' = "end"
    /\ links' = IF Has(TOPOLOGY + VERBOSE) THEN PrintTopology(icc) ELSE <<>>
    /\ banner' = incompl
    /\ UNCHANGED <<dd, value, ice_cnt, domain_id, ple, ple_cnt, ppn, incompl, icc,
                   failed, failures, shown, attShown>>

Next == GetIceList \/ VisitIce \/ PortState \/ AttachedPorts \/ EndPorts \/ Finish

Spec == Init /\ [][Next]_vars
-----------------------------------------------------------------------------
(* Properties                                                              *)

IceOf(p) == CHOOSE s \in DOMAIN PortsOf : \E i \in 1..Len(PortsOf[s]) : PortsOf[s][i] = p

(* An inter-switch link of the fabric: two E_Ports attached to each other. *)
Isl(p, q) ==
    /\ TypeOf[p] = E_PORT /\ TypeOf[q] = E_PORT
    /\ AttachedOf[p] # <<>> /\ AttachedOf[p][1] = q
    /\ AttachedOf[q] # <<>> /\ AttachedOf[q][1] = p

(* The line of the link p -> q as the fabric describes it.                 *)
LinkOf(p, q) == [domain_id |-> DomainOf[IceOf(p)], ppn |-> PpnOf[p],
                 peer_ppn |-> PpnOf[q], peer_domain |-> DomainOf[IceOf(q)]]

(* As long as no domain id or physical port number query failed, every   *)
(* link print_topology prints is an inter-switch link of the fabric, with *)
(* the domains and physical port numbers of both of its ends.             *)
LinksReflectFabric ==
    failed \cap {"gdid", "gppn"} = {} =>
    \A k \in 1..Len(links) : \E p, q \in Ports : Isl(p, q) /\ links[k] = LinkOf(p, q)

(* When no query failed, the topology and verbose output list every        *)
(* inter-switch link whose two ports the port-state filter admits and no   *)
(* -i filter excludes.                                                     *)
IslsReported ==
    (pc = "end" /\ failures = 0 /\ Has(TOPOLOGY + VERBOSE) /\ ~Has(DOMAIN_BIT)) =>
        \A p, q \in Ports :
            (Isl(p, q) /\ Has(StateOf[p]) /\ Has(StateOf[q])) =>
                \E k \in 1..Len(links) : links[k] \in {LinkOf(p, q), LinkOf(q, p)}

(* The spec's edge-matching test: each inter-switch link is printed once.  *)
ExactlyOneLinkPerIsl ==
    \A p, q \in Ports :
        Isl(p, q) =>
            Cardinality({k \in 1..Len(links) : links[k] \in {LinkOf(p, q), LinkOf(q, p)}}) <= 1

(* Every port do_something prints a line for belongs to the domain of -i   *)
(* and has an attached port that -p names by WWPN or destination id, even  *)
(* when queries fail.                                                      *)
ShownPortsMatchFilter ==
    \A p \in shown :
        /\ Has(DOMAIN_BIT) => DomainOf[IceOf(p)] = value
        /\ Has(ATTACHMENT) =>
              \E i \in 1..Len(AttachedOf[p]) :
                  value \in {AttachedOf[p][i], DidOf[AttachedOf[p][i]]}

(* The walk ends with the incomplete warning exactly when one of the list  *)
(* queries (domain id, port list, attached ports) or an edge allocation    *)
(* failed.                                                                 *)
IncompleteMarksListFailures ==
    pc = "end" =>
        (banner = (failed \cap {"gdid", "gpl", "gapnl", "calloc"} # {}))

(* do_something does not crash.                                            *)
NoNullDereference == pc # "segv"

=============================================================================
