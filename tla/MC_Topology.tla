---------------------------- MODULE MC_Topology ----------------------------
(***************************************************************************)
(* A fabric of two switches joined by one inter-switch link.               *)
(*   ICE 1000, domain 1: port 11 E_Port online ppn 5 -> port 21            *)
(*                       port 12 F_Port online ppn 6 -> host port 31       *)
(*                       port 13 F_Port testing ppn 7                      *)
(*   ICE 2000, domain 2: port 21 E_Port online ppn 7 -> port 11            *)
(*                       port 22 F_Port offline ppn 8                      *)
(* WWNs are small integers; destination ids are the 24-bit N_Port ids.     *)
(***************************************************************************)
EXTENDS Topology, TLC

MC_ICE_LIST == <<1000, 2000>>
MC_DomainOf == (1000 :> 1) @@ (2000 :> 2)
MC_PortsOf == (1000 :> <<11, 12, 13>>) @@ (2000 :> <<21, 22>>)
MC_StateOf == (11 :> 1) @@ (12 :> 1) @@ (13 :> 3) @@ (21 :> 1) @@ (22 :> 2)
MC_TypeOf == (11 :> 132) @@ (12 :> 129) @@ (13 :> 129) @@ (21 :> 132) @@ (22 :> 129)
MC_PpnOf == (11 :> 5) @@ (12 :> 6) @@ (13 :> 7) @@ (21 :> 7) @@ (22 :> 8)
MC_AttachedOf == (11 :> <<21>>) @@ (12 :> <<31>>) @@ (13 :> <<>>) @@ (21 :> <<11>>)
                 @@ (22 :> <<>>)
MC_DidOf == (11 :> 66816) @@ (21 :> 132864) @@ (31 :> 67072)

(* The command lines of zfcp_show main: every argv of one or two options  *)
(* over the letters of "a:p:i:vdtchoOn", an unknown option, -i and -p with *)
(* a number, an empty string and a string that reads as 0, and -a with the *)
(* bus id 0.0.0003, the bus id 0.0.0000, host1, a WWPN, an N_Port id and   *)
(* a string that reads as 0.                                               *)
MC_NoArg == [form |-> "num", empty |-> TRUE, val |-> 0, css |-> 0, ssid |-> 0,
             devno |-> 0, n |-> 0]
MC_Num(e, v) == [MC_NoArg EXCEPT !.empty = e, !.val = v]
MC_BusId(c, s, d) == [MC_NoArg EXCEPT !.form = "busid", !.empty = FALSE, !.css = c,
                                       !.ssid = s, !.devno = d]
MC_Host(n) == [MC_NoArg EXCEPT !.form = "host", !.empty = FALSE, !.n = n]
MC_Options ==
    {[opt |-> o, arg |-> MC_NoArg] : o \in {"v", "d", "t", "c", "o", "O", "n", "h", "?"}}
    \cup {[opt |-> o, arg |-> x] :
            o \in {"i", "p"},
            x \in {MC_Num(FALSE, 2), MC_Num(FALSE, 31), MC_Num(FALSE, 67072),
                   MC_Num(TRUE, 0), MC_Num(FALSE, 0)}}
    \cup {[opt |-> "a", arg |-> x] :
            x \in {MC_BusId(0, 0, 3), MC_BusId(0, 0, 0), MC_Host(1),
                   MC_Num(FALSE, 2^28 + 6), MC_Num(FALSE, 66816), MC_Num(FALSE, 0)}}
MC_ARGVS == {<<>>} \cup {<<x>> : x \in MC_Options}
            \cup {<<x, y>> : x, y \in MC_Options}

(* Adapters as HBA_GetAdapterName, HBA_OpenAdapter and the attribute calls *)
(* report them: fc_host12 listed before fc_host1, and adapters whose name, *)
(* open or attributes fail.                                                *)
MC_Adapter(b, w, d, h) == [nameOk |-> TRUE, openOk |-> TRUE, attrOk |-> TRUE,
                           busid |-> b, wwpn |-> w, did |-> d, host |-> h]
MC_A1 == MC_Adapter(2, 2^28 + 5, 67072, 12)
MC_A2 == MC_Adapter(3, 2^28 + 6, 66816, 1)
MC_ADAPTER_LISTS ==
    {<<>>, <<MC_A1, MC_A2>>,
     <<[MC_A1 EXCEPT !.nameOk = FALSE], [MC_A1 EXCEPT !.openOk = FALSE],
       [MC_A1 EXCEPT !.attrOk = FALSE], MC_A2>>}

Show == INSTANCE ZfcpShow WITH ARGVS <- MC_ARGVS, ADAPTER_LISTS <- MC_ADAPTER_LISTS

(* display_detail and value main() hands to do_something, over all those  *)
(* command lines and adapter lists, except a -i or -p filter whose value  *)
(* is 0 (an empty optarg): the 0 a failed get_domain_id or                *)
(* get_destination_id returns then passes the filter, and                 *)
(* ShownPortsMatchFilter fails (README, "Disagreements").                 *)
MC_DETAILS ==
    {d \in Show!Details : d.value # 0 \/ (d.dd & (DOMAIN_BIT + ATTACHMENT)) = 0}

-----------------------------------------------------------------------------
(* The composition: cmd is what one run of zfcp_show's main did (which    *)
(* query it ran, with which display_detail and value, the adapters it left *)
(* open and how many options it was given).  When main calls               *)
(* do_something, the walk starts from that display_detail and value;      *)
(* otherwise the walk never starts.                                        *)
VARIABLE cmd

MC_Cmd(r) == [ran |-> r.m.ran, dd |-> r.m.dd, value |-> r.m.value,
              open |-> r.m.open, argc |-> Len(r.argv)]

MC_Init ==
    /\ Init
    /\ \E r \in Show!Runs :
          /\ cmd = MC_Cmd(r)
          /\ r.m.ran = "topology" => dd = r.m.dd /\ value = r.m.value

MC_Next == cmd.ran = "topology" /\ Next /\ UNCHANGED cmd

MC_Spec == MC_Init /\ [][MC_Next]_<<vars, cmd>>

(* Whatever the order of the options, main never queries the fabric with  *)
(* -t combined with -i or -p, nor with -c and any other option.            *)
MainFiltersApart == Show!FiltersApart(cmd, cmd.argc)

(* When main has queried the fabric, fc_get_hba_handle's loop and main's   *)
(* HBA_CloseAdapter left no adapter open.                                  *)
MainNoAdapterLeftOpen == Show!NoAdapterLeftOpen(cmd)

(* -i and -p exclude each other in every command line main runs.           *)
MainOneFilterOnly == Show!OneFilterOnly

(* When -a names a usable adapter, main uses that adapter.                 *)
MainUsesNamedAdapter == Show!UsesNamedAdapter
=============================================================================
