------------------------------ MODULE ZfcpShow ------------------------------
(***************************************************************************)
(* zfcp_show's main (fc_tools/zfcp_show.c) and the adapter selection       *)
(* fc_get_hba_handle it calls (fc_tools/include/zfcp_util.h), as operators *)
(* on one command line: the getopt loop that builds display_detail and     *)
(* value, the CSV check, the choice of the source adapter among the        *)
(* library's adapters, the call of do_something or show_ns_info, and the   *)
(* HBA_CloseAdapter / HBA_FreeLibrary at the end.  main is sequential; the *)
(* module has no variables.                                                 *)
(*                                                                         *)
(* An argument is a record [opt, arg]: opt is getopt's return value (a     *)
(* letter of "a:p:i:vdtchoOn", or "?" for any other), arg what the code   *)
(* reads of the optarg, one record shape for all: empty is strlen == 0,   *)
(* val the strtoull(optarg, NULL, 0) of -i, -p and a numeric -a; form,    *)
(* css, ssid, devno and n the parse of -a (Selector below).  An adapter,   *)
(* as the library lists it, is a record [nameOk, openOk, attrOk, busid,    *)
(* wwpn, did, host]: whether HBA_GetAdapterName and HBA_OpenAdapter        *)
(* succeed, whether both attribute calls return OK, and the attributes     *)
(* compared with the selector.                                             *)
(***************************************************************************)
EXTENDS Integers, Sequences, FiniteSets, Bitwise

CONSTANTS
    ARGVS,         \* the command lines checked (sequences of arguments)
    ADAPTER_LISTS  \* the adapter lists HBA_GetNumberOfAdapters can report

(* display_detail bits, zfcp_util.h:88-89, zfcp_show.c:21-24.               *)
DEBUG == 256
VERBOSE == 512
TOPOLOGY == 1024
ATTACHMENT == 2048
DOMAIN_BIT == 4096   \* DOMAIN in the source; DOMAIN is a TLA+ keyword
CSV == 8192
ONLINE == 1
OFFLINE == 2

(* The selector -a names: "c.s.dddd" (strstr(arg, ".")), "hostN"           *)
(* (strstr(arg, "host")), or anything else, read by strtoull(arg, 0, 0).   *)
(* The default is the empty string adapter[256] = "\0".                     *)
NoSelector == [form |-> "num", empty |-> TRUE, val |-> 0, css |-> 0, ssid |-> 0,
               devno |-> 0, n |-> 0]

(* fc_get_hba_handle's parse: BUSID from atoi of the first two digits and  *)
(* the hex device number, FCHOST, or a number that is a WWPN when any bit *)
(* from bit 24 up is set (0xffffffffff000000) and an N_Port id otherwise;  *)
(* a non-empty string that reads as 0 is rejected.                         *)
AddrType(sel) ==
    CASE sel.form = "busid" -> [type |-> "BUSID",
                                id |-> sel.css * 2^24 + sel.ssid * 2^16 + sel.devno]
      [] sel.form = "host" -> [type |-> "FCHOST", id |-> 0]
      [] sel.val >= 2^24 -> [type |-> "WWPN", id |-> sel.val]
      [] OTHER -> [type |-> "NPORT", id |-> sel.val]

(* strstr("/dev/bsg/fc_host<h>", "host<n>"): the decimal digits of n begin *)
(* those of h.                                                             *)
HostMatches(n, h) == \E k \in 0..4 : h \div 10^k = n /\ (n > 0 \/ h = 0)

(* The switch on hba_adr_type: does adapter ad match the selector?         *)
Matches(sel, ad) ==
    LET p == AddrType(sel) IN
    CASE p.type = "BUSID" -> ad.busid = p.id
      [] p.type = "WWPN" -> ad.wwpn = p.id
      [] p.type = "NPORT" -> ad.did = p.id
      [] OTHER -> HostMatches(sel.n, ad.host)

(* "no adapter specifier provided, use first one available".               *)
TakesFirst(sel) == AddrType(sel).id = 0 /\ AddrType(sel).type # "FCHOST"

(* Mutant: an adapter that fails or does not match is not closed again.   *)
RECURSIVE SelectFromNoClose(_, _, _, _)
SelectFromNoClose(sel, ads, i, open) ==
    IF i > Len(ads) THEN [handle |-> 0, open |-> open]
    ELSE LET ad == ads[i] IN
         IF ~ad.nameOk \/ ~ad.openOk THEN SelectFromNoClose(sel, ads, i + 1, open)
         ELSE IF ad.attrOk /\ (TakesFirst(sel) \/ Matches(sel, ad))
            THEN [handle |-> i, open |-> open \cup {i}]
         ELSE SelectFromNoClose(sel, ads, i + 1, open \cup {i})

(* The loop for (cnt = 0; cnt < hba_cnt; cnt++) from index i, with the set *)
(* of handles it has opened and not closed; an adapter is opened with      *)
(* handle index + 1 and closed again when its attributes failed or it does *)
(* not match.  Returns the handle it stopped at (0: none) and the open set.*)
RECURSIVE SelectFrom(_, _, _, _)
SelectFrom(sel, ads, i, open) ==
    IF i > Len(ads) THEN [handle |-> 0, open |-> open]
    ELSE LET ad == ads[i] IN
         IF ~ad.nameOk \/ ~ad.openOk THEN SelectFrom(sel, ads, i + 1, open)
         ELSE IF ad.attrOk /\ (TakesFirst(sel) \/ Matches(sel, ad))
            THEN [handle |-> i, open |-> open \cup {i}]
         ELSE SelectFrom(sel, ads, i + 1, open)

(* fc_get_hba_handle(arg): NULL with no adapters or a rejected number;     *)
(* after the loop found one, calloc of the adapter_attr may fail and NULL  *)
(* is returned with that adapter still open.  aa is the handle returned.   *)
FcGetHbaHandle(sel, ads, allocOk) ==
    IF Len(ads) = 0 \/ (sel.form = "num" /\ ~sel.empty /\ sel.val = 0)
       THEN [aa |-> 0, open |-> {}]
    ELSE LET r == SelectFrom(sel, ads, 1, {}) IN
         [aa |-> IF r.handle # 0 /\ allocOk THEN r.handle ELSE 0, open |-> r.open]

-----------------------------------------------------------------------------
(* main's getopt loop, one argument at a time.  stop is "" while it runs, *)
(* "end" after a goto end and "help" after -h (exit(0)).                    *)

GetoptInit == [dd |-> 255, value |-> 0, ns |-> FALSE, cc |-> 0,
               adapter |-> NoSelector, stop |-> ""]

(* -i and -p: one filter at a time, none with -t, and a non-empty value    *)
(* that reads as 0 is invalid.                                             *)
Filter(g, bit, arg) ==
    IF g.value # 0 \/ (g.dd & TOPOLOGY) # 0 \/ (~arg.empty /\ arg.val = 0)
       THEN [g EXCEPT !.stop = "end"]
    ELSE [g EXCEPT !.dd = (@ | bit), !.value = arg.val]

(* Mutant: -t without the check for an earlier -i or -p.                    *)
OptionNoTopologyCheck(g, a) ==
    LET h == [g EXCEPT !.cc = @ + 1] IN
    CASE a.opt = "a" -> [h EXCEPT !.adapter = a.arg]
      [] a.opt = "v" -> [h EXCEPT !.dd = (@ | VERBOSE)]
      [] a.opt = "d" -> [h EXCEPT !.dd = (@ | DEBUG)]
      [] a.opt = "t" -> [h EXCEPT !.dd = (@ | TOPOLOGY)]
      [] a.opt = "i" -> Filter(h, DOMAIN_BIT, a.arg)
      [] a.opt = "p" -> Filter(h, ATTACHMENT, a.arg)
      [] a.opt = "c" -> [h EXCEPT !.dd = (@ | CSV)]
      [] a.opt = "o" -> [h EXCEPT !.dd = (@ ^^ (255 ^^ ONLINE))]
      [] a.opt = "O" -> [h EXCEPT !.dd = (@ ^^ (255 ^^ OFFLINE))]
      [] a.opt = "n" -> [h EXCEPT !.ns = TRUE]
      [] a.opt = "h" -> [h EXCEPT !.stop = "help"]
      [] OTHER -> [h EXCEPT !.stop = "end"]

(* One getopt iteration: cc++ and the switch on arg.                      *)
Option(g, a) ==
    LET h == [g EXCEPT !.cc = @ + 1] IN
    CASE a.opt = "a" -> [h EXCEPT !.adapter = a.arg]
      [] a.opt = "v" -> [h EXCEPT !.dd = (@ | VERBOSE)]
      [] a.opt = "d" -> [h EXCEPT !.dd = (@ | DEBUG)]
      [] a.opt = "t" -> IF (h.dd & (DOMAIN_BIT + ATTACHMENT)) # 0
                           THEN [h EXCEPT !.stop = "end"]
                        ELSE [h EXCEPT !.dd = (@ | TOPOLOGY)]
      [] a.opt = "i" -> Filter(h, DOMAIN_BIT, a.arg)
      [] a.opt = "p" -> Filter(h, ATTACHMENT, a.arg)
      [] a.opt = "c" -> [h EXCEPT !.dd = (@ | CSV)]
      [] a.opt = "o" -> [h EXCEPT !.dd = (@ ^^ (255 ^^ ONLINE))]
      [] a.opt = "O" -> [h EXCEPT !.dd = (@ ^^ (255 ^^ OFFLINE))]
      [] a.opt = "n" -> [h EXCEPT !.ns = TRUE]
      [] a.opt = "h" -> [h EXCEPT !.stop = "help"]
      [] OTHER -> [h EXCEPT !.stop = "end"]

RECURSIVE Getopt(_, _)
Getopt(g, argv) ==
    IF argv = <<>> \/ g.stop # "" THEN g ELSE Getopt(Option(g, Head(argv)), Tail(argv))

(* main for one command line, library and outcome of calloc: ran is what  *)
(* it called ("topology" for do_something, "ns" for show_ns_info, "none"), *)
(* with the display_detail and value it passed and the handle it used;     *)
(* open is the set of handles left open when main ends.  Every path but   *)
(* -h's exit(0) ends in HBA_FreeLibrary.                                   *)
Main(argv, loadOk, ads, allocOk) ==
    LET g == Getopt(GetoptInit, argv)
        s == FcGetHbaHandle(g.adapter, ads, allocOk)
        runs == g.stop = "" /\ ~((g.dd & CSV) # 0 /\ g.cc > 1)
    IN CASE ~loadOk -> [ran |-> "none", dd |-> 0, value |-> 0, aa |-> 0,
                        open |-> {}]
         [] runs /\ s.aa # 0 ->
               [ran |-> IF g.ns THEN "ns" ELSE "topology", dd |-> g.dd,
                value |-> g.value, aa |-> s.aa, open |-> s.open \ {s.aa}]
         [] runs -> [ran |-> "none", dd |-> g.dd, value |-> g.value, aa |-> 0,
                     open |-> s.open]
         [] OTHER -> [ran |-> "none", dd |-> g.dd, value |-> g.value, aa |-> 0,
                      open |-> {}]

-----------------------------------------------------------------------------
(* What main hands to do_something: the (display_detail, value) pairs of  *)
(* every command line that reaches it, with the library loaded and the     *)
(* adapter_attr allocated.                                                  *)
Details ==
    {[dd |-> m.dd, value |-> m.value] :
        m \in {r \in {Main(a, TRUE, ads, TRUE) : a \in ARGVS, ads \in ADAPTER_LISTS} :
                  r.ran = "topology"}}

(* Every run of main, over the command lines, adapter lists and outcomes   *)
(* of HBA_LoadLibrary and calloc.                                          *)
Runs == {[argv |-> a, ads |-> ads, m |-> Main(a, l, ads, c)] :
            a \in ARGVS, l \in BOOLEAN, ads \in ADAPTER_LISTS, c \in BOOLEAN}

(* Whatever the order of the options, when main queries the fabric the   *)
(* topology output is never combined with a -i or -p filter, and CSV      *)
(* output was the only option given: the checks of the -t, -i and -p cases *)
(* and the cc test after the getopt loop.  m is what Main returned for a  *)
(* command line of argc options.                                           *)
FiltersApart(m, argc) ==
    m.ran # "none" =>
        /\ ~((m.dd & TOPOLOGY) # 0 /\ (m.dd & (DOMAIN_BIT + ATTACHMENT)) # 0)
        /\ ((m.dd & CSV) # 0 => argc = 1)

(* When main has queried the fabric through the adapter fc_get_hba_handle *)
(* chose, no adapter is left open before HBA_FreeLibrary: every adapter    *)
(* the selection loop opened and passed over was closed again, and main    *)
(* closed the one it used.                                                 *)
NoAdapterLeftOpen(m) == m.ran # "none" => m.open = {}

(* The -i and -p filters exclude each other, as the "Only one filter is    *)
(* allowed at a time" check in main intends.                               *)
OneFilterOnly ==
    \A r \in Runs :
        r.m.ran # "none" => (r.m.dd & (DOMAIN_BIT + ATTACHMENT)) # (DOMAIN_BIT + ATTACHMENT)

(* The identity a selector names, compared whole: the bus id, the fc_host *)
(* number, the WWPN or the N_Port id of the adapter.                       *)
Names(sel, ad) ==
    CASE sel.form = "busid" -> ad.busid = AddrType(sel).id
      [] sel.form = "host" -> ad.host = sel.n
      [] OTHER -> sel.val \in {ad.wwpn, ad.did}

(* When -a names an adapter that can be opened and read, main uses that   *)
(* adapter, not another one.                                               *)
UsesNamedAdapter ==
    \A r \in Runs :
        LET sel == Getopt(GetoptInit, r.argv).adapter
            usable == {i \in DOMAIN r.ads : LET ad == r.ads[i] IN
                          ad.nameOk /\ ad.openOk /\ ad.attrOk /\ Names(sel, ad)}
        IN (r.m.ran # "none" /\ ~sel.empty /\ usable # {}) => r.m.aa \in usable

====
