----------------------------- MODULE Repository -----------------------------
(***************************************************************************)
(* The remote ports and units of one open adapter in the library's         *)
(* repository (vlib_aux.c, vlib_sysfs.c and the vlib.c functions that use  *)
(* them): the port array adapter->ports and each port's unit array, filled *)
(* lazily from sysfs by revalidatePorts / revalidateUnits, refreshed by    *)
(* HBA_RefreshInformation, freed by HBA_CloseAdapter and read by           *)
(* HBA_GetFcpTargetMapping(V2).  Application threads call these           *)
(* functions; everything between VLIB_MUTEX_LOCK and VLIB_MUTEX_UNLOCK is  *)
(* one step.  HBA_GetAdapterPortAttributes reads sysfs and adds ports to   *)
(* the repository after it has released the mutex, one addPortByName      *)
(* (lookup, then append) at a time.                                        *)
(*                                                                         *)
(* sysfs is the environment: the rports under hostN (in directory order,  *)
(* taken as ascending), whether an rport has a target directory (it is a  *)
(* SCSI target) and the LUNs under it; rports and LUNs come and go.  A    *)
(* port is its rport name, a unit its fcp_lun; the other attributes only  *)
(* feed the records the caller gets.  The library is loaded and the       *)
(* adapter is in the repository with its handle (Vlib models those).       *)
(***************************************************************************)
EXTENDS Integers, SequencesExt, FiniteSets

CONSTANTS
    RPORTS,       \* rport names (numbers, in directory order)
    TARGETS,      \* rports that have a targetH:C:T directory
    LUNS,         \* fcp_lun values
    THREADS,      \* application threads
    MAX_ENTRIES,  \* largest NumberOfEntries a caller passes
    MAX_CALLS,    \* API calls per thread
    MAX_CHANGES,  \* sysfs changes per behaviour
    GROW_UNITS    \* VLIB_GROW_UNITS: the chunk a port's unit array grows by

ASSUME TARGETS \subseteq RPORTS

(* hbaapi.h:48-60 *)
HBA_STATUS_OK == 0
HBA_STATUS_ERROR == 1
HBA_STATUS_ERROR_ILLEGAL_WWN == 5
HBA_STATUS_ERROR_ILLEGAL_INDEX == 6
HBA_STATUS_ERROR_MORE_DATA == 7
HBA_STATUS_ERROR_UNAVAILABLE == 12
HBA_STATUS_ERROR_INVALID_LUN == 14

(* vlib.h:404: the REPORT LUNS well-known LUN, as the unit's LUN number.   *)
REPORTLUNS_WLUN == 49409
(* vlib_aux.c:917: the retries of getAttachedWLUN.                          *)
RETRIES == 100

VARIABLES
    sysPorts,   \* rports present under /sys/.../hostN
    sysLuns,    \* rport -> LUNs under its target directory
    ports,      \* adapter->ports: << [name, units] >>, units << [lun, inv] >>
    dirs,       \* DIR streams opened and never closed
    tpc,        \* thread -> "idle", "find" or "add" (in the unlocked scan)
    todo,       \* thread -> rport entries the unlocked scan has still to read
    found,      \* thread -> getPortFromRepos found the entry's port
    count,      \* thread -> NumberofDiscoveredPorts so far
    res,        \* thread -> what its last call returned
    calls,      \* thread -> calls made
    changes,    \* sysfs changes so far
    scsi,       \* thread -> the unit a SCSI command looked up (port, unit index)
    mem,        \* thread -> "ok", "moved" or "freed": what became of that unit's
                \* array since the mutex was released (auxiliary)
    sgFds       \* /dev/sg descriptors opened and never closed

vars == <<sysPorts, sysLuns, ports, dirs, tpc, todo, found, count, res, calls,
          changes, scsi, mem, sgFds>>

Unit == [lun : LUNS \cup {REPORTLUNS_WLUN}, inv : BOOLEAN]
Entry == [port : RPORTS, lun : LUNS \cup {REPORTLUNS_WLUN}]
NoResult == [op |-> "none", status |-> HBA_STATUS_OK, n |-> 0, total |-> 0,
             entries |-> <<>>]
NoUnit == [op |-> "none", port |-> 0, unit |-> 0, name |-> 0, lun |-> 0]

(* readdir order of a directory's entries.                                 *)
DirOrder(S) == SetToSortSeq(S, <)

(* What a scan of sysfs sees: the rports present, those with a target     *)
(* directory, and the LUNs under each.                                     *)
Sysfs == [ports |-> sysPorts, targets |-> TARGETS, luns |-> sysLuns]

TypeOK ==
    /\ sysPorts \subseteq RPORTS /\ sysLuns \in [RPORTS -> SUBSET LUNS]
    /\ ports \in Seq([name : RPORTS, units : Seq(Unit)])
    /\ dirs \in Nat
    /\ tpc \in [THREADS -> {"idle", "find", "add", "sg"}]
    /\ todo \in [THREADS -> Seq(RPORTS)] /\ found \in [THREADS -> BOOLEAN]
    /\ count \in [THREADS -> Nat]
    /\ res \in [THREADS -> [op : {"none", "map", "v2", "apa", "dpa", "refresh", "close", "rl",
                                   "inq", "rc"},
                             status : 0..14, n : Nat, total : Nat,
                             entries : Seq(Entry)]]
    /\ calls \in [THREADS -> 0..MAX_CALLS] /\ changes \in 0..MAX_CHANGES
    /\ scsi \in [THREADS -> {NoUnit} \cup
                   [op : {"inq", "rc"}, port : Nat, unit : Nat, name : RPORTS, lun : LUNS]]
    /\ mem \in [THREADS -> {"ok", "moved", "freed"}] /\ sgFds \in Nat

Init ==
    /\ sysPorts \in SUBSET RPORTS
    /\ sysLuns = [p \in RPORTS |-> IF p \in TARGETS THEN LUNS ELSE {}]
    /\ ports = <<>>
    /\ dirs = 0
    /\ tpc = [t \in THREADS |-> "idle"] /\ todo = [t \in THREADS |-> <<>>]
    /\ found = [t \in THREADS |-> FALSE] /\ count = [t \in THREADS |-> 0]
    /\ res = [t \in THREADS |-> NoResult]
    /\ calls = [t \in THREADS |-> 0] /\ changes = 0
    /\ scsi = [t \in THREADS |-> NoUnit] /\ mem = [t \in THREADS |-> "ok"] /\ sgFds = 0

-----------------------------------------------------------------------------
(* The repository helpers, on values.                                       *)

(* getPortFromRepos: a port of that sysfs name is stored.                  *)
InRepos(ps, name) == \E i \in DOMAIN ps : ps[i].name = name

(* addPortToRepos: a known port is left as it is (the code clears the     *)
(* isInvalid flag of its argument, not of the stored port); a new one is  *)
(* block_addItem'ed, with no units.                                         *)
AddPortToRepos(ps, name) ==
    IF InRepos(ps, name) THEN ps ELSE Append(ps, [name |-> name, units |-> <<>>])

(* sysfs_createAndReadConfigPorts: addPortByName for every rport entry.    *)
CreateAndReadConfigPorts(ps) == FoldLeft(AddPortToRepos, ps, DirOrder(sysPorts))

(* revalidatePorts: generate the ports once, while none are allocated.     *)
RevalidatePorts(ps) == IF ps = <<>> THEN CreateAndReadConfigPorts(ps) ELSE ps

(* addUnitToRepos: a unit already stored (same fcLun) is marked valid; a   *)
(* new one is memcpy'd from the caller's stack struct, whose isInvalid    *)
(* sysfs_getUnitsFromPort never sets: g is what that stack slot held.      *)
AddUnitToReposNoLookup(g, us, l) == Append(us, [lun |-> l, inv |-> g])

AddUnitToRepos(g, us, l) ==
    IF \E k \in DOMAIN us : us[k].lun = l
       THEN [k \in DOMAIN us |-> IF us[k].lun = l THEN [us[k] EXCEPT !.inv = FALSE]
                                 ELSE us[k]]
       ELSE Append(us, [lun |-> l, inv |-> g])

(* sysfs_getUnitsFromPort: open the rport directory (gone: ERROR), look    *)
(* for the target entry (none: return 0 without closedir, leaking the     *)
(* stream), then add a unit for every H:C:T:L entry.                       *)
GetUnitsFromPort(port, g, fs) ==
    IF port.name \notin fs.ports
       THEN [units |-> port.units, leaked |-> 0]
    ELSE IF port.name \notin fs.targets
       THEN [units |-> port.units, leaked |-> 1]
    ELSE [units |-> FoldLeft(LAMBDA us, l : AddUnitToRepos(g, us, l), port.units,
                             DirOrder(fs.luns[port.name])),
          leaked |-> 0]

(* revalidateUnits: generate a port's units while none are allocated.      *)
RevalidateUnits(port, g, fs) ==
    IF port.units = <<>> THEN GetUnitsFromPort(port, g, fs)
    ELSE [units |-> port.units, leaked |-> 0]

(* updateAdapter: re-read the ports, then the units of every port; the    *)
(* errors sysfs_getUnitsFromPort returns are positive and never < 0, so   *)
(* the loop always runs to its end.                                         *)
RECURSIVE UpdateUnits(_, _, _, _)
UpdateUnits(ps, i, d, g) ==
    IF i > Len(ps) THEN [ports |-> ps, dirs |-> d]
    ELSE LET r == GetUnitsFromPort(ps[i], g, Sysfs) IN
         UpdateUnits([ps EXCEPT ![i].units = r.units], i + 1, d + r.leaked, g)

-----------------------------------------------------------------------------
(* HBA_GetFcpTargetMapping's loops: for every port (isInvalid of a port is *)
(* never set: block_assertSize zeroes new ports and nothing writes the     *)
(* flag), revalidateUnits, then for every unit not marked invalid count it *)
(* in total and, while free > 0, write its entry.                          *)
MapUnitOffByOne(name, st, u) ==
    IF u.inv THEN st
    ELSE IF st.free < 0 THEN [st EXCEPT !.total = @ + 1]
    ELSE [st EXCEPT !.total = @ + 1, !.free = @ - 1,
                    !.entries = Append(@, [port |-> name, lun |-> u.lun])]

MapUnit(name, st, u) ==
    IF u.inv THEN st
    ELSE IF st.free = 0 THEN [st EXCEPT !.total = @ + 1]
    ELSE [st EXCEPT !.total = @ + 1, !.free = @ - 1,
                    !.entries = Append(@, [port |-> name, lun |-> u.lun])]

RECURSIVE MapPorts(_, _, _, _, _)
MapPorts(ps, i, st, d, g) ==
    IF i > Len(ps) THEN [ports |-> ps, st |-> st, dirs |-> d]
    ELSE LET r == RevalidateUnits(ps[i], g, Sysfs) IN
         MapPorts([ps EXCEPT ![i].units = r.units], i + 1,
                  FoldLeft(LAMBDA a, u : MapUnit(ps[i].name, a, u), st, r.units), d + r.leaked, g)

(* The whole locked part of HBA_GetFcpTargetMapping for NumberOfEntries n: *)
(* the repository it leaves and the result the caller sees.                *)
TargetMapping(n, g) ==
    LET ps == RevalidatePorts(ports)
        m == MapPorts(ps, 1, [total |-> 0, free |-> n, entries |-> <<>>], dirs, g)
    IN IF ps = <<>>
          THEN [ports |-> ps, dirs |-> dirs,
                res |-> [NoResult EXCEPT !.op = "map", !.status = HBA_STATUS_ERROR, !.n = n]]
       ELSE [ports |-> m.ports, dirs |-> m.dirs,
             res |-> [op |-> "map", n |-> n, total |-> m.st.total,
                      entries |-> m.st.entries,
                      status |-> IF m.st.total > n THEN HBA_STATUS_ERROR_MORE_DATA
                                 ELSE HBA_STATUS_OK]]

-----------------------------------------------------------------------------
(* The API calls of application thread t.                                   *)

Call(t) == tpc[t] = "idle" /\ calls[t] < MAX_CALLS /\ calls' = [calls EXCEPT ![t] = @ + 1]

(* HBA_GetFcpTargetMapping(handle, pMapping) with NumberOfEntries n; g is   *)
(* the isInvalid bit the stack unit of sysfs_getUnitsFromPort holds.        *)
GetFcpTargetMapping(t, n, g) ==
    /\ Call(t)
    /\ LET r == TargetMapping(n, g) IN
       /\ ports' = r.ports /\ dirs' = r.dirs
       /\ res' = [res EXCEPT ![t] = r.res]
    /\ UNCHANGED <<sysPorts, sysLuns, tpc, todo, found, count, changes, scsi, sgFds>>

(* HBA_GetFcpTargetMappingV2 for size entries: a WWPN other than the       *)
(* adapter's is ILLEGAL_WWN, a failed malloc ERROR; otherwise (after the    *)
(* mutex was dropped and taken again) HBA_GetFcpTargetMapping, and the     *)
(* first min(size, NumberOfEntries) entries are copied back.               *)
GetFcpTargetMappingV2(t, size, wwnMatches, mallocOk, g) ==
    /\ Call(t)
    /\ IF ~wwnMatches \/ ~mallocOk
          THEN /\ res' = [res EXCEPT ![t] = [NoResult EXCEPT !.op = "v2", !.n = size,
                              !.status = IF ~wwnMatches THEN HBA_STATUS_ERROR_ILLEGAL_WWN
                                         ELSE HBA_STATUS_ERROR]]
               /\ UNCHANGED <<ports, dirs>>
          ELSE LET r == TargetMapping(size, g)
                   copied == SubSeq(r.res.entries, 1, Min({size, r.res.total}))
               IN /\ ports' = r.ports /\ dirs' = r.dirs
                  /\ res' = [res EXCEPT ![t] = [r.res EXCEPT !.op = "v2", !.entries = copied]]
    /\ UNCHANGED <<sysPorts, sysLuns, tpc, todo, found, count, changes, scsi, sgFds>>

(* HBA_GetAdapterPortAttributes(handle, portindex): under the mutex a      *)
(* portindex other than 0 is ILLEGAL_INDEX, else revalidatePorts; then,    *)
(* without the mutex, sysfs_getAdapterPortAttributes opens hostN and reads *)
(* its rport entries one at a time.                                        *)
GetAdapterPortAttributes(t, portindex) ==
    /\ Call(t)
    /\ IF portindex # 0
          THEN /\ res' = [res EXCEPT ![t] = [NoResult EXCEPT !.op = "apa",
                              !.status = HBA_STATUS_ERROR_ILLEGAL_INDEX]]
               /\ UNCHANGED <<ports, tpc, todo, count>>
          ELSE /\ ports' = RevalidatePorts(ports)
               /\ tpc' = [tpc EXCEPT ![t] = "find"]
               /\ todo' = [todo EXCEPT ![t] = DirOrder(sysPorts)]
               /\ count' = [count EXCEPT ![t] = 0]
               /\ UNCHANGED res
    /\ UNCHANGED <<sysPorts, sysLuns, dirs, found, changes, scsi, sgFds>>

ApaDoneOffByOne(t) ==
    /\ tpc[t] = "find" /\ todo[t] = <<>>
    /\ tpc' = [tpc EXCEPT ![t] = "idle"]
    /\ res' = [res EXCEPT ![t] = [NoResult EXCEPT !.op = "apa", !.total = count[t] - 1]]
    /\ UNCHANGED <<sysPorts, sysLuns, ports, dirs, todo, found, count, calls, changes, scsi, sgFds>>

(* The loop ends: closedir and return OK with NumberofDiscoveredPorts.     *)
ApaDone(t) ==
    /\ tpc[t] = "find" /\ todo[t] = <<>>
    /\ tpc' = [tpc EXCEPT ![t] = "idle"]
    /\ res' = [res EXCEPT ![t] = [NoResult EXCEPT !.op = "apa", !.total = count[t]]]
    /\ UNCHANGED <<sysPorts, sysLuns, ports, dirs, todo, found, count, calls, changes, scsi, sgFds>>

(* NumberofDiscoveredPorts++, and addPortByName's getPortFromRepos, with   *)
(* no mutex held.                                                          *)
ApaFind(t) ==
    /\ tpc[t] = "find" /\ todo[t] # <<>>
    /\ found' = [found EXCEPT ![t] = InRepos(ports, Head(todo[t]))]
    /\ count' = [count EXCEPT ![t] = @ + 1]
    /\ tpc' = [tpc EXCEPT ![t] = "add"]
    /\ UNCHANGED <<sysPorts, sysLuns, ports, dirs, todo, res, calls, changes, scsi, sgFds>>

(* The rest of addPortToRepos: block_addItem and the copy, for a port the  *)
(* lookup did not find.                                                    *)
ApaAdd(t) ==
    /\ tpc[t] = "add"
    /\ ports' = IF found[t] THEN ports
                ELSE Append(ports, [name |-> Head(todo[t]), units |-> <<>>])
    /\ todo' = [todo EXCEPT ![t] = Tail(@)]
    /\ tpc' = [tpc EXCEPT ![t] = "find"]
    /\ UNCHANGED <<sysPorts, sysLuns, dirs, found, count, res, calls, changes, scsi, sgFds>>

(* sysfs_getDiscoveredPortAttributes: UNAVAILABLE when the rport's       *)
(* directory is gone; otherwise it only reads attributes.                  *)
DiscoveredPortStatus(port) ==
    IF port.name \notin sysPorts THEN HBA_STATUS_ERROR_UNAVAILABLE ELSE HBA_STATUS_OK

(* HBA_GetDiscoveredPortAttributes(handle, portindex, discoveredportindex) *)
(* under the mutex: no revalidatePorts; an index past ports.used is        *)
(* ILLEGAL_INDEX, and the port's isInvalid is never set.                   *)
GetDiscoveredPortAttributes(t, portindex, dpi) ==
    /\ Call(t)
    /\ res' = [res EXCEPT ![t] = [NoResult EXCEPT !.op = "dpa", !.n = dpi,
                   !.status = IF portindex # 0 \/ dpi >= Len(ports)
                                 THEN HBA_STATUS_ERROR_ILLEGAL_INDEX
                              ELSE DiscoveredPortStatus(ports[dpi + 1])]]
    /\ UNCHANGED <<sysPorts, sysLuns, ports, dirs, tpc, todo, found, count, changes, scsi, sgFds>>

(* HBA_RefreshInformation: updateAdapter under the mutex.                  *)
RefreshInformation(t, g) ==
    /\ Call(t)
    /\ LET u == UpdateUnits(CreateAndReadConfigPorts(ports), 1, dirs, g) IN
       /\ ports' = u.ports /\ dirs' = u.dirs
    /\ res' = [res EXCEPT ![t] = [NoResult EXCEPT !.op = "refresh"]]
    /\ UNCHANGED <<sysPorts, sysLuns, tpc, todo, found, count, changes, scsi, sgFds>>

(* HBA_CloseAdapter: doCloseAdapter block_frees every port's units and the *)
(* ports (the event queue is Vlib's part).                                 *)
CloseAdapter(t) ==
    /\ Call(t)
    /\ ports' = <<>>
    /\ res' = [res EXCEPT ![t] = [NoResult EXCEPT !.op = "close"]]
    /\ UNCHANGED <<sysPorts, sysLuns, dirs, tpc, todo, found, count, changes, scsi, sgFds>>

(* getPortByWWPN: the first stored port of that name, 0 (NULL) if none.   *)
GetPortByWWPN(ps, w) ==
    IF InRepos(ps, w) THEN Min({i \in DOMAIN ps : ps[i].name = w}) ELSE 0

(* sysfs once "echo 0xc101... > unit_add" has made the well-known LUN of   *)
(* rport w a SCSI device: w has a target directory holding that LUN.      *)
WithWlun(w) ==
    IF w \notin sysPorts THEN Sysfs
    ELSE [Sysfs EXCEPT !.targets = @ \cup {w},
                       !.luns = [@ EXCEPT ![w] = @ \cup {REPORTLUNS_WLUN}]]

(* getSgDevFromPort: revalidateUnits, then the sg device of unit 0, named  *)
(* here by its LUN (0: NULL, the port has no units).                        *)
GetSgDevFromPort(port, g, fs) ==
    LET r == RevalidateUnits(port, g, fs) IN
    [units |-> r.units, leaked |-> r.leaked,
     sg |-> IF r.units = <<>> THEN 0 ELSE r.units[1].lun]

(* getAttachedWLUN: unit_add of the well-known LUN, then getSgDevFromPort  *)
(* and up to RETRIES more tries 10 ms apart, all under the mutex; seen is  *)
(* whether the LUN's device shows up in time.  Until it does every try     *)
(* scans the rport again.                                                  *)
GetAttachedWLUN(port, g, w, seen) ==
    IF seen THEN GetSgDevFromPort(port, g, WithWlun(w))
    ELSE LET r == GetSgDevFromPort(port, g, Sysfs) IN
         [r EXCEPT !.leaked = @ * (RETRIES + 1)]

(* detachWLUN: revalidateUnits (late: the device has shown up since), the  *)
(* SCSI delete of unit 0's target at the well-known LUN, unit_remove, and  *)
(* revalidateUnits again, which only scans a port holding no units.        *)
DetachWLUN(port, g, w, late) ==
    LET r1 == RevalidateUnits(port, g, IF late THEN WithWlun(w) ELSE Sysfs)
        r2 == RevalidateUnits([port EXCEPT !.units = r1.units], g, Sysfs)
    IN [units |-> r2.units, leaked |-> r1.leaked + r2.leaked]

(* sgutils_SendReportLUNs: ERROR for a NULL sg_dev or a device that does   *)
(* not open within its retries; otherwise OK (the MORE_DATA of a short    *)
(* response buffer is left out).                                           *)
SendReportLUNs(sg, present) ==
    IF sg = 0 \/ ~present THEN HBA_STATUS_ERROR ELSE HBA_STATUS_OK

(* HBA_SendReportLUNs / HBA_ScsiReportLUNsV2 for the target port w, one    *)
(* locked step: ERROR when not run as root, ILLEGAL_WWN when no stored     *)
(* port has that name (there is no revalidatePorts), then the sg device of *)
(* the port's unit 0, or the attached well-known LUN's, the command, and   *)
(* detachWLUN if the LUN was attached.                                      *)
ReportLUNs(t, w, root, g, seen, late) ==
    /\ Call(t)
    /\ LET i == GetPortByWWPN(ports, w)
           s1 == GetSgDevFromPort(ports[i], g, Sysfs)
           att == s1.sg = 0
           s2 == IF att THEN GetAttachedWLUN([ports[i] EXCEPT !.units = s1.units], g, w, seen)
                 ELSE [s1 EXCEPT !.leaked = 0]
           s3 == IF att THEN DetachWLUN([ports[i] EXCEPT !.units = s2.units], g, w, late)
                 ELSE [units |-> s2.units, leaked |-> 0]
           present == \/ att /\ seen /\ w \in sysPorts
                      \/ w \in sysPorts /\ s2.sg \in sysLuns[w]
           out(st) == [NoResult EXCEPT !.op = "rl", !.status = st]
       IN IF ~root \/ i = 0
             THEN /\ res' = [res EXCEPT ![t] = out(IF ~root THEN HBA_STATUS_ERROR
                                                   ELSE HBA_STATUS_ERROR_ILLEGAL_WWN)]
                  /\ UNCHANGED <<ports, dirs>>
          ELSE /\ ports' = [ports EXCEPT ![i].units = s3.units]
               /\ dirs' = dirs + s1.leaked + s2.leaked + s3.leaked
               /\ res' = [res EXCEPT ![t] = out(SendReportLUNs(s2.sg, present))]
    /\ UNCHANGED <<sysPorts, sysLuns, tpc, todo, found, count, changes, scsi, sgFds>>

(* block_assertSize / block_addItem: the slots allocated for a block of n *)
(* items added one at a time, the first needing one chunk and every later *)
(* item past the allocation another (realloc, memset of the new chunk).   *)
BlockAllocated(n) == IF n = 0 THEN 0 ELSE ((n - 1) \div GROW_UNITS + 1) * GROW_UNITS

(* getUnitByFcLun: the first unit of that fcp_lun, 0 (NULL) if none or the *)
(* port has no units (getUnitByIndex(port, 0)); isInvalid is not looked at. *)
GetUnitByFcLun(us, l) ==
    IF \E k \in DOMAIN us : us[k].lun = l THEN Min({k \in DOMAIN us : us[k].lun = l})
    ELSE 0

(* The locked lookup of _HBA_SendScsiInquiry and _HBA_SendReadCapacity:   *)
(* getPortByWWPN (ILLEGAL_WWN), getUnitByFcLun (INVALID_LUN), then the     *)
(* unlock with the unit pointer kept for the command.  Neither revalidates *)
(* ports or units: only units an earlier call generated are found.         *)
LookupUnit(t, op, w, l) ==
    LET i == GetPortByWWPN(ports, w)
        k == IF i = 0 THEN 0 ELSE GetUnitByFcLun(ports[i].units, l)
        out(st) == [NoResult EXCEPT !.op = op, !.status = st]
    IN IF i = 0 \/ k = 0
          THEN /\ res' = [res EXCEPT ![t] = out(IF i = 0 THEN HBA_STATUS_ERROR_ILLEGAL_WWN
                                                ELSE HBA_STATUS_ERROR_INVALID_LUN)]
               /\ UNCHANGED <<tpc, scsi>>
       ELSE /\ tpc' = [tpc EXCEPT ![t] = "sg"]
            /\ scsi' = [scsi EXCEPT ![t] = [op |-> op, port |-> i, unit |-> k,
                                            name |-> w, lun |-> l]]
            /\ UNCHANGED res

(* HBA_SendScsiInquiry / HBA_ScsiInquiryV2 for LUN l of port w: ERROR when *)
(* not run as root, else the locked lookup.                                *)
SendScsiInquiry(t, w, l, root) ==
    /\ Call(t)
    /\ IF ~root
          THEN /\ res' = [res EXCEPT ![t] = [NoResult EXCEPT !.op = "inq",
                                                 !.status = HBA_STATUS_ERROR]]
               /\ UNCHANGED <<tpc, scsi>>
          ELSE LookupUnit(t, "inq", w, l)
    /\ UNCHANGED <<sysPorts, sysLuns, ports, dirs, todo, found, count, changes, sgFds>>

(* HBA_SendReadCapacity / HBA_ScsiReadCapacityV2: MORE_DATA for a response *)
(* buffer below READCAP10LEN (bufOk false), else the locked lookup after   *)
(* revalidateRepository (the adapter is present: Vlib models that part).   *)
SendReadCapacity(t, w, l, bufOk) ==
    /\ Call(t)
    /\ IF ~bufOk
          THEN /\ res' = [res EXCEPT ![t] = [NoResult EXCEPT !.op = "rc",
                                                 !.status = HBA_STATUS_ERROR_MORE_DATA]]
               /\ UNCHANGED <<tpc, scsi>>
          ELSE LookupUnit(t, "rc", w, l)
    /\ UNCHANGED <<sysPorts, sysLuns, ports, dirs, todo, found, count, changes, sgFds>>

(* sgutils_SendScsiInquiry: ERROR when /dev/<sg_dev> does not open, else   *)
(* the INQUIRY and the close.                                              *)
SgInquiry(opens) == IF opens THEN HBA_STATUS_OK ELSE HBA_STATUS_ERROR

(* sgutils_SendReadCap: ERROR when the device does not open; READ          *)
(* CAPACITY(10); a device below 0xffffffff blocks returns OK before        *)
(* sg_cmds_close_device, leaking the descriptor; a larger one finds        *)
(* *RspBufferSize just set to READCAP10LEN below READCAP16LEN and returns  *)
(* MORE_DATA after the close.                                              *)
SgReadCap(opens, big) ==
    CASE ~opens -> [status |-> HBA_STATUS_ERROR, leaked |-> 0]
      [] ~big -> [status |-> HBA_STATUS_OK, leaked |-> 1]
      [] OTHER -> [status |-> HBA_STATUS_ERROR_MORE_DATA, leaked |-> 0]

(* The unlocked rest of both calls: unit->sg_dev is read through the kept  *)
(* pointer and the command sent.  While the unit's array is as it was, the *)
(* device opens iff the LUN is still attached; once it was realloc'ed or   *)
(* freed the name read is whatever the memory holds (opens is free).       *)
ScsiCommand(t, opens, big) ==
    /\ tpc[t] = "sg"
    /\ LET u == scsi[t]
           attached == u.name \in sysPorts /\ u.lun \in sysLuns[u.name]
           dev == IF mem[t] = "ok" THEN attached ELSE opens
           rc == SgReadCap(dev, big)
       IN /\ res' = [res EXCEPT ![t] = [NoResult EXCEPT !.op = u.op,
                         !.status = IF u.op = "inq" THEN SgInquiry(dev) ELSE rc.status]]
          /\ sgFds' = sgFds + IF u.op = "rc" THEN rc.leaked ELSE 0
    /\ tpc' = [tpc EXCEPT ![t] = "idle"]
    /\ scsi' = [scsi EXCEPT ![t] = NoUnit]
    /\ UNCHANGED <<sysPorts, sysLuns, ports, dirs, todo, found, count, calls, changes>>

(* What became of the unit array a thread's SCSI command points into, as  *)
(* of the next state: freed (doCloseAdapter's block_free) or moved (a     *)
(* block_addItem that had to realloc it).                                  *)
MemAfter(t) ==
    LET i == scsi[t].port IN
    CASE tpc'[t] # "sg" \/ tpc[t] # "sg" -> "ok"
      [] mem[t] # "ok" -> mem[t]
      [] i \notin DOMAIN ports' -> "freed"
      [] BlockAllocated(Len(ports'[i].units)) # BlockAllocated(Len(ports[i].units)) -> "moved"
      [] OTHER -> "ok"

(* The fabric: an rport comes or goes, or a LUN of a target is attached   *)
(* or removed.                                                             *)
SysfsChange ==
    /\ changes < MAX_CHANGES /\ changes' = changes + 1
    /\ \/ \E p \in RPORTS :
            /\ sysPorts' = IF p \in sysPorts THEN sysPorts \ {p} ELSE sysPorts \cup {p}
            /\ UNCHANGED sysLuns
       \/ \E p \in TARGETS, l \in LUNS :
            /\ sysLuns' = [sysLuns EXCEPT ![p] = IF l \in @ THEN @ \ {l} ELSE @ \cup {l}]
            /\ UNCHANGED sysPorts
    /\ UNCHANGED <<ports, dirs, tpc, todo, found, count, res, calls, scsi, sgFds>>

(* When the well-known LUN showed up within getAttachedWLUN's retries,    *)
(* whether it shows up later makes no difference; a caller that is not    *)
(* root returns before the rest is evaluated.                              *)
SeenLate == {<<TRUE, FALSE>>, <<FALSE, FALSE>>, <<FALSE, TRUE>>}

(* The calls of the threads and the fabric's changes.                      *)
Step ==
    \/ \E t \in THREADS :
          \/ \E n \in 0..MAX_ENTRIES, g \in BOOLEAN : GetFcpTargetMapping(t, n, g)
          \/ \E n \in 0..MAX_ENTRIES, w, a, g \in BOOLEAN : GetFcpTargetMappingV2(t, n, w, a, g)
          \/ \E i \in 0..1 : GetAdapterPortAttributes(t, i)
          \/ ApaFind(t) \/ ApaAdd(t) \/ ApaDone(t)
          \/ \E i \in 0..1, d \in 0..Cardinality(RPORTS) : GetDiscoveredPortAttributes(t, i, d)
          \/ \E g \in BOOLEAN : RefreshInformation(t, g)
          \/ CloseAdapter(t)
          \/ \E w \in RPORTS, g \in BOOLEAN, sl \in SeenLate : ReportLUNs(t, w, TRUE, g, sl[1], sl[2])
          \/ \E w \in RPORTS : ReportLUNs(t, w, FALSE, FALSE, FALSE, FALSE)
          \/ \E w \in RPORTS, l \in LUNS, ok \in BOOLEAN :
                SendScsiInquiry(t, w, l, ok) \/ SendReadCapacity(t, w, l, ok)
          \/ \E o, b \in BOOLEAN : ScsiCommand(t, o, b)
    \/ SysfsChange

Next == Step /\ mem' = [t \in THREADS |-> MemAfter(t)]

Spec == Init /\ [][Next]_vars

-----------------------------------------------------------------------------
(* Properties.                                                              *)

(* The entries of a port a caller is shown: its units not marked invalid,  *)
(* in the order they are stored.                                           *)
EntriesOf(p) ==
    LET v == SelectSeq(p.units, LAMBDA u : ~u.inv)
    IN [k \in DOMAIN v |-> [port |-> p.name, lun |-> v[k].lun]]

(* Every HBA_GetFcpTargetMapping(V2) that succeeds, or reports MORE_DATA,  *)
(* returns in NumberOfEntries the number of valid units of the repository *)
(* it left, the first min(n, total) of them, in repository order, as its  *)
(* entries, and MORE_DATA exactly when they did not all fit; ERROR only    *)
(* for an adapter with no ports.  This is the free/total bookkeeping of   *)
(* the loops in vlib.c and the copy-back of the V2 call.                   *)
MappingMatchesRepository ==
    [][\A t \in THREADS :
         (calls'[t] # calls[t] /\ tpc'[t] = "idle" /\ res'[t].op \in {"map", "v2"}) =>
            LET all == FlattenSeq([i \in DOMAIN ports' |-> EntriesOf(ports'[i])])
                r == res'[t]
            IN \/ r.status = HBA_STATUS_ERROR /\ ports' = <<>>
               \/ r.status \in {HBA_STATUS_ERROR_ILLEGAL_WWN, HBA_STATUS_ERROR}
                  /\ r.op = "v2" /\ ports' = ports
               \/ /\ r.status \in {HBA_STATUS_OK, HBA_STATUS_ERROR_MORE_DATA}
                  /\ r.total = Len(all)
                  /\ r.entries = SubSeq(all, 1, Min({r.n, Len(all)}))
                  /\ (r.status = HBA_STATUS_ERROR_MORE_DATA <=> Len(all) > r.n)]_vars

(* A port never holds two units of one fcp_lun: addUnitToRepos looks the  *)
(* LUN up before block_addItem, under the mutex, however often             *)
(* HBA_RefreshInformation and the mapping calls rescan.                    *)
UnitsUnique ==
    \A i \in DOMAIN ports : \A j, k \in DOMAIN ports[i].units :
        ports[i].units[j].lun = ports[i].units[k].lun => j = k

(* An adapter never holds two ports of one rport name: addPortByName looks *)
(* the name up before it appends.  HBA_GetAdapterPortAttributes does both *)
(* after it has dropped the mutex, so a second thread's scan or            *)
(* HBA_RefreshInformation can append the port in between.                  *)
PortsUnique ==
    \A i, j \in DOMAIN ports : ports[i].name = ports[j].name => i = j

(* After HBA_SendReportLUNs has attached the well-known LUN, detachWLUN's *)
(* unit_remove and revalidateUnits leave no unit of it in the repository.  *)
WlunDetached == \A i \in DOMAIN ports : \A k \in DOMAIN ports[i].units :
                    ports[i].units[k].lun # REPORTLUNS_WLUN

(* Every DIR stream sysfs_getUnitsFromPort opens is closed again.          *)
DirectoriesClosed == dirs = 0

(* Every unit sysfs_getUnitsFromPort stores is a valid unit the mapping    *)
(* lists (the stack unit's isInvalid is never initialised).                *)
UnitsVisible == \A i \in DOMAIN ports : \A k \in DOMAIN ports[i].units :
                    ~ports[i].units[k].inv

(* A SCSI command reads unit->sg_dev, after vlib_data.mutex was released, *)
(* from the unit array it looked the unit up in: no other thread's        *)
(* HBA_RefreshInformation (updateAdapter adding a newly attached LUN to    *)
(* the port) has realloc'ed that array in between.                          *)
UnitNotReallocated == \A t \in THREADS : tpc[t] = "sg" => mem[t] # "moved"

(* Nor has a HBA_CloseAdapter of the same handle freed it.                 *)
UnitNotFreed == \A t \in THREADS : tpc[t] = "sg" => mem[t] # "freed"

(* Every /dev/sg descriptor a SCSI command opens is closed again.          *)
SgDescriptorsReleased == sgFds = 0

====
