# TLA+ models of zfcp-hbaapi

This directory holds TLA+ models of the zfcp HBA API library (`src/vlib*.c`)
and of the Fibre Channel tools built on it (`src/fc_tools/zfcp_show.c`,
`src/fc_tools/zfcp_ping.c`, `src/fc_tools/include/zfcp_util.h`). The models
are checked with TLC. `PROJECT.json` has the machine-readable inventory:
- the components;
- the runs;
- the mutants that show each property can fail;
- the map from each definition to the source lines it models;
- the findings;
- the hazards.

## The system and how its parts interact

- **CT transport.** `send_ct_pt` (zfcp_util.h) allocates request and response buffers. It calls
  `HBA_SendCTPassThru` (vlib.c), which:
  - revalidates the repository;
  - looks the handle up;
  - calls `sg_io_performCTPassThru` / `sg_io_performSGIO` (vlib_sg_io.c), which open the bsg node, issue
    `ioctl(SG_IO)` and close the node.
- **Request engine.** `send_ct` (zfcp_show.c) wraps the transport in a loop of three
  attempts: `uint8_t retries = 3; while (retries--)`. It switches on the CT_IU code of the answer.
- **Query library.** Each `get_*` function of zfcp_show.c builds one request, calls
  `send_ct` and decodes the answer.
- **Topology walk.** `do_something` runs nested loops: ICEs, then their ports, then the
  attached ports of each online port. Along the way it:
  - applies the `-i/-p/-o/-O/-c/-t/-v` filters;
  - sets the "incomplete" flag;
  - builds the `ice_conn` list (`gen_topology`) and prints the inter-switch links
    (`print_topology`).
- **Name-server dump.** `show_ns_info` (`zfcp_show -n`) walks the fabric name server with
  GA_NXT until the first port id comes round again.
- **Ping.** `zfcp_ping` runs the FPNG loop `send_fc_ping` and keeps round-trip
  statistics in `time_stat`. It prints them from `timing_results`, which is also the
  handler of SIGINT, SIGTERM, SIGQUIT and SIGHUP.
- **Library internals.** The rest of the library sits below these tools:
  - the lifecycle: `HBA_LoadLibrary`, `HBA_FreeLibrary`, a global mutex and a netlink listener thread;
  - the event queue: ten slots, an event list and a free list;
  - the adapter/port/unit repository, read from sysfs;
  - the attribute getters;
  - SCSI and RNID pass-through;
  - callback registration stubs.

- **Command line.** `main` of zfcp_show.c parses the options with getopt into
  `display_detail` and `value`, checks their combinations, and picks an adapter with
  `fc_get_hba_handle` (zfcp_util.h). That function loops over `HBA_GetAdapterName`,
  `HBA_OpenAdapter` and the attribute calls, closing every adapter it does not keep. `main`
  then calls `do_something` or `show_ns_info` and finally `HBA_CloseAdapter`.

## Modules

| module | models | state / actions |
|---|---|---|
| `CtTransport` | `send_ct_pt`, `HBA_SendCTPassThru`, `sg_io_performCTPassThru`, `sg_io_performSGIO` | no variables: the outcomes of one pass-through |
| `CtEngine` | `send_ct` and a caller issuing `MAX_CALLS` queries | `Call`, `SendCtAttempt`, `SendCtGiveUp`, `Consume` |
| `NameServer` | `show_ns_info` | `NsQuery`, `FabricChange` |
| `Ping` | `main`, `send_fc_ping`, `update_ts`, `timing_results` of zfcp_ping.c | `MainStart`, `PingSend`, `PingResult`, `UpdateTs`, `EchoDone`, `PingDone`, `MainFinish`, `Signal` |
| `Topology` | `do_something`, `gen_topology`, `print_topology` and the `get_*` queries | `GetIceList`, `VisitIce`, `PortState`, `AttachedPorts`, `EndPorts`, `Finish` |
| `ZfcpShow` | `main` of zfcp_show.c and `fc_get_hba_handle` | no variables: operators from a command line to what `main` does |
| `EventList` | the slot lists of vlib_events.c | no variables: operators on a heap of slot addresses |
| `Vlib` | library lifecycle, adapter array, listener thread, `HBA_GetEventBuffer` | see below |
| `Repository` | the ports and units of one open adapter, and the calls that read them | see below |

The `MC_*` modules give the constants of each model small values. `MC_Topology` also
composes two modules. It instantiates `ZfcpShow` and adds a variable `cmd`, the outcome of
one run of `main`. `MC_Init` chooses `cmd` among the runs of `Main` over:
- every command line of one or two options;
- three adapter lists;
- both outcomes of `HBA_LoadLibrary` and of the `calloc`.

When that run calls `do_something` (zfcp_show.c:740), the Topology walk starts from the
`display_detail` and `value` it passed. Otherwise the walk never starts (`MC_Next`).
`MC_DETAILS`, the pairs that reach `do_something`, is Topology's `DETAILS` constant.

More on each module:

- **`CtTransport`** has no variables. It defines:
  - the outcomes one pass-through can have: allocation failures, library or handle error,
    open / ioctl / close failure, ok;
  - what each outcome does to the process's open descriptors. An ioctl failure returns
    before `close(fd)`;
  - the CT_IU codes.
- **`CtEngine`**:
  - Each `SendCtAttempt` is one iteration of `while (retries--)`: one pass-through and
    the switch on its code. Accept returns. Reject breaks, frees and retries. Any other
    code frees, with a warning on the last iteration. NULL retries.
  - Its state is `retries`, the attempts made, the buffers held (`heap`), the leaked
    descriptors (`fds`) and the warnings printed.
  - The model states no termination or refinement property: `while (retries--)` is a
    three-step countdown, so `send_ct` returns by construction, and a one-step query
    abstraction would follow from the shape of `pc` alone.
- **`NameServer`**:
  - One `NsQuery` is one pass of the do-while loop: `send_ct(GA_NXT)`, then
    `if (!tmp) tmp = port_id`, the break test, the `-p` filter and the print.
  - `FabricChange` lets a remote port log in or out between two queries.
- **`Ping`** has one action per piece of the main thread.
  - `UpdateTs` executes one store of `update_ts` at a time. `Signal` is the handler
    `timing_results`, and it can run between two stores.
  - The fabric's answer is a free choice, except that it answers "token in use" at most
    `MAX_COLLISIONS` times.
- **`Topology`** keeps the loop counters of the code as variables (`ice_cnt`, `ple_cnt`),
  and also `incompl`, the `ice_conn` list `icc` and what has been printed.
  - Each `get_*` is its return value, both on an answer and on a failure. The environment
    chooses failures, up to `MAX_FAILURES` per behaviour.
  - The text of the output is abstracted to which ports, attached ports and links are printed.
- **`ZfcpShow`** models `main` as an operator `Main(argv, loadOk, ads, allocOk)`. It returns
  whether the walk ran, the `display_detail` and `value` it ran with, which adapter it used,
  and the set of adapters left open.
  - `Getopt` folds `Option` over the argument vector. `Option` is the switch of the getopt
    loop: the `cc` count, the `-t` and filter checks, the `-o/-O` xor and `-h`.
  - `FcGetHbaHandle` and `SelectFrom` are `fc_get_hba_handle`: parse `-a`, then loop over the
    adapters, open each one and read its attributes. The loop closes each adapter it does not
    keep and stops at the first match. It calls `strstr` for an `fc_host` selector.
  - An adapter is a record of what it answers (name, WWPN, N_Port id, bus id, host number) and
    of which of its calls fail.
- **`EventList`** defines `InitEventQueue`, `PopEvent`, `AppendEvent` and `FreeEventQueue`.
  Each one is a function from a heap of slot records and the `first`/`last` pointers of the
  two lists to the new heap and pointers. The stores are applied in the order the code makes
  them, so a stale `next` pointer stays stale.
- **`Vlib`** has two application threads, the listener and the adapter array. Its actions:
  - `LoadLibrary`, `FreeLibrary` and `FreeLibraryJoin` (the join under the mutex);
  - `OpenAdapter` and `CloseAdapter`, through `OpenAdapterByIndex`, `FindIndexByName`
    and `DoCloseAdapter`;
  - `RefreshAdapterConfiguration`, `GetNumberOfAdapters`, `GetAdapterName`,
    `GetPortStatistics` and `GetRNIDMgmtInfo`: each one is `LockedRescan`, a
    `RevalidateRepository` under the mutex. What they check after it only decides what they
    return;
  - `GetAdapterAttributes`, which looks up the handle under the mutex, unlocks, and then
    reads sysfs through the adapter pointer (`AdapterAttributesRead`, thread state `attr`);
  - `SendRNID`. Without root it returns before the lock. Otherwise it looks up the adapter and
    keeps `vlib_data.mutex` across both bsg exchanges. `RnidGidPn` is the GID_PN lookup in
    `getDidFromWWN`. A failed exchange leaves the response frame uninitialised, so its D_ID
    is a nondeterministic `"none"` or `"garbage"` (`GidPnIds`). `RnidSend` is the RNID ELS,
    then the unlock. `fds` counts the descriptors that `sg_io_performSGIO` leaves open when
    its ioctl fails;
  - `GetEventBuffer`, which takes the mutex, and `GetEventBufferPop`, which pops after
    unlocking;
  - `ListenerRecv`, `ProcessEvent` (under the mutex, through `GetAdapterByHostNo`) and
    `ListenerExit` (the cancellation).
- **`Repository`** models one open adapter: its port array, the unit array of each port,
  and the sysfs view of rports, targets and LUNs. Its actions:
  - `GetFcpTargetMapping`: revalidate ports and units, then the free/total loops and the
    V2 copy-back;
  - `GetAdapterPortAttributes`, split into `ApaFind`, `ApaAdd` and `ApaDone`, because its
    rport scan runs without the mutex;
  - `GetDiscoveredPortAttributes`, `RefreshInformation` and `CloseAdapter`;
  - `ReportLUNs`: `getSgDevFromPort`, `getAttachedWLUN` with its 100 retries,
    `sg_cmd_report_luns` and `detachWLUN`;
  - `SendScsiInquiry` and `SendReadCapacity`: the root and buffer checks, then
    `LookupUnit`, the locked `getPortByWWPN`/`getUnitByFcLun`. The thread then waits at
    `tpc = "sg"` with the port and unit indices it keeps (`scsi`);
  - `ScsiCommand`: the unlocked `sgutils_SendScsiInquiry`/`SendReadCap` through the kept
    unit pointer. `sgFds` counts the descriptors `sgutils_SendReadCap` leaves open;
  - `SysfsChange`: an rport or LUN appears or goes away.

  `mem[t]` is an auxiliary variable. It records what became of the unit array behind
  thread `t`'s kept pointer: `"moved"` when a `block_addItem` of another thread had to grow
  it (`BlockAllocated` is `block_assertSize`'s arithmetic), and `"freed"` when
  `doCloseAdapter` freed it. `Next` is `Step`, the threads' calls and the fabric's changes,
  with `mem'` computed from each step. Once the array moved, what `unit->sg_dev` reads is
  undefined, so `ScsiCommand` then chooses freely whether the device opens.

Data abstraction:
- Request and response frames are reduced to their CT_IU code and reason bytes.
- WWPNs and port ids are small integers. The WWPNs of `MC_Topology`'s adapters are
  2^28 + k, because TLC's integers are 32-bit signed.
- 0xFFFFFFFF, the `get_ppn` failure value, is written as `PPN_UNKNOWN == -1`.
- Netlink messages are reduced to (event code, host number).
- Sysfs directories are sets of numbers. A DIR stream that is never closed is counted in
  `dirs`.

## Runs

| run | cfg | expect | states | what it shows |
|---|---|---|---|---|
| ct_engine | MC_CtEngine.cfg | pass | 5187 | see below |
| ping | MC_Ping.cfg | pass | 921 | see below |
| ns | MC_NameServer.cfg | pass | 2340 | see below |
| ns_hang | MC_NameServer_hang.cfg | violation | | If the first port of the walk logs out, `zfcp_show -n` loops forever. |
| topology | MC_Topology.cfg | pass | 19256 | see below |
| topology_segv | MC_Topology_segv.cfg | violation | | In `-t`/`-v` mode, a failed GAPNL for an E_Port makes `gen_topology` dereference a NULL `apn` (zfcp_show.c:480). |
| vlib | MC_Vlib.cfg | pass | 63148 | see below |
| vlib_event_queue | MC_Vlib_events.cfg | violation | | `popEvent` leaves a stale `next` pointer on a freed slot, and later events are lost (vlib_events.c:46). |
| vlib_unload_hang | MC_Vlib_unload.cfg | violation | | `HBA_FreeLibrary` joins the listener while holding the mutex. A listener blocked on that mutex is never cancelled (vlib.c:192). |
| repository | MC_Repository.cfg | pass | 180428 | see below |
| repository_port_race | MC_Repository_ports.cfg | violation | | The unlocked rport scan of `HBA_GetAdapterPortAttributes` adds one rport twice (vlib.c:708). |
| repository_scsi_realloc | MC_Repository_scsi.cfg | violation | | `HBA_SendReadCapacity` reads `unit->sg_dev` after the unlock, while another thread's `HBA_RefreshInformation` adds a LUN and reallocs the unit array (vlib.c:1460, also 1187 for INQUIRY). |

What each passing run checks:

- **ct_engine.**
  - On return, `send_ct`'s result is a buffer iff the last attempt was accepted, and NULL
    only after three attempts.
  - The warning is printed at most once per call, and exactly when the last attempt was
    non-conforming.
  - No buffer is held between calls.
- **ping.**
  - An error is returned only after three NULLs in a row, or after a final reject or
    non-conforming answer.
  - An answered token is never sent again.
  - Success comes only after exactly COUNT echoes, and `time_stat` matches them.
  - The program ends.
- **ns.**
  - In a stable fabric the walk lists every registered port the filter admits, exactly once.
  - Logins and logouts cause a duplicate line only when the first port left.
- **topology.**
  - Over every command line of one or two options and three adapter lists, `main` never
    passes on `-t` together with a filter. It never combines `-c` with another option, and it
    closes every adapter it opened (`MainFiltersApart`, `MainNoAdapterLeftOpen`). Both are
    invariants over `cmd`.
  - For every option set `main` passes on, and with any one query or allocation failing:
    printed links are real inter-switch links; every link is printed when nothing failed
    and no filter hides a port; filters print only matching ports; and the incomplete
    warning appears exactly when a list query or an edge allocation failed.
- **vlib.**
  - Two threads (two calls each) load, unload, open, close, rescan, read adapter attributes,
    send RNID and read events while the listener appends.
  - After an unload no adapter has a handle and no listener is left (`UnloadedMeansClean`).
  - An unload that cancels a listener waiting in `recvmsg` returns (`FreeLibraryReturnsFromRecv`).
  - Every attribute read and every RNID exchange ends with the thread back in the library's
    idle state and not holding the mutex, unless a crash stopped the process
    (`CallsReturnUnlocked`). Its mutant drops the unlock after the RNID ELS.
- **repository.**
  - Two threads map, refresh, close, send REPORT LUNS, INQUIRY and READ CAPACITY, and scan
    rports without the mutex,
    while an rport or a LUN comes or goes.
  - No port ever holds one LUN twice (`UnitsUnique`).
  - Every target mapping returns exactly the valid units of the repository it leaves, with the
    right total and MORE_DATA status (`MappingMatchesRepository`).

Each property of a passing run has a mutant in `PROJECT.json`: a plausible bug in the
mapped code that TLC then finds. Examples are an off-by-one in the retry loop, a missing
free, a dropped `-t` check, an adapter not closed on a mismatch, and a reversed loop bound.

## Bounds

| cfg | bound | why it is enough |
|---|---|---|
| CtEngine | `MAX_CALLS = 2`, `MAX_FDS = 2` | Two calls exercise consuming one answer before the next call. Two descriptors let the second call meet a full descriptor table. |
| Ping | `COUNT = 2`, two round-trip times, one collision, one signal | This is enough for min ≠ max, a collision in the middle of a run, and a signal at any store. |
| NameServer | four port ids, the local one second, `MAX_CHANGES = 2` | The first port can be a remote one that leaves and comes back. |
| Topology | two switches with domains 1 and 2, five ports, `MAX_FAILURES = 1` | The ports cover online, offline and testing ports, and E_Ports and N_Ports. There is one inter-switch link and one N_Port device. |
| Topology (command line) | all argv of at most two options; `-i/-p` values 2, 31, 67072, 0 and `""`; `-a` as a bus id, `host1`, a WWPN, an N_Port id, or 0 | Each filter matches a real and a missing port. The `-a` forms include one that matches no adapter and `host1`, which `strstr` also finds in `host12`. |
| Topology (adapters) | no adapters; two adapters; the first one failing at its name, its open or its attributes | One list per exit of the adapter loop. |
| Vlib | two threads, two calls each, one adapter, three slots, three messages, four slot addresses | Enough for a full queue (drop the oldest), a pop racing an append, and an unload during a receive. |
| Repository | two threads, two calls each, two rports (one without a target directory), two LUNs, `MAX_ENTRIES = 1`, two sysfs changes, any initial set of rports, `GROW_UNITS = 1` | `NumberOfEntries = 1` with two units gives MORE_DATA. One change during a call gives a stale scan, two let a LUN go and come back under a kept unit pointer. The code grows a unit array by `VLIB_GROW_UNITS = 8`; with 1, the second unit already reallocs, which stands for the ninth LUN of a real port. |

`MC_Repository.cfg` explores states under `VIEW MC_View`, which leaves out `res`, `dirs` and
`sgFds`. No guard reads them, and `MappingMatchesRepository` looks only at the result a step
sets, so states that differ only in them have the same futures. The README-only properties
about `dirs` and `sgFds` are checked without the view.

In the Topology run, `MC_DETAILS` leaves out the `-i` and `-p` filters whose value is 0.
The reason is explained below.

## Fairness

- **`send_ct`.** The ct_engine run checks only safety, so `CtEngine` has no fairness.
- **`NsQuery`.** It is weakly fair: each transport call of its `send_ct` is bounded by
  `sg_io.timeout`, and nothing else blocks the walk.
- **Ping.** Every main-thread step is weakly fair, but the fabric is not: collisions are
  bounded by a constant, and signals are never forced.
- **Vlib.** The steps of `FreeLibraryJoin`, `GetEventBufferPop`, `ListenerExit` and
  `ProcessEvent` are weakly fair. Each is a thread that has been scheduled and holds no
  lock it waits for. `AdapterAttributesRead`, `RnidGidPn` and `RnidSend` are weakly fair too.
  A sysfs read does not block, and each bsg ioctl is bounded by `sg_io.timeout` (2 s for
  GID_PN, 5 s for RNID). New calls and netlink messages are never forced.
- **Topology and Repository.** These are safety-only models, with no fairness.

## Disagreements found while modelling but not kept as runs

TLC has reached each of these with the models here. Each property named below is defined,
with a comment, in its module.

- **`-i ""` and filters of value 0.** `strtoul` of an empty or zero argument gives 0.
  `get_domain_id` also returns 0 when it fails (zfcp_show.c:532), so a failed domain query
  passes the `-i 0` filter. To see `ShownPortsMatchFilter` fail, drop the restriction of
  `MC_DETAILS`.
- **Two filters at once.** `-i "" -p 31` gets both filters through. The `-i/-p` check tests
  `value`, which `-i ""` left 0. Add `MainOneFilterOnly` to the cfg's invariants.
- **`-a host1` uses `host12`.** `fc_get_hba_handle` matches an fc_host name with
  `strstr`. Add `MainUsesNamedAdapter` to the cfg's invariants.
- **An adapter is left open.** When the `calloc` of `fc_get_hba_handle` fails, the matching
  adapter is left open. `NoAdapterLeftOpen` excludes that path in its antecedent; drop the
  antecedent to see it.
- **The REPORT LUNS well-known LUN stays.** `detachWLUN` removes the unit in sysfs, but its
  `revalidateUnits` scans only a port with no units (vlib_aux.c:976). The WLUN unit 49409
  stays in the repository, so the next target mapping lists it. Add `WlunDetached` to
  `MC_Repository.cfg`.
- **DIR streams leak.** `sysfs_getUnitsFromPort` does not close its directory when the port
  has no target directory. `getAttachedWLUN` calls it up to 101 times under the mutex. Add
  `DirectoriesClosed` to `MC_Repository.cfg`.
- **Uninitialised `isInvalid`.** The stack unit of `sysfs_getUnitsFromPort` has an
  uninitialised `isInvalid`, so a unit can be stored invalid and never listed. Add
  `UnitsVisible`.
- **A reject is retried.** After a CT reject, `send_ct` sends the same request again,
  although the spec calls a reject terminal (`RejectIsTerminal` in `MC_CtEngine.cfg`).
- **The bsg descriptor leaks.** A failed SG_IO ioctl leaves the bsg descriptor open
  (vlib_sg_io.c:58). Add `DescriptorsReleased` to `MC_CtEngine.cfg`.
- **The exit status of a failed ping.** `timing_results(0)` calls `exit(0)`, so a failed
  ping exits with status 0 and `HBA_FreeLibrary` is never called. Add
  `ExitStatusReflectsFailure` to `MC_Ping.cfg`.
- **Links are printed twice.** `print_topology` prints every inter-switch link twice, once
  from each end. The spec's test expects one line (`ExactlyOneLinkPerIsl`).
- **`unloading` stays set.** When the listener thread could not be created,
  `HBA_FreeLibrary`'s `pthread_cancel` fails. It returns ERROR with `vlib_data.unloading`
  still set, so every later unload is refused (`UnloadingOnlyWhileJoining` in `MC_Vlib.cfg`).
- **Signed `char`.** With a signed plain `char`, `reason_code_exp == 0xf4` never holds, and
  a token collision aborts the ping. Set `CHAR_IS_SIGNED = TRUE` to see `PingErrorJustified`
  fail. s390x's `char` is unsigned.
- **`-o` shows more than online ports.** `-o` is `display_detail ^= 0xff ^ ONLINE`. It also
  shows ports in state Testing (3) and Vendor (0xff), because they share bit 0 with Online.
- **Filters hide links.** The `-i`, `-o` and `-O` filters skip queries, not just printing.
  With `-v` they therefore hide links from the topology, against the spec's section 4.5.
- **Silent failures.** A failed `get_port_state`, `get_ppn` or `get_destination_id` does not
  set `incompl`. A failed `calloc` in `gen_topology` replaces `icc_start` with NULL, so the
  edges found so far are lost.
- **Statistics printed out of order.** `timing_results` runs as the SIGINT handler and can
  print between two stores of `update_ts` (zfcp_ping.c:54): a new min with the old max.
  Add `PrintedStatsOrdered` to `MC_Ping.cfg`'s invariants.
- **A closed handle under a SCSI command.** `HBA_CloseAdapter` on the same handle while
  another thread is in `HBA_SendReadCapacity` frees the unit array the command reads.
  This is a misuse by the application, so it is not a run; add `UnitNotFreed`.
- **READ CAPACITY leaks its descriptor.** `sgutils_SendReadCap` returns OK before
  `sg_cmds_close_device` (vlib_sg.c:141). Add `SgDescriptorsReleased` to
  `MC_Repository.cfg`; the first successful READ CAPACITY violates it.
- **RNID to a garbage port.** `getDidFromWWN` ignores the failure of `sg_io_performGIDPN`
  and tests the uninitialised response frame (vlib_sg_io.c:152). If the stack still holds an
  earlier accept, the RNID ELS goes out to an unresolved D_ID. Add `RnidToResolvedPort` to
  `MC_Vlib.cfg`: TLC finds LoadLibrary, SendRNID and a failed GID_PN reaching the RNID step.
- **A closed handle still works.** `getAdapterByHandle` checks only the handle's index
  range (vlib_aux.c:143-166), so calls through a handle that `HBA_CloseAdapter` closed still
  succeed. The HBA API says such a handle is invalid. `HandleFound` models it as the code
  does.
- **Dead code in `HBA_SendRNID`.** `*pRspBufferSize < 0` tests an unsigned value and never
  holds. `sg_io_sendRNID` never returns `HBA_STATUS_ERROR_ELS_REJECT`, so mapping it to OK
  has no effect.
- **Large devices.** `sgutils_SendReadCap` sets `*RspBufferSize` to READCAP10LEN and then
  tests it against READCAP16LEN (vlib_sg.c:145), so a device of 0xffffffff blocks or more
  always gets MORE_DATA and READ CAPACITY(16) is never sent. `SgReadCap` models it.
- **Name-server walk.**
  - `show_ns_info`'s `break` and `continue` skip `free(resp)`.
  - The spec's wraparound test has answers 100, 200, 100, and expects one entry. The code
    prints two.

## Not modelled

- **The codec and message tables**, which are pure formatting.
- **The sysfs reader**: file I/O and parsing. Its results are the sysfs sets of
  `Repository` and `Vlib`.
- **The sg frame contents.** The CDBs and responses of INQUIRY, READ CAPACITY, GID_PN and
  RNID are abstracted to their status.
- **The attribute values that the getters copy**, `HBA_GetPortAttributesByWWN`, and the
  port repository of several adapters at once.
- **Data-level reads.** `sfhelper_getProperty` leaves the previous value in its buffer when
  `fopen` fails (vlib_sfhelper.c:49). `get_ice_list` indexes a buffer sized for 100 with a
  count taken from the response (zfcp_show.c:136). Both are below the model's abstraction of
  a unit's LUN and of a query's result.
- **The callback stubs**, which all return NOT_SUPPORTED.
- **The decoding of payload bytes** by the `get_*` functions.
- **`zfcp_ping`'s option parsing.** `COUNT` and `TOKEN0` are its results.
