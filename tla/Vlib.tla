-------------------------------- MODULE Vlib --------------------------------
(***************************************************************************)
(* The HBA API library (vlib.c, vlib_aux.c, vlib_events.c): the global     *)
(* state vlib_data under its mutex, the adapter repository, the netlink    *)
(* listener thread and the per-adapter event lists, driven by application  *)
(* threads that call HBA_LoadLibrary, HBA_FreeLibrary, HBA_OpenAdapter,    *)
(* HBA_CloseAdapter, HBA_GetEventBuffer, HBA_RefreshAdapterConfiguration,  *)
(* the adapter getters and HBA_SendRNID.                                   *)
(*                                                                         *)
(* A section the code runs between VLIB_MUTEX_LOCK and VLIB_MUTEX_UNLOCK   *)
(* is one step, taken only when the mutex is free; HBA_FreeLibrary keeps   *)
(* the mutex across pthread_join, so its join is a step of its own, as    *)
(* are the two bsg exchanges HBA_SendRNID makes under the mutex, and      *)
(* HBA_GetEventBuffer pops events after it has released the mutex, one     *)
(* popEvent per step.  The event lists are the pointer-level EventList.    *)
(*                                                                         *)
(* Adapters are the repository indices 0..ADAPTER_COUNT-1; the SCSI host   *)
(* number of adapter i is i.  sysfs either lists every adapter or has no   *)
(* zfcp driver directory (sysfs_createAndReadConfigAdapter returns OK and  *)
(* adds nothing).  Ports and units are not generated, so                   *)
(* revalidateAdapters has nothing to update and cannot fail.                *)
(***************************************************************************)
EXTENDS Integers, Sequences, FiniteSets, EventList

CONSTANTS
    ADAPTER_COUNT,   \* zfcp adapters sysfs lists
    THREADS,         \* application threads calling the API
    EVENT_CODES,     \* event codes the kernel's FC transport can send
    MAX_CALLS,       \* API calls per application thread
    MAX_MSGS,        \* netlink messages the listener receives
    MAX_COUNT,       \* largest *pEventCount an application passes
    CREATE_CAN_FAIL  \* pthread_create in start_event_thread can fail

ASSUME /\ ADAPTER_COUNT \in Nat \ {0}
       /\ MAX_CALLS \in Nat /\ MAX_MSGS \in Nat /\ MAX_COUNT \in Nat
       /\ CREATE_CAN_FAIL \in BOOLEAN

IDX == 0..ADAPTER_COUNT - 1
VLIB_INVALID_HANDLE == 0
NOBODY == "nobody"
LISTENER == "listener"

(* hbaapi.h:311-316.  dispatch_event drops the two LIP codes before it     *)
(* takes the mutex; process_event queues the link and RSCN events only.    *)
HBA_EVENT_LIP_OCCURRED == 1
HBA_EVENT_LIP_RESET_OCCURRED == 4
QueuedCodes == {2, 3, 5}   \* LINK_UP, LINK_DOWN, RSCN

VARIABLES
    mutex,        \* vlib_data.mutex: NOBODY, a thread or LISTENER
    isLoaded,     \* vlib_data.isLoaded
    unloading,    \* vlib_data.unloading
    isValid,      \* vlib_data.isValid
    used,         \* vlib_data.adapters.used
    handle,       \* adapter index -> adapter->handle
    lists,        \* adapter index -> its event_queue and free_event_list
    heap,         \* the slots: next, data, allocated
    listener,     \* "none" (never created), "recv", "lock" or "exited"
    cancelled,    \* pthread_cancel has been called on the listener
    msg,          \* the event code the listener is about to process
    host,         \* ... and the SCSI host it names
    msgs,         \* netlink messages received
    tpc,          \* thread -> "idle", "join" (in pthread_join) or "pop"
    popA,         \* thread -> adapter index HBA_GetEventBuffer pops from
    left,         \* thread -> *pEventCount - i
    calls,        \* thread -> API calls made
    crashed,      \* appendEvent dereferenced NULL: the process is gone
    fifo,         \* adapter index -> the events HBA_GetEventBuffer owes
    cap,          \* adapter index -> slots init_event_queue obtained
    rnidTo,       \* thread -> the port id its RNID goes to: "resolved" by
                  \* GID_PN, or "garbage" read from an unfilled response
    fds           \* /dev/bsg descriptors sg_io_performSGIO left open

vars == <<mutex, isLoaded, unloading, isValid, used, handle, lists, heap,
          listener, cancelled, msg, host, msgs, tpc, popA, left, calls,
          crashed, fifo, cap, rnidTo, fds>>

repo == <<isValid, used, handle, lists, heap, fifo, cap>>
lsnr == <<listener, cancelled, msg, host, msgs>>
thr == <<tpc, popA, left, calls, rnidTo, fds>>

Lists == [qf : Ptr, ql : Ptr, ff : Ptr, fl : Ptr]
Data == EVENT_CODES \cup {NO_DATA}

TypeOK ==
    /\ mutex \in THREADS \cup {NOBODY, LISTENER}
    /\ {isLoaded, unloading, isValid, cancelled, crashed} \subseteq BOOLEAN
    /\ used \in 0..ADAPTER_COUNT
    /\ handle \in [IDX -> {VLIB_INVALID_HANDLE} \cup {i + 1 : i \in IDX}]
    /\ lists \in [IDX -> Lists]
    /\ heap.next \in [ADDRS -> Ptr] /\ heap.data \in [ADDRS -> Data]
    /\ heap.alloc \subseteq ADDRS
    /\ listener \in {"none", "recv", "lock", "exited"}
    /\ msg \in EVENT_CODES /\ host \in IDX
    /\ msgs \in 0..MAX_MSGS
    /\ tpc \in [THREADS -> {"idle", "join", "pop", "attr", "gidpn", "rnid"}]
    /\ rnidTo \in [THREADS -> {"none", "resolved", "garbage"}] /\ fds \in Nat
    /\ popA \in [THREADS -> IDX] /\ left \in [THREADS -> 0..MAX_COUNT]
    /\ calls \in [THREADS -> 0..MAX_CALLS]
    /\ fifo \in [IDX -> Seq(EVENT_CODES)] /\ cap \in [IDX -> 0..MAX_SLOTS]

(* _initvlib: vlib_data zeroed, mutex initialised.                          *)
Init ==
    /\ mutex = NOBODY
    /\ isLoaded = FALSE /\ unloading = FALSE /\ isValid = FALSE
    /\ used = 0
    /\ handle = [i \in IDX |-> VLIB_INVALID_HANDLE]
    /\ lists = [i \in IDX |-> NoLists]
    /\ heap = [next |-> [x \in ADDRS |-> NULL], data |-> [x \in ADDRS |-> NO_DATA],
               alloc |-> {}]
    /\ listener = "none" /\ cancelled = FALSE
    /\ msg = (CHOOSE c \in EVENT_CODES : TRUE) /\ host = 0 /\ msgs = 0
    /\ tpc = [t \in THREADS |-> "idle"]
    /\ popA = [t \in THREADS |-> 0] /\ left = [t \in THREADS |-> 0]
    /\ calls = [t \in THREADS |-> 0]
    /\ crashed = FALSE
    /\ fifo = [i \in IDX |-> <<>>] /\ cap = [i \in IDX |-> 0]
    /\ rnidTo = [t \in THREADS |-> "none"] /\ fds = 0

(* The thread t calls an API function.                                     *)
Enter(t) == tpc[t] = "idle" /\ calls[t] < MAX_CALLS /\ ~crashed
(* ... and VLIB_MUTEX_LOCK has returned.                                    *)
Ready(t) == Enter(t) /\ mutex = NOBODY
Return(t) == calls' = [calls EXCEPT ![t] = @ + 1]

(* sysfs_createAndReadConfigAdapter: with the zfcp driver directory every  *)
(* adapter not yet in the repository is added by addAdapterToRepos; the    *)
(* entries block_addItem adds are zeroed (no handle, NULL lists); then     *)
(* isValid = 1.  Without the directory it returns OK and adds nothing.    *)
Rescanned(found) ==
    [used |-> IF found THEN ADAPTER_COUNT ELSE used,
     lists |-> IF found THEN [i \in IDX |-> IF i >= used THEN NoLists ELSE lists[i]]
               ELSE lists,
     isValid |-> isValid \/ found]

(* revalidateRepository, once isLoaded: rescan sysfs unless isValid.      *)
Found == IF isValid THEN {FALSE} ELSE BOOLEAN

(* revalidateRepository as the getters call it: ERROR before              *)
(* HBA_LoadLibrary, otherwise the rescan.                                  *)
RevalidateRepository ==
    IF ~isLoaded
       THEN UNCHANGED <<isValid, used, lists>>
       ELSE \E found \in Found :
              LET r == Rescanned(found) IN
              used' = r.used /\ lists' = r.lists /\ isValid' = r.isValid

(* start_event_thread ignores what pthread_create returns.                 *)
CreateOutcomes == IF CREATE_CAN_FAIL THEN BOOLEAN ELSE {TRUE}

(* HBA_LoadLibrary: ERROR when already loaded; otherwise read the adapter  *)
(* configuration, isLoaded = 1 and start the listener thread.              *)
LoadLibrary(t) ==
    /\ Ready(t)
    /\ IF isLoaded
          THEN UNCHANGED <<isLoaded, repo, lsnr>>
          ELSE \E found \in BOOLEAN, created \in CreateOutcomes :
                 LET r == Rescanned(found) IN
                 /\ used' = r.used /\ lists' = r.lists /\ isValid' = r.isValid
                 /\ isLoaded' = TRUE
                 /\ listener' = IF created THEN "recv" ELSE listener
                 /\ cancelled' = (cancelled /\ ~created)
                 /\ UNCHANGED <<handle, heap, fifo, cap, msg, host, msgs>>
    /\ Return(t)
    /\ UNCHANGED <<rnidTo, fds, mutex, unloading, crashed, tpc, popA, left>>

(* pthread_cancel(vlib_data.id) on a listener that exists: a cancellation *)
(* request, acted on at its next cancellation point.                       *)
PthreadCancelLost == UNCHANGED cancelled
PthreadCancel == cancelled' = TRUE

(* HBA_FreeLibrary up to pthread_join: ERROR unless loaded and not already *)
(* unloading; unloading = 1; pthread_cancel, which fails when no listener  *)
(* thread exists (its creation failed): then ERROR, with unloading left 1. *)
(* Otherwise the thread waits in pthread_join, still holding the mutex.    *)
FreeLibrary(t) ==
    /\ Ready(t)
    /\ \/ /\ ~isLoaded \/ unloading
          /\ Return(t)
          /\ UNCHANGED <<unloading, cancelled, mutex, tpc>>
       \/ /\ isLoaded /\ ~unloading
          /\ unloading' = TRUE
          /\ IF listener \in {"recv", "lock"}
                THEN /\ PthreadCancel /\ mutex' = t
                     /\ tpc' = [tpc EXCEPT ![t] = "join"]
                     /\ UNCHANGED calls
                ELSE Return(t) /\ UNCHANGED <<cancelled, mutex, tpc>>
    /\ UNCHANGED <<rnidTo, fds, isLoaded, repo, listener, msg, host, msgs, popA, left, crashed>>

(* getAdapterByIndex: the index, or -1 (NULL) past adapters.used.          *)
GetAdapterByIndex(i, u) == IF i >= u THEN -1 ELSE i

(* doCloseAdapter: the handle is invalidated and free_event_queue runs;   *)
(* the ports and units it frees are the Repository module's.              *)
DoCloseAdapter(a, h, ls, hd) ==
    LET r == FreeEventQueue(h, ls[a]) IN
    [heap |-> r.heap, lists |-> [ls EXCEPT ![a] = r.lists],
     handle |-> [hd EXCEPT ![a] = VLIB_INVALID_HANDLE]]

(* doCloseAdapter for the adapters from index i on, in index order, as    *)
(* closeAllAdapters does: handle invalidated, free_event_queue.            *)
CloseFromNone(i, h, ls, hd) == [heap |-> h, lists |-> ls, handle |-> hd]
RECURSIVE CloseFrom(_, _, _, _)
CloseFrom(i, h, ls, hd) ==
    IF i >= used THEN [heap |-> h, lists |-> ls, handle |-> hd]
    ELSE LET r == DoCloseAdapter(i, h, ls, hd) IN
         CloseFrom(i + 1, r.heap, r.lists, r.handle)

(* pthread_join returns once the cancelled listener is gone: closeAllAdapters, *)
(* block_free of the adapter array, isLoaded = unloading = 0, unlock.      *)
FreeLibraryJoin(t) ==
    /\ tpc[t] = "join" /\ listener = "exited" /\ ~crashed
    /\ LET r == CloseFrom(0, heap, lists, handle) IN
       /\ heap' = r.heap /\ lists' = r.lists /\ handle' = r.handle
    /\ used' = 0
    /\ fifo' = [i \in IDX |-> <<>>]
    /\ isLoaded' = FALSE /\ unloading' = FALSE /\ mutex' = NOBODY
    /\ tpc' = [tpc EXCEPT ![t] = "idle"]
    /\ Return(t)
    /\ UNCHANGED <<rnidTo, fds, isValid, cap, lsnr, popA, left, crashed>>

(* findIndexByName for the name "vlib-adapter<i>": adapter names are       *)
(* their indices and no adapter of the repository is invalid.             *)
FindIndexByName(i, u) == GetAdapterByIndex(i, u)

(* openAdapterByIndex: the handle is index + 1 unless one is set already,  *)
(* and init_event_queue runs whether or not the adapter was open.          *)
OpenAdapterByIndex(i, hd, h, ls) ==
    LET q == InitEventQueue(h, ls[i]) IN
    [handle |-> [hd EXCEPT ![i] = IF @ = VLIB_INVALID_HANDLE THEN i + 1 ELSE @],
     heap |-> q.heap, lists |-> [ls EXCEPT ![i] = q.lists]]

(* HBA_OpenAdapter with the name HBA_GetAdapterName gave for index i:      *)
(* revalidateRepository, findIndexByName, openAdapterByIndex: the handle   *)
(* is index + 1 (kept if already set) and init_event_queue runs on every  *)
(* open, also of an adapter that is open already.                          *)
OpenAdapter(t, i) ==
    /\ Ready(t)
    /\ IF ~isLoaded
          THEN UNCHANGED repo
          ELSE \E found \in Found :
                 LET r == Rescanned(found)
                     o == OpenAdapterByIndex(i, handle, heap, r.lists)
                 IN /\ used' = r.used /\ isValid' = r.isValid
                    /\ IF FindIndexByName(i, r.used) = -1
                          THEN lists' = r.lists /\ UNCHANGED <<handle, heap, fifo, cap>>
                          ELSE /\ handle' = o.handle
                               /\ lists' = o.lists
                               /\ heap' = o.heap
                               /\ fifo' = [fifo EXCEPT ![i] = <<>>]
                               /\ cap' = [cap EXCEPT ![i] = Len(Chain(o.heap, o.lists[i].ff))]
    /\ Return(t)
    /\ UNCHANGED <<rnidTo, fds, mutex, isLoaded, unloading, lsnr, tpc, popA, left, crashed>>

(* getAdapterByHandle: the adapter at index handle - 1, if there is one.   *)
(* Whether that adapter is open is not checked.                            *)
AdapterOf(h, u) == IF h = VLIB_INVALID_HANDLE THEN -1 ELSE GetAdapterByIndex(h - 1, u)

(* HBA_CloseAdapter: getAdapterByHandle, doCloseAdapter.                   *)
CloseAdapter(t, h) ==
    /\ Ready(t)
    /\ LET a == AdapterOf(h, used) IN
       IF a = -1
          THEN UNCHANGED <<handle, lists, heap, fifo>>
          ELSE LET r == DoCloseAdapter(a, heap, lists, handle) IN
               /\ handle' = r.handle /\ lists' = r.lists /\ heap' = r.heap
               /\ fifo' = [fifo EXCEPT ![a] = <<>>]
    /\ Return(t)
    /\ UNCHANGED <<rnidTo, fds, mutex, isLoaded, unloading, isValid, used, cap, lsnr, tpc, popA,
                   left, crashed>>

(* HBA_GetEventBuffer up to its unlock: revalidateRepository (ERROR when   *)
(* not loaded), getAdapterByHandle; then the mutex is released and the    *)
(* thread goes on to pop with the adapter pointer it looked up.            *)
GetEventBuffer(t, h, n) ==
    /\ Ready(t)
    /\ IF ~isLoaded
          THEN Return(t) /\ UNCHANGED <<isValid, used, lists, tpc, popA, left>>
          ELSE \E found \in Found :
                 LET r == Rescanned(found)
                     a == AdapterOf(h, r.used)
                 IN /\ used' = r.used /\ lists' = r.lists /\ isValid' = r.isValid
                    /\ IF a = -1
                          THEN Return(t) /\ UNCHANGED <<tpc, popA, left>>
                          ELSE /\ tpc' = [tpc EXCEPT ![t] = "pop"]
                               /\ popA' = [popA EXCEPT ![t] = a]
                               /\ left' = [left EXCEPT ![t] = n]
                               /\ UNCHANGED calls
    /\ UNCHANGED <<rnidTo, fds, mutex, isLoaded, unloading, handle, heap, fifo, cap, lsnr, crashed>>

(* The test that ends the pop loop: the count is reached, or popEvent     *)
(* found the queue empty.                                                  *)
PopLoopDoneOffByOne(t, a) == left[t] < 0 \/ lists[a].qf = NULL
PopLoopDone(t, a) == left[t] = 0 \/ lists[a].qf = NULL

(* One iteration of for (i = 0; i < *pEventCount; i++): popEvent without  *)
(* the mutex; the loop ends when the count is reached or the queue is     *)
(* empty, and the function returns.                                        *)
GetEventBufferPop(t) ==
    /\ tpc[t] = "pop" /\ ~crashed
    /\ LET a == popA[t] IN
       IF PopLoopDone(t, a)
          THEN /\ tpc' = [tpc EXCEPT ![t] = "idle"] /\ Return(t)
               /\ UNCHANGED <<heap, lists, fifo, left>>
          ELSE LET r == PopEvent(heap, lists[a]) IN
               /\ heap' = r.heap /\ lists' = [lists EXCEPT ![a] = r.lists]
               /\ fifo' = [fifo EXCEPT ![a] = IF @ = <<>> THEN @ ELSE Tail(@)]
               /\ left' = [left EXCEPT ![t] = @ - 1]
               /\ UNCHANGED <<tpc, calls>>
    /\ UNCHANGED <<rnidTo, fds, mutex, isLoaded, unloading, isValid, used, handle, cap, lsnr,
                   popA, crashed>>

(* Lock, revalidateRepository, unlock.                                     *)
LockedRescan(t) ==
    /\ Ready(t)
    /\ RevalidateRepository
    /\ Return(t)
    /\ UNCHANGED <<rnidTo, fds, mutex, isLoaded, unloading, handle, heap, fifo, cap, lsnr,
                   tpc, popA, left, crashed>>

(* HBA_RefreshAdapterConfiguration is the rescan.  HBA_GetNumberOfAdapters, *)
(* HBA_GetAdapterName, HBA_GetPortStatistics and HBA_GetRNIDMgmtInfo do     *)
(* all their work under the mutex after the same rescan: their index,      *)
(* handle and sysfs checks decide only what they return, which is not     *)
(* state.                                                                  *)
RefreshAdapterConfiguration(t) == LockedRescan(t)
GetNumberOfAdapters(t) == LockedRescan(t)
GetAdapterName(t) == LockedRescan(t)
GetPortStatistics(t) == LockedRescan(t)
GetRNIDMgmtInfo(t) == LockedRescan(t)

(* The lookup that follows revalidateRepository in the adapter calls:      *)
(* loaded (else ERROR) and getAdapterByHandle finds an adapter (else       *)
(* INVALID_HANDLE).                                                        *)
HandleFound(h) == isLoaded /\ AdapterOf(h, used') # -1

(* HBA_GetAdapterAttributes up to its unlock: on a handle found the thread *)
(* goes on, without the mutex, to read the attributes through the adapter  *)
(* pointer it looked up; otherwise it returns the status.                  *)
GetAdapterAttributes(t, h) ==
    /\ Ready(t)
    /\ RevalidateRepository
    /\ IF HandleFound(h)
          THEN tpc' = [tpc EXCEPT ![t] = "attr"] /\ UNCHANGED calls
          ELSE Return(t) /\ UNCHANGED tpc
    /\ UNCHANGED <<rnidTo, fds, mutex, isLoaded, unloading, handle, heap, fifo, cap, lsnr,
                   popA, left, crashed>>

(* sysfs_getAdapterAttributes, unlocked: the adapter's ident and its sysfs *)
(* attributes are read; a missing one leaves its field empty, so it        *)
(* returns OK.                                                             *)
AdapterAttributesRead(t) ==
    /\ tpc[t] = "attr" /\ ~crashed
    /\ tpc' = [tpc EXCEPT ![t] = "idle"]
    /\ Return(t)
    /\ UNCHANGED <<rnidTo, fds, mutex, isLoaded, unloading, repo, lsnr, popA, left, crashed>>

(* HBA_SendRNID (and HBA_SendRNIDV2, which calls it): without a response  *)
(* buffer (ERROR_ARG; the test *pRspBufferSize < 0 never holds, it is     *)
(* unsigned) or when not root (ERROR) it returns before the lock          *)
(* (checked false).  Otherwise revalidateRepository and getAdapterByHandle *)
(* under the mutex; on a handle found the thread keeps the mutex for       *)
(* sg_io_sendRNID.                                                         *)
SendRNID(t, h, checked) ==
    /\ Enter(t)
    /\ IF ~checked
          THEN Return(t) /\ UNCHANGED <<mutex, isValid, used, lists, tpc>>
          ELSE /\ mutex = NOBODY
               /\ RevalidateRepository
               /\ IF HandleFound(h)
                     THEN mutex' = t /\ tpc' = [tpc EXCEPT ![t] = "gidpn"] /\ UNCHANGED calls
                     ELSE Return(t) /\ UNCHANGED <<mutex, tpc>>
    /\ UNCHANGED <<rnidTo, fds, isLoaded, unloading, handle, heap, fifo, cap, lsnr, popA,
                   left, crashed>>

(* sg_io_performSGIO's outcomes: OK; open fails; the SG_IO ioctl fails and *)
(* it returns without closing the descriptor.                              *)
SgioOutcomes == {"ok", "noopen", "ioerr"}
SgioLeak(o) == IF o = "ioerr" THEN 1 ELSE 0

(* getDidFromWWN, by what sg_io_performGIDPN left in rsp: the name server *)
(* accepted (ct_cmd 0x8002) with the port's id, or rejected (0).  The      *)
(* result of sg_io_performGIDPN is ignored: after a failed exchange rsp is *)
(* the uninitialised stack frame, which may hold an accept of an earlier   *)
(* call, so d_id is 0 or garbage.                                          *)
GidPnIds(o, acc) ==
    CASE o = "ok" /\ acc -> {"resolved"}
      [] o = "ok" -> {"none"}
      [] OTHER -> {"none", "garbage"}

(* sg_io_sendRNID's GID_PN exchange, under the mutex: d_id == 0 returns    *)
(* ERROR and HBA_SendRNID unlocks; otherwise the RNID ELS is built for     *)
(* d_id.                                                                   *)
RnidGidPn(t, o, acc) ==
    /\ tpc[t] = "gidpn"
    /\ fds' = fds + SgioLeak(o)
    /\ \E d \in GidPnIds(o, acc) :
         IF d = "none"
            THEN /\ mutex' = NOBODY /\ tpc' = [tpc EXCEPT ![t] = "idle"] /\ Return(t)
                 /\ UNCHANGED rnidTo
            ELSE /\ tpc' = [tpc EXCEPT ![t] = "rnid"]
                 /\ rnidTo' = [rnidTo EXCEPT ![t] = d]
                 /\ UNCHANGED <<mutex, calls>>
    /\ UNCHANGED <<isLoaded, unloading, repo, lsnr, popA, left, crashed>>

(* RnidSend with the unlock left out of one return path.                   *)
RnidSendNoUnlock(t, o) ==
    /\ tpc[t] = "rnid"
    /\ fds' = fds + SgioLeak(o)
    /\ tpc' = [tpc EXCEPT ![t] = "idle"] /\ Return(t)
    /\ rnidTo' = [rnidTo EXCEPT ![t] = "none"]
    /\ UNCHANGED <<mutex, isLoaded, unloading, repo, lsnr, popA, left, crashed>>

(* The RNID ELS exchange (ERROR when sg_io_performSGIO fails, else OK),    *)
(* then HBA_SendRNID's unlock and return.                                  *)
RnidSend(t, o) ==
    /\ tpc[t] = "rnid"
    /\ fds' = fds + SgioLeak(o)
    /\ mutex' = NOBODY /\ tpc' = [tpc EXCEPT ![t] = "idle"] /\ Return(t)
    /\ rnidTo' = [rnidTo EXCEPT ![t] = "none"]
    /\ UNCHANGED <<isLoaded, unloading, repo, lsnr, popA, left, crashed>>

(* establish_listener: recvmsg returns a message; dispatch_event drops the *)
(* LIP codes and the listener reads on, otherwise it calls process_event.  *)
(* The host number is any adapter's, or one sysfs did not list.            *)
ListenerRecv ==
    /\ listener = "recv" /\ ~cancelled /\ msgs < MAX_MSGS /\ ~crashed
    /\ msgs' = msgs + 1
    /\ \E c \in EVENT_CODES, hn \in IDX :
         IF c \in {HBA_EVENT_LIP_OCCURRED, HBA_EVENT_LIP_RESET_OCCURRED}
            THEN UNCHANGED <<listener, msg, host>>
            ELSE listener' = "lock" /\ msg' = c /\ host' = hn
    /\ UNCHANGED <<mutex, isLoaded, unloading, repo, cancelled, thr, crashed>>

(* recvmsg is a cancellation point: a cancelled listener ends there.       *)
ListenerExit ==
    /\ listener = "recv" /\ cancelled
    /\ listener' = "exited"
    /\ UNCHANGED <<mutex, isLoaded, unloading, repo, cancelled, msg, host, msgs,
                   thr, crashed>>

(* getAdapterByHostNo: the adapter whose fc_host number is hn; adapter i  *)
(* of the model is fc_host i.                                              *)
GetAdapterByHostNo(hn, u) == GetAdapterByIndex(hn, u)

(* process_event, once VLIB_MUTEX_LOCK returns (pthread_mutex_lock is not a *)
(* cancellation point): getAdapterByHostNo; an adapter that is not open   *)
(* or an unknown code is discarded; otherwise appendEvent.                 *)
ProcessEvent ==
    /\ listener = "lock" /\ mutex = NOBODY /\ ~crashed
    /\ listener' = "recv"
    /\ IF \/ GetAdapterByHostNo(host, used) = -1
          \/ handle[host] = VLIB_INVALID_HANDLE
          \/ msg \notin QueuedCodes
          THEN UNCHANGED <<heap, lists, fifo, crashed>>
          ELSE LET r == AppendEvent(heap, lists[host], msg) IN
               IF r.ev = NULL
                  THEN crashed' = TRUE /\ UNCHANGED <<heap, lists, fifo>>
                  ELSE /\ heap' = r.heap
                       /\ lists' = [lists EXCEPT ![host] = r.lists]
                       /\ fifo' = [fifo EXCEPT ![host] =
                                     Append(IF Len(@) >= cap[host] THEN Tail(@) ELSE @,
                                            msg)]
                       /\ UNCHANGED crashed
    /\ UNCHANGED <<mutex, isLoaded, unloading, isValid, used, handle, cap, cancelled,
                   msg, host, msgs, thr>>

Next ==
    \/ \E t \in THREADS :
         \/ LoadLibrary(t)
         \/ FreeLibrary(t)
         \/ FreeLibraryJoin(t)
         \/ \E i \in IDX : OpenAdapter(t, i)
         \/ \E h \in 0..ADAPTER_COUNT : CloseAdapter(t, h)
         \/ \E h \in 0..ADAPTER_COUNT, n \in 1..MAX_COUNT : GetEventBuffer(t, h, n)
         \/ GetEventBufferPop(t)
         \/ RefreshAdapterConfiguration(t) \/ GetNumberOfAdapters(t) \/ GetAdapterName(t)
         \/ GetPortStatistics(t) \/ GetRNIDMgmtInfo(t)
         \/ \E h \in 0..ADAPTER_COUNT : GetAdapterAttributes(t, h)
         \/ AdapterAttributesRead(t)
         \/ \E h \in 0..ADAPTER_COUNT, c \in BOOLEAN : SendRNID(t, h, c)
         \/ \E o \in SgioOutcomes, acc \in BOOLEAN : RnidGidPn(t, o, acc)
         \/ \E o \in SgioOutcomes : RnidSend(t, o)
    \/ ListenerRecv
    \/ ListenerExit
    \/ ProcessEvent

(* A thread inside the library runs on (the scheduler is fair to it); the *)
(* listener, once it has a message, goes on to process it and a cancelled *)
(* listener reaches its cancellation point.  A bsg exchange returns: the  *)
(* ioctl is bounded by sg_io.timeout (2 s for GID_PN, 5 s for RNID), and  *)
(* the sysfs reads of sysfs_getAdapterAttributes do not block.  Calls and *)
(* messages are the environment's and are never forced.                    *)
Fairness ==
    /\ \A t \in THREADS : WF_vars(FreeLibraryJoin(t)) /\ WF_vars(GetEventBufferPop(t))
    /\ \A t \in THREADS : /\ WF_vars(AdapterAttributesRead(t))
                         /\ WF_vars(\E o \in SgioOutcomes, acc \in BOOLEAN : RnidGidPn(t, o, acc))
                         /\ WF_vars(\E o \in SgioOutcomes : RnidSend(t, o))
    /\ WF_vars(ListenerExit) /\ WF_vars(ProcessEvent)

Spec == Init /\ [][Next]_vars /\ Fairness

(***************************************************************************)
(* Properties.                                                             *)
(***************************************************************************)

(* Once HBA_FreeLibrary has returned OK (or before the first load), no    *)
(* adapter has a handle and no listener thread is left to append events: *)
(* closeAllAdapters and the cancel and join of the listener both ran.     *)
UnloadedMeansClean ==
    ~isLoaded => /\ \A i \in IDX : handle[i] = VLIB_INVALID_HANDLE
                 /\ listener \notin {"recv", "lock"}

(* HBA_FreeLibrary returns when it cancels a listener that is waiting in  *)
(* recvmsg: the listener ends at that cancellation point and pthread_join  *)
(* comes back, although the mutex is held all along.                      *)
FreeLibraryReturnsFromRecv ==
    \A t \in THREADS : (tpc[t] = "join" /\ listener = "recv") ~> tpc[t] = "idle"

(* vlib_data.unloading is set only while a HBA_FreeLibrary is under way:  *)
(* every return of HBA_FreeLibrary leaves it 0 again, so a later load and *)
(* unload are not refused.                                                 *)
UnloadingOnlyWhileJoining ==
    unloading => \E t \in THREADS : tpc[t] = "join"

(* The queue of an open adapter holds, oldest first, the events the       *)
(* listener appended and HBA_GetEventBuffer has not yet returned, the     *)
(* oldest dropped when all slots are in use (vlib_events.c's contract for *)
(* popEvent and appendEvent).                                              *)
EventQueueFaithful ==
    ~crashed => \A i \in IDX : i < used /\ handle[i] # VLIB_INVALID_HANDLE
                                 => Contents(heap, lists[i]) = fifo[i]

(* A call that runs on past the lookup returns, and gives back what it    *)
(* holds: HBA_SendRNID, which keeps vlib_data.mutex across its GID_PN and  *)
(* RNID exchanges, releases it on every path (a d_id of 0, a failed       *)
(* ioctl, success), and HBA_GetAdapterAttributes returns after its        *)
(* unlocked read.  A mutex kept would block every later call and the      *)
(* listener.  (A crash of appendEvent ends the process and every call.)   *)
CallsReturnUnlocked ==
    \A t \in THREADS :
       tpc[t] \in {"attr", "gidpn", "rnid"} ~> (tpc[t] = "idle" /\ mutex # t) \/ crashed

(* HBA_SendRNID addresses its RNID ELS to the port id the name server gave *)
(* for the WWN in this call (getDidFromWWN's accept).                      *)
RnidToResolvedPort == \A t \in THREADS : tpc[t] = "rnid" => rnidTo[t] = "resolved"

(* HBA_FreeLibrary returns: a thread that has cancelled the listener gets *)
(* back from pthread_join.                                                 *)
FreeLibraryReturns ==
    \A t \in THREADS : tpc[t] = "join" ~> tpc[t] = "idle"
=============================================================================
