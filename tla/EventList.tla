------------------------------ MODULE EventList ------------------------------
(***************************************************************************)
(* The per-adapter event lists of vlib_events.c at the level of pointers:  *)
(* a queue of received events (event_queue.first/last) and a list of free  *)
(* slots (free_event_list.first/last), threaded through the slots' next   *)
(* fields.  Slots live in a heap of ADDRS addresses; 0 is NULL.             *)
(*                                                                         *)
(* The module has no variables.  A heap is a record                        *)
(*   [next : ADDRS -> Ptr, data : ADDRS -> Data, alloc : SUBSET ADDRS]    *)
(* and the lists of one adapter a record [qf, ql, ff, fl : Ptr].  Each     *)
(* operator returns the heap and lists after the function, as the C code  *)
(* leaves them, stores done one after another in the code's order.        *)
(***************************************************************************)
EXTENDS Naturals, Sequences

CONSTANTS
    ADDRS,       \* heap addresses a slot can have (positive integers)
    MAX_SLOTS,   \* MAX_SLOTS of vlib_events.c (10 in the code)
    NO_DATA      \* contents of a slot calloc has just zeroed

NULL == 0
Ptr == ADDRS \cup {NULL}

NoLists == [qf |-> NULL, ql |-> NULL, ff |-> NULL, fl |-> NULL]

(* calloc(1, sizeof(struct vlib_event)): the lowest free address, zeroed,  *)
(* or NULL when the heap is exhausted.                                     *)
Calloc(h) == IF ADDRS \subseteq h.alloc THEN NULL
             ELSE CHOOSE x \in ADDRS \ h.alloc : \A y \in ADDRS \ h.alloc : x <= y
Zeroed(h, x) == [next |-> [h.next EXCEPT ![x] = NULL],
                 data |-> [h.data EXCEPT ![x] = NO_DATA],
                 alloc |-> h.alloc \cup {x}]

(* init_event_queue: event_queue.first = NULL (last is left as it was),    *)
(* then MAX_SLOTS callocs chained into the free list; a failed calloc     *)
(* returns at once, with the slots chained so far.                         *)
RECURSIVE ChainSlots(_, _, _)
ChainSlots(h, l, n) ==
    IF n = 0 THEN [heap |-> h, lists |-> l]
    ELSE LET x == Calloc(h) IN
         IF x = NULL THEN [heap |-> h, lists |-> l]
         ELSE LET h1 == Zeroed(h, x) IN
              ChainSlots([h1 EXCEPT !.next[l.fl] = x], [l EXCEPT !.fl = x], n - 1)

InitEventQueue(h, l) ==
    LET l0 == [l EXCEPT !.qf = NULL]
        x == Calloc(h)
    IN IF x = NULL THEN [heap |-> h, lists |-> [l0 EXCEPT !.ff = NULL]]
       ELSE ChainSlots(Zeroed(h, x), [l0 EXCEPT !.ff = x, !.fl = x], MAX_SLOTS - 1)

(* The slots reached from p by next, in order, stopping at NULL or at a    *)
(* slot already met (the walk of a list that has become a cycle).          *)
RECURSIVE Walk(_, _, _)
Walk(next, p, seen) ==
    IF p = NULL \/ p \in seen THEN <<>>
    ELSE <<p>> \o Walk(next, next[p], seen \cup {p})

Chain(h, p) == Walk(h.next, p, {})

(* free_event_queue: free every slot of the event queue, then of the free  *)
(* list; first ends NULL, last is left dangling.                           *)
FreeEventQueue(h, l) ==
    LET gone == {Chain(h, l.qf)[i] : i \in 1..Len(Chain(h, l.qf))}
                \cup {Chain(h, l.ff)[i] : i \in 1..Len(Chain(h, l.ff))}
    IN [heap |-> [h EXCEPT !.alloc = h.alloc \ gone],
        lists |-> [l EXCEPT !.qf = NULL, !.ff = NULL]]

(* popEvent: unlink the first queued slot and append it to the free list. *)
(* Only when the free list is empty is the slot's next cleared; otherwise *)
(* it keeps pointing at the queued slot after it.                          *)
PopEvent(h, l) ==
    LET ev == l.qf
        qf1 == h.next[ev]
        l1 == [l EXCEPT !.qf = qf1, !.ql = IF qf1 = NULL THEN NULL ELSE l.ql]
        h2 == IF l.fl # NULL THEN [h EXCEPT !.next[l.fl] = ev]
              ELSE [h EXCEPT !.next[ev] = NULL]
        l2 == IF l.fl # NULL THEN l1 ELSE [l1 EXCEPT !.ff = ev]
    IN [heap |-> h2, lists |-> [l2 EXCEPT !.fl = ev], ev |-> ev]

(* appendEvent: take the first free slot, or with none overwrite the      *)
(* oldest queued one; copy the event in, next = NULL, and link it behind  *)
(* event_queue.last (or make it first and last when last is NULL).         *)
(* With neither a free nor a queued slot, event is NULL: the memcpy       *)
(* faults, which the caller sees as ev = NULL.                             *)
AppendEvent(h, l, e) ==
    LET fromFree == l.ff # NULL
        ev == IF fromFree THEN l.ff ELSE l.qf
        l1 == IF fromFree
                 THEN [l EXCEPT !.ff = h.next[ev],
                                !.fl = IF h.next[ev] = NULL THEN NULL ELSE l.fl]
                 ELSE [l EXCEPT !.qf = h.next[ev]]
        h1 == [h EXCEPT !.data[ev] = e, !.next[ev] = NULL]
        h2 == IF l1.ql # NULL THEN [h1 EXCEPT !.next[l1.ql] = ev] ELSE h1
        l2 == IF l1.ql # NULL THEN [l1 EXCEPT !.ql = ev]
              ELSE [l1 EXCEPT !.ql = ev, !.qf = ev]
    IN IF ev = NULL THEN [heap |-> h, lists |-> l, ev |-> NULL]
       ELSE [heap |-> h2, lists |-> l2, ev |-> ev]

(* The events of the queue, oldest first, as the slots hold them.          *)
Contents(h, l) == LET c == Chain(h, l.qf) IN [i \in 1..Len(c) |-> h.data[c[i]]]
=============================================================================
