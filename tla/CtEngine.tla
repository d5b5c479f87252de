------------------------------ MODULE CtEngine ------------------------------
(***************************************************************************)
(* The retrying request engine send_ct (fc_tools/zfcp_show.c) driven by a  *)
(* caller that issues up to MAX_CALLS queries one after another, the way   *)
(* get_domain_id, get_port_state, ... do.  Every loop iteration is one     *)
(* step: one send_ct_pt call (CtTransport) and the switch on its CT code.  *)
(***************************************************************************)
EXTENDS Integers, Sequences, CtTransport

CONSTANTS
    MAX_FDS,     \* descriptors the process can still open (RLIMIT_NOFILE headroom)
    MAX_CALLS    \* send_ct calls made in one behaviour

ASSUME MAX_FDS \in Nat /\ MAX_CALLS \in Nat \ {0}

(* uint8_t retries = 3; while (retries--)                                  *)
SEND_CT_RETRIES == 3

NO_RESPONSE == -1   \* code recorded for an attempt that returned NULL

VARIABLES
    pc,         \* "idle" (caller), "loop" (inside send_ct), "done" (returned)
    retries,    \* the local retries of send_ct
    attempts,   \* the attempts of the current call: [step, code] records
    result,     \* what send_ct returned: "resp" or "NULL"
    heap,       \* CT response buffers allocated and not yet freed
    fds,        \* bsg descriptors opened and never closed
    warnings,   \* print_error_statement() calls in the current send_ct
    calls       \* send_ct calls the caller has completed

vars == <<pc, retries, attempts, result, heap, fds, warnings, calls>>

Attempt == [step : SendCtPtSteps, code : ResponseCodes \cup {NO_RESPONSE}]

TypeOK ==
    /\ pc \in {"idle", "loop", "done"}
    /\ retries \in 0..SEND_CT_RETRIES
    /\ attempts \in Seq(Attempt)
    /\ result \in {"resp", "NULL"}
    /\ heap \in Nat
    /\ fds \in Nat
    /\ warnings \in Nat
    /\ calls \in 0..MAX_CALLS

Init ==
    /\ pc = "idle"
    /\ retries = 0
    /\ attempts = <<>>
    /\ result = "NULL"
    /\ heap = 0
    /\ fds = 0
    /\ warnings = 0
    /\ calls = 0

(* Seeded fault for mutation analysis: uint8_t retries = 4.                *)
CallRetriesOffByOne ==
    /\ pc = "idle"
    /\ calls < MAX_CALLS
    /\ pc' = "loop"
    /\ retries' = SEND_CT_RETRIES + 1
    /\ attempts' = <<>>
    /\ result' = "NULL"
    /\ warnings' = 0
    /\ UNCHANGED <<heap, fds, calls>>

(* Seeded fault: the caller re-enters send_ct without consuming the answer. *)
CallWithoutConsume ==
    /\ pc \in {"idle", "done"}
    /\ calls < MAX_CALLS
    /\ pc' = "loop"
    /\ retries' = SEND_CT_RETRIES
    /\ attempts' = <<>>
    /\ result' = "NULL"
    /\ warnings' = 0
    /\ UNCHANGED <<heap, fds, calls>>

(* The caller enters send_ct.                                               *)
Call ==
    /\ pc = "idle"
    /\ calls < MAX_CALLS
    /\ pc' = "loop"
    /\ retries' = SEND_CT_RETRIES
    /\ attempts' = <<>>
    /\ result' = "NULL"
    /\ warnings' = 0
    /\ UNCHANGED <<heap, fds, calls>>

(* Codes a response can carry: none when send_ct_pt returned NULL.        *)
CodesOf(step) == IF Responded(step) THEN ResponseCodes ELSE {NO_RESPONSE}

(* Seeded fault: the reject case returns without free(resp).              *)
FreedBySendCtNoReject(step, code) == Responded(step) /\ code = OTHER_CODE

(* Buffer freed by send_ct after the switch: every response not accepted. *)
FreedBySendCt(step, code) == Responded(step) /\ code # GS_ACCEPT_RESPONSE_CT_IU

(* Seeded fault: the non-conforming warning without the !retries test.    *)
WarnsNowAlways(code, r) == code = OTHER_CODE

(* default: if (!retries) print_error_statement();  -- retries already     *)
(* decremented by the loop test, so 0 means the last iteration.            *)
WarnsNow(code, r) == code = OTHER_CODE /\ r = 0

(* The loop test while (retries--) lets another iteration run.            *)
IterationLeft(r) == r > 0

(* One iteration of while (retries--): send_ct_pt, then                    *)
(*   NULL      -> sleep(1); continue                                       *)
(*   ACCEPT    -> return resp                                              *)
(*   REJECT    -> break out of the switch, free(resp), next iteration      *)
(*   otherwise -> warn if this was the last iteration, free(resp)          *)
SendCtAttempt ==
    /\ pc = "loop"
    /\ IterationLeft(retries)
    /\ retries' = retries - 1
    /\ \E step \in SendCtPtOutcomes(fds, MAX_FDS) : \E code \in CodesOf(step) :
         /\ attempts' = Append(attempts, [step |-> step, code |-> code])
         /\ fds' = FdsAfter(fds, step)
         /\ heap' = heap + (IF Responded(step) THEN 1 ELSE 0)
                         - (IF FreedBySendCt(step, code) THEN 1 ELSE 0)
         /\ warnings' = warnings + (IF WarnsNow(code, retries') THEN 1 ELSE 0)
         /\ IF code = GS_ACCEPT_RESPONSE_CT_IU
               THEN pc' = "done" /\ result' = "resp"
               ELSE UNCHANGED <<pc, result>>
    /\ UNCHANGED calls

(* Seeded fault: send_ct gives up with one iteration left.                 *)
SendCtGiveUpEarly ==
    /\ pc = "loop"
    /\ retries <= 1
    /\ pc' = "done"
    /\ result' = "NULL"
    /\ UNCHANGED <<retries, attempts, heap, fds, warnings, calls>>

(* The loop test finds retries == 0: return NULL.                           *)
SendCtGiveUp ==
    /\ pc = "loop"
    /\ retries = 0
    /\ pc' = "done"
    /\ result' = "NULL"
    /\ UNCHANGED <<retries, attempts, heap, fds, warnings, calls>>

(* The caller uses the answer and frees it, as get_domain_id does:         *)
(* if (!resp) return 0; ...; free(resp).                                   *)
Consume ==
    /\ pc = "done"
    /\ pc' = "idle"
    /\ heap' = heap - (IF result = "resp" THEN 1 ELSE 0)
    /\ calls' = calls + 1
    /\ UNCHANGED <<retries, attempts, result, fds, warnings>>

Next == Call \/ SendCtAttempt \/ SendCtGiveUp \/ Consume

Spec == Init /\ [][Next]_vars

-----------------------------------------------------------------------------
(* Properties                                                              *)

LastAttempt == attempts[Len(attempts)]

(* send_ct returns a buffer exactly when its last transport call was       *)
(* accepted, no earlier call was, and it returns NULL only after using up  *)
(* all three iterations of while (retries--).                              *)
ReturnMatchesAttempts ==
    pc = "done" =>
        /\ \A i \in 1..Len(attempts) - 1 :
               attempts[i].code # GS_ACCEPT_RESPONSE_CT_IU
        /\ (result = "resp") = (Len(attempts) > 0 /\
                                LastAttempt.code = GS_ACCEPT_RESPONSE_CT_IU)
        /\ result = "NULL" => Len(attempts) = SEND_CT_RETRIES

(* The non-conforming warning of send_ct is printed at most once per call, *)
(* and when send_ct has returned it was printed exactly when the call      *)
(* failed on a non-conforming answer in its last iteration.                *)
WarnOnceOnExhaustion ==
    /\ warnings \in 0..1
    /\ pc = "done" =>
         ((warnings = 1) = (result = "NULL" /\ Len(attempts) > 0 /\
                            LastAttempt.code = OTHER_CODE))

(* Every response buffer send_ct_pt hands to send_ct is freed on every     *)
(* path except the accepted one, whose buffer the caller frees: between    *)
(* calls no buffer is held, and on return at most the returned one.        *)
NoResponseLeak ==
    /\ pc \in {"idle", "loop"} => heap = 0
    /\ pc = "done" => heap = IF result = "resp" THEN 1 ELSE 0

(* The spec calls a reject terminal for a query: once a Reject came back,  *)
(* send_ct makes no further transport call.                                *)
RejectIsTerminal ==
    \A i \in 1..Len(attempts) - 1 : attempts[i].code # GS_REJECT_RESPONSE_CT_IU

(* Every descriptor sg_io_performSGIO opens is closed again by the time    *)
(* the pass-through returns.                                               *)
DescriptorsReleased == fds = 0
=============================================================================
