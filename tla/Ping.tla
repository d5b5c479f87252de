-------------------------------- MODULE Ping --------------------------------
(***************************************************************************)
(* zfcp_ping (fc_tools/zfcp_ping.c): main, the FPNG loop send_fc_ping,     *)
(* the statistics update update_ts and the signal handler timing_results.  *)
(*                                                                         *)
(* Two control flows share the statistics: the main thread, and the        *)
(* handler that SIGINT/SIGTERM/SIGQUIT/SIGHUP run on top of it at any      *)
(* instruction boundary.  update_ts is therefore a series of single        *)
(* stores; everything else of the main thread between two pass-throughs   *)
(* is one step.  The fabric's answers are free choices, except that it     *)
(* answers "token in use" at most MAX_COLLISIONS times.                    *)
(***************************************************************************)
EXTENDS Integers, Sequences, FiniteSets, CtTransport

CONSTANTS
    COUNT,           \* cnt: pings requested with -c (default 3)
    TOKEN0,          \* token given with -t (default 0)
    DIFFS,           \* round-trip times calc_time_diff can return (usec)
    MAX_COLLISIONS,  \* "token in use" rejects the fabric sends
    MAX_SIGNALS,     \* signals delivered to the process
    CHAR_IS_SIGNED   \* the ABI's plain char: unsigned on s390x

ASSUME /\ COUNT \in Nat \ {0}
       /\ TOKEN0 \in Nat
       /\ DIFFS \subseteq Nat \ {0}
       /\ MAX_COLLISIONS \in Nat
       /\ MAX_SIGNALS \in Nat
       /\ CHAR_IS_SIGNED \in BOOLEAN

(* uint8_t retry = 2: a NULL response is retried twice.                    *)
PING_RETRIES == 2

(* Reject reason bytes the fabric can send: (reason, explanation).          *)
ReasonCodes == {RC_LOGICAL_ERROR, 9}
ExplCodes == {RCE_PROCESSING_REQUEST, 0}

(* The preamble's reason bytes are plain char (zfcp_util.h:297-298): read  *)
(* as a signed value where char is signed.                                 *)
CharValue(b) == IF CHAR_IS_SIGNED /\ b >= 128 THEN b - 256 ELSE b

(* The fabric's own meaning of a reject: "token in use" is reason         *)
(* LOGICAL_ERROR with explanation PROCESSING_REQUEST.                      *)
InUse(rsn, expl) == rsn = RC_LOGICAL_ERROR /\ expl = RCE_PROCESSING_REQUEST

Signals == {"SIGHUP", "SIGINT"}   \* SIGTERM and SIGQUIT act as SIGINT

VARIABLES
    pc,          \* main thread: "start", "ping", "wait", "update", "ret", "exit"
    retry,       \* send_fc_ping's retry
    token,       \* *tp, the token of the next FPNG request
    count,       \* send_fc_ping's count
    failStreak,  \* consecutive pass-throughs that returned NULL
    answered,    \* tokens the fabric has answered (accept or reject)
    lastAnswer,  \* the fabric's last answer: "none", "accept", "in_use", ...
    echoed,      \* round-trip times of the echoes received, in order
    diff,        \* the round-trip time update_ts is storing
    pending,     \* stores of update_ts not yet executed
    ts,          \* time_stat: min, avg as avgSum/avgN, max, count
    rc,          \* what send_fc_ping returned: "none", "OK", "ERROR", "ERROR_ARG"
    printed,     \* the statistics lines timing_results printed
    handler,     \* setup_signal_handling has run
    signals,     \* signals delivered so far
    collisions,  \* "token in use" rejects sent so far
    exitStatus   \* the process's exit status once pc = "exit"

vars == <<pc, retry, token, count, failStreak, answered, lastAnswer, echoed,
          diff, pending, ts, rc, printed, handler, signals, collisions,
          exitStatus>>

Stats == [min : Nat, avgSum : Nat, avgN : Nat, max : Nat, count : Nat]

TypeOK ==
    /\ pc \in {"start", "ping", "wait", "update", "ret", "exit"}
    /\ retry \in 0..PING_RETRIES
    /\ token \in Nat
    /\ count \in 0..COUNT
    /\ failStreak \in 0..(PING_RETRIES + 1)
    /\ answered \subseteq Nat
    /\ lastAnswer \in {"none", "accept", "in_use", "reject", "other"}
    /\ echoed \in Seq(DIFFS)
    /\ pending \in Seq({"min0", "avg0", "max0", "min", "avg", "max", "count"})
    /\ ts \in Stats
    /\ rc \in {"none", "OK", "ERROR", "ERROR_ARG"}
    /\ handler \in BOOLEAN
    /\ signals \in 0..MAX_SIGNALS
    /\ collisions \in 0..MAX_COLLISIONS
    /\ exitStatus \in {"none", "0", "ERROR", "killed"}

Init ==
    /\ pc = "start"
    /\ retry = PING_RETRIES
    /\ token = TOKEN0
    /\ count = COUNT
    /\ failStreak = 0
    /\ answered = {}
    /\ lastAnswer = "none"
    /\ echoed = <<>>
    /\ diff = CHOOSE d \in DIFFS : TRUE
    /\ pending = <<>>
    /\ ts = [min |-> 0, avgSum |-> 0, avgN |-> 0, max |-> 0, count |-> 0]
    /\ rc = "none"
    /\ printed = {}
    /\ handler = FALSE
    /\ signals = 0
    /\ collisions = 0
    /\ exitStatus = "none"

Snapshot(t) == [min |-> t.min, avgSum |-> t.avgSum, avgN |-> t.avgN, max |-> t.max]

(* main up to send_fc_ping's loop: HBA_LoadLibrary, fc_get_hba_handle,     *)
(* time_stat.count = 0, setup_signal_handling, then send_fc_ping's         *)
(* if (!dest_val) return HBA_STATUS_ERROR_ARG.                             *)
MainStart ==
    /\ pc = "start"
    /\ \/ /\ pc' = "exit"                 \* load fails or no adapter found
          /\ exitStatus' = "ERROR"
          /\ UNCHANGED <<handler, rc>>
       \/ /\ handler' = TRUE               \* destination parses to 0
          /\ pc' = "ret"
          /\ rc' = "ERROR_ARG"
          /\ UNCHANGED exitStatus
       \/ /\ handler' = TRUE
          /\ pc' = "ping"
          /\ UNCHANGED <<rc, exitStatus>>
    /\ UNCHANGED <<retry, token, count, failStreak, answered, lastAnswer,
                   echoed, diff, pending, ts, printed, signals, collisions>>

(* Stores of update_ts, in program order: the first echo assigns all      *)
(* three values, later ones compare and then fold diff into the average.  *)
FirstStores == <<"min0", "avg0", "max0", "count">>
NextStores == <<"min", "max", "count", "avg">>

(* Seeded fault: if (time_stat.max > diff) in the else branch.          *)
ApplyStoreMaxReversed(t, st, d) ==
    CASE st = "min0"  -> [t EXCEPT !.min = d]
      [] st = "avg0"  -> [t EXCEPT !.avgSum = d, !.avgN = 1]
      [] st = "max0"  -> [t EXCEPT !.max = d]
      [] st = "min"   -> [t EXCEPT !.min = IF t.min > d THEN d ELSE t.min]
      [] st = "max"   -> [t EXCEPT !.max = IF t.max > d THEN d ELSE t.max]
      [] st = "count" -> [t EXCEPT !.count = t.count + 1]
      [] st = "avg"   -> [t EXCEPT !.avgSum = t.avgSum + d, !.avgN = t.count]

(* One store of update_ts.  avg += (diff - avg) / ++count runs after the  *)
(* count store; as only the main thread writes time_stat, avg is then     *)
(* the mean of count - 1 values and the new mean is (avgSum + diff)/count. *)
ApplyStore(t, st, d) ==
    CASE st = "min0"  -> [t EXCEPT !.min = d]
      [] st = "avg0"  -> [t EXCEPT !.avgSum = d, !.avgN = 1]
      [] st = "max0"  -> [t EXCEPT !.max = d]
      [] st = "min"   -> [t EXCEPT !.min = IF t.min > d THEN d ELSE t.min]
      [] st = "max"   -> [t EXCEPT !.max = IF t.max < d THEN d ELSE t.max]
      [] st = "count" -> [t EXCEPT !.count = t.count + 1]
      [] st = "avg"   -> [t EXCEPT !.avgSum = t.avgSum + d, !.avgN = t.count]

(* The collision test of send_fc_ping on the reason bytes as read.        *)
CollisionSeen(rsn, expl) ==
    CharValue(rsn) = RC_LOGICAL_ERROR /\ CharValue(expl) = RCE_PROCESSING_REQUEST

(* The token is a uint32_t; its wrap needs 2^32 requests, beyond any     *)
(* bound checked here, so the increment is kept unbounded.              *)
NextToken(t) == t + 1

(* Consecutive unanswered requests, counted up to PING_RETRIES + 1.      *)
StreakAfterFailure(n) == IF n <= PING_RETRIES THEN n + 1 ELSE n

(* Seeded fault for mutation analysis: if (retry) continue; -- retry never *)
(* counts down.                                                            *)
PingNoResponseNoDecrement ==
    /\ failStreak' = StreakAfterFailure(failStreak)
    /\ IF retry > 0
          THEN pc' = "ping" /\ UNCHANGED <<retry, rc>>
          ELSE pc' = "ret" /\ rc' = "ERROR" /\ UNCHANGED retry
    /\ UNCHANGED <<token, answered, lastAnswer, diff, pending, collisions>>

(* Seeded fault: if (retry-- >= 0), one retry too many.                    *)
PingNoResponseExtraRetry ==
    /\ failStreak' = failStreak + 1
    /\ IF retry >= 0
          THEN retry' = retry - 1 /\ pc' = "ping" /\ UNCHANGED rc
          ELSE pc' = "ret" /\ rc' = "ERROR" /\ UNCHANGED retry
    /\ UNCHANGED <<token, answered, lastAnswer, diff, pending, collisions>>

(* if (!resp) { if (retry--) continue; else return HBA_STATUS_ERROR; }     *)
PingNoResponse ==
    /\ failStreak' = StreakAfterFailure(failStreak)
    /\ IF retry > 0
          THEN retry' = retry - 1 /\ pc' = "ping" /\ UNCHANGED rc
          ELSE pc' = "ret" /\ rc' = "ERROR" /\ UNCHANGED retry
    /\ UNCHANGED <<token, answered, lastAnswer, diff, pending, collisions>>

(* A reject: a token collision increments the token and loops, any other  *)
(* reject goes to err_out.                                                 *)
PingReject ==
    \E rsn \in ReasonCodes, expl \in ExplCodes :
        /\ InUse(rsn, expl) => collisions < MAX_COLLISIONS
        /\ collisions' = collisions + (IF InUse(rsn, expl) THEN 1 ELSE 0)
        /\ lastAnswer' = IF InUse(rsn, expl) THEN "in_use" ELSE "reject"
        /\ IF CollisionSeen(rsn, expl)
              THEN token' = NextToken(token) /\ pc' = "ping" /\ UNCHANGED rc
              ELSE pc' = "ret" /\ rc' = "ERROR" /\ UNCHANGED token
        /\ UNCHANGED <<diff, pending>>

(* Seeded fault: the echo printed with tok=*tp, the token not moved on.   *)
PingAcceptNoIncrement ==
    /\ token' = token
    /\ lastAnswer' = "accept"
    /\ \E d \in DIFFS : diff' = d
    /\ pending' = IF ts.count = 0 THEN FirstStores ELSE NextStores
    /\ pc' = "update"
    /\ UNCHANGED <<rc, collisions>>

(* An accept: print the echo with tok=*tp and *tp += 1, and update_ts(); the sleep  *)
(* and count-- follow once update_ts has returned.                         *)
PingAccept ==
    /\ token' = NextToken(token)
    /\ lastAnswer' = "accept"
    /\ \E d \in DIFFS : diff' = d
    /\ pending' = IF ts.count = 0 THEN FirstStores ELSE NextStores
    /\ pc' = "update"
    /\ UNCHANGED <<rc, collisions>>

(* Any other code: print_error_statement(); goto err_out.                  *)
PingNonConforming ==
    /\ lastAnswer' = "other"
    /\ pc' = "ret"
    /\ rc' = "ERROR"
    /\ UNCHANGED <<token, diff, pending, collisions>>

(* Seeded fault: the else retry = 2 after a response is missing.         *)
RetryAfterResponseKept == retry

(* Any response resets retry: } else retry = 2;                            *)
RetryAfterResponse == PING_RETRIES

(* One iteration of while (count): gettimeofday(&start) and send_ct_pt   *)
(* with FCS_RCC_FPNG, which blocks in the SG_IO ioctl.                     *)
PingSend ==
    /\ pc = "ping"
    /\ count > 0
    /\ pc' = "wait"
    /\ UNCHANGED <<retry, token, count, failStreak, answered, lastAnswer,
                   echoed, diff, pending, ts, rc, printed, handler, signals,
                   collisions, exitStatus>>

(* send_ct_pt returns: the switch on pre->code.  Any response resets       *)
(* retry to 2.                                                             *)
PingResult ==
    /\ pc = "wait"
    /\ \E step \in SendCtPtSteps :
         IF ~Responded(step)
            THEN PingNoResponse
            ELSE /\ retry' = RetryAfterResponse
                 /\ failStreak' = 0
                 /\ answered' = answered \cup {token}
                 /\ \/ PingReject
                    \/ PingAccept
                    \/ PingNonConforming
    /\ UNCHANGED <<count, echoed, ts, printed, handler, signals, exitStatus>>

(* The next store of update_ts.                                            *)
UpdateTs ==
    /\ pc = "update"
    /\ pending # <<>>
    /\ ts' = ApplyStore(ts, Head(pending), diff)
    /\ pending' = Tail(pending)
    /\ UNCHANGED <<pc, retry, token, count, failStreak, answered, lastAnswer,
                   echoed, diff, rc, printed, handler, signals, collisions,
                   exitStatus>>

(* update_ts has returned: sleep(1); count--; free(resp).                  *)
EchoDone ==
    /\ pc = "update"
    /\ pending = <<>>
    /\ echoed' = Append(echoed, diff)
    /\ count' = count - 1
    /\ pc' = "ping"
    /\ UNCHANGED <<retry, token, failStreak, answered, lastAnswer, diff,
                   pending, ts, rc, printed, handler, signals, collisions,
                   exitStatus>>

(* Seeded fault: while (count > 1), one ping short.                      *)
PingDoneEarly ==
    /\ pc = "ping"
    /\ count <= 1
    /\ pc' = "ret"
    /\ rc' = "OK"
    /\ UNCHANGED <<retry, token, count, failStreak, answered, lastAnswer,
                   echoed, diff, pending, ts, printed, handler, signals,
                   collisions, exitStatus>>

(* while (count) ends: return HBA_STATUS_OK.                               *)
PingDone ==
    /\ pc = "ping"
    /\ count = 0
    /\ pc' = "ret"
    /\ rc' = "OK"
    /\ UNCHANGED <<retry, token, count, failStreak, answered, lastAnswer,
                   echoed, diff, pending, ts, printed, handler, signals,
                   collisions, exitStatus>>

(* The rest of main: report an error, HBA_CloseAdapter, free(aa), then     *)
(* timing_results(0), which prints the statistics and, 0 not being SIGHUP, *)
(* calls exit(0).                                                          *)
MainFinish ==
    /\ pc = "ret"
    /\ printed' = printed \cup {Snapshot(ts)}
    /\ pc' = "exit"
    /\ exitStatus' = "0"
    /\ UNCHANGED <<retry, token, count, failStreak, answered, lastAnswer,
                   echoed, diff, pending, ts, rc, handler, signals,
                   collisions>>

(* A signal interrupts the main thread.  With the handler installed        *)
(* timing_results prints the statistics and exits unless it is SIGHUP;     *)
(* before setup_signal_handling the default action ends the process.      *)
Signal ==
    /\ pc # "exit"
    /\ signals < MAX_SIGNALS
    /\ signals' = signals + 1
    /\ \E sig \in Signals :
         IF handler
            THEN /\ printed' = printed \cup {Snapshot(ts)}
                 /\ IF sig = "SIGHUP"
                       THEN UNCHANGED <<pc, exitStatus>>
                       ELSE pc' = "exit" /\ exitStatus' = "0"
            ELSE /\ pc' = "exit"
                 /\ exitStatus' = "killed"
                 /\ UNCHANGED printed
    /\ UNCHANGED <<retry, token, count, failStreak, answered, lastAnswer,
                   echoed, diff, pending, ts, rc, handler, collisions>>

Next ==
    \/ MainStart \/ PingSend \/ PingResult \/ UpdateTs \/ EchoDone \/ PingDone
    \/ MainFinish \/ Signal

(* The main thread runs whenever it is not blocked; a signal is an        *)
(* environment event and carries no fairness.                              *)
Fairness ==
    /\ WF_vars(MainStart) /\ WF_vars(PingSend) /\ WF_vars(PingResult)
    /\ WF_vars(UpdateTs)
    /\ WF_vars(EchoDone) /\ WF_vars(PingDone) /\ WF_vars(MainFinish)

Spec == Init /\ [][Next]_vars /\ Fairness
-----------------------------------------------------------------------------
(* Properties                                                              *)

SumOf(seq) == LET F[i \in 0..Len(seq)] == IF i = 0 THEN 0 ELSE F[i-1] + seq[i]
              IN F[Len(seq)]
MinOf(seq) == CHOOSE m \in {seq[i] : i \in 1..Len(seq)} : \A i \in 1..Len(seq) : m <= seq[i]
MaxOf(seq) == CHOOSE m \in {seq[i] : i \in 1..Len(seq)} : \A i \in 1..Len(seq) : m >= seq[i]

(* send_fc_ping gives up only for a reason: three pass-throughs in a row   *)
(* returned nothing, or the fabric's last answer was a reject that is not *)
(* a token collision, or a non-conforming code.  A token collision is     *)
(* recovered by renegotiation and never ends the ping with an error.     *)
PingErrorJustified ==
    rc = "ERROR" =>
        \/ failStreak = PING_RETRIES + 1
        \/ failStreak = 0 /\ lastAnswer \in {"reject", "other"}

(* After the fabric answered a request, its token is never sent again:     *)
(* both an echo and a collision move *tp on before the next request; only *)
(* an unanswered request is repeated with the same token.                 *)
AnsweredTokenNeverResent ==
    pc = "ping" => token \notin answered

(* send_fc_ping reports success only after exactly COUNT echoes; a token   *)
(* collision does not use up one of the requested pings.                   *)
EchoesComplete ==
    rc = "OK" => Len(echoed) = COUNT

(* Whenever update_ts is not in progress, time_stat holds the minimum,     *)
(* mean and maximum of the echo times received, and their number.          *)
StatsMatchEchoes ==
    pc \in {"ping", "ret"} =>
        /\ ts.count = Len(echoed)
        /\ Len(echoed) > 0 =>
              /\ ts.min = MinOf(echoed)
              /\ ts.max = MaxOf(echoed)
              /\ ts.avgSum = SumOf(echoed)
              /\ ts.avgN = Len(echoed)

(* zfcp_ping always ends.                                                  *)
PingTerminates == <>(pc = "exit")

(* Every statistics line timing_results prints is ordered:                 *)
(* min <= avg <= max.                                                       *)
PrintedStatsOrdered ==
    \A s \in printed :
        IF s.avgN = 0 THEN s.min <= 0 /\ 0 <= s.max
        ELSE s.min * s.avgN <= s.avgSum /\ s.avgSum <= s.max * s.avgN

(* main returns rc != OK when send_fc_ping failed, so the exit status of   *)
(* zfcp_ping tells a failed ping from a good one.                          *)
ExitStatusReflectsFailure ==
    (pc = "exit" /\ rc \in {"ERROR", "ERROR_ARG"}) => exitStatus # "0"
=============================================================================
