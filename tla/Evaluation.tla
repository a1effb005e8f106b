------------------------------ MODULE Evaluation ------------------------------
(***************************************************************************)
(* runTxnEvaluation (--evaluate-wcet) with the response time macros of     *)
(* stats.h: NUM_SAMPLES transactions of one type are executed and timed.   *)
(* The sample of a round is the time since the last capture.               *)
(*                                                                         *)
(* The data of a request is left out; purchases and sales are the          *)
(* transactions that need a data packet.                                   *)
(***************************************************************************)
EXTENDS Integers, FiniteSets

CONSTANTS
  NUM_SAMPLES, RTINCR, RTBINS,  \* of stats.h
  MaxSample                     \* bound: microseconds between two captures

ASSUME EvaluationAssumption ==
  /\ NUM_SAMPLES \in Nat \ {0}
  /\ RTINCR \in Nat \ {0}
  /\ RTBINS \in Nat \ {0}
  /\ MaxSample \in Nat

\* CHRONOS_USER_TXN_MAX stands for the refresh of stocks.
Transactions == {"view_stock", "view_portfolio", "purchase_stock", "sell_stock", "refresh_stock"}
WithPacket   == {"purchase_stock", "sell_stock"}

Reps == 0 .. NUM_SAMPLES - 1
Bins == 0 .. RTBINS

VARIABLES
  pc,
  evaluated_txn,
  current_rep,
  since,                                  \* microseconds since xact_start
  txn_rc,                                 \* whether the transaction succeeded
  requests, packets,                      \* requests and packets not yet freed
  num_success, num_failures, num_total_txns,
  rtus, rtusum, max_response_time, min_response_time, response_times_array,
  elapsed,                                \* history: microseconds since RTCAPTURE_START
  rc                                      \* what is returned to main

counts   == <<num_success, num_failures, num_total_txns>>
captured == <<rtus, rtusum, max_response_time, min_response_time, response_times_array>>
time     == <<since, elapsed>>
held     == <<requests, packets>>
evaluationVars == <<pc, evaluated_txn, current_rep, time, txn_rc, held, counts, captured, rc>>

\* init_stats_struct and the initial values of the statistics.
EvaluationInit ==
  /\ pc = "idle"
  /\ evaluated_txn = "none"
  /\ current_rep = 0
  /\ since = 0
  /\ txn_rc = TRUE
  /\ requests = 0
  /\ packets = 0
  /\ num_success = 0
  /\ num_failures = 0
  /\ num_total_txns = 0
  /\ rtus = [b \in Bins |-> 0]
  /\ rtusum = 0
  /\ max_response_time = 0
  /\ min_response_time = 0
  /\ response_times_array = [k \in Reps |-> 0]
  /\ elapsed = 0
  /\ rc = "none"

Return(r) == pc' = "returned" /\ rc' = r

-----------------------------------------------------------------------------
\* main calls runTxnEvaluation; the transaction is a field of the server context.
RunTxnEvaluation(txn) ==
  /\ pc = "idle"
  /\ pc' = "setup"
  /\ evaluated_txn' = txn
  /\ UNCHANGED <<current_rep, time, txn_rc, held, counts, captured, rc>>

\* Environment, caches, initial load or handle, statistics of the portfolios;
\* then RTCAPTURE_START.
Setup ==
  /\ pc = "setup"
  /\ pc' = "create"
  /\ UNCHANGED <<evaluated_txn, current_rep, time, txn_rc, held, counts, captured, rc>>

SetupFails ==
  /\ pc = "setup"
  /\ Return("FAIL")
  /\ UNCHANGED <<evaluated_txn, current_rep, time, txn_rc, held, counts, captured>>

CreateRequest ==
  /\ pc = "create"
  /\ requests' = requests + 1
  /\ pc' = IF evaluated_txn \in WithPacket THEN "alloc" ELSE "execute"
  /\ UNCHANGED <<evaluated_txn, current_rep, time, txn_rc, packets, counts, captured, rc>>

\* "Failed to populate request": goto cleanup, where rc is still SUCCESS.
CreateRequestFails ==
  /\ pc = "create"
  /\ Return("SUCCESS")
  /\ UNCHANGED <<evaluated_txn, current_rep, time, txn_rc, held, counts, captured>>

AllocPacket ==
  /\ pc = "alloc"
  /\ packets' = packets + 1
  /\ pc' = "append"
  /\ UNCHANGED <<evaluated_txn, current_rep, time, txn_rc, requests, counts, captured, rc>>

AppendItems ==
  /\ pc = "append"
  /\ pc' = "execute"
  /\ UNCHANGED <<evaluated_txn, current_rep, time, txn_rc, held, counts, captured, rc>>

\* Faulty variant: the failure goes to cleanup, where rc is still SUCCESS.
PacketFails_Cleanup ==
  /\ pc \in {"alloc", "append", "freePacket"}
  /\ Return("SUCCESS")
  /\ UNCHANGED <<evaluated_txn, current_rep, time, txn_rc, held, counts, captured>>

\* The packet cannot be allocated, filled or freed.
PacketFails ==
  /\ pc \in {"alloc", "append", "freePacket"}
  /\ Return("FAIL")
  /\ UNCHANGED <<evaluated_txn, current_rep, time, txn_rc, held, counts, captured>>

Execute(ok) ==
  /\ pc = "execute"
  /\ txn_rc' = ok
  /\ pc' = IF evaluated_txn \in WithPacket THEN "freePacket" ELSE "freeRequest"
  /\ UNCHANGED <<evaluated_txn, current_rep, time, held, counts, captured, rc>>

FreePacket ==
  /\ pc = "freePacket"
  /\ packets' = packets - 1
  /\ pc' = "freeRequest"
  /\ UNCHANGED <<evaluated_txn, current_rep, time, txn_rc, requests, counts, captured, rc>>

\* The request is freed and the transaction counted.
FreeRequest ==
  /\ pc = "freeRequest"
  /\ requests' = requests - 1
  /\ num_total_txns' = num_total_txns + 1
  /\ num_success' = IF txn_rc THEN num_success + 1 ELSE num_success
  /\ num_failures' = IF txn_rc THEN num_failures ELSE num_failures + 1
  /\ pc' = "capture"
  /\ UNCHANGED <<evaluated_txn, current_rep, time, txn_rc, packets, captured, rc>>

FreeRequestFails ==
  /\ pc = "freeRequest"
  /\ Return("FAIL")
  /\ UNCHANGED <<evaluated_txn, current_rep, time, txn_rc, held, counts, captured>>

\* Faulty variant: response times beyond the range have no bin.
Bin_NoLast(t) == t \div RTINCR

Bin(t) == IF t < RTBINS * RTINCR THEN t \div RTINCR ELSE RTBINS

\* Faulty variant: xact_start is not taken again.
RTCAPTURE_OneStart ==
  /\ pc = "capture"
  /\ rtus' = [rtus EXCEPT ![Bin(since)] = @ + 1]
  /\ rtusum' = rtusum + since
  /\ max_response_time' = IF since > max_response_time THEN since ELSE max_response_time
  /\ min_response_time' = IF since < min_response_time THEN since ELSE min_response_time
  /\ response_times_array' = [response_times_array EXCEPT ![current_rep % NUM_SAMPLES] = since]
  /\ current_rep' = current_rep + 1
  /\ pc' = IF current_rep + 1 < NUM_SAMPLES THEN "create" ELSE "print"
  /\ UNCHANGED <<evaluated_txn, time, txn_rc, held, counts, rc>>

\* Faulty variant: the loop runs once too often.
RTCAPTURE_OneMore ==
  /\ pc = "capture"
  /\ rtus' = [rtus EXCEPT ![Bin(since)] = @ + 1]
  /\ rtusum' = rtusum + since
  /\ max_response_time' = IF since > max_response_time THEN since ELSE max_response_time
  /\ min_response_time' = IF since < min_response_time THEN since ELSE min_response_time
  /\ response_times_array' = [response_times_array EXCEPT ![current_rep % NUM_SAMPLES] = since]
  /\ since' = 0
  /\ current_rep' = current_rep + 1
  /\ pc' = IF current_rep < NUM_SAMPLES THEN "create" ELSE "print"
  /\ UNCHANGED <<evaluated_txn, elapsed, txn_rc, held, counts, rc>>

\* One sample, and xact_start for the next one.
RTCAPTURE ==
  /\ pc = "capture"
  /\ rtus' = [rtus EXCEPT ![Bin(since)] = @ + 1]
  /\ rtusum' = rtusum + since
  /\ max_response_time' = IF since > max_response_time THEN since ELSE max_response_time
  /\ min_response_time' = IF since < min_response_time THEN since ELSE min_response_time
  /\ response_times_array' = [response_times_array EXCEPT ![current_rep % NUM_SAMPLES] = since]
  /\ since' = 0
  /\ current_rep' = current_rep + 1
  /\ pc' = IF current_rep + 1 < NUM_SAMPLES THEN "create" ELSE "print"
  /\ UNCHANGED <<evaluated_txn, elapsed, txn_rc, held, counts, rc>>

\* RTCAPTURE_PRINT, print_stats_to_csv and the counts; rc is SUCCESS.
RTCAPTURE_PRINT ==
  /\ pc = "print"
  /\ pc' = "printed"
  /\ rc' = "SUCCESS"
  /\ UNCHANGED <<evaluated_txn, current_rep, time, txn_rc, held, counts, captured>>

\* Time passes in a round, whatever the round is doing.
Tick ==
  /\ pc \notin {"idle", "setup", "print", "printed", "returned"}
  /\ since < MaxSample
  /\ since' = since + 1
  /\ elapsed' = elapsed + 1
  /\ UNCHANGED <<pc, evaluated_txn, current_rep, txn_rc, held, counts, captured, rc>>

-----------------------------------------------------------------------------
EvaluationStep ==
  \/ Setup \/ SetupFails
  \/ CreateRequest \/ CreateRequestFails
  \/ AllocPacket \/ AppendItems \/ PacketFails
  \/ \E ok \in BOOLEAN : Execute(ok)
  \/ FreePacket \/ FreeRequest \/ FreeRequestFails
  \/ RTCAPTURE \/ RTCAPTURE_PRINT
  \/ Tick

EvaluationNext == EvaluationStep \/ \E txn \in Transactions : RunTxnEvaluation(txn)

EvaluationSpec == EvaluationInit /\ [][EvaluationNext]_evaluationVars

-----------------------------------------------------------------------------
\* The samples captured so far.
Taken == {k \in Reps : k < current_rep}

\* The sum of the first n samples.
SumOfFirst[n \in 0 .. current_rep] ==
  IF n = 0 THEN 0 ELSE SumOfFirst[n - 1] + response_times_array[n - 1]

\* Type correctness.
EvaluationTypeOK ==
  /\ evaluated_txn \in Transactions \cup {"none"}
  /\ current_rep \in 0 .. NUM_SAMPLES
  /\ since \in 0 .. MaxSample
  /\ requests \in 0 .. 1
  /\ packets \in 0 .. 1
  /\ rtus \in [Bins -> 0 .. NUM_SAMPLES]
  /\ response_times_array \in [Reps -> 0 .. MaxSample]
  /\ rc \in {"none", "SUCCESS", "FAIL"}

\* The histogram of --print-samples agrees with the samples of stats.csv: the
\* bins partition all response times, also those beyond the range.
HistogramExact ==
  \A b \in Bins :
    rtus[b] = Cardinality({k \in Taken :
                /\ response_times_array[k] >= b * RTINCR
                /\ b < RTBINS => response_times_array[k] < (b + 1) * RTINCR})

(***************************************************************************)
(* What is printed agrees with the samples: no time between two samples is *)
(* lost or counted twice, so the total is the time from RTCAPTURE_START to *)
(* the last capture, and the maximum, the worst case the mode is for, is   *)
(* the largest sample.                                                     *)
(***************************************************************************)
ReportExact ==
  /\ rtusum + since = elapsed
  /\ rtusum = SumOfFirst[current_rep]
  /\ pc = "print" =>
       /\ \E k \in Taken : max_response_time = response_times_array[k]
       /\ \A k \in Taken : response_times_array[k] <= max_response_time

(***************************************************************************)
(* Every round starts with the requests and packets of the earlier rounds  *)
(* released and each of these rounds counted once as a success or a        *)
(* failure, and so does main find them whenever the evaluation returns     *)
(* SUCCESS.  (SUCCESS does not mean that the report was printed: it is     *)
(* also returned when a request cannot be created.)                        *)
(***************************************************************************)
RoundsClean ==
  pc = "create" \/ rc = "SUCCESS" =>
    /\ requests = 0 /\ packets = 0
    /\ num_success + num_failures = current_rep
    /\ num_total_txns = current_rep
=============================================================================
