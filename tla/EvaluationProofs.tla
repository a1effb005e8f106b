--------------------------- MODULE EvaluationProofs ---------------------------
(***************************************************************************)
(* Proofs about runTxnEvaluation for every number of samples, every width  *)
(* and number of the bins and every response time: the rounds are clean,   *)
(* the histogram is exact and the report agrees with the samples.          *)
(***************************************************************************)
EXTENDS Evaluation, FiniteSetTheorems, TLAPS

Labels == {"idle", "setup", "create", "alloc", "append", "execute", "freePacket", "freeRequest",
           "capture", "print", "printed", "returned"}

Types ==
  /\ pc \in Labels
  /\ evaluated_txn \in Transactions \cup {"none"}
  /\ txn_rc \in BOOLEAN
  /\ current_rep \in 0 .. NUM_SAMPLES
  /\ since \in 0 .. MaxSample
  /\ num_success \in Nat /\ num_failures \in Nat /\ num_total_txns \in Nat
  /\ rtus \in [Bins -> Nat]
  /\ response_times_array \in [Reps -> 0 .. MaxSample]
  /\ rtusum \in Nat /\ elapsed \in Nat
  /\ max_response_time \in Nat
  /\ rc \in {"none", "SUCCESS", "FAIL"}

\* The loop is left exactly after the last sample.
LoopBound ==
  /\ pc \notin {"print", "printed", "returned"} => current_rep < NUM_SAMPLES
  /\ pc \in {"print", "printed"} => current_rep = NUM_SAMPLES

\* What is allocated at each point of a round.
Released ==
  /\ pc \in {"idle", "setup", "create", "capture", "print", "printed"} => requests = 0 /\ packets = 0
  /\ rc = "SUCCESS" => requests = 0 /\ packets = 0
  /\ rc # "none" <=> pc \in {"printed", "returned"}
  /\ pc \in {"alloc", "append", "execute", "freePacket", "freeRequest"} => requests = 1
  /\ pc \in {"alloc", "freeRequest"} => packets = 0
  /\ pc \in {"append", "freePacket"} => packets = 1
  /\ pc = "execute" => packets = IF evaluated_txn \in WithPacket THEN 1 ELSE 0
  /\ pc \in {"alloc", "append"} => evaluated_txn \in WithPacket
  /\ requests \in 0 .. 1 /\ packets \in 0 .. 1

\* A transaction is counted between its execution and its sample.
CountedOnce ==
  /\ num_success + num_failures = num_total_txns
  /\ num_total_txns = IF pc = "capture" THEN current_rep + 1 ELSE current_rep

BinsBounded == \A b \in Bins : rtus[b] <= current_rep

RoundInv == Types /\ LoopBound /\ Released /\ CountedOnce /\ BinsBounded

LEMMA RoundInit == EvaluationInit => RoundInv
<1> SUFFICES ASSUME EvaluationInit PROVE RoundInv
  OBVIOUS
<1> USE EvaluationAssumption
<1>1. Types
  BY DEF EvaluationInit, Types, Labels
<1>2. LoopBound /\ Released /\ CountedOnce /\ BinsBounded
  BY DEF EvaluationInit, LoopBound, Released, CountedOnce, BinsBounded
<1> QED
  BY <1>1, <1>2 DEF RoundInv

\* The bins partition the response times: Bin(t) is the one bin b whose
\* interval holds t.
LEMMA BinsPartition ==
  ASSUME NEW t \in Nat
  PROVE  /\ Bin(t) \in Bins
         /\ \A b \in Bins : Bin(t) = b <=> /\ t >= b * RTINCR
                                           /\ b < RTBINS => t < (b + 1) * RTINCR
<1> USE EvaluationAssumption
<1> DEFINE q == t \div RTINCR
<1>1. q \in Nat /\ q * RTINCR <= t /\ t < (q + 1) * RTINCR
  OBVIOUS
<1> HIDE DEF q
<1>2. ASSUME NEW a \in Nat, NEW b \in Nat, a <= b PROVE a * RTINCR <= b * RTINCR
  BY <1>2
<1>3. ASSUME NEW b \in Nat PROVE b * RTINCR \in Nat
  OBVIOUS
<1>4. CASE t < RTBINS * RTINCR
  <2>1. Bin(t) = q
    BY <1>4 DEF Bin, q
  <2>2. q < RTBINS
    <3> SUFFICES ASSUME RTBINS <= q PROVE FALSE
      BY <1>1
    <3>1. RTBINS * RTINCR <= q * RTINCR
      BY <1>1, <1>2
    <3> QED
      BY <1>1, <1>3, <1>4, <3>1
  <2>3. ASSUME NEW b \in Bins, t >= b * RTINCR, b < RTBINS => t < (b + 1) * RTINCR PROVE q = b
    <3>1. b \in Nat /\ b <= RTBINS
      BY DEF Bins
    <3>2. b < RTBINS
      <4> SUFFICES ASSUME b = RTBINS PROVE FALSE
        BY <3>1
      <4> QED
        BY <1>3, <1>4, <2>3
    <3>3. ~(q < b)
      <4> SUFFICES ASSUME q < b PROVE FALSE
        OBVIOUS
      <4>1. (q + 1) * RTINCR <= b * RTINCR
        BY <1>1, <1>2, <3>1
      <4>2. (q + 1) * RTINCR \in Nat /\ b * RTINCR \in Nat
        BY <1>1, <1>3, <3>1
      <4> QED
        BY <1>1, <2>3, <4>1, <4>2
    <3>4. ~(b < q)
      <4> SUFFICES ASSUME b < q PROVE FALSE
        OBVIOUS
      <4>1. (b + 1) * RTINCR <= q * RTINCR
        BY <1>1, <1>2, <3>1
      <4>2. (b + 1) * RTINCR \in Nat /\ q * RTINCR \in Nat
        BY <1>1, <1>3, <3>1
      <4> QED
        BY <1>1, <2>3, <3>2, <4>1, <4>2
    <3> QED
      BY <1>1, <3>1, <3>3, <3>4
  <2> QED
    BY <1>1, <2>1, <2>2, <2>3 DEF Bins
<1>5. CASE ~(t < RTBINS * RTINCR)
  <2>1. Bin(t) = RTBINS
    BY <1>5 DEF Bin
  <2>2. RTBINS * RTINCR \in Nat
    BY <1>3
  <2>3. ASSUME NEW b \in Bins, b # RTBINS PROVE b < RTBINS /\ ~(t < (b + 1) * RTINCR)
    <3>1. b \in Nat /\ b < RTBINS
      BY <2>3 DEF Bins
    <3>2. (b + 1) * RTINCR <= RTBINS * RTINCR /\ (b + 1) * RTINCR \in Nat
      BY <1>2, <1>3, <3>1
    <3> QED
      BY <1>5, <2>2, <3>1, <3>2
  <2>4. RTBINS \in Bins /\ t >= RTBINS * RTINCR
    BY <1>5, <2>2 DEF Bins
  <2> QED
    BY <2>1, <2>3, <2>4
<1> QED
  BY <1>4, <1>5

\* The steps that take no sample.
Quiet ==
  \/ \E txn \in Transactions : RunTxnEvaluation(txn)
  \/ Setup \/ SetupFails \/ CreateRequest \/ CreateRequestFails
  \/ AllocPacket \/ AppendItems \/ PacketFails
  \/ \E ok \in BOOLEAN : Execute(ok)
  \/ FreePacket \/ FreeRequest \/ FreeRequestFails
  \/ RTCAPTURE_PRINT \/ Tick

LEMMA QuietKeepsSamples ==
  ASSUME Quiet PROVE UNCHANGED <<current_rep, captured>>
BY DEF Quiet, RunTxnEvaluation, Setup, SetupFails, CreateRequest, CreateRequestFails, AllocPacket, AppendItems,
       PacketFails, Execute, FreePacket, FreeRequest, FreeRequestFails, RTCAPTURE_PRINT, Tick, Return

LEMMA RoundQuiet ==
  ASSUME RoundInv, Quiet PROVE RoundInv'
<1> USE EvaluationAssumption
<1>1. UNCHANGED <<current_rep, captured>>
  BY QuietKeepsSamples
<1>2. /\ num_success' \in Nat /\ num_failures' \in Nat /\ num_total_txns' \in Nat
      /\ (num_success + num_failures = num_total_txns)'
      /\ num_total_txns' = IF pc = "freeRequest" /\ pc' = "capture" THEN num_total_txns + 1
                           ELSE num_total_txns
  BY DEF RoundInv, Types, CountedOnce, Quiet, RunTxnEvaluation, Setup, SetupFails, CreateRequest, CreateRequestFails,
         AllocPacket, AppendItems, PacketFails, Execute, FreePacket, FreeRequest, FreeRequestFails,
         RTCAPTURE_PRINT, Tick, Return, counts
<1>3. /\ since' \in 0 .. MaxSample /\ elapsed' \in Nat
  BY DEF RoundInv, Types, Quiet, RunTxnEvaluation, Setup, SetupFails, CreateRequest, CreateRequestFails,
         AllocPacket, AppendItems, PacketFails, Execute, FreePacket, FreeRequest, FreeRequestFails,
         RTCAPTURE_PRINT, Tick, Return, time
<1>4. /\ pc' \in Labels /\ txn_rc' \in BOOLEAN /\ rc' \in {"none", "SUCCESS", "FAIL"}
  BY DEF RoundInv, Types, Labels, Quiet, RunTxnEvaluation, Setup, SetupFails, CreateRequest, CreateRequestFails,
         AllocPacket, AppendItems, PacketFails, Execute, FreePacket, FreeRequest, FreeRequestFails,
         RTCAPTURE_PRINT, Tick, Return
<1>5. evaluated_txn' \in Transactions \cup {"none"}
  BY DEF RoundInv, Types, Quiet, RunTxnEvaluation, Setup, SetupFails, CreateRequest, CreateRequestFails,
         AllocPacket, AppendItems, PacketFails, Execute, FreePacket, FreeRequest, FreeRequestFails,
         RTCAPTURE_PRINT, Tick, Return
<1>6. Types'
  BY <1>1, <1>2, <1>3, <1>4, <1>5 DEF RoundInv, Types, captured
<1>7. LoopBound'
  BY <1>1 DEF RoundInv, LoopBound, Quiet, RunTxnEvaluation, Setup, SetupFails, CreateRequest, CreateRequestFails,
         AllocPacket, AppendItems, PacketFails, Execute, FreePacket, FreeRequest, FreeRequestFails,
         RTCAPTURE_PRINT, Tick, Return
<1>8. Released'
  BY <1>1 DEF RoundInv, Released, Quiet, RunTxnEvaluation, Setup, SetupFails, CreateRequest, CreateRequestFails,
         AllocPacket, AppendItems, PacketFails, Execute, FreePacket, FreeRequest, FreeRequestFails,
         RTCAPTURE_PRINT, Tick, Return, held
<1>9. (pc' = "capture" /\ pc # "capture" => pc = "freeRequest") /\ (pc = "capture" => pc' = "capture")
  BY DEF Quiet, RunTxnEvaluation, Setup, SetupFails, CreateRequest, CreateRequestFails,
         AllocPacket, AppendItems, PacketFails, Execute, FreePacket, FreeRequest, FreeRequestFails,
         RTCAPTURE_PRINT, Tick, Return
<1>10. CountedOnce'
  BY <1>1, <1>2, <1>9 DEF RoundInv, Types, CountedOnce
<1>11. BinsBounded'
  BY <1>1 DEF RoundInv, BinsBounded, captured
<1> QED
  BY <1>6, <1>7, <1>8, <1>10, <1>11 DEF RoundInv

LEMMA RoundCapture ==
  ASSUME RoundInv, RTCAPTURE PROVE RoundInv'
<1> USE EvaluationAssumption
<1>1. /\ current_rep \in Nat /\ current_rep < NUM_SAMPLES /\ since \in Nat /\ since \in 0 .. MaxSample
      /\ pc = "capture"
  BY DEF RoundInv, Types, LoopBound, RTCAPTURE
<1>2. Bin(since) \in Bins /\ current_rep % NUM_SAMPLES = current_rep /\ current_rep \in Reps
  BY <1>1, BinsPartition DEF Reps
<1>3. /\ rtus' \in [Bins -> Nat]
      /\ \A b \in Bins : rtus'[b] = IF b = Bin(since) THEN rtus[b] + 1 ELSE rtus[b]
  <2>1. rtus \in [Bins -> Nat] /\ rtus' = [rtus EXCEPT ![Bin(since)] = @ + 1]
    BY DEF RoundInv, Types, RTCAPTURE
  <2> QED
    BY <1>2, <2>1
<1>4. response_times_array' \in [Reps -> 0 .. MaxSample]
  BY <1>1, <1>2 DEF RoundInv, Types, RTCAPTURE
<1>5. Types'
  BY <1>1, <1>3, <1>4 DEF RoundInv, Types, RTCAPTURE, Labels, counts
<1>6. LoopBound' /\ Released' /\ CountedOnce'
  BY <1>1 DEF RoundInv, Types, LoopBound, Released, CountedOnce, RTCAPTURE, counts, held
<1>7. BinsBounded'
  <2> SUFFICES ASSUME NEW b \in Bins PROVE rtus'[b] <= current_rep + 1
    BY DEF BinsBounded, RTCAPTURE
  <2>1. rtus[b] \in Nat /\ rtus[b] <= current_rep
    BY DEF RoundInv, Types, BinsBounded
  <2> QED
    BY <1>1, <1>3, <2>1
<1> QED
  BY <1>5, <1>6, <1>7 DEF RoundInv

LEMMA RoundStep == RoundInv /\ [EvaluationNext]_evaluationVars => RoundInv'
<1> SUFFICES ASSUME RoundInv, [EvaluationNext]_evaluationVars PROVE RoundInv'
  OBVIOUS
<1>1. CASE UNCHANGED evaluationVars
  BY <1>1 DEF evaluationVars, time, held, counts, captured, RoundInv, Types, LoopBound, Released, CountedOnce,
              BinsBounded
<1> QED
  BY <1>1, RoundQuiet, RoundCapture DEF EvaluationNext, EvaluationStep, Quiet

\* Types of the evaluation: at most one request and one packet are held, and the
\* samples fit their array and their bins, for every value of the constants.
THEOREM EvaluationTypeCorrect == EvaluationSpec => []EvaluationTypeOK
<1>1. RoundInv => EvaluationTypeOK
  <2> SUFFICES ASSUME RoundInv PROVE EvaluationTypeOK
    OBVIOUS
  <2>1. rtus \in [Bins -> 0 .. NUM_SAMPLES]
    <3>1. ASSUME NEW b \in Bins PROVE rtus[b] \in 0 .. NUM_SAMPLES
      BY EvaluationAssumption DEF RoundInv, Types, BinsBounded
    <3> QED
      BY <3>1 DEF RoundInv, Types
  <2> QED
    BY <2>1 DEF RoundInv, Types, Released, EvaluationTypeOK
<1> QED
  BY <1>1, RoundInit, RoundStep, PTL DEF EvaluationSpec

\* Every round starts with everything released and every earlier round counted
\* once, and so is everything when SUCCESS is returned.
THEOREM RoundsAreClean == EvaluationSpec => []RoundsClean
<1>1. RoundInv => RoundsClean
  BY DEF RoundInv, Types, Released, CountedOnce, RoundsClean
<1> QED
  BY <1>1, RoundInit, RoundStep, PTL DEF EvaluationSpec

-----------------------------------------------------------------------------
(* The histogram and the report *)

\* The samples of bin b.
Fits(t, b) == t >= b * RTINCR /\ (b < RTBINS => t < (b + 1) * RTINCR)
SamplesOf(b) == {k \in Taken : Fits(response_times_array[k], b)}

\* A sample is taken: the new one is in its bin, the others stay where they are.
LEMMA OneMoreSample ==
  ASSUME RoundInv, RTCAPTURE
  PROVE  /\ current_rep \in Reps /\ current_rep \notin Taken /\ since \in Nat
         /\ Taken' = Taken \cup {current_rep}
         /\ response_times_array'[current_rep] = since
         /\ \A k \in Taken : response_times_array'[k] = response_times_array[k]
<1> USE EvaluationAssumption
<1>1. /\ current_rep \in Nat /\ current_rep < NUM_SAMPLES /\ since \in Nat
      /\ current_rep' = current_rep + 1
  BY DEF RoundInv, Types, LoopBound, RTCAPTURE
<1>2. current_rep % NUM_SAMPLES = current_rep /\ current_rep \in Reps
  BY <1>1 DEF Reps
<1>3. Taken' = Taken \cup {current_rep} /\ current_rep \notin Taken
  BY <1>1 DEF Taken, Reps
<1>4. /\ response_times_array \in [Reps -> 0 .. MaxSample]
      /\ response_times_array' = [response_times_array EXCEPT ![current_rep] = since]
  BY <1>2 DEF RoundInv, Types, RTCAPTURE
<1>5. /\ response_times_array'[current_rep] = since
      /\ \A k \in Taken : response_times_array'[k] = response_times_array[k]
  BY <1>2, <1>3, <1>4 DEF Taken
<1> QED
  BY <1>1, <1>2, <1>3, <1>5

LEMMA HistogramInit == EvaluationInit => HistogramExact
<1> SUFFICES ASSUME EvaluationInit, NEW b \in Bins PROVE Cardinality(SamplesOf(b)) = 0 /\ rtus[b] = 0
  BY DEF HistogramExact, SamplesOf, Fits
<1>1. SamplesOf(b) = {}
  BY DEF EvaluationInit, SamplesOf, Taken, Reps
<1> QED
  BY <1>1, FS_EmptySet DEF EvaluationInit

LEMMA HistogramStep == RoundInv /\ HistogramExact /\ [EvaluationNext]_evaluationVars => HistogramExact'
<1> SUFFICES ASSUME RoundInv, HistogramExact, [EvaluationNext]_evaluationVars PROVE HistogramExact'
  OBVIOUS
<1> USE EvaluationAssumption
<1>1. CASE UNCHANGED <<current_rep, captured>>
  BY <1>1 DEF captured, HistogramExact, Taken
<1>2. CASE RTCAPTURE
  <2> SUFFICES ASSUME NEW b \in Bins PROVE rtus'[b] = Cardinality(SamplesOf(b)')
    BY DEF HistogramExact, SamplesOf, Fits
  <2>1. /\ current_rep \in Reps /\ current_rep \notin Taken /\ since \in Nat
        /\ Taken' = Taken \cup {current_rep}
        /\ response_times_array'[current_rep] = since
        /\ \A k \in Taken : response_times_array'[k] = response_times_array[k]
    BY <1>2, OneMoreSample
  <2>2. Bin(since) \in Bins /\ (Bin(since) = b <=> Fits(since, b))
    BY <2>1, BinsPartition DEF Fits
  <2>3. rtus \in [Bins -> Nat] /\ rtus' = [rtus EXCEPT ![Bin(since)] = @ + 1]
    BY <1>2 DEF RoundInv, Types, RTCAPTURE
  <2>4. rtus[b] = Cardinality(SamplesOf(b))
    BY DEF HistogramExact, SamplesOf, Fits
  <2>5. IsFiniteSet(SamplesOf(b)) /\ current_rep \notin SamplesOf(b)
    <3>1. IsFiniteSet(Reps)
      BY FS_Interval DEF Reps
    <3>2. SamplesOf(b) \subseteq Reps
      BY DEF SamplesOf, Taken
    <3> QED
      BY <2>1, <3>1, <3>2, FS_Subset DEF SamplesOf
  <2>6. SamplesOf(b)' = {k \in Taken \cup {current_rep} : Fits(response_times_array'[k], b)}
    BY <2>1 DEF SamplesOf, Fits
  <2>7. CASE Fits(since, b)
    <3>1. SamplesOf(b)' = SamplesOf(b) \cup {current_rep}
      BY <2>1, <2>6, <2>7 DEF SamplesOf
    <3>2. Cardinality(SamplesOf(b) \cup {current_rep}) = Cardinality(SamplesOf(b)) + 1
      BY <2>5, FS_AddElement
    <3>3. rtus'[b] = rtus[b] + 1
      BY <2>2, <2>3, <2>7
    <3> QED
      BY <2>4, <3>1, <3>2, <3>3
  <2>8. CASE ~Fits(since, b)
    <3>1. SamplesOf(b)' = SamplesOf(b)
      BY <2>1, <2>6, <2>8 DEF SamplesOf
    <3>2. rtus'[b] = rtus[b]
      BY <2>2, <2>3, <2>8
    <3> QED
      BY <2>4, <3>1, <3>2
  <2> QED
    BY <2>7, <2>8
<1> QED
  BY <1>1, <1>2, QuietKeepsSamples DEF EvaluationNext, EvaluationStep, Quiet, evaluationVars

\* The histogram of the response times agrees with the samples, for every width
\* and number of the bins, also beyond their range.
THEOREM HistogramIsExact == EvaluationSpec => []HistogramExact
<1>1. EvaluationInit => RoundInv /\ HistogramExact
  BY RoundInit, HistogramInit
<1>2. RoundInv /\ HistogramExact /\ [EvaluationNext]_evaluationVars => (RoundInv /\ HistogramExact)'
  BY RoundStep, HistogramStep
<1> QED
  BY <1>1, <1>2, PTL DEF EvaluationSpec

\* g satisfies the recursion of SumOfFirst.
SumsUp(g) ==
  g = [n \in 0 .. current_rep |-> IF n = 0 THEN 0 ELSE g[n - 1] + response_times_array[n - 1]]

(***************************************************************************)
(* What the sum and the maximum are during the rounds.  That there is one  *)
(* and only one function with the recursion of SumOfFirst is part of the   *)
(* invariant: the induction over the steps that take a sample is also the  *)
(* one over the number of samples.                                         *)
(***************************************************************************)
ReportInv ==
  /\ rtusum + since = elapsed
  /\ \E g : SumsUp(g)
  /\ \A g : SumsUp(g) => g[current_rep] = rtusum
  /\ \A k \in Taken : response_times_array[k] <= max_response_time
  /\ IF current_rep = 0 THEN max_response_time = 0
     ELSE \E k \in Taken : max_response_time = response_times_array[k]

LEMMA ReportInit == EvaluationInit => ReportInv
<1> SUFFICES ASSUME EvaluationInit PROVE ReportInv
  OBVIOUS
<1>1. Taken = {}
  BY DEF EvaluationInit, Taken, Reps
<1>2. \E g : SumsUp(g)
  <2> WITNESS [n \in 0 .. current_rep |-> 0]
  <2> QED
    BY DEF EvaluationInit, SumsUp
<1>3. ASSUME NEW g, SumsUp(g) PROVE g[current_rep] = rtusum
  BY <1>3 DEF EvaluationInit, SumsUp
<1> QED
  BY <1>1, <1>2, <1>3 DEF EvaluationInit, ReportInv

LEMMA ReportStep == RoundInv /\ ReportInv /\ [EvaluationNext]_evaluationVars => ReportInv'
<1> SUFFICES ASSUME RoundInv, ReportInv, [EvaluationNext]_evaluationVars PROVE ReportInv'
  OBVIOUS
<1> USE EvaluationAssumption
<1>1. CASE UNCHANGED <<current_rep, captured>> /\ (Tick \/ UNCHANGED time)
  <2>1. (rtusum + since = elapsed)'
    BY <1>1 DEF RoundInv, Types, ReportInv, captured, time, Tick
  <2>2. \A g : SumsUp(g)' <=> SumsUp(g)
    BY <1>1 DEF SumsUp, captured
  <2> QED
    BY <1>1, <2>1, <2>2 DEF ReportInv, captured, Taken
<1>2. CASE RTCAPTURE
  <2>1. /\ current_rep \in Reps /\ current_rep \notin Taken /\ since \in Nat
        /\ Taken' = Taken \cup {current_rep}
        /\ response_times_array'[current_rep] = since
        /\ \A k \in Taken : response_times_array'[k] = response_times_array[k]
    BY <1>2, OneMoreSample
  <2>2. /\ current_rep' = current_rep + 1 /\ current_rep \in Nat /\ current_rep < NUM_SAMPLES
        /\ rtusum \in Nat /\ elapsed \in Nat /\ max_response_time \in Nat
    BY <1>2, <2>1 DEF RoundInv, Types, RTCAPTURE, Reps
  <2>3. (rtusum + since = elapsed)'
    BY <1>2, <2>1, <2>2 DEF ReportInv, RTCAPTURE
  <2>4. \A k \in 0 .. current_rep - 1 : response_times_array'[k] = response_times_array[k]
    BY <2>1, <2>2 DEF Taken, Reps
  <2>5. (\E g : SumsUp(g))'
    <3>1. PICK g : SumsUp(g)
      BY DEF ReportInv
    <3>2. PICK e : e = [n \in 0 .. current_rep + 1 |->
                          IF n = current_rep + 1 THEN g[current_rep] + since ELSE g[n]]
      OBVIOUS
    <3>3. ASSUME NEW n \in 0 .. current_rep + 1
          PROVE  e[n] = IF n = 0 THEN 0 ELSE e[n - 1] + response_times_array'[n - 1]
      <4>1. CASE n = current_rep + 1
        BY <2>1, <2>2, <3>2, <4>1
      <4>2. CASE n \in 0 .. current_rep
        <5>1. e[n] = g[n] /\ (n # 0 => e[n - 1] = g[n - 1])
          BY <2>2, <3>2, <4>2
        <5>2. g[n] = IF n = 0 THEN 0 ELSE g[n - 1] + response_times_array[n - 1]
          BY <3>1, <4>2 DEF SumsUp
        <5>3. n # 0 => n - 1 \in 0 .. current_rep - 1
          BY <2>2, <4>2
        <5> QED
          BY <2>4, <5>1, <5>2, <5>3
      <4> QED
        BY <2>2, <4>1, <4>2
    <3>4. SumsUp(e)'
      BY <2>2, <3>2, <3>3 DEF SumsUp
    <3> QED
      BY <3>4
  <2>6. (\A g : SumsUp(g) => g[current_rep] = rtusum)'
    <3> SUFFICES ASSUME NEW g, SumsUp(g)' PROVE g[current_rep + 1] = rtusum + since
      BY <1>2, <2>2 DEF RTCAPTURE
    <3>1. PICK e : e = [n \in 0 .. current_rep |-> g[n]]
      OBVIOUS
    <3>2. ASSUME NEW n \in 0 .. current_rep + 1
          PROVE  g[n] = IF n = 0 THEN 0 ELSE g[n - 1] + response_times_array'[n - 1]
      BY <2>2 DEF SumsUp
    <3>3. ASSUME NEW n \in 0 .. current_rep
          PROVE  e[n] = IF n = 0 THEN 0 ELSE e[n - 1] + response_times_array[n - 1]
      <4>1. e[n] = g[n] /\ (n # 0 => e[n - 1] = g[n - 1])
        BY <2>2, <3>1
      <4>2. n # 0 => n - 1 \in 0 .. current_rep - 1
        BY <2>2
      <4>3. g[n] = IF n = 0 THEN 0 ELSE g[n - 1] + response_times_array'[n - 1]
        BY <2>2, <3>2
      <4> QED
        BY <2>4, <4>1, <4>2, <4>3
    <3>4. SumsUp(e)
      BY <3>1, <3>3 DEF SumsUp
    <3>5. e[current_rep] = rtusum
      BY <3>4 DEF ReportInv
    <3>6. e[current_rep] = g[current_rep]
      BY <2>2, <3>1
    <3>7. g[current_rep + 1] = g[current_rep] + response_times_array'[current_rep]
      BY <2>2, <3>2
    <3> QED
      BY <2>1, <3>5, <3>6, <3>7
  <2>7. max_response_time' = IF since > max_response_time THEN since ELSE max_response_time
    BY <1>2 DEF RTCAPTURE
  <2>8. (\A k \in Taken : response_times_array[k] <= max_response_time)'
    <3> SUFFICES ASSUME NEW k \in Taken \cup {current_rep}
                 PROVE  response_times_array'[k] <= max_response_time'
      BY <2>1
    <3>1. CASE k = current_rep
      BY <2>1, <2>2, <2>7, <3>1
    <3>2. CASE k \in Taken
      <4>1. response_times_array[k] <= max_response_time
        BY <3>2 DEF ReportInv
      <4>2. response_times_array[k] \in Nat
        BY <3>2 DEF RoundInv, Types, Taken
      <4> QED
        BY <2>1, <2>2, <2>7, <3>2, <4>1, <4>2
    <3> QED
      BY <3>1, <3>2
  <2>9. (\E k \in Taken : max_response_time = response_times_array[k])'
    <3>1. CASE max_response_time' = since
      BY <2>1, <3>1
    <3>2. CASE max_response_time' # since
      <4>1. max_response_time' = max_response_time /\ since < max_response_time
        BY <2>1, <2>2, <2>7, <3>2
      <4>2. current_rep # 0
        BY <2>1, <4>1 DEF ReportInv
      <4>3. PICK k \in Taken : max_response_time = response_times_array[k]
        BY <4>2 DEF ReportInv
      <4> QED
        BY <2>1, <4>1, <4>3
    <3> QED
      BY <3>1, <3>2
  <2> QED
    BY <2>2, <2>3, <2>5, <2>6, <2>8, <2>9 DEF ReportInv
<1>3. CASE Quiet
  <2>1. Tick \/ UNCHANGED time
    BY <1>3 DEF Quiet, RunTxnEvaluation, Setup, SetupFails, CreateRequest, CreateRequestFails, AllocPacket, AppendItems,
                PacketFails, Execute, FreePacket, FreeRequest, FreeRequestFails, RTCAPTURE_PRINT
  <2> QED
    BY <1>1, <1>3, <2>1, QuietKeepsSamples
<1> QED
  BY <1>1, <1>2, <1>3 DEF EvaluationNext, EvaluationStep, Quiet, evaluationVars

\* The report agrees with the samples: rtusum is their sum and no time between
\* two captures is lost or counted twice, and the maximum is the largest sample,
\* for every number of samples.
THEOREM ReportIsExact == EvaluationSpec => []ReportExact
<1>1. EvaluationInit => RoundInv /\ ReportInv
  BY RoundInit, ReportInit
<1>2. RoundInv /\ ReportInv /\ [EvaluationNext]_evaluationVars => (RoundInv /\ ReportInv)'
  BY RoundStep, ReportStep
<1>3. RoundInv /\ ReportInv => ReportExact
  <2> SUFFICES ASSUME RoundInv, ReportInv PROVE ReportExact
    OBVIOUS
  <2>1. SumOfFirst = CHOOSE g : SumsUp(g)
    BY DEF SumOfFirst, SumsUp
  <2>2. SumsUp(SumOfFirst)
    BY <2>1 DEF ReportInv
  <2>3. rtusum = SumOfFirst[current_rep]
    BY <2>2 DEF ReportInv
  <2> QED
    BY <2>3, EvaluationAssumption DEF RoundInv, LoopBound, ReportInv, ReportExact
<1> QED
  BY <1>1, <1>2, <1>3, PTL DEF EvaluationSpec
=============================================================================
