---------------------------- MODULE StartupProofs ----------------------------
(***************************************************************************)
(* Proofs about main for command lines of every length and any numbers on  *)
(* them: what is run is what was asked for last, and an evaluation is the  *)
(* one of module Evaluation, whose theorems so hold of the whole program.  *)
(***************************************************************************)
EXTENDS Startup, EvaluationProofs

Fields == NumericFields \cup {"txn_size", "initialLoad", "print_samples", "runningMode", "evaluated_txn"}
ModeNames == {"base", "ac", "aup", "ac_aup"}

\* Modes written out, so that no prover has to look into the tuple.
LEMMA ModesOut ==
  /\ DOMAIN Modes = 1 .. 4
  /\ Modes[1] = "base" /\ Modes[2] = "ac" /\ Modes[3] = "aup" /\ Modes[4] = "ac_aup"
  /\ {Modes[k] : k \in DOMAIN Modes} = ModeNames
<1>1. DOMAIN Modes = 1 .. 4
  BY DEF Modes
<1>2. Modes[1] = "base" /\ Modes[2] = "ac" /\ Modes[3] = "aup" /\ Modes[4] = "ac_aup"
  BY DEF Modes
<1>3. {Modes[k] : k \in DOMAIN Modes} = {Modes[1], Modes[2], Modes[3], Modes[4]}
  <2>1. DOMAIN Modes = {1, 2, 3, 4}
    BY <1>1
  <2> QED
    BY <2>1
<1> QED
  BY <1>1, <1>2, <1>3 DEF ModeNames

\* The one mode whose name begins with another one is taken for that one.
TakenFor(arg) == IF arg = "ac_aup" THEN "ac" ELSE arg

LEMMA FirstMatch ==
  ASSUME NEW arg \in ModeNames \cup {"other"}
  PROVE  /\ Matching(arg) = {} <=> arg = "other"
         /\ arg # "other" => Modes[Min(Matching(arg))] = TakenFor(arg)
<1>1. \A k \in 1 .. 4 : k \in Matching(arg) <=>
        \/ k = 1 /\ arg = "base"
        \/ k = 2 /\ arg \in {"ac", "ac_aup"}
        \/ k = 3 /\ arg = "aup"
        \/ k = 4 /\ arg = "ac_aup"
  BY ModesOut DEF Matching, Begins
<1>2. Matching(arg) \subseteq 1 .. 4
  BY ModesOut DEF Matching
<1>3. ASSUME NEW S, NEW m \in S, S \subseteq 1 .. 4, \A y \in S : m <= y PROVE Min(S) = m
  <2>1. \E x \in S : \A y \in S : x <= y
    BY <1>3
  <2>2. Min(S) \in S /\ \A y \in S : Min(S) <= y
    BY <2>1, Zenon DEF Min
  <2>3. Min(S) <= m /\ m <= Min(S)
    BY <1>3, <2>2
  <2>4. Min(S) \in 1 .. 4 /\ m \in 1 .. 4
    BY <1>3, <2>2
  <2> QED
    BY <2>3, <2>4
<1>4. CASE arg = "base"
  <2>1. Min(Matching(arg)) = 1
    BY <1>1, <1>2, <1>3, <1>4
  <2> QED
    BY <1>1, <1>4, <2>1, ModesOut DEF TakenFor
<1>5. CASE arg \in {"ac", "ac_aup"}
  <2>1. Min(Matching(arg)) = 2
    BY <1>1, <1>2, <1>3, <1>5
  <2> QED
    BY <1>1, <1>5, <2>1, ModesOut DEF TakenFor
<1>6. CASE arg = "aup"
  <2>1. Min(Matching(arg)) = 3
    BY <1>1, <1>2, <1>3, <1>6
  <2> QED
    BY <1>1, <1>6, <2>1, ModesOut DEF TakenFor
<1>7. CASE arg = "other"
  BY <1>1, <1>2, <1>7
<1> QED
  BY <1>4, <1>5, <1>6, <1>7 DEF ModeNames

LEMMA SizeFits ==
  ASSUME NEW n \in Int PROVE AsSize(n) \in 0 .. CHRONOS_MAX_DATA_ITEMS_PER_XACT
<1>1. n % UintModulus \in Nat
  BY ArgumentsAssumption
<1> QED
  BY <1>1 DEF AsSize, CHRONOS_MAX_DATA_ITEMS_PER_XACT

-----------------------------------------------------------------------------
(* The steps, by what they do to the context *)

\* The fields an option can set, and to what.
Settings(field, arg, value) ==
  \/ field \in NumericFields /\ arg \in Numbers /\ value = arg
  \/ field = "txn_size" /\ arg \in Numbers /\ value \in 0 .. CHRONOS_MAX_DATA_ITEMS_PER_XACT
  \/ field \in {"initialLoad", "print_samples"} /\ arg = 1 /\ value = 1
  \/ field = "runningMode" /\ arg \in ModeNames \cup {"evaluation"} /\ value = TakenFor(arg)
  \/ field = "evaluated_txn" /\ arg \in Xacts /\ value = arg

Refusals(field, arg) ==
  \/ field \in {"runningMode", "evaluated_txn"} /\ arg = "other"
  \/ field = "none" /\ arg = "none"

\* Every step sets a field, refuses an option, or ends the command line.
LEMMA StepKinds ==
  ASSUME ArgumentsNext
  PROVE  \/ \E field, arg, value : Settings(field, arg, value) /\ Set(field, arg, value)
         \/ \E field, arg : Refusals(field, arg) /\ Refuse(field, arg)
         \/ Help
         \/ Validate
<1>1. CASE \E f \in NumericFields, n \in Numbers : NumericOption(f, n)
  BY <1>1 DEF NumericOption, Settings
<1>2. CASE \E n \in Numbers : XactSize(n)
  <2>1. PICK n \in Numbers : XactSize(n)
    BY <1>2
  <2>2. Settings("txn_size", n, AsSize(n))
    BY SizeFits, ArgumentsAssumption DEF Settings
  <2> QED
    BY <2>1, <2>2 DEF XactSize
<1>3. CASE \E f \in {"initialLoad", "print_samples"} : Flag(f)
  BY <1>3 DEF Flag, Settings
<1>4. CASE \E arg \in {Modes[k] : k \in DOMAIN Modes} \cup {"other"} : ServerMode(arg)
  <2>1. PICK arg \in ModeNames \cup {"other"} : ServerMode(arg)
    BY <1>4, ModesOut
  <2>2. CASE arg = "other"
    BY <2>1, <2>2, FirstMatch DEF ServerMode, Refusals
  <2>3. CASE arg # "other"
    BY <2>1, <2>3, FirstMatch DEF ServerMode, Settings
  <2> QED
    BY <2>2, <2>3
<1>5. CASE EvaluateWcet
  <2>1. Settings("runningMode", "evaluation", "evaluation")
    BY DEF Settings, TakenFor
  <2> QED
    BY <1>5, <2>1 DEF EvaluateWcet
<1>6. CASE \E arg \in Xacts \cup {"other"} : XactName(arg)
  <2>1. PICK arg \in Xacts \cup {"other"} : XactName(arg)
    BY <1>6
  <2>2. CASE arg \in Xacts
    BY <2>1, <2>2 DEF XactName, Settings
  <2>3. CASE arg \notin Xacts
    BY <2>1, <2>3 DEF XactName, Refusals
  <2> QED
    BY <2>2, <2>3
<1>7. CASE InvalidOption
  BY <1>7 DEF InvalidOption, Refusals
<1> QED
  BY <1>1, <1>2, <1>3, <1>4, <1>5, <1>6, <1>7 DEF ArgumentsNext

-----------------------------------------------------------------------------
(* The inductive invariant *)

Options == [field : Fields \cup {"none"},
            arg : Numbers \cup {1} \cup ModeNames \cup {"evaluation", "other", "none"} \cup Xacts]

\* An option whose name is one of the usage text.
Good(k) == \/ given[k].field \notin {"runningMode", "evaluated_txn", "none"}
           \/ given[k].field = "runningMode" /\ given[k].arg # "other"
           \/ given[k].field = "evaluated_txn" /\ given[k].arg # "other"

AllGood == \A k \in DOMAIN given : Good(k)

\* A field that was set has a last option; part of the invariant, so that the
\* induction over the options is the one over the steps.
HasLast(f) == Occurrences(f) # {} => \E m \in Occurrences(f) : \A y \in Occurrences(f) : m >= y

Ends(f) == IF Occurrences(f) = {} THEN Defaults[f] ELSE Asked(f)

CommandTypes ==
  /\ ArgumentsTypeOK
  /\ DOMAIN context = Fields
  /\ given \in Seq(Options)

\* The context holds what was asked for last.
LastCounts ==
  /\ \A f \in Fields : HasLast(f)
  /\ \A f \in NumericFields : context[f] = Ends(f)
  /\ AllGood => context.runningMode = TakenFor(Ends("runningMode"))
  /\ AllGood => context.evaluated_txn = Ends("evaluated_txn")

\* A command line is refused for an option or by the checks, never otherwise.
Verdict ==
  /\ status # "refused" => AllGood
  /\ status = "accepted" => Valid(context)
  /\ status = "refused" /\ AllGood => ~Valid(context)

CommandInv == CommandTypes /\ LastCounts /\ Verdict

LEMMA CommandInit == ArgumentsInit => CommandInv
<1> SUFFICES ASSUME ArgumentsInit PROVE CommandInv
  OBVIOUS
<1>1. DOMAIN Defaults = Fields
  BY DEF Defaults, Fields, NumericFields
<1>2. ArgumentsTypeOK
  <2>1. {Modes[k] : k \in DOMAIN Modes} = ModeNames
    BY ModesOut
  <2>2. context = Defaults /\ status = "parsing"
    BY DEF ArgumentsInit
  <2>3. /\ Defaults.txn_size = 50 /\ Defaults.initialLoad = 0 /\ Defaults.print_samples = 0
        /\ Defaults.evaluated_txn = "view_stock" /\ Defaults.runningMode = "base"
    BY DEF Defaults, CHRONOS_MIN_DATA_ITEMS_PER_XACT
  <2> QED
    BY <2>1, <2>2, <2>3 DEF ArgumentsTypeOK, ModeNames, Xacts, CHRONOS_MAX_DATA_ITEMS_PER_XACT
<1>3. given \in Seq(Options) /\ DOMAIN given = {}
  BY DEF ArgumentsInit
<1>4. \A f : Occurrences(f) = {}
  BY <1>3 DEF Occurrences
<1>5. LastCounts
  <2>1. Defaults.runningMode = "base"
    BY DEF Defaults
  <2> QED
    BY <1>4, <2>1 DEF LastCounts, HasLast, Ends, ArgumentsInit, TakenFor
<1>6. Verdict
  BY <1>3 DEF ArgumentsInit, Verdict, AllGood
<1> QED
  BY <1>1, <1>2, <1>3, <1>5, <1>6 DEF ArgumentsInit, CommandInv, CommandTypes

LEMMA MaxIs ==
  ASSUME NEW S, S \subseteq Nat, NEW m \in S, \A y \in S : m >= y
  PROVE  Max(S) = m
<1>1. \E x \in S : \A y \in S : x >= y
  OBVIOUS
<1>2. Max(S) \in S /\ \A y \in S : Max(S) >= y
  BY <1>1, Zenon DEF Max
<1>3. Max(S) >= m /\ m >= Max(S)
  BY <1>2
<1>4. Max(S) \in Nat /\ m \in Nat
  BY <1>2
<1> QED
  BY <1>3, <1>4

\* One more option on the command line is the last one for its field and leaves
\* the last ones for the others.
LEMMA OneMoreOption ==
  ASSUME given \in Seq(Options), NEW o \in Options, given' = Append(given, o),
         NEW f, HasLast(f)
  PROVE  /\ HasLast(f)'
         /\ o.field = f => Ends(f)' = o.arg
         /\ o.field # f => Ends(f)' = Ends(f)
<1> DEFINE n == Len(given) + 1
<1>1. /\ n \in Nat /\ DOMAIN given = 1 .. n - 1 /\ DOMAIN given' = 1 .. n
      /\ given'[n] = o /\ \A k \in 1 .. n - 1 : given'[k] = given[k]
  OBVIOUS
<1> HIDE DEF n
<1>2. Occurrences(f) \subseteq 1 .. n - 1 /\ Occurrences(f) \subseteq Nat
  BY <1>1 DEF Occurrences
<1>3. CASE o.field = f
  <2>1. Occurrences(f)' = Occurrences(f) \cup {n}
    BY <1>1, <1>3 DEF Occurrences
  <2>2. PICK S : S = Occurrences(f) \cup {n}
    OBVIOUS
  <2>3. S \subseteq Nat /\ n \in S /\ \A y \in S : n >= y
    BY <1>1, <1>2, <2>2
  <2>4. Max(S) = n
    BY <2>3, MaxIs
  <2>5. Asked(f)' = o.arg
    BY <1>1, <2>1, <2>2, <2>4 DEF Asked
  <2> QED
    BY <1>3, <2>1, <2>2, <2>3, <2>5 DEF HasLast, Ends
<1>4. CASE o.field # f
  <2>1. Occurrences(f)' = Occurrences(f)
    BY <1>1, <1>4 DEF Occurrences
  <2>2. ASSUME Occurrences(f) # {} PROVE Asked(f)' = Asked(f)
    <3>1. PICK m \in Occurrences(f) : \A y \in Occurrences(f) : m >= y
      BY <2>2 DEF HasLast
    <3>2. Max(Occurrences(f)) = m
      BY <1>2, <3>1, MaxIs
    <3>3. given'[m] = given[m]
      BY <1>1, <1>2, <3>1
    <3> QED
      BY <2>1, <3>2, <3>3 DEF Asked
  <2> QED
    BY <1>4, <2>1, <2>2 DEF HasLast, Ends
<1> QED
  BY <1>3, <1>4

\* The options so far stay good, and the new one is good or not by itself.
LEMMA OneMoreGood ==
  ASSUME given \in Seq(Options), NEW o \in Options, given' = Append(given, o)
  PROVE  AllGood' <=> /\ AllGood
                      /\ \/ o.field \notin {"runningMode", "evaluated_txn", "none"}
                         \/ o.field \in {"runningMode", "evaluated_txn"} /\ o.arg # "other"
<1>0. PICK n : n = Len(given) + 1
  OBVIOUS
<1>1. /\ n \in Nat /\ DOMAIN given = 1 .. n - 1 /\ DOMAIN given' = 1 .. n
      /\ given'[n] = o /\ \A k \in 1 .. n - 1 : given'[k] = given[k]
  BY <1>0
<1>2. AllGood' <=> (\A k \in 1 .. n - 1 : Good(k)') /\ Good(n)'
  BY <1>1 DEF AllGood, Good
<1>3. \A k \in 1 .. n - 1 : Good(k)' <=> Good(k)
  BY <1>1 DEF Good
<1>4. Good(n)' <=> \/ o.field \notin {"runningMode", "evaluated_txn", "none"}
                   \/ o.field \in {"runningMode", "evaluated_txn"} /\ o.arg # "other"
  BY <1>1 DEF Good
<1> QED
  BY <1>1, <1>2, <1>3, <1>4 DEF AllGood

LEMMA CommandSet ==
  ASSUME CommandInv, NEW field, NEW arg, NEW value,
         Settings(field, arg, value), Set(field, arg, value)
  PROVE  CommandInv'
<1> DEFINE o == [field |-> field, arg |-> arg]
<1>1. field \in Fields /\ o \in Options /\ field # "none"
  BY DEF Settings, Fields, NumericFields, Options
<1>2. /\ status = "parsing" /\ status' = status /\ LITMUS_RT' = LITMUS_RT
      /\ given' = Append(given, o) /\ context' = [context EXCEPT ![field] = value]
  BY DEF Set
<1>3. given \in Seq(Options) /\ DOMAIN context = Fields /\ \A f \in Fields : HasLast(f)
  BY DEF CommandInv, CommandTypes, LastCounts
<1>4. /\ DOMAIN context' = Fields /\ context'[field] = value
      /\ \A f \in Fields \ {field} : context'[f] = context[f]
  BY <1>1, <1>2, <1>3
<1>5. given' \in Seq(Options)
  <2> HIDE DEF o
  <2> QED
    BY <1>1, <1>2, <1>3
<1>6. ArgumentsTypeOK'
  <2>0. ArgumentsTypeOK /\ {Modes[k] : k \in DOMAIN Modes} = ModeNames
    BY ModesOut DEF CommandInv, CommandTypes
  <2>1. ASSUME NEW f \in NumericFields PROVE context'[f] \in Numbers \cup {Defaults[f]}
    <3>1. f \in Fields /\ context[f] \in Numbers \cup {Defaults[f]}
      BY <2>0 DEF ArgumentsTypeOK, Fields
    <3>2. CASE f = field
      BY <1>4, <2>1, <3>2 DEF Settings, NumericFields
    <3> QED
      BY <1>4, <3>1, <3>2
  <2>2. context'["txn_size"] \in 0 .. CHRONOS_MAX_DATA_ITEMS_PER_XACT
    BY <1>4, <2>0 DEF ArgumentsTypeOK, Settings, Fields, NumericFields
  <2>3. context'["initialLoad"] \in 0 .. 1 /\ context'["print_samples"] \in 0 .. 1
    BY <1>4, <2>0 DEF ArgumentsTypeOK, Settings, Fields, NumericFields
  <2>4. context'["evaluated_txn"] \in Xacts
    BY <1>4, <2>0 DEF ArgumentsTypeOK, Settings, Fields, NumericFields
  <2>5. context'["runningMode"] \in ModeNames \cup {"evaluation"}
    BY <1>4, <2>0 DEF ArgumentsTypeOK, Settings, Fields, NumericFields, TakenFor, ModeNames
  <2> QED
    BY <1>2, <2>0, <2>1, <2>2, <2>3, <2>4, <2>5 DEF ArgumentsTypeOK
<1>7. ASSUME NEW f \in Fields
      PROVE  HasLast(f)' /\ (field = f => Ends(f)' = arg) /\ (field # f => Ends(f)' = Ends(f))
  BY <1>1, <1>2, <1>3, OneMoreOption
<1>8. AllGood /\ AllGood'
  <2>1. AllGood
    BY <1>2 DEF CommandInv, Verdict
  <2>2. o.field = field /\ o.arg = arg
    OBVIOUS
  <2>3. field \in {"runningMode", "evaluated_txn"} => arg # "other"
    BY DEF Settings, NumericFields, ModeNames, Xacts
  <2> QED
    BY <1>1, <1>2, <1>3, <2>1, <2>2, <2>3, OneMoreGood
<1>9. LastCounts'
  <2>1. ASSUME NEW f \in NumericFields PROVE context'[f] = Ends(f)'
    <3>1. f \in Fields /\ context[f] = Ends(f)
      BY DEF Fields, CommandInv, LastCounts
    <3>2. CASE f = field
      BY <1>4, <1>7, <2>1, <3>1, <3>2 DEF Settings, NumericFields
    <3> QED
      BY <1>4, <1>7, <3>1, <3>2
  <2>2. context'["runningMode"] = TakenFor(Ends("runningMode")')
    <3>1. "runningMode" \in Fields /\ "runningMode" \notin NumericFields
      BY DEF Fields, NumericFields
    <3>2. CASE field = "runningMode"
      BY <1>4, <1>7, <3>1, <3>2 DEF Settings
    <3>3. CASE field # "runningMode"
      BY <1>4, <1>7, <1>8, <3>1, <3>3 DEF CommandInv, LastCounts
    <3> QED
      BY <3>2, <3>3
  <2>3. context'["evaluated_txn"] = Ends("evaluated_txn")'
    <3>1. "evaluated_txn" \in Fields /\ "evaluated_txn" \notin NumericFields
      BY DEF Fields, NumericFields
    <3>2. CASE field = "evaluated_txn"
      BY <1>4, <1>7, <3>1, <3>2 DEF Settings
    <3>3. CASE field # "evaluated_txn"
      BY <1>4, <1>7, <1>8, <3>1, <3>3 DEF CommandInv, LastCounts
    <3> QED
      BY <3>2, <3>3
  <2> QED
    BY <1>7, <2>1, <2>2, <2>3 DEF LastCounts, TakenFor
<1>10. Verdict'
  BY <1>2, <1>8 DEF Verdict
<1> QED
  BY <1>4, <1>5, <1>6, <1>9, <1>10 DEF CommandInv, CommandTypes

LEMMA CommandRefuse ==
  ASSUME CommandInv, NEW field, NEW arg, Refusals(field, arg), Refuse(field, arg)
  PROVE  CommandInv'
<1> DEFINE o == [field |-> field, arg |-> arg]
<1>1. o \in Options
  BY DEF Refusals, Fields, Options
<1>2. /\ status' = "refused" /\ UNCHANGED <<context, LITMUS_RT>> /\ given' = Append(given, o)
  BY DEF Refuse
<1>3. given \in Seq(Options) /\ \A f \in Fields : HasLast(f)
  BY DEF CommandInv, CommandTypes, LastCounts
<1>4. CommandTypes'
  <2>1. given' \in Seq(Options)
    <3> HIDE DEF o
    <3> QED
      BY <1>1, <1>2, <1>3
  <2> QED
    BY <1>2, <2>1 DEF CommandInv, CommandTypes, ArgumentsTypeOK
<1>5. ASSUME NEW f \in Fields PROVE HasLast(f)' /\ (field # f => Ends(f)' = Ends(f))
  BY <1>1, <1>2, <1>3, OneMoreOption
<1>6. ~AllGood'
  <2>1. o.field = field /\ o.arg = arg
    OBVIOUS
  <2> QED
    BY <1>1, <1>2, <1>3, <2>1, OneMoreGood DEF Refusals
<1>7. ASSUME NEW f \in NumericFields PROVE context'[f] = Ends(f)'
  <2>1. f \in Fields /\ f # field
    BY DEF Fields, NumericFields, Refusals
  <2> QED
    BY <1>2, <1>5, <2>1 DEF CommandInv, LastCounts
<1> QED
  BY <1>2, <1>4, <1>5, <1>6, <1>7 DEF CommandInv, LastCounts, Verdict

\* Nothing but the verdict changes.
LEMMA CommandEnd ==
  ASSUME CommandInv, UNCHANGED <<context, given, LITMUS_RT>>,
         status' \in {"parsing", "accepted", "refused", "exited"}, Verdict'
  PROVE  CommandInv'
<1>1. CommandTypes'
  BY DEF CommandInv, CommandTypes, ArgumentsTypeOK
<1>2. LastCounts'
  <2>1. AllGood' <=> AllGood
    BY DEF AllGood, Good
  <2>2. \A f : (HasLast(f)' <=> HasLast(f)) /\ Ends(f)' = Ends(f)
    BY DEF HasLast, Ends, Asked, Occurrences
  <2> QED
    BY <2>1, <2>2 DEF CommandInv, LastCounts, TakenFor
<1> QED
  BY <1>1, <1>2 DEF CommandInv

LEMMA CommandStep == CommandInv /\ [ArgumentsNext]_argumentsVars => CommandInv'
<1> SUFFICES ASSUME CommandInv, [ArgumentsNext]_argumentsVars PROVE CommandInv'
  OBVIOUS
<1>1. CASE Help
  <2>1. Verdict'
    BY <1>1 DEF Help, CommandInv, Verdict, AllGood, Good
  <2> QED
    BY <1>1, <2>1, CommandEnd DEF Help
<1>2. CASE Validate
  <2>1. Valid(context)' <=> Valid(context)
    BY <1>2 DEF Validate, Valid
  <2>2. AllGood /\ AllGood'
    BY <1>2 DEF Validate, CommandInv, Verdict, AllGood, Good
  <2>3. Verdict'
    BY <1>2, <2>1, <2>2 DEF Validate, Verdict
  <2> QED
    BY <1>2, <2>3, CommandEnd DEF Validate
<1>3. CASE UNCHANGED argumentsVars
  <2>1. Verdict' /\ status' \in {"parsing", "accepted", "refused", "exited"}
    BY <1>3 DEF argumentsVars, CommandInv, CommandTypes, ArgumentsTypeOK, Verdict, AllGood, Good, Valid
  <2> QED
    BY <1>3, <2>1, CommandEnd DEF argumentsVars
<1> QED
  BY <1>1, <1>2, <1>3, StepKinds, CommandSet, CommandRefuse

-----------------------------------------------------------------------------
(* main *)

\* What main has come to, by the command line and its context.
MainInv ==
  /\ pc # "idle" => /\ status = "accepted"
                    /\ context.runningMode = "evaluation"
                    /\ evaluated_txn = context.evaluated_txn
  /\ main = "server" => status = "accepted" /\ context.runningMode # "evaluation"
  /\ main = "arguments" => pc = "idle"

StartupInv == CommandInv /\ MainInv

LEMMA StartupInit == Init => StartupInv
<1> SUFFICES ASSUME Init PROVE StartupInv
  OBVIOUS
<1>1. MainInv
  BY DEF Init, EvaluationInit, MainInv
<1> QED
  BY <1>1, CommandInit DEF Init, StartupInv

\* The steps of an evaluation leave its transaction alone.
LEMMA EvaluationKeepsTxn == EvaluationStep => UNCHANGED evaluated_txn
BY DEF EvaluationStep, Setup, SetupFails, CreateRequest, CreateRequestFails, AllocPacket, AppendItems,
       PacketFails, Execute, FreePacket, FreeRequest, FreeRequestFails, RTCAPTURE, RTCAPTURE_PRINT,
       Tick, Return

\* Nothing is evaluated before main calls it.
LEMMA EvaluationIsCalled == EvaluationStep => pc # "idle"
BY DEF EvaluationStep, Setup, SetupFails, CreateRequest, CreateRequestFails, AllocPacket, AppendItems,
       PacketFails, Execute, FreePacket, FreeRequest, FreeRequestFails, RTCAPTURE, RTCAPTURE_PRINT,
       Tick, Return

LEMMA StartupStep == StartupInv /\ [Next]_vars => StartupInv'
<1> SUFFICES ASSUME StartupInv, [Next]_vars PROVE StartupInv'
  OBVIOUS
<1>1. CommandInv'
  <2>1. [ArgumentsNext]_argumentsVars
    BY DEF Next, vars, ProcessArguments, ArgumentsFail, HelpExit, Exit, RunEvaluation, Evaluate,
           EvaluationEnds, RunServer
  <2> QED
    BY <2>1, CommandStep DEF StartupInv
<1>2. MainInv'
  <2>1. CASE ProcessArguments
    BY <2>1 DEF ProcessArguments, StartupInv, MainInv, evaluationVars
  <2>2. CASE ArgumentsFail \/ HelpExit \/ EvaluationEnds
    BY <2>2 DEF ArgumentsFail, HelpExit, EvaluationEnds, Exit, StartupInv, MainInv, argumentsVars,
                evaluationVars
  <2>3. CASE RunEvaluation
    BY <2>3 DEF RunEvaluation, RunTxnEvaluation, MainInv, argumentsVars
  <2>4. CASE Evaluate
    BY <2>4, EvaluationKeepsTxn, EvaluationIsCalled DEF Evaluate, StartupInv, MainInv, argumentsVars
  <2>5. CASE RunServer
    BY <2>5 DEF RunServer, StartupInv, MainInv, argumentsVars, evaluationVars
  <2>6. CASE UNCHANGED vars
    BY <2>6 DEF vars, StartupInv, MainInv, argumentsVars, evaluationVars
  <2> QED
    BY <2>1, <2>2, <2>3, <2>4, <2>5, <2>6 DEF Next
<1> QED
  BY <1>1, <1>2 DEF StartupInv

LEMMA StartupInvariant == Spec => []StartupInv
BY StartupInit, StartupStep, PTL DEF Spec

\* Types of the server context; in particular txn_size never exceeds the arrays of
\* a transaction, whatever number is on the command line.
THEOREM ArgumentsTypeCorrect == Spec => []ArgumentsTypeOK
<1>1. StartupInv => ArgumentsTypeOK
  BY DEF StartupInv, CommandInv, CommandTypes
<1> QED
  BY <1>1, StartupInvariant, PTL

\* The server starts exactly on a good command line, of any length and with its
\* options in any order.
THEOREM StartIsRight == Spec => []StartsExactlyWhenGood
<1>1. StartupInv => StartsExactlyWhenGood
  <2> SUFFICES ASSUME CommandInv, status \in {"accepted", "refused"}
               PROVE  status = "accepted" <=>
                        /\ AllGood
                        /\ \A f \in Validated : Ends(f) > 0
                        /\ LITMUS_RT => (Occurrences("runningMode") = {} \/ Asked("runningMode") = "base")
    BY Zenon DEF StartupInv, StartsExactlyWhenGood, AllGood, Good, Ends
  <2>1. \A f \in Validated : context[f] = Ends(f)
    BY DEF CommandInv, LastCounts, Validated, NumericFields
  <2>2. AllGood => (context.runningMode = "base" <=>
                      (Occurrences("runningMode") = {} \/ Asked("runningMode") = "base"))
    <3>1. Defaults["runningMode"] = "base"
      BY DEF Defaults
    <3> QED
      BY <3>1 DEF CommandInv, LastCounts, Ends, TakenFor
  <2> QED
    BY <2>1, <2>2 DEF CommandInv, Verdict, Valid
<1> QED
  BY <1>1, StartupInvariant, PTL

\* Transactions are timed exactly if --evaluate-wcet was the last mode on the
\* command line, and they are of the type named last.
THEOREM EvaluationIsAsked == Spec => []EvaluatesWhatWasAsked
<1>1. StartupInv => EvaluatesWhatWasAsked
  <2> SUFFICES ASSUME StartupInv
               PROVE  LET evaluation == /\ Occurrences("runningMode") # {}
                                        /\ Asked("runningMode") = "evaluation" IN
                        /\ pc # "idle" => evaluation /\ evaluated_txn = Ends("evaluated_txn")
                        /\ main = "server" => ~evaluation
    BY Zenon DEF EvaluatesWhatWasAsked, Ends
  <2>1. status = "accepted" =>
          /\ context.runningMode = TakenFor(Ends("runningMode"))
          /\ context.evaluated_txn = Ends("evaluated_txn")
    BY DEF StartupInv, CommandInv, Verdict, LastCounts
  <2>2. Defaults["runningMode"] = "base"
    BY DEF Defaults
  <2>3. status = "accepted" =>
          (context.runningMode = "evaluation" <=> /\ Occurrences("runningMode") # {}
                                                  /\ Asked("runningMode") = "evaluation")
    BY <2>1, <2>2 DEF Ends, TakenFor
  <2> QED
    BY <2>1, <2>3 DEF StartupInv, MainInv
<1> QED
  BY <1>1, StartupInvariant, PTL

\* main runs runTxnEvaluation as module Evaluation has it: once, on one of its
\* transactions, with nothing else touching its state.
THEOREM ImplementsEvaluation == Spec => EvaluationSpec
<1>1. Init => EvaluationInit
  BY DEF Init
<1>2. ASSUME StartupInv, [Next]_vars PROVE [EvaluationNext]_evaluationVars
  <2>1. CASE RunEvaluation
    <3>1. context.evaluated_txn \in Transactions
      BY <1>2 DEF StartupInv, CommandInv, CommandTypes, ArgumentsTypeOK, Xacts, Transactions
    <3> QED
      BY <2>1, <3>1 DEF RunEvaluation, EvaluationNext
  <2>2. CASE Evaluate
    BY <2>2 DEF Evaluate, EvaluationNext
  <2>3. CASE ~RunEvaluation /\ ~Evaluate
    BY <1>2, <2>3 DEF Next, vars, ProcessArguments, ArgumentsFail, HelpExit, Exit, EvaluationEnds,
                      RunServer
  <2> QED
    BY <2>1, <2>2, <2>3
<1> QED
  BY <1>1, <1>2, StartupInvariant, PTL DEF Spec, EvaluationSpec

\* So what is proved of an evaluation holds whenever the server is started to
\* evaluate: its types, its rounds, the histogram and the report.
THEOREM EvaluationsAreRight ==
  Spec => [](EvaluationTypeOK /\ RoundsClean /\ HistogramExact /\ ReportExact)
BY ImplementsEvaluation, EvaluationTypeCorrect, RoundsAreClean, HistogramIsExact, ReportIsExact, PTL
=============================================================================
