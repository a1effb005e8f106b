------------------------------ MODULE Arguments ------------------------------
(***************************************************************************)
(* processArguments: the options of the command line are applied to the    *)
(* server context one after the other, then the context is validated.      *)
(* Options come in any order and any number of times.                      *)
(*                                                                         *)
(* Names are compared with strncmp over the length of the name that is     *)
(* expected, so that an argument may go on after it.                       *)
(***************************************************************************)
EXTENDS Integers, Sequences, FiniteSetsExt

CONSTANTS
  Numbers,     \* what atoi makes of the numeric arguments
  UintModulus, \* 2^32 in the code: txn_size is an unsigned int
  MaxOptions   \* bound: options on the command line

ASSUME ArgumentsAssumption ==
  /\ Numbers \subseteq Int
  /\ UintModulus \in Nat \ {0}
  /\ MaxOptions \in Nat

VARIABLES
  context,    \* chronosServerContext_t, and print_samples
  given,      \* history: the options so far
  LITMUS_RT,  \* whether the server is built for Litmus RT
  status      \* "parsing", "accepted", "refused" or "exited"

argumentsVars == <<context, given, LITMUS_RT, status>>

NumericFields == {"numClientsThreads", "numServerThreads", "initialValidityIntervalMS",
                  "numUpdateThreads", "duration_sec", "serverPort", "desiredDelayBoundMS",
                  "debugLevel"}

CHRONOS_MIN_DATA_ITEMS_PER_XACT == 50
CHRONOS_MAX_DATA_ITEMS_PER_XACT == 100

\* initProcessArguments, with the values of server_config.h.
Defaults ==
  [numServerThreads |-> 1, numClientsThreads |-> 10, numUpdateThreads |-> 1,
   serverPort |-> 5000, initialValidityIntervalMS |-> 1000, duration_sec |-> 900,
   desiredDelayBoundMS |-> 500, debugLevel |-> 0, initialLoad |-> 0, print_samples |-> 0,
   evaluated_txn |-> "view_stock", txn_size |-> CHRONOS_MIN_DATA_ITEMS_PER_XACT,
   runningMode |-> "base"]

ArgumentsInit ==
  /\ context = Defaults
  /\ given = <<>>
  /\ LITMUS_RT \in BOOLEAN
  /\ status = "parsing"

-----------------------------------------------------------------------------
(* The loop over the options *)

\* One option sets a field, and the loop goes on.
Set(field, arg, value) ==
  /\ status = "parsing"
  /\ Len(given) < MaxOptions
  /\ context' = [context EXCEPT ![field] = value]
  /\ given' = Append(given, [field |-> field, arg |-> arg])
  /\ UNCHANGED <<LITMUS_RT, status>>

\* The option is refused: failXit.
Refuse(field, arg) ==
  /\ status = "parsing"
  /\ Len(given) < MaxOptions
  /\ given' = Append(given, [field |-> field, arg |-> arg])
  /\ status' = "refused"
  /\ UNCHANGED <<context, LITMUS_RT>>

\* -c, -t, -v, -u, -r, -p, -d and --delay-bound
NumericOption(f, n) == Set(f, n, n)

\* Faulty variant: the size is compared as a signed number and kept as it is.
AsSize_Signed(n) == IF n > CHRONOS_MAX_DATA_ITEMS_PER_XACT THEN CHRONOS_MAX_DATA_ITEMS_PER_XACT
                    ELSE n % UintModulus

\* txn_size is unsigned: a negative size is too large as well.
AsSize(n) ==
  LET size == n % UintModulus IN
    IF size > CHRONOS_MAX_DATA_ITEMS_PER_XACT THEN CHRONOS_MAX_DATA_ITEMS_PER_XACT ELSE size

XactSize(n) == Set("txn_size", n, AsSize(n))

\* --initial-load and --print-samples
Flag(f) == Set(f, 1, 1)

\* In the order of the comparisons.
Modes == <<"base", "ac", "aup", "ac_aup">>
Xacts == {"view_stock", "view_portfolio", "purchase_stock", "sell_stock", "refresh_stock"}

\* strncmp(name, arg, strlen(name)) == 0.  The one name that another begins
\* with is "ac".
Begins(name, arg) == name = arg \/ (name = "ac" /\ arg = "ac_aup")

Matching(arg) == {k \in DOMAIN Modes : Begins(Modes[k], arg)}

\* Faulty variant: a mode does not end the evaluation mode.
ServerMode_KeepsEvaluation(arg) ==
  IF Matching(arg) = {} THEN Refuse("runningMode", arg)
  ELSE Set("runningMode", arg, IF context.runningMode = "evaluation" THEN "evaluation"
                               ELSE Modes[Min(Matching(arg))])

\* -m: the first name that the argument begins with.
ServerMode(arg) ==
  IF Matching(arg) # {} THEN Set("runningMode", arg, Modes[Min(Matching(arg))])
  ELSE Refuse("runningMode", arg)

\* --evaluate-wcet; the mode is a mode like any other, and the last one counts.
EvaluateWcet == Set("runningMode", "evaluation", "evaluation")

XactName(arg) ==
  IF arg \in Xacts THEN Set("evaluated_txn", arg, arg) ELSE Refuse("evaluated_txn", arg)

\* -s, which getopt knows and the switch does not, and unknown options.
InvalidOption == Refuse("none", "none")

\* -h
Help ==
  /\ status = "parsing"
  /\ status' = "exited"
  /\ UNCHANGED <<context, given, LITMUS_RT>>

-----------------------------------------------------------------------------
(* The checks after the loop *)

Validated == {"numClientsThreads", "initialValidityIntervalMS", "numUpdateThreads", "serverPort"}

\* Faulty variant: one of the fields is checked to be non-negative.
Valid_Zero(c) ==
  /\ \A f \in Validated \ {"serverPort"} : c[f] > 0
  /\ c.serverPort >= 0
  /\ LITMUS_RT => c.runningMode = "base"

Valid(c) ==
  /\ \A f \in Validated : c[f] > 0
  /\ LITMUS_RT => c.runningMode = "base"

Validate ==
  /\ status = "parsing"
  /\ status' = IF Valid(context) THEN "accepted" ELSE "refused"
  /\ UNCHANGED <<context, given, LITMUS_RT>>

-----------------------------------------------------------------------------
ArgumentsNext ==
  \/ \E f \in NumericFields, n \in Numbers : NumericOption(f, n)
  \/ \E n \in Numbers : XactSize(n)
  \/ \E f \in {"initialLoad", "print_samples"} : Flag(f)
  \/ \E arg \in {Modes[k] : k \in DOMAIN Modes} \cup {"other"} : ServerMode(arg)
  \/ EvaluateWcet
  \/ \E arg \in Xacts \cup {"other"} : XactName(arg)
  \/ InvalidOption \/ Help
  \/ Validate

ArgumentsSpec == ArgumentsInit /\ [][ArgumentsNext]_argumentsVars

-----------------------------------------------------------------------------
\* The argument of the last option for a field.
Occurrences(field) == {k \in DOMAIN given : given[k].field = field}
Asked(field) == given[Max(Occurrences(field))].arg

\* Type correctness; the size fits the arrays of a transaction, which have
\* CHRONOS_MAX_DATA_ITEMS_PER_XACT entries, also when the argument is negative.
ArgumentsTypeOK ==
  /\ \A f \in NumericFields : context[f] \in Numbers \cup {Defaults[f]}
  /\ context.txn_size \in 0 .. CHRONOS_MAX_DATA_ITEMS_PER_XACT
  /\ context.initialLoad \in 0 .. 1
  /\ context.print_samples \in 0 .. 1
  /\ context.evaluated_txn \in Xacts
  /\ context.runningMode \in {Modes[k] : k \in DOMAIN Modes} \cup {"evaluation"}
  /\ status \in {"parsing", "accepted", "refused", "exited"}

(***************************************************************************)
(* The server starts exactly on a good command line, whatever the order of *)
(* its options: every name is one of the usage text, and for each of the   *)
(* four checked numbers it is the last value that counts, so that a bad    *)
(* value may be corrected and a good one spoilt by a later option.         *)
(***************************************************************************)
StartsExactlyWhenGood ==
  LET Good(k) == \/ given[k].field \notin {"runningMode", "evaluated_txn", "none"}
                 \/ given[k].field = "runningMode" /\ given[k].arg # "other"
                 \/ given[k].field = "evaluated_txn" /\ given[k].arg # "other"
      Ends(f) == IF Occurrences(f) = {} THEN Defaults[f] ELSE Asked(f) IN
    status \in {"accepted", "refused"} =>
      (status = "accepted" <=>
         /\ \A k \in DOMAIN given : Good(k)
         /\ \A f \in Validated : Ends(f) > 0
         /\ LITMUS_RT => (Occurrences("runningMode") = {} \/ Asked("runningMode") = "base"))

(***************************************************************************)
(* "-m|--server-mode [mode] running mode: Valid options are: base ac aup   *)
(* ac_aup": the server runs in the mode that was asked for last.  The run  *)
(* of MCStartupMode shows that it does not: ac_aup begins with ac and is   *)
(* taken for it, so that the updates are never adapted.                    *)
(***************************************************************************)
ModeHonoured ==
  status = "accepted" /\ Occurrences("runningMode") # {} =>
    context.runningMode = Asked("runningMode")
=============================================================================
