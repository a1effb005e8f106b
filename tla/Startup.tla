------------------------------- MODULE Startup -------------------------------
(***************************************************************************)
(* main: the command line is processed, and the context it leaves decides  *)
(* whether the transactions of --evaluate-wcet are timed or the server is  *)
(* started.  ChronosServer is what follows in the second case.             *)
(***************************************************************************)
EXTENDS Arguments, Evaluation

VARIABLES
  main,        \* "arguments", "evaluation", "server" or "ended"
  exit_status  \* what main returns or exits with

vars == <<argumentsVars, evaluationVars, main, exit_status>>

Init ==
  /\ ArgumentsInit
  /\ EvaluationInit
  /\ main = "arguments"
  /\ exit_status = "none"

\* processArguments goes on.
ProcessArguments ==
  /\ main = "arguments"
  /\ ArgumentsNext
  /\ UNCHANGED <<evaluationVars, main, exit_status>>

\* main or exit ends the program.
Exit(value) ==
  /\ main' = "ended"
  /\ exit_status' = value
  /\ UNCHANGED <<argumentsVars, evaluationVars>>

\* "Failed to process arguments"
ArgumentsFail == main = "arguments" /\ status = "refused" /\ Exit("FAIL")

\* exit(0) after the usage text of -h.
HelpExit == main = "arguments" /\ status = "exited" /\ Exit("SUCCESS")

\* "Running in transaction evaluation mode"
RunEvaluation ==
  /\ main = "arguments"
  /\ status = "accepted"
  /\ context.runningMode = "evaluation"
  /\ RunTxnEvaluation(context.evaluated_txn)
  /\ main' = "evaluation"
  /\ UNCHANGED <<argumentsVars, exit_status>>

Evaluate ==
  /\ main = "evaluation"
  /\ EvaluationStep
  /\ UNCHANGED <<argumentsVars, main, exit_status>>

\* The value of runTxnEvaluation becomes the one of main.
EvaluationEnds == main = "evaluation" /\ rc # "none" /\ Exit(rc)

\* "Run the soft real-time mode"
RunServer ==
  /\ main = "arguments"
  /\ status = "accepted"
  /\ context.runningMode # "evaluation"
  /\ main' = "server"
  /\ UNCHANGED <<argumentsVars, evaluationVars, exit_status>>

Next ==
  \/ ProcessArguments \/ ArgumentsFail \/ HelpExit
  \/ RunEvaluation \/ Evaluate \/ EvaluationEnds
  \/ RunServer

Spec == Init /\ [][Next]_vars

-----------------------------------------------------------------------------
(***************************************************************************)
(* "--evaluate-wcet evaluate transaction worst case execution time",       *)
(* "--xact-name <xact> evaluate the indicated transaction": transactions   *)
(* are timed exactly if the evaluation was the last mode asked for, and    *)
(* they are of the type named last, wherever the two options stand among   *)
(* the others.                                                             *)
(***************************************************************************)
EvaluatesWhatWasAsked ==
  LET evaluation == Occurrences("runningMode") # {} /\ Asked("runningMode") = "evaluation"
      named == IF Occurrences("evaluated_txn") = {} THEN Defaults.evaluated_txn
               ELSE Asked("evaluated_txn") IN
    /\ pc # "idle" => evaluation /\ evaluated_txn = named
    /\ main = "server" => ~evaluation
=============================================================================
