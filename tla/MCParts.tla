------------------------------ MODULE MCParts ------------------------------
(***************************************************************************)
(* Instances for TLC of the parts that share no state in these modules:    *)
(* the log, the sleep of the main loop, the router's pipe, the reasoning   *)
(* budget, the reload of the router's models and the threads of the CPU    *)
(* backend.  A behaviour is one of one part, chosen at the start; the      *)
(* other parts stay as they are.                                           *)
(***************************************************************************)
EXTENDS LogRing, Sleep, Pipe, ReasoningBudget, Reload, Threadpool

CONSTANTS m1, m2 \* two models

VARIABLE part \* the part that runs

partsVars == <<part, vars, sleepVars, pipeVars, budgetVars, reloadVars, poolVars>>

MCStartTag == <<"s", "t">>
MCEndTag == <<"e", "f">>
MCForced == <<"m", "e", "f">>

\* A graph: a product, a view, an operation whose rows are split.
MCOps == <<"mul_mat", "none", "rows">>

\* The generation prompt does not open a block, opens one, has tokens behind
\* the start tag, or has a block that is closed.
MCCases ==
  {[budget |-> b, prefill |-> p] :
     b \in 0..3,
     p \in {<<>>, <<"n", "s", "t">>, <<"s", "t", "n">>, <<"s", "t", "n", "n", "n">>, <<"s", "t", "n", "e", "f">>}}

\* At the start the sources have both models, or the first; m1 is asked for.
MCSources == {l \in Lists : l[m1] = "p" /\ l[m2] \in {"p", NoPreset}}

PartsInit ==
  /\ part \in {"log", "sleep", "pipe", "budget", "reload", "pool"}
  /\ Init /\ SleepInit /\ PipeInit /\ BudgetInit /\ ReloadInit /\ PoolInit
  /\ part # "budget" => budget = 0 /\ prefill = <<>>
  /\ source \in IF part = "reload" THEN MCSources ELSE {CHOOSE l \in MCSources : TRUE}
  /\ wanted = [c \in Askers |-> m1]
  /\ part # "pool" => ~poolPause

Log ==
  /\ part = "log"
  /\ UNCHANGED <<part, sleepVars, pipeVars, budgetVars, reloadVars, poolVars>>
Sleeper ==
  /\ part = "sleep"
  /\ UNCHANGED <<part, vars, pipeVars, budgetVars, reloadVars, poolVars>>
Piped ==
  /\ part = "pipe"
  /\ UNCHANGED <<part, vars, sleepVars, budgetVars, reloadVars, poolVars>>
Budgeted ==
  /\ part = "budget"
  /\ UNCHANGED <<part, vars, sleepVars, pipeVars, reloadVars, poolVars>>
Reloading ==
  /\ part = "reload"
  /\ UNCHANGED <<part, vars, sleepVars, pipeVars, budgetVars, poolVars>>
Pooled ==
  /\ part = "pool"
  /\ UNCHANGED <<part, vars, sleepVars, pipeVars, budgetVars, reloadVars>>

PartsNext ==
  \/ Log /\ Next
  \/ Sleeper /\ SleepNext
  \/ Piped /\ PipeNext
  \/ Budgeted /\ BudgetNext
  \/ Reloading /\ ReloadNext
  \/ Pooled /\ PoolNext

\* Each part with its own fairness; that a step of one part leaves the others
\* alone is PartsNext.
PartsSpec ==
  /\ PartsInit /\ [][PartsNext]_partsVars
  /\ WF_vars(part = "log" /\ (Take \/ Emit)) /\ WF_vars(part = "log" /\ Join)
  /\ WF_sleepVars(part = "sleep" /\ LoopStep)
  /\ \A h \in Handlers : WF_sleepVars(part = "sleep" /\ (LookAgain(h) \/ PostTask(h)))
  /\ WF_pipeVars(part = "pipe" /\ ReadStep)
  /\ WF_pipeVars(part = "pipe" /\ (ReportError \/ CloseWrite))
  /\ \A r \in Reloaders : WF_reloadVars(part = "reload" /\ ReloadStep(r))
  /\ \A c \in Askers : WF_reloadVars(part = "reload" /\ AskerStep(c))
  /\ \A n \in Names :
       /\ WF_reloadVars(part = "reload" /\ mapping[n].status = "loading" /\ (Up(n) \/ Ends(n)))
       /\ WF_reloadVars(part = "reload" /\ ToldToEnd(n) /\ Ends(n))
  /\ WF_poolVars(part = "pool" /\ CallerStep)
  /\ \A i \in Threads \ {0} : WF_poolVars(part = "pool" /\ WorkerStep(i))

\* The types of all the parts.
PartsTypeOK ==
  /\ TypeOK /\ SleepTypeOK /\ PipeTypeOK /\ BudgetTypeOK /\ ReloadTypeOK
  /\ PoolTypeOK
=============================================================================
