------------------------------- MODULE Exchange -------------------------------
(***************************************************************************)
(* What the proxy promises the client of one HTTP request                  *)
(* (docs/fallbacks.md, docs/configuration.md): models are tried in the     *)
(* order of the plan, either each once or only the first, and while none   *)
(* is settled on nothing of any attempt is given to the client. Once one   *)
(* is, the client gets that attempt's answer, or the beginning of it, and  *)
(* there is no further attempt. HttpForward implements it.                 *)
(***************************************************************************)
EXTENDS Naturals, Sequences

VARIABLES
  models,   \* how many models the request may be tried on
  attempt,  \* the number of the attempt
  model,    \* the model it tries
  stage,    \* open, settled on the attempt, or over
  given     \* the attempt of each event the client has got

vars == <<models, attempt, model, stage, given>>

Init ==
  /\ models \in Nat \ {0} /\ attempt = 1 /\ model = 1 /\ stage = "open" /\ given = <<>>

\* Another attempt, at the only model there is or at the next one of several.
TryAgain ==
  /\ stage = "open" /\ attempt' = attempt + 1
  /\ model' = (IF models = 1 THEN model ELSE model + 1) /\ model' <= models
  /\ UNCHANGED <<models, stage, given>>

Settle ==
  /\ stage = "open" /\ stage' = "settled"
  /\ UNCHANGED <<models, attempt, model, given>>

Give ==
  /\ stage = "settled" /\ given' = Append(given, attempt)
  /\ UNCHANGED <<models, attempt, model, stage>>

End ==
  /\ stage # "over" /\ stage' = "over"
  /\ UNCHANGED <<models, attempt, model, given>>

Next == TryAgain \/ Settle \/ Give \/ End

Spec == Init /\ [][Next]_vars
==============================================================================
