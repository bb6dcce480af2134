----------------------------- MODULE MCScheduler -----------------------------
(* Constants for model checking Scheduler with TLC. *)
EXTENDS SchedulerStreams

\* Prompts that share prefixes: the second extends the first, the third
\* leaves both after one token.
ForkedPrompts == 1 :> <<1, 1, 1>> @@ 2 :> <<1, 1, 1, 2>> @@ 3 :> <<1, 2, 1>>
ForkedTokens == 1 :> 3 @@ 2 :> 2 @@ 3 :> 3

\* Equal token ids, of which the second request's stand for an image.
ImagePrompts == 1 :> <<1, 1>> @@ 2 :> <<1, 1>> @@ 3 :> <<1, 1>>
ImageTokens == 1 :> 1 @@ 2 :> 2 @@ 3 :> 1

\* Two requests, for the run that checks liveness.
PairPrompts == 1 :> <<1, 1, 1>> @@ 2 :> <<1, 1, 2>>
PairTokens == 1 :> 3 @@ 2 :> 1
==============================================================================
