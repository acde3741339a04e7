--------------------------- MODULE MCMaintenance ---------------------------
(* Scenes for the deferred commands, the update and the set-up commands:    *)
(* which inputs come, and how many of each.                                 *)
EXTENDS Maintenance, FiniteSetsExt, TLC

\* Two blocks, of sum 1 and 2.
MCBlockSum == 1 :> 1 @@ 2 :> 2
MCSumOf ==
  [S \in SUBSET Blocks |-> MapThenSumSet(LAMBDA b : MCBlockSum[b], S) % SumMod]

Scene(some) == some @@ [i \in Inputs |-> 0]

MCBudgets == {
  Scene("defer" :> 2 @@ "word" :> 1),
  Scene("update" :> 1 @@ "loss" :> 1 @@ "bad" :> 1 @@ "power" :> 1),
  Scene("update" :> 1 @@ "again" :> 1),
  Scene("update" :> 1 @@ "early" :> 1),
  Scene("update" :> 1 @@ "url" :> 1),
  Scene("sta" :> 2 @@ "fail" :> 1),
  Scene("sta" :> 1 @@ "ap" :> 1),
  Scene("mac" :> 2 @@ "fail" :> 1),
  Scene("mac" :> 1 @@ "power" :> 1),
  Scene("defer" :> 1 @@ "zone" :> 1 @@ "power" :> 1)}

=============================================================================
