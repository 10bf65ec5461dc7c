------------------------- MODULE MCSessionHandlers -------------------------
(***************************************************************************)
(* SessionHandlers on small sets, and the configurations the runs consider.*)
(***************************************************************************)
EXTENDS SessionHandlers, TLC

\* Everything notifiable is switched on; turns below five ms are too short.
Permissive ==
  [enabled |-> TRUE, includeSubagents |-> TRUE, includeUserPrompt |-> TRUE,
   mutedSessions |-> {}, mutedWorkspaces |-> {},
   notifyCompleted |-> TRUE, notifyErrors |-> TRUE, notifyMaxTokens |-> TRUE,
   notifyQuestions |-> TRUE, notifyApprovals |-> TRUE, minTurnDurationMs |-> 5]

OnlyPermissive == {Permissive}
\* The defaults exclude subagents and print no prompt.
WithDefaults ==
  {Permissive, [Permissive EXCEPT !.includeSubagents = FALSE, !.includeUserPrompt = FALSE]}
WithSwitchesOff ==
  {Permissive, [Permissive EXCEPT !.notifyCompleted = FALSE, !.notifyQuestions = FALSE,
                                  !.notifyApprovals = FALSE]}

CompletedOrError == {"completed", "error"}

ShortAndLong == {3, 9}
OnlyLong == {9}

DataSymmetry == Permutations(Texts) \cup Permutations(Prompts)
=============================================================================
