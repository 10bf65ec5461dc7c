---------------------------- MODULE NotifyPolicy ----------------------------
(***************************************************************************)
(* The pure decisions of completion.ts, notification-scope.ts, notifier.ts,*)
(* subject.ts and human-attention.ts: how a turn/end is classified and     *)
(* whether a notification leaves the plugin.  A config is a record         *)
(*   [enabled, includeSubagents, mutedSessions, mutedWorkspaces,           *)
(*    notifyCompleted, notifyErrors, notifyMaxTokens, notifyQuestions,     *)
(*    notifyApprovals, minTurnDurationMs].                                 *)
(* A candidate is                                                          *)
(*   [sessionId, cwd, status, visible, durationMs]                         *)
(* where visible says that the trimmed visible text is not empty.          *)
(***************************************************************************)
EXTENDS Integers

TurnEndKinds == {"completed", "max-tokens", "error", "aborted", "blocked",
                 "interrupted", "forked", "unknown"}
Statuses == (TurnEndKinds \ {"completed"})
              \cup {"completed-clean", "completed-with-tool-errors"}

UnknownDuration == -1      \* durationMs is null: turn/start was not observed
NoCwd == "no-cwd"          \* the session header carried no workspace

\* The verdict that lets a notification through, beside the reasons that do not.
Notify == "notify"

ClassifyCompletion(kind, toolErrors) ==
  IF kind = "completed"
  THEN IF toolErrors > 0 THEN "completed-with-tool-errors" ELSE "completed-clean"
  ELSE kind

\* The switch that governs a status, or "none": such a status is never notified.
PolicySwitchFor(status) ==
  CASE status \in {"completed-clean", "completed-with-tool-errors"} -> "completed"
    [] status \in {"error", "max-tokens"}                           -> status
    [] OTHER                                                        -> "none"

EnabledByPolicy(status, config) ==
  CASE PolicySwitchFor(status) = "completed"  -> config.notifyCompleted
    [] PolicySwitchFor(status) = "error"      -> config.notifyErrors
    [] PolicySwitchFor(status) = "max-tokens" -> config.notifyMaxTokens
    [] OTHER                                  -> FALSE

\* Seeded defect: the workspace is looked at before the session.
ScopeWorkspaceFirst(sessionId, cwd, config) ==
  IF cwd # NoCwd /\ cwd \in config.mutedWorkspaces THEN "workspace-muted"
  ELSE IF sessionId \in config.mutedSessions THEN "session-muted"
  ELSE Notify

\* Exact matches only, of trimmed session ids and of workspaces normalized by
\* workspaceKey, which cwd and mutedWorkspaces stand for; a muted session is
\* reported before a muted workspace.
ScopeSuppression(sessionId, cwd, config) ==
  IF sessionId \in config.mutedSessions THEN "session-muted"
  ELSE IF cwd # NoCwd /\ cwd \in config.mutedWorkspaces THEN "workspace-muted"
  ELSE Notify

\* decideNotification: the frozen order, in which the duplicate test comes last.
DecideNotification(candidate, config, isDuplicate) ==
  LET scope == ScopeSuppression(candidate.sessionId, candidate.cwd, config)
  IN  IF ~config.enabled                                      THEN "disabled"
      ELSE IF scope # Notify                                  THEN scope
      ELSE IF ~EnabledByPolicy(candidate.status, config)      THEN "disabled-by-policy"
      ELSE IF candidate.status # "error" /\ ~candidate.visible THEN "no-visible-text"
      ELSE IF /\ candidate.durationMs # UnknownDuration
              /\ candidate.durationMs < config.minTurnDurationMs
                                                              THEN "below-min-duration"
      ELSE IF isDuplicate                                     THEN "duplicate"
      ELSE Notify

\* decideQuestionNotification and decideApprovalNotification differ only in the
\* switch they read.
DecideAttention(sessionId, cwd, switch, config, isDuplicate) ==
  LET scope == ScopeSuppression(sessionId, cwd, config)
  IN  IF ~config.enabled     THEN "disabled"
      ELSE IF scope # Notify THEN scope
      ELSE IF ~switch        THEN "disabled-by-policy"
      ELSE IF isDuplicate    THEN "duplicate"
      ELSE Notify
=============================================================================
