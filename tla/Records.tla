------------------------------- MODULE Records -------------------------------
(***************************************************************************)
(* What the plugin writes about itself: normalize.ts, and the fields by    *)
(* which a log line names a notification.  A value is <<"scalar", s>>,     *)
(* <<"null">>, <<"lost", kind>> for what JSON cannot hold (undefined, NaN, *)
(* a function, an instance), <<"list", s>>, or <<"object", s>> with s its  *)
(* keys and values, in their order, as pairs.  A key, and a path, is a     *)
(* sequence of characters, one of which may be "."                         *)
(***************************************************************************)
EXTENDS Integers, SequencesExt

CONSTANT MaxDroppedPaths

Nothing == <<"nothing">>

\* The recorder counts every loss and keeps the first paths that are not empty.
NoLosses == [paths |-> <<>>, count |-> 0]

\* Seeded defect: a loss whose path is not kept is not counted.
RecordTheKept(recorder, path) ==
  IF path # <<>> /\ Len(recorder.paths) < MaxDroppedPaths
  THEN [count |-> recorder.count + 1, paths |-> Append(recorder.paths, path)] ELSE recorder

Record(recorder, path) ==
  [count |-> recorder.count + 1,
   paths |-> IF path # <<>> /\ Len(recorder.paths) < MaxDroppedPaths
             THEN Append(recorder.paths, path) ELSE recorder.paths]

\* Keys are joined by dots, also those that have one, and nothing goes before the first.
JoinPath(base, key) == IF base = <<>> THEN key ELSE base \o <<".">> \o key

Entries(v) == IF v[1] = "list" THEN [i \in DOMAIN v[2] |-> <<<<ToString(i - 1)>>, v[2][i]>>] ELSE v[2]

\* walk: what a list loses makes it shorter, what an object loses is a key.
RECURSIVE Walk(_, _, _)
WalkEntry(v, path, acc, entry) ==
  LET walked == Walk(entry[2], JoinPath(path, entry[1]), acc.recorder)
      kept == IF v[1] = "list" THEN walked.value ELSE <<entry[1], walked.value>>
  IN  [recorder |-> walked.recorder,
       out |-> IF walked.value = Nothing THEN acc.out ELSE Append(acc.out, kept)]
Walk(v, path, recorder) ==
  CASE v[1] \in {"scalar", "null"} -> [value |-> v, recorder |-> recorder]
    [] v[1] = "lost"               -> [value |-> Nothing, recorder |-> Record(recorder, path)]
    [] OTHER ->
         LET walked == FoldLeft(LAMBDA acc, entry : WalkEntry(v, path, acc, entry),
                                [recorder |-> recorder, out |-> <<>>], Entries(v))
         IN  [value |-> <<v[1], walked.out>>, recorder |-> walked.recorder]

Normalize(v) ==
  LET walked == Walk(v, <<>>, NoLosses)
  IN  [value |-> walked.value, dropped |-> walked.recorder.paths, droppedCount |-> walked.recorder.count]

RECURSIVE IsLosslessJson(_)
IsLosslessJson(v) ==
  CASE v[1] \in {"scalar", "null"} -> TRUE
    [] v[1] \in {"list", "object"} -> \A i \in DOMAIN v[2] : IsLosslessJson(Entries(v)[i][2])
    [] OTHER                       -> FALSE

-----------------------------------------------------------------------------
\* A notification is [kind, sessionId, turn, step, status, toolName, visible, questions,
\* reason], with the fields its kind has; texts are values of their own, length[text]
\* measures one.

\* identify of index.ts, for the lines about a mail that was delivered or given up.
Identify(n) ==
  [notificationKind |-> n.kind, sessionId |-> n.sessionId] @@
  CASE n.kind = "turn"     -> [turn |-> n.turn, status |-> n.status]
    [] n.kind = "question" -> [turn |-> n.turn, questionCount |-> Len(n.questions)]
    [] n.kind = "approval" -> [toolName |-> n.toolName]

\* logFieldsFor of mailer.ts, for the lines about a mail that is rendered and sent: a
\* question is also known by its step.
LogFieldsFor(n) == IF n.kind = "question" THEN Identify(n) @@ [step |-> n.step] ELSE Identify(n)

\* summarize of debug-sink.ts: texts are measured, not kept.
Summarize(n, length) ==
  CASE n.kind = "turn" ->
         [notificationKind |-> "turn", sessionId |-> n.sessionId, turn |-> n.turn, status |-> n.status,
          bodyTextLength |-> length[n.visible]]
    [] OTHER ->
         [notificationKind |-> n.kind, sessionId |-> n.sessionId, turn |-> n.turn, step |-> n.step,
          toolName |-> IF n.kind = "approval" THEN n.toolName ELSE "",
          questionCount |-> Len(n.questions),
          bodyTextLength |-> FoldLeft(LAMBDA total, text : total + length[text], 0, n.questions)]
=============================================================================
