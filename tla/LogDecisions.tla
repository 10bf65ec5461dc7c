---------------------------- MODULE LogDecisions ----------------------------
(***************************************************************************)
(* Decisions with what the log keeps.  A value of the log is a tree, so its*)
(* reference definition is a recursive operator, as is its normalisation;  *)
(* the provers cannot reason about either, hence this module of its own.   *)
(***************************************************************************)
EXTENDS Decisions

CONSTANT MaxDroppedPaths  \* of one record of the log

R == INSTANCE Records

\* The ways into a value, as sequences of keys, that end at something JSON loses.
RECURSIVE Places(_)
Places(v) ==
  IF v[1] = "lost" THEN {<<>>}
  ELSE IF v[1] \notin {"list", "object"} THEN {}
  ELSE UNION {{<<e[1]>> \o place : place \in Places(e[2])} : e \in ToSet(R!Entries(v))}

\* A way as it is written: nothing is seen of empty keys at its beginning.
Dotted(place) ==
  LET named == {i \in DOMAIN place : place[i] # <<>>}
      seen == IF named = {} THEN <<>> ELSE SubSeq(place, Min(named), Len(place))
  IN  FlattenSeq([i \in DOMAIN seen |-> IF i = 1 THEN seen[i] ELSE <<".">> \o seen[i]])

\* The log tells the truth about itself.  What is written survives JSON as it is, and
\* everything JSON would lose is counted; a path that is reported leads, in the value
\* that was given, to something lost, also behind a loss in the same list, and none is
\* reported more often than something is lost there, also where a dot in a key makes
\* one path of two ways; up to the limit, every loss that has a path is reported.  A
\* line says which session a mail is of, which turn, or which step where a question is
\* rendered, and holds no word of its text; what it does not tell apart are questions
\* of one step and approvals of one tool (normalize.ts, debug-sink.ts, identify,
\* logFieldsFor).
TheLogIsHonest ==
  /\ kind = "value" =>
       LET normal == R!Normalize(input)
           places == Places(input)
           lostAt(path) == {place \in places : Dotted(place) = path}
       IN  /\ normal.value = R!Nothing \/ R!IsLosslessJson(normal.value)
           /\ R!IsLosslessJson(input) <=> normal.droppedCount = 0
           /\ normal.droppedCount = 0 => normal.value = input
           /\ normal.droppedCount = Cardinality(places)
           /\ \A p \in ToSet(normal.dropped) :
                Cardinality({i \in DOMAIN normal.dropped : normal.dropped[i] = p}) <= Cardinality(lostAt(p))
           /\ Len(normal.dropped) = Min({MaxDroppedPaths, Cardinality(places \ lostAt(<<>>))})
  /\ kind = "notice" =>
       LET words(n) == {n.visible, n.reason} \cup ToSet(n.questions)
           lines(n) == {R!Identify(n), R!LogFieldsFor(n), R!Summarize(n, [text \in words(n) |-> 1])}
       IN  /\ \A line \in lines(input) : {line[f] : f \in DOMAIN line} \cap words(input) = {}
           /\ \A n \in Notices :
                /\ R!Identify(n) = R!Identify(input) =>
                     n.kind = input.kind /\ n.sessionId = input.sessionId
                       /\ (n.kind # "approval" => n.turn = input.turn)
                /\ R!LogFieldsFor(n) = R!LogFieldsFor(input) => (n.kind = "question" => n.step = input.step)
=============================================================================
