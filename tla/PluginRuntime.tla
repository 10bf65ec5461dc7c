--------------------------- MODULE PluginRuntime ---------------------------
(***************************************************************************)
(* index.ts with the volatile binding of settings.ts: the plugin mounts a  *)
(* runtime (listeners, dedupe cache, mail queue) from a snapshot of its    *)
(* configuration, replaces it when a committed edit changes the resolved   *)
(* configuration, and releases it on unload.  sync and the listeners are   *)
(* synchronous; releasing a runtime waits for the send in flight, and only *)
(* unload waits for a release.                                             *)
(*                                                                         *)
(* A queue appears here as the line that Outbox describes: its front job is*)
(* the one being sent.  lastUsable, observations and mails are history.    *)
(***************************************************************************)
EXTENDS Naturals, Sequences, FiniteSets

CONSTANTS
  Documents,        \* configuration documents: [enabled, broken, invalid, values]
  Events,           \* appended events that ask for a notification
  LineCapacity,     \* queueSize, and one for the worker
  MaxMounts,        \* model bound: runtimes ever mounted
  MaxObservations   \* model bound: events delivered to the listeners

ASSUME RuntimeAssumption ==
  /\ \A d \in Documents : {d.enabled, d.broken, d.invalid} \subseteq BOOLEAN
  /\ LineCapacity \in Nat \ {0}
  /\ MaxMounts \in Nat /\ MaxObservations \in Nat

VARIABLES
  document,       \* the committed configuration
  effective,      \* the resolved configuration last acted on, and its fingerprint
  runtimes,       \* every runtime ever mounted, in order
  mounted,        \* the index of the mounted one, or None
  plugin,         \* "loaded", "unloading" (the teardown awaits) or "unloaded"
  lastUsable,     \* the last configuration that could be acted on
  observations,   \* how many events were delivered
  mails           \* [event, runtime, observation] of every accepted job

vars == <<document, effective, runtimes, mounted, plugin, lastUsable, observations, mails>>

None == 0
Off == [enabled |-> FALSE]

\* resolveConfig: disabled short-circuits every check, a document the schema
\* rejects resolves to a disabled one, and the rest keeps its diagnostics.
ResolveConfig(d) ==
  IF ~d.enabled \/ d.broken THEN Off
  ELSE [enabled |-> TRUE, invalid |-> d.invalid, values |-> d.values]

Refused(config) == config.enabled /\ config.invalid

-----------------------------------------------------------------------------
\* startRuntime.
Mount(config) ==
  [config |-> config, attached |-> TRUE, dedupe |-> {}, line |-> <<>>, closed |-> FALSE,
   teardown |-> "none"]

\* Seeded defect: the listeners are not removed.
ReleaseKeepsListening(all, i) ==
  IF i = None \/ all[i].teardown # "none" THEN all
  ELSE [all EXCEPT ![i] = [@ EXCEPT !.dedupe = {}, !.closed = TRUE,
                             !.line = IF @ = <<>> THEN <<>> ELSE <<Head(@)>>,
                             !.teardown = "waiting"]]

\* Seeded defect: the queue is closed but keeps its waiting jobs.
ReleaseKeepsLine(all, i) ==
  IF i = None \/ all[i].teardown # "none" THEN all
  ELSE [all EXCEPT ![i] = [@ EXCEPT !.attached = FALSE, !.dedupe = {}, !.closed = TRUE,
                             !.teardown = "waiting"]]

\* release, up to the await in its teardown: handlers and dedupe are cleared, the
\* listeners removed, and the queue disposed, which keeps the job in flight.
Released(r) ==
  [r EXCEPT !.attached = FALSE, !.dedupe = {}, !.closed = TRUE,
            !.line = IF r.line = <<>> THEN <<>> ELSE <<Head(r.line)>>,
            !.teardown = "waiting"]

Release(all, i) ==
  IF i = None \/ all[i].teardown # "none" THEN all
  ELSE [all EXCEPT ![i] = Released(all[i])]

\* Seeded defect: a refused edit stops what runs.
SyncStopsOnRefusal(next) ==
  IF next = effective THEN UNCHANGED <<effective, runtimes, mounted>>
  ELSE /\ effective' = next
       /\ IF ~next.enabled \/ Refused(next)
          THEN runtimes' = Release(runtimes, mounted) /\ mounted' = None
          ELSE /\ runtimes' = Append(Release(runtimes, mounted), Mount(next))
               /\ mounted' = Len(runtimes) + 1

\* sync: nothing when the resolved configuration is the last one seen; else stand
\* down, refuse, or replace.
Sync(next) ==
  IF next = effective THEN UNCHANGED <<effective, runtimes, mounted>>
  ELSE /\ effective' = next
       /\ IF ~next.enabled
          THEN runtimes' = Release(runtimes, mounted) /\ mounted' = None
          ELSE IF Refused(next) THEN UNCHANGED <<runtimes, mounted>>
          ELSE /\ runtimes' = Append(Release(runtimes, mounted), Mount(next))
               /\ mounted' = Len(runtimes) + 1

-----------------------------------------------------------------------------
\* apply, whose first sync has nothing to release.
Init ==
  /\ document \in Documents
  /\ effective = ResolveConfig(document)
  /\ IF effective.enabled /\ ~Refused(effective)
     THEN runtimes = <<Mount(effective)>> /\ mounted = 1
     ELSE runtimes = <<>> /\ mounted = None
  /\ plugin = "loaded"
  /\ lastUsable = IF Refused(effective) THEN Off ELSE effective
  /\ observations = 0
  /\ mails = {}

\* A configuration write commits and the Loader signals the binding.
Commit(d) ==
  /\ plugin = "loaded" /\ Len(runtimes) < MaxMounts
  /\ document' = d
  /\ Sync(ResolveConfig(d))
  /\ lastUsable' = IF Refused(ResolveConfig(d)) THEN lastUsable ELSE ResolveConfig(d)
  /\ UNCHANGED <<plugin, observations, mails>>

Accepts(r, e) == r.attached /\ e \notin r.dedupe /\ ~r.closed /\ Len(r.line) < LineCapacity

\* An event is appended, or seen again: whoever listens handles it.
Observe(e) ==
  LET takers == {i \in 1 .. Len(runtimes) : Accepts(runtimes[i], e)}
  IN  /\ observations < MaxObservations
      /\ observations' = observations + 1
      /\ runtimes' = [i \in 1 .. Len(runtimes) |->
           IF i \in takers
           THEN [runtimes[i] EXCEPT !.dedupe = @ \cup {e}, !.line = Append(@, e)]
           ELSE runtimes[i]]
      /\ mails' = mails \cup {[event |-> e, runtime |-> i, observation |-> observations'] : i \in takers}
      /\ UNCHANGED <<document, effective, mounted, plugin, lastUsable>>

\* The job at the front of a runtime's line is over, delivered or given up.
JobEnds(i) ==
  /\ i \in 1 .. Len(runtimes) /\ runtimes[i].line # <<>>
  /\ runtimes' = [runtimes EXCEPT ![i].line = Tail(@)]
  /\ UNCHANGED <<document, effective, mounted, plugin, lastUsable, observations, mails>>

TeardownResolves(i) ==
  /\ i \in 1 .. Len(runtimes)
  /\ runtimes[i].teardown = "waiting" /\ runtimes[i].line = <<>>
  /\ runtimes' = [runtimes EXCEPT ![i].teardown = "resolved"]
  /\ UNCHANGED <<document, effective, mounted, plugin, lastUsable, observations, mails>>

\* Seeded defect: unloading waits for a runtime it never released.
UnloadWithoutRelease ==
  /\ plugin = "loaded"
  /\ plugin' = IF mounted = None THEN "unloaded" ELSE "unloading"
  /\ UNCHANGED <<document, effective, runtimes, mounted, lastUsable, observations, mails>>

\* The fiber unloads: the binding is unsubscribed and the mounted runtime released.
Unload ==
  /\ plugin = "loaded"
  /\ runtimes' = Release(runtimes, mounted)
  /\ plugin' = IF mounted = None THEN "unloaded" ELSE "unloading"
  /\ UNCHANGED <<document, effective, mounted, lastUsable, observations, mails>>

Unloaded ==
  /\ plugin = "unloading"
  /\ runtimes[mounted].teardown = "resolved"
  /\ plugin' = "unloaded"
  /\ UNCHANGED <<document, effective, runtimes, mounted, lastUsable, observations, mails>>

Next ==
  \/ \E d \in Documents : Commit(d)
  \/ \E e \in Events : Observe(e)
  \/ \E i \in 1 .. MaxMounts : JobEnds(i) \/ TeardownResolves(i)
  \/ Unload
  \/ Unloaded

\* Each queue's jobs end (EveryAcceptedJobEnds of MailQueue) and promises are
\* continued; nobody has to commit, append or unload.
Fairness ==
  /\ \A i \in 1 .. MaxMounts : WF_vars(JobEnds(i)) /\ WF_vars(TeardownResolves(i))
  /\ WF_vars(Unloaded)

Spec == Init /\ [][Next]_vars
FairSpec == Spec /\ Fairness

-----------------------------------------------------------------------------
TypeOK ==
  /\ document \in Documents
  /\ effective \in {ResolveConfig(d) : d \in Documents}
  /\ mounted \in None .. Len(runtimes)
  /\ plugin \in {"loaded", "unloading", "unloaded"}
  /\ \A i \in 1 .. Len(runtimes) :
       /\ Len(runtimes[i].line) <= LineCapacity
       /\ runtimes[i].dedupe \subseteq Events

\* What runs is the last configuration that could be acted on: an edit that cannot
\* is never in force and never stops what runs, a switch to off always does, and a
\* usable edit always takes effect (sync).
RunsTheLastUsable ==
  plugin = "loaded" =>
    IF lastUsable.enabled
    THEN mounted # None /\ runtimes[mounted].config = lastUsable /\ ~runtimes[mounted].closed
    ELSE mounted = None

\* However often the plugin was remounted, only the mounted runtime listens, none
\* does once unloading began, and so one appended event is enqueued at most once.
OneListener ==
  /\ \A i \in 1 .. Len(runtimes) : runtimes[i].attached => i = mounted /\ plugin = "loaded"
  /\ \A m1, m2 \in mails : m1.observation = m2.observation => m1 = m2

\* A runtime that was replaced or unloaded remembers nothing and at most finishes
\* the job it was sending; the one an unload waited for has finished.
ReleasedIsInert ==
  /\ \A i \in 1 .. Len(runtimes) :
       (i # mounted \/ plugin # "loaded") =>
         /\ runtimes[i].closed /\ runtimes[i].dedupe = {}
         /\ Len(runtimes[i].line) <= 1
         /\ runtimes[i].teardown = "resolved" => runtimes[i].line = <<>>
  /\ plugin = "unloaded" /\ mounted # None => runtimes[mounted].line = <<>>

\* Unloading finishes: the release it waits for resolves.
UnloadResolves == plugin = "unloading" ~> plugin = "unloaded"

-----------------------------------------------------------------------------
\* index.ts:285-288: the endpoints answer through the effective configuration, "so
\* a delivery test taken before a save and one taken after it cannot disagree with
\* what a notification would do".  A notification uses the mounted runtime's.
TestAgreesWithNotifications ==
  plugin = "loaded" /\ mounted # None => effective = runtimes[mounted].config
=============================================================================
