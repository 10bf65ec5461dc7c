------------------------ MODULE PluginRuntime_proofs ------------------------
(***************************************************************************)
(* Proofs about PluginRuntime for any documents, events, capacity and      *)
(* bounds: what is mounted is what could last be acted on, one runtime     *)
(* listens, and a released one is inert.                                   *)
(***************************************************************************)
EXTENDS PluginRuntime, SequenceTheorems, TLAPS

-----------------------------------------------------------------------------
\* Configurations, and the state's types.
Configs == {Off} \cup {ResolveConfig(d) : d \in Documents}

Runtime ==
  [config : Configs, attached : BOOLEAN, dedupe : SUBSET Events, line : Seq(Events),
   closed : BOOLEAN, teardown : {"none", "waiting", "resolved"}]

Typed ==
  /\ effective \in Configs /\ lastUsable \in Configs
  /\ runtimes \in Seq(Runtime)
  /\ mounted \in 0 .. Len(runtimes)
  /\ plugin \in {"loaded", "unloading", "unloaded"}
  /\ observations \in Nat
  /\ mails \subseteq [event : Events, runtime : Nat, observation : Nat]

\* The one runtime that works, and the others.
Works(r) == r.attached /\ ~r.closed /\ r.teardown = "none"
Inert(r) ==
  /\ ~r.attached /\ r.closed /\ r.dedupe = {}
  /\ Len(r.line) <= 1
  /\ r.teardown # "none"
  /\ r.teardown = "resolved" => r.line = <<>>

OneWorks ==
  \A i \in 1 .. Len(runtimes) :
    IF i = mounted /\ plugin = "loaded" THEN Works(runtimes[i]) ELSE Inert(runtimes[i])

\* What is mounted is the last usable configuration; unless it was refused, the last
\* one seen is that one too.
InForce ==
  /\ ~Refused(lastUsable)
  /\ Refused(effective) \/ lastUsable = effective
  /\ plugin = "loaded" =>
       IF lastUsable.enabled THEN mounted # None /\ runtimes[mounted].config = lastUsable
       ELSE mounted = None

\* Unloading waits for the mounted runtime, and is over when that one is.
Teardown ==
  /\ plugin = "unloading" => mounted # None
  /\ plugin = "unloaded" /\ mounted # None => runtimes[mounted].teardown = "resolved"

\* One observation makes one mail at most.
OneMail ==
  /\ \A m \in mails : m.observation <= observations
  /\ \A m1, m2 \in mails : m1.observation = m2.observation => m1 = m2

RuntimeInv == Typed /\ OneWorks /\ InForce /\ Teardown /\ OneMail

-----------------------------------------------------------------------------
\* A configuration is enabled or not, refused or not, and off is not refused.
LEMMA ConfigFacts ==
  ASSUME NEW c \in Configs
  PROVE  /\ c.enabled \in BOOLEAN
         /\ Refused(c) \in BOOLEAN
         /\ Refused(c) => c.enabled
<1>1. CASE c = Off
  BY <1>1 DEF Off, Refused
<1>2. ASSUME NEW d \in Documents, c = ResolveConfig(d)
      PROVE  /\ c.enabled \in BOOLEAN
             /\ Refused(c) \in BOOLEAN
             /\ Refused(c) => c.enabled
  <2>1. {d.enabled, d.broken, d.invalid} \subseteq BOOLEAN
    BY RuntimeAssumption
  <2> QED BY <1>2, <2>1 DEF ResolveConfig, Off, Refused
<1> QED BY <1>1, <1>2 DEF Configs

LEMMA Resolved == \A d \in Documents : ResolveConfig(d) \in Configs
BY DEF Configs

\* A new runtime works.
LEMMA MountWorks ==
  ASSUME NEW c \in Configs
  PROVE  Mount(c) \in Runtime /\ Works(Mount(c)) /\ Mount(c).config = c
<1>1. <<>> \in Seq(Events)
  BY EmptySeq
<1> QED BY <1>1 DEF Mount, Runtime, Works

\* What release leaves: the released runtime is inert, and the others are as before.
LEMMA ReleaseEffect ==
  ASSUME NEW all \in Seq(Runtime), NEW i \in 1 .. Len(all), all[i].teardown = "none"
  PROVE  /\ Release(all, i) \in Seq(Runtime)
         /\ Len(Release(all, i)) = Len(all)
         /\ Inert(Release(all, i)[i])
         /\ Release(all, i)[i].teardown = "waiting"
         /\ \A j \in 1 .. Len(all) : j # i => Release(all, i)[j] = all[j]
<1> DEFINE kept == IF all[i].line = <<>> THEN <<>> ELSE <<Head(all[i].line)>>
<1>1. all[i] \in Runtime
  BY ElementOfSeq
<1>2. all[i].line \in Seq(Events)
  BY <1>1 DEF Runtime
<1>3. kept \in Seq(Events) /\ Len(kept) <= 1
  <2>1. CASE all[i].line = <<>>
    BY <2>1, EmptySeq
  <2>2. CASE all[i].line # <<>>
    <3>1. Head(all[i].line) \in Events
      BY <1>2, <2>2, HeadTailProperties
    <3> QED BY <2>2, <3>1
  <2> QED BY <2>1, <2>2
<1>4. Released(all[i]) = [all[i] EXCEPT !.attached = FALSE, !.dedupe = {}, !.closed = TRUE,
                                        !.line = kept, !.teardown = "waiting"]
  BY DEF Released
<1> HIDE DEF kept
<1>5. /\ Released(all[i]) \in Runtime
      /\ Inert(Released(all[i]))
      /\ Released(all[i]).teardown = "waiting"
  BY <1>1, <1>3, <1>4 DEF Runtime, Inert
<1>6. Release(all, i) = [all EXCEPT ![i] = Released(all[i])]
  BY DEF Release, None
<1> QED BY <1>5, <1>6, ExceptSeq

LEMMA ReleaseNothing == \A all : Release(all, None) = all
BY DEF Release

-----------------------------------------------------------------------------
\* The initial states.
LEMMA InitRuntimeInv == Init => RuntimeInv
<1> SUFFICES ASSUME Init PROVE RuntimeInv
  OBVIOUS
<1>1. effective \in Configs /\ Off \in Configs
  BY Resolved DEF Init, Configs
<1>2. /\ effective.enabled \in BOOLEAN /\ Refused(effective) \in BOOLEAN
      /\ Refused(effective) => effective.enabled
  BY <1>1, ConfigFacts
<1>3. ~Refused(Off) /\ ~Off.enabled
  BY DEF Off, Refused
<1>4. CASE effective.enabled /\ ~Refused(effective)
  <2>1. runtimes = <<Mount(effective)>> /\ mounted = 1 /\ lastUsable = effective
    BY <1>4 DEF Init
  <2>2. Mount(effective) \in Runtime /\ Works(Mount(effective)) /\ Mount(effective).config = effective
    BY <1>1, MountWorks
  <2>3. runtimes \in Seq(Runtime) /\ Len(runtimes) = 1 /\ runtimes[1] = Mount(effective)
    BY <2>1, <2>2
  <2> QED BY <1>1, <1>4, <2>1, <2>2, <2>3 DEF Init, RuntimeInv, Typed, OneWorks, InForce, Teardown, OneMail, None
<1>5. CASE ~(effective.enabled /\ ~Refused(effective))
  <2>1. runtimes = <<>> /\ mounted = None /\ runtimes \in Seq(Runtime) /\ Len(runtimes) = 0
    BY <1>5, EmptySeq DEF Init
  <2>2. lastUsable \in Configs /\ ~Refused(lastUsable) /\ ~lastUsable.enabled
    BY <1>1, <1>2, <1>3, <1>5 DEF Init
  <2>3. Refused(effective) \/ lastUsable = effective
    BY DEF Init
  <2> QED BY <1>1, <2>1, <2>2, <2>3 DEF Init, RuntimeInv, Typed, OneWorks, InForce, Teardown, OneMail, None
<1> QED BY <1>4, <1>5

-----------------------------------------------------------------------------
\* After a loaded plugin has released what is mounted, nothing works.
LEMMA ReleaseMounted ==
  ASSUME RuntimeInv, plugin = "loaded"
  PROVE  /\ Release(runtimes, mounted) \in Seq(Runtime)
         /\ Len(Release(runtimes, mounted)) = Len(runtimes)
         /\ \A j \in 1 .. Len(runtimes) : Inert(Release(runtimes, mounted)[j])
<1>1. runtimes \in Seq(Runtime) /\ mounted \in 0 .. Len(runtimes) /\ Len(runtimes) \in Nat
  BY LenProperties DEF RuntimeInv, Typed
<1>2. CASE mounted = None
  BY <1>1, <1>2, ReleaseNothing DEF RuntimeInv, OneWorks, None
<1>3. CASE mounted # None
  <2>1. mounted \in 1 .. Len(runtimes)
    BY <1>1, <1>3 DEF None
  <2>2. runtimes[mounted].teardown = "none"
    BY <2>1 DEF RuntimeInv, OneWorks, Works
  <2>3. \A j \in 1 .. Len(runtimes) : j # mounted => Inert(runtimes[j])
    BY DEF RuntimeInv, OneWorks
  <2> QED BY <1>1, <2>1, <2>2, <2>3, ReleaseEffect
<1> QED BY <1>2, <1>3

\* A commit: the one step that stops, replaces or keeps what is mounted.
LEMMA CommitStep ==
  ASSUME RuntimeInv, NEW d \in Documents, Commit(d)
  PROVE  RuntimeInv'
<1> DEFINE next == ResolveConfig(d)
           rest == Release(runtimes, mounted)
<1>1. next \in Configs
  BY Resolved
<1>2. next.enabled \in BOOLEAN /\ Refused(next) \in BOOLEAN /\ (Refused(next) => next.enabled)
  BY <1>1, ConfigFacts
<1>3. /\ plugin = "loaded" /\ plugin' = plugin
      /\ observations' = observations /\ mails' = mails
      /\ lastUsable' = IF Refused(next) THEN lastUsable ELSE next
  BY DEF Commit
<1>4. /\ rest \in Seq(Runtime) /\ Len(rest) = Len(runtimes)
      /\ \A j \in 1 .. Len(runtimes) : Inert(rest[j])
  BY <1>3, ReleaseMounted
<1>5. /\ runtimes \in Seq(Runtime) /\ mounted \in 0 .. Len(runtimes) /\ Len(runtimes) \in Nat
      /\ effective \in Configs /\ lastUsable \in Configs
  BY LenProperties DEF RuntimeInv, Typed
<1>6. OneMail' /\ plugin' = "loaded" /\ observations' \in Nat /\ Teardown'
      /\ mails' \subseteq [event : Events, runtime : Nat, observation : Nat]
  BY <1>3 DEF RuntimeInv, OneMail, Typed, Teardown
<1>7. Sync(next)
  BY DEF Commit
<1> HIDE DEF next, rest
<1>8. lastUsable' \in Configs /\ ~Refused(lastUsable') /\ (Refused(next) \/ lastUsable' = next)
  BY <1>1, <1>2, <1>3, <1>5 DEF RuntimeInv, InForce
<1>9. CASE next = effective
  <2>1. UNCHANGED <<effective, runtimes, mounted>>
    BY <1>7, <1>9 DEF Sync
  <2>2. lastUsable' = lastUsable
    BY <1>3, <1>9 DEF RuntimeInv, InForce
  <2> QED BY <1>3, <1>6, <2>1, <2>2 DEF RuntimeInv, Typed, OneWorks, InForce
<1>10. CASE next # effective /\ ~next.enabled
  <2>1. effective' = next /\ runtimes' = rest /\ mounted' = None
    BY <1>7, <1>10 DEF Sync, rest
  <2>2. Typed'
    BY <1>1, <1>3, <1>4, <1>6, <1>8, <2>1 DEF Typed, None
  <2>3. OneWorks'
    BY <1>4, <2>1 DEF OneWorks, None
  <2>4. InForce'
    BY <1>2, <1>8, <1>10, <2>1 DEF InForce
  <2> QED BY <1>6, <2>2, <2>3, <2>4 DEF RuntimeInv
<1>11. CASE next # effective /\ next.enabled /\ Refused(next)
  <2>1. effective' = next /\ runtimes' = runtimes /\ mounted' = mounted /\ lastUsable' = lastUsable
    BY <1>3, <1>7, <1>11 DEF Sync
  <2> QED BY <1>1, <1>3, <1>6, <1>11, <2>1 DEF RuntimeInv, Typed, OneWorks, InForce
<1>12. CASE next # effective /\ next.enabled /\ ~Refused(next)
  <2>1. effective' = next /\ runtimes' = Append(rest, Mount(next)) /\ mounted' = Len(runtimes) + 1
    BY <1>7, <1>12 DEF Sync, rest
  <2>2. Mount(next) \in Runtime /\ Works(Mount(next)) /\ Mount(next).config = next
    BY <1>1, MountWorks
  <2>3. /\ runtimes' \in Seq(Runtime) /\ Len(runtimes') = Len(runtimes) + 1
        /\ \A j \in 1 .. Len(runtimes) : runtimes'[j] = rest[j]
        /\ runtimes'[Len(runtimes) + 1] = Mount(next)
    BY <1>4, <2>1, <2>2, AppendProperties
  <2>4. Typed'
    BY <1>1, <1>5, <1>6, <1>8, <2>1, <2>3 DEF Typed
  <2>5. OneWorks'
    BY <1>4, <1>5, <1>6, <2>1, <2>2, <2>3 DEF OneWorks
  <2>6. InForce'
    BY <1>5, <1>8, <1>12, <2>1, <2>2, <2>3 DEF InForce, None
  <2> QED BY <1>6, <2>4, <2>5, <2>6 DEF RuntimeInv
<1> QED BY <1>2, <1>9, <1>10, <1>11, <1>12

-----------------------------------------------------------------------------
\* An observation: the mounted runtime alone takes the event.
LEMMA ObserveStep ==
  ASSUME RuntimeInv, NEW e \in Events, Observe(e)
  PROVE  RuntimeInv'
<1> DEFINE takers == {i \in 1 .. Len(runtimes) : Accepts(runtimes[i], e)}
           taken(i) == [runtimes[i] EXCEPT !.dedupe = runtimes[i].dedupe \cup {e},
                                           !.line = Append(runtimes[i].line, e)]
           f == [i \in 1 .. Len(runtimes) |-> IF i \in takers THEN taken(i) ELSE runtimes[i]]
<1>1. /\ runtimes \in Seq(Runtime) /\ Len(runtimes) \in Nat
      /\ \A i \in 1 .. Len(runtimes) : runtimes[i] \in Runtime
  BY LenProperties, ElementOfSeq DEF RuntimeInv, Typed
<1>2. takers \subseteq {mounted} /\ (takers # {} => plugin = "loaded")
  BY DEF RuntimeInv, OneWorks, Inert, Accepts
<1>3. /\ runtimes' = f /\ observations' = observations + 1
      /\ mails' = mails \cup {[event |-> e, runtime |-> i, observation |-> observations'] : i \in takers}
      /\ UNCHANGED <<effective, mounted, plugin, lastUsable>>
  BY DEF Observe
<1>4. ASSUME NEW i \in 1 .. Len(runtimes)
      PROVE  /\ taken(i) \in Runtime
             /\ Works(runtimes[i]) => Works(taken(i))
             /\ taken(i).config = runtimes[i].config /\ taken(i).teardown = runtimes[i].teardown
  <2>1. runtimes[i] \in Runtime /\ Append(runtimes[i].line, e) \in Seq(Events)
    BY <1>1, AppendProperties DEF Runtime
  <2> QED BY <2>1 DEF Runtime, Works
<1>5. takers \subseteq 1 .. Len(runtimes)
  OBVIOUS
<1> HIDE DEF takers, taken
<1>6. /\ runtimes' \in Seq(Runtime) /\ Len(runtimes') = Len(runtimes)
      /\ \A i \in 1 .. Len(runtimes) : runtimes'[i] = IF i \in takers THEN taken(i) ELSE runtimes[i]
  <2>1. f \in [1 .. Len(runtimes) -> Runtime]
    BY <1>1, <1>4
  <2>2. DOMAIN f = 1 .. Len(runtimes)
    OBVIOUS
  <2> QED BY <1>1, <1>3, <2>1, <2>2
<1>7. /\ observations \in Nat /\ observations' = observations + 1
      /\ \A m \in mails : m.observation \in Nat /\ m.observation <= observations
  BY <1>3 DEF RuntimeInv, Typed, OneMail
<1>8. Typed'
  <2>1. mails' \subseteq [event : Events, runtime : Nat, observation : Nat]
    BY <1>1, <1>3, <1>5, <1>7 DEF RuntimeInv, Typed
  <2> QED BY <1>3, <1>6, <1>7, <2>1 DEF RuntimeInv, Typed
<1>9. OneWorks'
  BY <1>2, <1>3, <1>4, <1>6 DEF RuntimeInv, OneWorks
<1>10. InForce'
  BY <1>1, <1>3, <1>4, <1>6 DEF RuntimeInv, InForce, Typed, None
<1>11. Teardown'
  BY <1>1, <1>3, <1>4, <1>6 DEF RuntimeInv, Teardown, Typed, None
<1>12. OneMail'
  <2> DEFINE new == [event |-> e, runtime |-> mounted, observation |-> observations + 1]
  <2>1. mails' \subseteq mails \cup {new}
    BY <1>2, <1>3
  <2>2. \A m \in mails : m.observation # new.observation /\ m.observation <= observations + 1
    BY <1>7
  <2>3. new.observation = observations + 1
    OBVIOUS
  <2> HIDE DEF new
  <2>4. \A m1, m2 \in mails \cup {new} : m1.observation = m2.observation => m1 = m2
    BY <2>2 DEF RuntimeInv, OneMail
  <2> QED BY <1>7, <2>1, <2>2, <2>3, <2>4 DEF OneMail
<1> QED BY <1>8, <1>9, <1>10, <1>11, <1>12 DEF RuntimeInv

-----------------------------------------------------------------------------
\* A job ends or a teardown resolves: one runtime changes, and stays what it is.
LEMMA OneChanges ==
  ASSUME RuntimeInv, NEW i \in 1 .. Len(runtimes), NEW r \in Runtime,
         runtimes' = [runtimes EXCEPT ![i] = r],
         r.config = runtimes[i].config,
         Works(runtimes[i]) => Works(r), Inert(runtimes[i]) => Inert(r),
         runtimes[i].teardown = "resolved" => r.teardown = "resolved",
         UNCHANGED <<effective, mounted, plugin, lastUsable, observations, mails>>
  PROVE  RuntimeInv'
<1>1. runtimes \in Seq(Runtime) /\ Len(runtimes) \in Nat
  BY LenProperties DEF RuntimeInv, Typed
<1>2. /\ runtimes' \in Seq(Runtime) /\ Len(runtimes') = Len(runtimes)
      /\ \A j \in 1 .. Len(runtimes) : runtimes'[j] = IF j = i THEN r ELSE runtimes[j]
  BY <1>1, ExceptSeq
<1>3. Typed' /\ OneMail'
  BY <1>2 DEF RuntimeInv, Typed, OneMail
<1>4. OneWorks'
  BY <1>2 DEF RuntimeInv, OneWorks
<1>5. InForce' /\ Teardown'
  BY <1>1, <1>2 DEF RuntimeInv, Typed, InForce, Teardown, None
<1> QED BY <1>3, <1>4, <1>5 DEF RuntimeInv

LEMMA JobEndsStep ==
  ASSUME RuntimeInv, NEW i, JobEnds(i)
  PROVE  RuntimeInv'
<1> DEFINE r == [runtimes[i] EXCEPT !.line = Tail(runtimes[i].line)]
<1>1. /\ i \in 1 .. Len(runtimes) /\ runtimes[i].line # <<>>
      /\ runtimes' = [runtimes EXCEPT ![i] = r]
      /\ UNCHANGED <<effective, mounted, plugin, lastUsable, observations, mails>>
  BY DEF JobEnds
<1>2. runtimes[i] \in Runtime /\ runtimes[i].line \in Seq(Events)
  <2>1. runtimes[i] \in Runtime
    BY <1>1, ElementOfSeq DEF RuntimeInv, Typed
  <2> QED BY <2>1 DEF Runtime
<1>3. /\ Tail(runtimes[i].line) \in Seq(Events)
      /\ Len(Tail(runtimes[i].line)) = Len(runtimes[i].line) - 1
      /\ Len(runtimes[i].line) \in Nat
  BY <1>1, <1>2, HeadTailProperties, LenProperties
<1>4. r \in Runtime /\ r.config = runtimes[i].config /\ r.teardown = runtimes[i].teardown
  BY <1>2, <1>3 DEF Runtime
<1>5. Works(runtimes[i]) => Works(r)
  BY <1>2 DEF Works, Runtime
<1>6. Inert(runtimes[i]) => Inert(r)
  BY <1>1, <1>2, <1>3 DEF Inert, Runtime
<1> HIDE DEF r
<1> QED BY <1>1, <1>4, <1>5, <1>6, OneChanges

LEMMA TeardownResolvesStep ==
  ASSUME RuntimeInv, NEW i, TeardownResolves(i)
  PROVE  RuntimeInv'
<1> DEFINE r == [runtimes[i] EXCEPT !.teardown = "resolved"]
<1>1. /\ i \in 1 .. Len(runtimes) /\ runtimes[i].line = <<>> /\ runtimes[i].teardown = "waiting"
      /\ runtimes' = [runtimes EXCEPT ![i] = r]
      /\ UNCHANGED <<effective, mounted, plugin, lastUsable, observations, mails>>
  BY DEF TeardownResolves
<1>2. runtimes[i] \in Runtime
  BY <1>1, ElementOfSeq DEF RuntimeInv, Typed
<1>3. r \in Runtime /\ r.config = runtimes[i].config /\ r.teardown = "resolved"
  BY <1>2 DEF Runtime
<1>4. ~Works(runtimes[i])
  BY <1>1 DEF Works
<1>5. Inert(runtimes[i]) => Inert(r)
  BY <1>1, <1>2 DEF Inert, Runtime
<1> HIDE DEF r
<1> QED BY <1>1, <1>3, <1>4, <1>5, OneChanges

\* Unloading begins with the release of what is mounted.
LEMMA UnloadStep ==
  ASSUME RuntimeInv, Unload
  PROVE  RuntimeInv'
<1>1. /\ plugin = "loaded" /\ runtimes' = Release(runtimes, mounted)
      /\ plugin' = IF mounted = None THEN "unloaded" ELSE "unloading"
      /\ UNCHANGED <<effective, mounted, lastUsable, observations, mails>>
  BY DEF Unload
<1>2. /\ runtimes' \in Seq(Runtime) /\ Len(runtimes') = Len(runtimes)
      /\ \A j \in 1 .. Len(runtimes) : Inert(runtimes'[j])
  BY <1>1, ReleaseMounted
<1>3. Typed' /\ OneMail'
  BY <1>1, <1>2 DEF RuntimeInv, Typed, OneMail
<1>4. OneWorks' /\ InForce' /\ Teardown'
  BY <1>1, <1>2 DEF RuntimeInv, OneWorks, InForce, Teardown
<1> QED BY <1>3, <1>4 DEF RuntimeInv

LEMMA UnloadedStep ==
  ASSUME RuntimeInv, Unloaded
  PROVE  RuntimeInv'
<1>1. /\ plugin = "unloading" /\ plugin' = "unloaded" /\ runtimes[mounted].teardown = "resolved"
      /\ UNCHANGED <<effective, runtimes, mounted, lastUsable, observations, mails>>
  BY DEF Unloaded
<1> QED BY <1>1 DEF RuntimeInv, Typed, OneWorks, InForce, Teardown, OneMail

-----------------------------------------------------------------------------
\* The inductive invariant holds of every run.
LEMMA RuntimeInvHolds == Spec => []RuntimeInv
<1>1. Init => RuntimeInv
  BY InitRuntimeInv
<1>2. RuntimeInv /\ [Next]_vars => RuntimeInv'
  <2> SUFFICES ASSUME RuntimeInv, [Next]_vars PROVE RuntimeInv'
    OBVIOUS
  <2>1. ASSUME NEW d \in Documents, Commit(d) PROVE RuntimeInv'
    BY <2>1, CommitStep
  <2>2. ASSUME NEW e \in Events, Observe(e) PROVE RuntimeInv'
    BY <2>2, ObserveStep
  <2>3. ASSUME NEW i \in 1 .. MaxMounts, JobEnds(i) \/ TeardownResolves(i) PROVE RuntimeInv'
    BY <2>3, JobEndsStep, TeardownResolvesStep
  <2>4. CASE Unload
    BY <2>4, UnloadStep
  <2>5. CASE Unloaded
    BY <2>5, UnloadedStep
  <2>6. CASE UNCHANGED vars
    BY <2>6 DEF vars, RuntimeInv, Typed, OneWorks, InForce, Teardown, OneMail
  <2> QED BY <2>1, <2>2, <2>3, <2>4, <2>5, <2>6 DEF Next
<1> QED BY <1>1, <1>2, PTL DEF Spec

\* Whatever is edited, refused, switched off or unloaded and in whatever order, what
\* runs is the last configuration that could be acted on (sync of index.ts).
THEOREM TheLastUsableRuns == Spec => []RunsTheLastUsable
<1>1. RuntimeInv => RunsTheLastUsable
  <2> SUFFICES ASSUME RuntimeInv, plugin = "loaded", lastUsable.enabled
               PROVE  mounted # None /\ runtimes[mounted].config = lastUsable /\ ~runtimes[mounted].closed
    BY DEF RunsTheLastUsable, RuntimeInv, InForce
  <2>1. mounted # None /\ runtimes[mounted].config = lastUsable
    BY DEF RuntimeInv, InForce
  <2>2. mounted \in 1 .. Len(runtimes)
    BY <2>1 DEF RuntimeInv, Typed, None
  <2> QED BY <2>1, <2>2 DEF RuntimeInv, OneWorks, Works
<1> QED BY <1>1, RuntimeInvHolds, PTL

\* However many runtimes were mounted and are still winding down, one listens, and an
\* appended event makes one mail at most (startRuntime and release).
THEOREM OneRuntimeListens == Spec => []OneListener
<1>1. RuntimeInv => OneListener
  BY DEF RuntimeInv, OneWorks, OneMail, Inert, OneListener
<1> QED BY <1>1, RuntimeInvHolds, PTL

\* A replaced or unloaded runtime holds the job it was sending at most, and the one
\* an unload waited for holds none (release and the teardown of apply).
THEOREM WhatIsReleasedIsInert == Spec => []ReleasedIsInert
<1>1. RuntimeInv => ReleasedIsInert
  <2> SUFFICES ASSUME RuntimeInv PROVE ReleasedIsInert
    OBVIOUS
  <2>1. \A i \in 1 .. Len(runtimes) : (i # mounted \/ plugin # "loaded") => Inert(runtimes[i])
    BY DEF RuntimeInv, OneWorks
  <2>2. plugin = "unloaded" /\ mounted # None => runtimes[mounted].line = <<>>
    BY <2>1 DEF RuntimeInv, Typed, Teardown, Inert, None
  <2> QED BY <2>1, <2>2 DEF ReleasedIsInert, Inert
<1> QED BY <1>1, RuntimeInvHolds, PTL
=============================================================================
