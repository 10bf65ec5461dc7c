------------------------------- MODULE Dedupe -------------------------------
(***************************************************************************)
(* The operations of notifier.ts's DedupeCache on a cache given as the     *)
(* sequence of its keys, oldest first: a JavaScript Set iterates in        *)
(* insertion order.                                                        *)
(***************************************************************************)
EXTENDS Naturals, Sequences

Marked(cache, key) == \E i \in 1 .. Len(cache) : cache[i] = key

\* Seeded defect: the cache evicts one key too early.
MarkEvictsEarly(cache, key, capacity) ==
  IF Marked(cache, key) THEN cache
  ELSE IF Len(cache) >= capacity - 1 THEN Append(Tail(cache), key)
  ELSE Append(cache, key)

\* mark: a known key keeps its place, and a full cache evicts its oldest key.
Mark(cache, key, capacity) ==
  IF Marked(cache, key) THEN cache
  ELSE IF Len(cache) >= capacity THEN Append(Tail(cache), key)
  ELSE Append(cache, key)
=============================================================================
