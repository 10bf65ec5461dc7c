------------------------------ MODULE Buffers -------------------------------
(***************************************************************************)
(* The bounded buffers of logger.ts and debug-sink.ts: the newest records  *)
(* since the last clear, and how many were ever written.                   *)
(***************************************************************************)
EXTENDS Naturals, Sequences

NoRecords == [records |-> <<>>, emitted |-> 0]

\* Seeded defect: the newest record is the one that goes.
KeepOldest(buffer, record, maxRecords) ==
  [records |-> IF Len(buffer.records) < maxRecords THEN Append(buffer.records, record) ELSE buffer.records,
   emitted |-> buffer.emitted + 1]

Keep(buffer, record, maxRecords) ==
  [records |-> IF maxRecords = 0 THEN buffer.records
               ELSE LET grown == Append(buffer.records, record)
                    IN  IF Len(grown) > maxRecords THEN Tail(grown) ELSE grown,
   emitted |-> buffer.emitted + 1]

ClearRecords(buffer) == [buffer EXCEPT !.records = <<>>]
=============================================================================
