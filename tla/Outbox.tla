------------------------------- MODULE Outbox -------------------------------
(***************************************************************************)
(* What the mail queue promises to whoever hands it a job: a line of       *)
(* bounded length in which the front job is the only one being worked on,  *)
(* jobs leave from the front only and in the order they came, and closing  *)
(* the line discards everyone but a front job already being worked on.     *)
(***************************************************************************)
EXTENDS Naturals, Sequences

CONSTANTS
  Jobs,
  Capacity       \* the longest line, the front job included

VARIABLES
  line,          \* accepted jobs not yet let go of, oldest first
  closed,
  done           \* jobs let go of, in order

vars == <<line, closed, done>>

Init == line = <<>> /\ closed = FALSE /\ done = <<>>

\* A job joins at the back, once in its life.
Join(j) ==
  /\ ~closed
  /\ Len(line) < Capacity
  /\ \A i \in 1 .. Len(line) : line[i] # j
  /\ \A i \in 1 .. Len(done) : done[i] # j
  /\ line' = Append(line, j)
  /\ UNCHANGED <<closed, done>>

\* The front job is over, delivered or given up.
Leave ==
  /\ line # <<>>
  /\ done' = Append(done, Head(line))
  /\ line' = Tail(line)
  /\ UNCHANGED closed

\* The line closes; a front job being worked on may stay.
Close ==
  /\ ~closed
  /\ closed' = TRUE
  /\ \/ line' = <<>>
     \/ line # <<>> /\ line' = <<Head(line)>>
  /\ UNCHANGED done

Next == (\E j \in Jobs : Join(j)) \/ Leave \/ Close

Spec == Init /\ [][Next]_vars
FairSpec == Spec /\ WF_vars(Leave)
=============================================================================
