------------------------------ MODULE JobQueue ------------------------------
(***************************************************************************)
(* What the sequencer promises to software (ARCHITECTURE.md section 1 and  *)
(* D-006): descriptors wait in order in a bounded queue, the oldest is     *)
(* offered to the engine only when no job is in flight, and an abort drops *)
(* every waiting descriptor but never the one already offered.             *)
(***************************************************************************)
EXTENDS Sequences, Naturals

CONSTANTS Desc,      \* the descriptors
          Capacity   \* descriptors that may wait at one time

VARIABLES pending,   \* accepted and waiting, oldest first
          phase,     \* of the job: "idle", "offered" or "running"
          job        \* the descriptor last offered to the engine

vars == <<pending, phase, job>>

Init == pending = << >> /\ phase = "idle"

\* What may happen to the waiting descriptors in a cycle.
Accept(rest) ==
  \/ pending' = rest
  \/ Len(pending) < Capacity /\ \E d \in Desc : pending' = Append(rest, d)

Flush == pending' = << >>

\* What may happen to the job in a cycle.
Offer == phase = "idle" /\ pending # << >> /\ phase' = "offered" /\ job' = Head(pending)
Grant == phase = "offered" /\ phase' = "running" /\ job' = job
Finish == phase = "running" /\ phase' = "idle" /\ job' = job
Hold == UNCHANGED <<phase, job>>

Next ==
  \/ Offer /\ Accept(Tail(pending))
  \/ (Grant \/ Finish \/ Hold) /\ (Accept(pending) \/ Flush)

Spec == Init /\ [][Next]_vars
=============================================================================
