------------------------------- MODULE MxeJob -------------------------------
(***************************************************************************)
(* What the matrix engine promises at its descriptor port (apex_pkg.sv,    *)
(* "job semantics", D-006): one job at a time; a legal descriptor yields   *)
(* exactly one done pulse, and only once every result beat has been        *)
(* accepted downstream; an illegal one yields one desc_error pulse and     *)
(* nothing else; neither is taken while a job runs or in the cycle of its  *)
(* done.                                                                   *)
(***************************************************************************)
EXTENDS Naturals

CONSTANT MaxResults   \* result beats of the largest job

VARIABLES running,    \* a job is in flight
          owed,       \* result beats not yet accepted downstream
          done,       \* the done pulse
          descError   \* the desc_error pulse

vars == <<running, owed, done, descError>>

Init == running = FALSE /\ owed = 0 /\ done = FALSE /\ descError = FALSE

Ready == ~running /\ ~done

Start(results) ==
  /\ Ready
  /\ running' = TRUE
  /\ owed' = results
  /\ done' = FALSE /\ descError' = FALSE

Refuse ==
  /\ Ready
  /\ descError' = TRUE /\ done' = FALSE
  /\ UNCHANGED <<running, owed>>

Rest ==
  /\ ~running
  /\ done' = FALSE /\ descError' = FALSE
  /\ UNCHANGED <<running, owed>>

Work ==
  /\ running
  /\ owed' \in {owed} \cup (IF owed > 0 THEN {owed - 1} ELSE {})
  /\ done' = FALSE /\ descError' = FALSE
  /\ UNCHANGED running

Finish ==
  /\ running /\ owed = 0
  /\ running' = FALSE
  /\ done' = TRUE /\ descError' = FALSE
  /\ UNCHANGED owed

Next == \/ \E m \in 1 .. MaxResults : Start(m)
        \/ Refuse \/ Rest \/ Work \/ Finish

Spec == Init /\ [][Next]_vars
=============================================================================
