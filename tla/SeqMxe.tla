------------------------------- MODULE SeqMxe -------------------------------
(***************************************************************************)
(* The sequencer and the matrix engine on one clock, as apex_top.sv wires  *)
(* them: md_* to the engine's descriptor port, its done and desc_error     *)
(* pulses back to the walker.  The walker is SeqWalker; the engine is its  *)
(* job contract MxeJob, which module Mxe is shown to keep.                 *)
(***************************************************************************)
EXTENDS SeqWalker

CONSTANT MaxResults     \* result beats of the largest job

ASSUME MaxResultsAssumption == MaxResults \in Nat \ {0}

VARIABLES running, owed, done, descError

Eng == INSTANCE MxeJob

engine == <<running, owed, done, descError>>
sysVars == <<vars, engine>>

SysInit == Init /\ Eng!Init

\* The engine in a cycle in which it is offered nothing.
EngineAlone == Eng!Rest \/ Eng!Work \/ Eng!Finish

\* The engine takes what is on md_*: a legal descriptor or an illegal one.
EngineTakes == Eng!Refuse \/ \E m \in 1 .. MaxResults : Eng!Start(m)

\* Mutant of Tick: desc_error is not wired back to the walker.
TickNoError(dsValid, enable, abortReq) ==
  \/ /\ \/ Idle(dsValid, enable, abortReq)
        \/ ~abortReq /\ enable /\ Dispatch(dsValid)
        \/ Await(dsValid, abortReq, done)
     /\ EngineAlone
  \/ /\ Request(dsValid, abortReq, Eng!Ready)
     /\ IF Eng!Ready THEN EngineTakes ELSE EngineAlone

\* One clock edge of both, under the sequencer's remaining inputs.
Tick(dsValid, enable, abortReq) ==
  \/ /\ \/ Idle(dsValid, enable, abortReq)
        \/ ~abortReq /\ enable /\ Dispatch(dsValid)
        \/ Await(dsValid, abortReq, done \/ descError)
     /\ EngineAlone
  \/ /\ Request(dsValid, abortReq, Eng!Ready)
     /\ IF Eng!Ready THEN EngineTakes ELSE EngineAlone

SysNext == \E dsValid, enable, abortReq \in BOOLEAN : Tick(dsValid, enable, abortReq)

SysSpec == SysInit /\ [][SysNext]_sysVars

\* Clock edges keep coming with the sequencer enabled and no new abort, and
\* the consumer of the results takes a beat again and again; no further
\* descriptor has to come.
FairSysSpec ==
  /\ SysSpec
  /\ WF_sysVars(Tick(FALSE, TRUE, FALSE))
  /\ WF_sysVars(Tick(FALSE, TRUE, FALSE) /\ (Eng!Finish \/ owed' # owed))
-----------------------------------------------------------------------------
\* D-006 across the two blocks: a job is in flight in the engine only while
\* the walker waits for it, so no descriptor is on md_* before its done.
OneJobInFlight == running => state = "WAIT"

\* An answer always finds the walker waiting: done and desc_error are
\* one-cycle pulses, and one that came in any other state would be lost and
\* leave the walker waiting for ever or answer the next descriptor.
NoAnswerLost == done \/ descError => state = "WAIT"

\* `aborting' falls only when the engine has nothing in flight.
AbortWaitsForJob == [][abortActive /\ ~abortActive' => ~running /\ ~running']_sysVars

\* Every descriptor software hands over is executed, refused, or dropped by
\* an abort; the pair never locks up.
EveryDescAnswered ==
  \A n \in Desc : accepted >= n ~> (barrier >= n \/ headQ > n \/ (headQ = n /\ state = "IDLE"))
=============================================================================
