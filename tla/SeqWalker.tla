----------------------------- MODULE SeqWalker -----------------------------
(***************************************************************************)
(* rtl/seq/seq_walker.sv: the descriptor queue and the one-job-at-a-time   *)
(* walker.  Every step is one clock edge; its inputs (ds_valid, enable,    *)
(* abort_req, md_ready and the engine's verdict) are chosen afresh in each *)
(* cycle.  Descriptors are numbered in the order they are accepted, so a   *)
(* number is both the payload and its place in the stream.                 *)
(***************************************************************************)
EXTENDS Naturals, Sequences

CONSTANTS QDepth,    \* QDEPTH, the descriptor FIFO
          MaxDesc    \* bound of the model: descriptors ever offered on ds_*

ASSUME QDepthAssumption == QDepth \in Nat /\ QDepth >= 2
ASSUME MaxDescAssumption == MaxDesc \in Nat

VARIABLES skid,      \* u_in_skid
          mem, wrPtr, rdPtr, count,   \* the descriptor FIFO
          state,     \* the walker FSM
          headQ,     \* head_q, the descriptor held on md_desc
          abortActive,
          skidOcc, skidDrop,          \* the abort-window poison tracking
          accepted,  \* history: descriptors whose ds_* handshake completed
          barrier    \* history: the last one accepted when an abort was in effect

queue == <<mem, wrPtr, rdPtr, count>>
vars == <<skid, queue, state, headQ, abortActive, skidOcc, skidDrop, accepted, barrier>>

Desc == 1 .. MaxDesc
NoDesc == 0
Ptr == 0 .. QDepth - 1

Skid == INSTANCE StreamSkid WITH Beat <- Desc, NoBeat <- NoDesc

Init ==
  /\ skid = Skid!EmptySkid
  /\ mem \in [Ptr -> {NoDesc}]
  /\ wrPtr = 0 /\ rdPtr = 0 /\ count = 0
  /\ state = "IDLE"
  /\ headQ = NoDesc
  /\ abortActive = FALSE
  /\ skidOcc = 0 /\ skidDrop = 0
  /\ accepted = 0 /\ barrier = 0

-----------------------------------------------------------------------------
\* The combinational signals; abortEff is the cycle's abort_eff.
AbortEff(abortReq) == abortActive \/ abortReq

InReady(abortEff) == abortEff \/ skidDrop # 0 \/ count # QDepth

SAcc(dsValid) == dsValid /\ Skid!SReady(skid)
MAcc(abortEff) == Skid!MValid(skid) /\ InReady(abortEff)

\* Mutant of Push: beats left in the skid by an abort are not condemned.
PushCondemned(abortEff) == MAcc(abortEff) /\ ~abortEff

Push(abortEff) == MAcc(abortEff) /\ ~abortEff /\ skidDrop = 0

Inc(ptr) == IF ptr = QDepth - 1 THEN 0 ELSE ptr + 1
Bit(b) == IF b THEN 1 ELSE 0

SkidOccNxt(dsValid, abortEff) ==
  (skidOcc + Bit(SAcc(dsValid))) - Bit(MAcc(abortEff))

\* The input skid with its poison bookkeeping.
Intake(dsValid, abortEff) ==
  /\ dsValid => accepted < MaxDesc
  /\ skid' = Skid!Advance(skid, IF dsValid THEN accepted + 1 ELSE NoDesc, InReady(abortEff))
  /\ skidOcc' = SkidOccNxt(dsValid, abortEff)
  /\ skidDrop' = IF abortEff THEN SkidOccNxt(dsValid, abortEff)
                 ELSE IF MAcc(abortEff) /\ skidDrop # 0 THEN skidDrop - 1
                 ELSE skidDrop
  /\ accepted' = accepted + Bit(SAcc(dsValid))
  /\ barrier' = IF abortEff THEN accepted' ELSE barrier

\* The FIFO; pop is dispatch.  An abort clears it whatever else happens.
Fifo(abortEff, pop) ==
  /\ mem' = IF Push(abortEff) THEN [mem EXCEPT ![wrPtr] = skid.out] ELSE mem
  /\ wrPtr' = IF abortEff THEN 0 ELSE IF Push(abortEff) THEN Inc(wrPtr) ELSE wrPtr
  /\ rdPtr' = IF abortEff THEN 0 ELSE IF pop THEN Inc(rdPtr) ELSE rdPtr
  /\ count' = IF abortEff THEN 0 ELSE (count + Bit(Push(abortEff))) - Bit(pop)

ReleaseAtOnce(abortReq, drained) == abortActive' = abortReq

\* abort_active is set by the pulse and released once no job is in flight.
Release(abortReq, drained) ==
  abortActive' = (abortReq \/ (abortActive /\ ~drained))

-----------------------------------------------------------------------------
\* S_IDLE without a dispatch.
Idle(dsValid, enable, abortReq) ==
  /\ state = "IDLE"
  /\ AbortEff(abortReq) \/ ~enable \/ count = 0
  /\ Intake(dsValid, AbortEff(abortReq))
  /\ Fifo(AbortEff(abortReq), FALSE)
  /\ Release(abortReq, TRUE)
  /\ UNCHANGED <<state, headQ>>

\* Mutant of Dispatch: the head is read behind the pointer's increment.
DispatchAfterPop(dsValid) ==
  /\ state = "IDLE" /\ ~abortActive /\ count # 0
  /\ Intake(dsValid, FALSE)
  /\ Fifo(FALSE, TRUE)
  /\ headQ' = mem[rdPtr']
  /\ state' = "REQ"
  /\ UNCHANGED abortActive

\* S_IDLE: the head of the queue becomes the presented descriptor.
Dispatch(dsValid) ==
  /\ state = "IDLE" /\ ~abortActive /\ count # 0
  /\ Intake(dsValid, FALSE)
  /\ Fifo(FALSE, TRUE)
  /\ headQ' = mem[rdPtr]
  /\ state' = "REQ"
  /\ UNCHANGED abortActive

\* S_REQ: md_valid is high until md_ready.
Request(dsValid, abortReq, mdReady) ==
  /\ state = "REQ"
  /\ Intake(dsValid, AbortEff(abortReq))
  /\ Fifo(AbortEff(abortReq), FALSE)
  /\ Release(abortReq, FALSE)
  /\ state' = IF mdReady THEN "WAIT" ELSE "REQ"
  /\ UNCHANGED headQ

\* S_WAIT: jobEnd is mxe_done or mxe_desc_error.
Await(dsValid, abortReq, jobEnd) ==
  /\ state = "WAIT"
  /\ Intake(dsValid, AbortEff(abortReq))
  /\ Fifo(AbortEff(abortReq), FALSE)
  /\ Release(abortReq, jobEnd)
  /\ state' = IF jobEnd THEN "IDLE" ELSE "WAIT"
  /\ UNCHANGED headQ

Next ==
  \E dsValid, abortReq \in BOOLEAN :
    \/ \E enable \in BOOLEAN : Idle(dsValid, enable, abortReq)
    \/ ~abortReq /\ Dispatch(dsValid)
    \/ \E mdReady \in BOOLEAN : Request(dsValid, abortReq, mdReady)
    \/ \E jobEnd \in BOOLEAN : Await(dsValid, abortReq, jobEnd)

Spec == Init /\ [][Next]_vars

\* A cycle in which nothing holds the walker back and nothing pushes it: the
\* sequencer is enabled, no descriptor and no abort comes, and the engine
\* answers whatever it is asked.
Unhindered ==
  \/ Idle(FALSE, TRUE, FALSE)
  \/ Dispatch(FALSE)
  \/ Request(FALSE, FALSE, TRUE)
  \/ Await(FALSE, FALSE, TRUE)

FairSpec == Spec /\ WF_vars(Unhindered)
-----------------------------------------------------------------------------
TypeOK ==
  /\ skid \in Skid!SkidState
  /\ mem \in [Ptr -> Desc \cup {NoDesc}]
  /\ wrPtr \in Ptr /\ rdPtr \in Ptr /\ count \in 0 .. QDepth
  /\ state \in {"IDLE", "REQ", "WAIT"}
  /\ headQ \in Desc \cup {NoDesc}
  /\ abortActive \in BOOLEAN
  /\ skidOcc \in 0 .. 2 /\ skidDrop \in 0 .. 2
  /\ accepted \in 0 .. MaxDesc /\ barrier \in 0 .. MaxDesc

\* Mutant of Busy: a descriptor still inside the input skid is not counted.
BusyNoSkid == state # "IDLE" \/ count # 0 \/ abortActive

Busy == state # "IDLE" \/ count # 0 \/ Skid!MValid(skid) \/ abortActive

\* The comment over skid_occ: the walker's own count of the beats inside the
\* input skid is exact, and no more beats are condemned than are there.
SkidTracked == skidOcc = Skid!Occupancy(skid) /\ skidDrop <= skidOcc

\* "Nothing stalls" while aborting: from the cycle after the pulse until the
\* abort ends, the descriptor stream is accepted in every cycle.
AbortNeverStalls == abortActive => Skid!SReady(skid)

\* A descriptor whose handshake completed while an abort was in effect, in
\* its last cycle included, is never presented to the engine.
NoAbortLeak == [][state = "IDLE" /\ state' = "REQ" => headQ' > barrier]_vars

\* busy falls only when the block is truly empty: every descriptor accepted
\* so far has been presented and finished, or was discarded by an abort.
BusyHonest == ~Busy => headQ >= accepted \/ barrier >= accepted

\* The waiting descriptors: the FIFO from rd_ptr round to wr_ptr, then the
\* beats of the input skid that are not condemned.
Window == [k \in 1 .. count |-> mem[(rdPtr + (k - 1)) % QDepth]]
LiveBeats == SubSeq(Skid!Held(skid), skidDrop + 1, Skid!Occupancy(skid))
Phase == CASE state = "IDLE" -> "idle" [] state = "REQ" -> "offered" [] OTHER -> "running"

Jobs == INSTANCE JobQueue
          WITH pending <- Window \o LiveBeats, phase <- Phase, job <- headQ, Capacity <- QDepth + 2

\* The walker implements the job queue: one job at a time, in stream order,
\* none lost or repeated, an abort dropping all that wait and only those.
QueueRefinement == Jobs!Spec

=============================================================================
