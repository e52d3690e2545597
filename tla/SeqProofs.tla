----------------------------- MODULE SeqProofs -----------------------------
(***************************************************************************)
(* Proofs about SeqWalker for every QDEPTH and every number of             *)
(* descriptors: typing, the exactness of the poison tracking, that an      *)
(* abort leaks no descriptor to the engine, that busy never lies, and that *)
(* the walker implements JobQueue.  Then proofs about SeqMxe for jobs of   *)
(* every size: the walker and the engine agree, in every cycle, on whether *)
(* a job is in flight, and the pair does what the walker alone may do.     *)
(* Last, of the stream_skid by itself, which both stand behind.            *)
(***************************************************************************)
EXTENDS SeqMxe, Integers, TLAPS, SequenceTheorems

\* The skid fills its output register first, and the walker's count of it
\* is exact, and the condemned beats are among those inside.
SkidInv ==
  /\ skid.back # NoDesc => skid.out # NoDesc
  /\ skidOcc = Bit(skid.out # NoDesc) + Bit(skid.back # NoDesc)
  /\ skidDrop <= skidOcc

\* wr_ptr is count places after rd_ptr, modulo QDEPTH.
PtrInv ==
  wrPtr = IF rdPtr + count < QDepth THEN rdPtr + count ELSE (rdPtr + count) - QDepth

\* The FIFO slots in use.
Used(i) ==
  \/ rdPtr <= i /\ i < rdPtr + count
  \/ i + QDepth < rdPtr + count

\* Everything that can still reach the engine was accepted after the last
\* cycle in which an abort was in effect.
FreshInv ==
  /\ barrier <= accepted
  /\ \A i \in Ptr : Used(i) => mem[i] > barrier
  /\ skid.out # NoDesc /\ skidDrop = 0 => skid.out > barrier
  /\ skid.back # NoDesc /\ skidDrop <= 1 => skid.back > barrier

\* While the abort lasts, nothing waits and every beat inside is condemned.
AbortInv == abortActive => count = 0 /\ skidDrop = skidOcc /\ skid.back = NoDesc

IInv == TypeOK /\ SkidInv /\ PtrInv /\ FreshInv /\ AbortInv

-----------------------------------------------------------------------------
\* The occupancy of a skid in terms of its two valid bits.
LEMMA OccupancyBits ==
  ASSUME NEW q \in Skid!SkidState, q.back # NoDesc => q.out # NoDesc
  PROVE  Skid!Occupancy(q) = Bit(q.out # NoDesc) + Bit(q.back # NoDesc)
  BY DEF Skid!Occupancy, Skid!Held, Skid!MValid, Skid!SReady, Bit

\* Initially the invariant holds.
LEMMA InitInv == Init => IInv
<1> SUFFICES ASSUME Init PROVE IInv
  OBVIOUS
<1>1. TypeOK
  <2>1. skid \in Skid!SkidState
    BY DEF Init, Skid!EmptySkid, Skid!SkidState, Skid!Slot
  <2>2. mem \in [Ptr -> Desc \cup {NoDesc}]
    BY DEF Init
  <2>3. /\ wrPtr \in Ptr /\ rdPtr \in Ptr /\ count \in 0 .. QDepth
        /\ accepted \in 0 .. MaxDesc /\ barrier \in 0 .. MaxDesc
        /\ skidOcc \in 0 .. 2 /\ skidDrop \in 0 .. 2
    BY QDepthAssumption, MaxDescAssumption DEF Init, Ptr
  <2>4. QED
    BY <2>1, <2>2, <2>3 DEF Init, TypeOK
<1>2. SkidInv
  BY DEF Init, SkidInv, Skid!EmptySkid, Bit
<1>3. PtrInv
  BY QDepthAssumption DEF Init, PtrInv
<1>4. FreshInv
  BY QDepthAssumption DEF Init, FreshInv, Used, Ptr, Skid!EmptySkid
<1>5. AbortInv
  BY DEF Init, AbortInv
<1>6. QED
  BY <1>1, <1>2, <1>3, <1>4, <1>5 DEF IInv

\* One clock edge of the input skid and of the poison tracking.
LEMMA IntakeStep ==
  ASSUME IInv, NEW dsValid \in BOOLEAN, NEW abortEff \in BOOLEAN,
         abortActive => abortEff, Intake(dsValid, abortEff)
  PROVE  /\ skid' \in Skid!SkidState
         /\ skidOcc' \in 0 .. 2 /\ skidDrop' \in 0 .. 2
         /\ accepted' \in 0 .. MaxDesc /\ barrier' \in 0 .. MaxDesc
         /\ SkidInv'
         /\ barrier' <= accepted'
         /\ skid'.out # NoDesc /\ skidDrop' = 0 => skid'.out > barrier'
         /\ skid'.back # NoDesc /\ skidDrop' <= 1 => skid'.back > barrier'
         /\ abortEff => skidDrop' = skidOcc' /\ skid'.back = NoDesc
         /\ ~abortEff => barrier' = barrier
  BY MaxDescAssumption
  DEF IInv, TypeOK, SkidInv, FreshInv, AbortInv, Intake, SAcc, MAcc, InReady, SkidOccNxt, Bit,
         Desc, NoDesc, Skid!SkidState, Skid!Slot, Skid!Advance, Skid!SReady, Skid!MValid

\* One clock edge of the FIFO, with or without a pop.
LEMMA FifoStep ==
  ASSUME IInv, NEW dsValid \in BOOLEAN, NEW abortEff \in BOOLEAN, NEW pop \in BOOLEAN,
         abortActive => abortEff, pop => ~abortEff /\ count # 0,
         Intake(dsValid, abortEff), Fifo(abortEff, pop)
  PROVE  /\ mem' \in [Ptr -> Desc \cup {NoDesc}]
         /\ wrPtr' \in Ptr /\ rdPtr' \in Ptr /\ count' \in 0 .. QDepth
         /\ PtrInv'
         /\ \A i \in Ptr : Used(i)' => mem'[i] > barrier'
         /\ abortEff => count' = 0
<1> DEFINE push == Push(abortEff)
<1>1. push \in BOOLEAN /\ (push => skid.out \in Desc /\ skid.out > barrier /\ ~abortEff)
  BY DEF Push, MAcc, InReady, Skid!MValid, IInv, FreshInv, TypeOK, Skid!SkidState, Skid!Slot
<1>2. push => count # QDepth
  BY DEF Push, MAcc, InReady
<1>3. mem' = IF push THEN [mem EXCEPT ![wrPtr] = skid.out] ELSE mem
  BY DEF Fifo
<1>4. mem' \in [Ptr -> Desc \cup {NoDesc}]
  BY <1>1, <1>3 DEF IInv, TypeOK
<1>5. CASE abortEff
  <2>1. wrPtr' = 0 /\ rdPtr' = 0 /\ count' = 0
    BY <1>5 DEF Fifo
  <2>2. QED
    BY <1>4, <2>1, QDepthAssumption DEF PtrInv, Used, Ptr
<1>6. CASE ~abortEff
  <2>1. /\ wrPtr' = IF push THEN Inc(wrPtr) ELSE wrPtr
        /\ rdPtr' = IF pop THEN Inc(rdPtr) ELSE rdPtr
        /\ count' = (count + Bit(push)) - Bit(pop)
        /\ barrier' = barrier
    BY <1>6, IntakeStep DEF Fifo
  <2>2. wrPtr' \in Ptr /\ rdPtr' \in Ptr
    BY <2>1, QDepthAssumption DEF IInv, TypeOK, Inc, Ptr
  <2>3. count' \in 0 .. QDepth
    BY <1>1, <1>2, <2>1, QDepthAssumption DEF IInv, TypeOK, Bit
  <2>4. PtrInv'
    BY <1>1, <1>2, <2>1, QDepthAssumption DEF IInv, TypeOK, PtrInv, Ptr, Inc, Bit
  <2>5. ASSUME NEW i \in Ptr, Used(i)' PROVE mem'[i] > barrier'
    <3>1. Used(i) \/ (push /\ i = wrPtr)
      BY <1>1, <1>2, <2>1, <2>5, QDepthAssumption DEF IInv, TypeOK, PtrInv, Used, Ptr, Inc, Bit
    <3>2. QED
      BY <1>1, <1>3, <2>1, <3>1 DEF IInv, TypeOK, FreshInv
  <2>6. QED
    BY <1>4, <1>6, <2>2, <2>3, <2>4, <2>5
<1>7. QED
  BY <1>5, <1>6

\* A step that moves the skid and the FIFO together and keeps the abort flag
\* within the cycle's abort_eff preserves the invariant.
LEMMA ClockStep ==
  ASSUME IInv, NEW dsValid \in BOOLEAN, NEW abortEff \in BOOLEAN, NEW pop \in BOOLEAN,
         abortActive => abortEff, pop => ~abortEff /\ count # 0,
         Intake(dsValid, abortEff), Fifo(abortEff, pop),
         abortActive' \in BOOLEAN, abortActive' => abortEff,
         state' \in {"IDLE", "REQ", "WAIT"}, headQ' \in Desc \cup {NoDesc}
  PROVE  IInv'
<1>1. TypeOK'
  BY IntakeStep, FifoStep DEF TypeOK
<1>2. FreshInv'
  BY IntakeStep, FifoStep DEF FreshInv
<1>3. AbortInv'
  BY IntakeStep, FifoStep DEF AbortInv
<1>4. QED
  BY <1>1, <1>2, <1>3, IntakeStep, FifoStep DEF IInv

\* Every step preserves the invariant.
LEMMA NextInv == IInv /\ [Next]_vars => IInv'
<1> SUFFICES ASSUME IInv, [Next]_vars PROVE IInv'
  OBVIOUS
<1> USE DEF AbortEff
<1>0. /\ abortActive \in BOOLEAN /\ headQ \in Desc \cup {NoDesc}
      /\ mem \in [Ptr -> Desc \cup {NoDesc}] /\ rdPtr \in Ptr
  BY DEF IInv, TypeOK
<1>1. ASSUME NEW dsValid \in BOOLEAN, NEW abortReq \in BOOLEAN, NEW enable \in BOOLEAN,
             Idle(dsValid, enable, abortReq)
      PROVE  IInv'
  BY <1>0, <1>1, ClockStep DEF Idle, Release
<1>2. ASSUME NEW dsValid \in BOOLEAN, Dispatch(dsValid)
      PROVE  IInv'
  BY <1>0, <1>2, ClockStep DEF Dispatch
<1>3. ASSUME NEW dsValid \in BOOLEAN, NEW abortReq \in BOOLEAN, NEW mdReady \in BOOLEAN,
             Request(dsValid, abortReq, mdReady)
      PROVE  IInv'
  BY <1>0, <1>3, ClockStep DEF Request, Release
<1>4. ASSUME NEW dsValid \in BOOLEAN, NEW abortReq \in BOOLEAN, NEW jobEnd \in BOOLEAN,
             Await(dsValid, abortReq, jobEnd)
      PROVE  IInv'
  BY <1>0, <1>4, ClockStep DEF Await, Release
<1>5. ASSUME UNCHANGED vars PROVE IInv'
  BY <1>5 DEF vars, queue, IInv, TypeOK, SkidInv, PtrInv, FreshInv, Used, AbortInv
<1>6. QED
  BY <1>1, <1>2, <1>3, <1>4, <1>5 DEF Next
-----------------------------------------------------------------------------
\* The invariant of every reachable state of the walker.
THEOREM Invariance == Spec => []IInv
  BY InitInv, NextInv, PTL DEF Spec

\* Every register keeps its width: the occupancy and poison counters stay
\* within 0 .. 2 and the FIFO count within 0 .. QDEPTH, so neither the 2-bit
\* counters nor `count' of seq_walker.sv ever wraps.
THEOREM TypeCorrect == Spec => []TypeOK
<1>1. IInv => TypeOK
  BY DEF IInv
<1>2. QED
  BY <1>1, Invariance, PTL

\* The walker's own count of the beats inside the input skid is exact, and
\* it never condemns more beats than are there (the skid_occ invariants
\* claimed by the comment in seq_walker.sv).
THEOREM SkidTrackedHolds == Spec => []SkidTracked
<1>1. IInv => SkidTracked
  BY OccupancyBits DEF IInv, TypeOK, SkidInv, SkidTracked
<1>2. QED
  BY <1>1, Invariance, PTL

\* The descriptor stream is accepted in every cycle of an abort but its first.
THEOREM AbortNeverStallsHolds == Spec => []AbortNeverStalls
<1>1. IInv => AbortNeverStalls
  BY DEF IInv, AbortInv, AbortNeverStalls, Skid!SReady
<1>2. QED
  BY <1>1, Invariance, PTL

\* No descriptor accepted while an abort was in effect, its last cycle
\* included, is ever presented to the engine.
THEOREM NoAbortLeakHolds == Spec => NoAbortLeak
<1>1. IInv /\ [Next]_vars => [state = "IDLE" /\ state' = "REQ" => headQ' > barrier]_vars
  <2> SUFFICES ASSUME IInv, Next, state = "IDLE", state' = "REQ" PROVE headQ' > barrier
    BY DEF vars
  <2>1. PICK dsValid \in BOOLEAN : Dispatch(dsValid)
    BY DEF Next, Idle, Request, Await
  <2>2. headQ' = mem[rdPtr] /\ rdPtr \in Ptr /\ Used(rdPtr)
    BY <2>1 DEF Dispatch, IInv, TypeOK, Used, Ptr
  <2>3. QED
    BY <2>2 DEF IInv, FreshInv
<1>2. QED
  BY <1>1, Invariance, PTL DEF Spec, NoAbortLeak
-----------------------------------------------------------------------------
\* What waits is a run of consecutive descriptors that ends with the last one
\* accepted: Base is the last descriptor that no longer waits.
Base == accepted - (skidOcc - skidDrop) - count

\* Each waiting descriptor is in the place its number says, and all that no
\* longer wait were handed to the engine or dropped by an abort.
OrderInv ==
  /\ skidDrop # 0 => count = 0
  /\ skid.back # NoDesc => skid.back = accepted /\ skid.out = accepted - 1
  /\ skid.out # NoDesc /\ skid.back = NoDesc => skid.out = accepted
  /\ \A i \in Ptr : /\ rdPtr <= i /\ i < rdPtr + count => mem[i] = Base + 1 + (i - rdPtr)
                    /\ i + QDepth < rdPtr + count => mem[i] = Base + 1 + (i + QDepth - rdPtr)
  /\ Base <= headQ \/ Base <= barrier

\* One clock edge moves Base: an abort drops all that waits, a dispatch takes
\* the oldest, anything else leaves the run's beginning where it was.
LEMMA BaseStep ==
  ASSUME IInv, OrderInv, NEW dsValid \in BOOLEAN, NEW abortEff \in BOOLEAN, NEW pop \in BOOLEAN,
         abortActive => abortEff, pop => ~abortEff /\ count # 0,
         Intake(dsValid, abortEff), Fifo(abortEff, pop)
  PROVE  /\ Base \in Int /\ Base' \in Int
         /\ abortEff => Base' = accepted' /\ barrier' = accepted' /\ count' = 0
         /\ ~abortEff => Base' = Base + Bit(pop) /\ barrier' = barrier
  BY QDepthAssumption, MaxDescAssumption, IntakeStep
  DEF Base, IInv, TypeOK, SkidInv, OrderInv, Intake, Fifo, SAcc, MAcc, Push, InReady, SkidOccNxt, Bit,
         Desc, NoDesc, Ptr, Skid!SkidState, Skid!Slot, Skid!Advance, Skid!SReady, Skid!MValid

\* The beats of the input skid are the last ones accepted, in order.
LEMMA SkidOrderStep ==
  ASSUME IInv, OrderInv, NEW dsValid \in BOOLEAN, NEW abortEff \in BOOLEAN,
         abortActive => abortEff, Intake(dsValid, abortEff)
  PROVE  /\ skid'.back # NoDesc => skid'.back = accepted' /\ skid'.out = accepted' - 1
         /\ skid'.out # NoDesc /\ skid'.back = NoDesc => skid'.out = accepted'
         /\ skidDrop' # 0 /\ ~abortEff => skidDrop # 0
  BY MaxDescAssumption
  DEF IInv, TypeOK, SkidInv, OrderInv, Intake, SAcc, MAcc, InReady, SkidOccNxt, Bit,
         Desc, NoDesc, Skid!SkidState, Skid!Slot, Skid!Advance, Skid!SReady, Skid!MValid

\* A beat that enters the FIFO is the one after the last that waits there.
LEMMA PushedNext ==
  ASSUME IInv, OrderInv, NEW abortEff \in BOOLEAN, Push(abortEff)
  PROVE  /\ skid.out = Base + 1 + count
         /\ count < QDepth
  BY QDepthAssumption, MaxDescAssumption
  DEF Base, Push, MAcc, InReady, IInv, TypeOK, SkidInv, OrderInv, Bit, Desc, NoDesc,
         Skid!SkidState, Skid!Slot, Skid!MValid

\* One clock edge keeps the waiting descriptors in order.
LEMMA FifoOrderStep ==
  ASSUME IInv, OrderInv, NEW dsValid \in BOOLEAN, NEW abortEff \in BOOLEAN, NEW pop \in BOOLEAN,
         abortActive => abortEff, pop => ~abortEff /\ count # 0,
         Intake(dsValid, abortEff), Fifo(abortEff, pop)
  PROVE  /\ skidDrop' # 0 => count' = 0
         /\ \A i \in Ptr :
              /\ rdPtr' <= i /\ i < rdPtr' + count' => mem'[i] = Base' + 1 + (i - rdPtr')
              /\ i + QDepth < rdPtr' + count' => mem'[i] = Base' + 1 + (i + QDepth - rdPtr')
<1>1. CASE abortEff
  <2>1. count' = 0 /\ rdPtr' = 0
    BY <1>1 DEF Fifo
  <2> QED
    BY <2>1, QDepthAssumption DEF Ptr
<1>2. CASE ~abortEff
  <2> DEFINE push == Push(abortEff)
  <2>1. /\ mem' = IF push THEN [mem EXCEPT ![wrPtr] = skid.out] ELSE mem
        /\ rdPtr' = IF pop THEN Inc(rdPtr) ELSE rdPtr
        /\ count' = (count + Bit(push)) - Bit(pop)
    BY <1>2 DEF Fifo
  <2>2. Base \in Int /\ Base' = Base + Bit(pop)
    BY <1>2, BaseStep
  <2>3. push \in BOOLEAN /\ (push => skid.out = Base + 1 + count /\ count < QDepth /\ skidDrop = 0)
    BY PushedNext DEF Push, MAcc, InReady, Skid!MValid
  <2>4. /\ mem \in [Ptr -> Desc \cup {NoDesc}] /\ rdPtr \in Ptr /\ wrPtr \in Ptr
        /\ count \in 0 .. QDepth /\ skidDrop \in 0 .. 2
        /\ wrPtr = IF rdPtr + count < QDepth THEN rdPtr + count ELSE (rdPtr + count) - QDepth
    BY DEF IInv, TypeOK, PtrInv
  <2> HIDE DEF push
  <2>5. skidDrop' # 0 => count' = 0
    BY <1>2, <2>1, <2>3, <2>4, SkidOrderStep DEF OrderInv, Bit
  <2>6. ASSUME NEW i \in Ptr
        PROVE  /\ rdPtr' <= i /\ i < rdPtr' + count' => mem'[i] = Base' + 1 + (i - rdPtr')
               /\ i + QDepth < rdPtr' + count' => mem'[i] = Base' + 1 + (i + QDepth - rdPtr')
    <3>1. mem'[i] = IF push /\ i = wrPtr THEN skid.out ELSE mem[i]
      BY <2>1, <2>4, <2>3
    <3>2. /\ rdPtr <= i /\ i < rdPtr + count => mem[i] = Base + 1 + (i - rdPtr)
          /\ i + QDepth < rdPtr + count => mem[i] = Base + 1 + (i + QDepth - rdPtr)
      BY DEF OrderInv
    <3> QED
      BY <2>1, <2>2, <2>3, <2>4, <3>1, <3>2, QDepthAssumption DEF Ptr, Inc, Bit
  <2> QED
    BY <2>5, <2>6
<1> QED
  BY <1>1, <1>2

\* A step that hands on the oldest descriptor exactly when it takes it off
\* the FIFO keeps the order.
LEMMA OrderStep ==
  ASSUME IInv, OrderInv, NEW dsValid \in BOOLEAN, NEW abortEff \in BOOLEAN, NEW pop \in BOOLEAN,
         abortActive => abortEff, pop => ~abortEff /\ count # 0,
         Intake(dsValid, abortEff), Fifo(abortEff, pop),
         headQ' = IF pop THEN mem[rdPtr] ELSE headQ
  PROVE  OrderInv'
<1>1. Base \in Int /\ headQ \in Nat /\ barrier \in Nat /\ accepted' \in Nat
  BY MaxDescAssumption, BaseStep, IntakeStep DEF IInv, TypeOK, Desc, NoDesc
<1>2. Base' <= headQ' \/ Base' <= barrier'
  <2>0. /\ abortEff => Base' = accepted' /\ barrier' = accepted'
        /\ ~abortEff => Base' = Base + Bit(pop) /\ barrier' = barrier
    BY BaseStep
  <2>1. CASE abortEff
    BY <1>1, <2>0, <2>1
  <2>2. CASE pop
    <3>1. rdPtr \in Ptr /\ rdPtr <= rdPtr /\ rdPtr < rdPtr + count
      BY <2>2 DEF IInv, TypeOK, Ptr
    <3>2. headQ' = Base + 1
      BY <1>1, <2>2, <3>1, QDepthAssumption DEF OrderInv, Ptr
    <3> QED
      BY <1>1, <2>0, <2>2, <3>2 DEF Bit
  <2>3. CASE ~abortEff /\ ~pop
    BY <1>1, <2>0, <2>3 DEF Bit, OrderInv
  <2> QED
    BY <2>1, <2>2, <2>3
<1> QED
  BY <1>2, SkidOrderStep, FifoOrderStep DEF OrderInv

\* Every step keeps what waits in order.
LEMMA NextOrder == IInv /\ OrderInv /\ [Next]_vars => OrderInv'
<1> SUFFICES ASSUME IInv, OrderInv, [Next]_vars PROVE OrderInv'
  OBVIOUS
<1> USE DEF AbortEff
<1>0. abortActive \in BOOLEAN
  BY DEF IInv, TypeOK
<1>1. ASSUME NEW dsValid \in BOOLEAN, NEW abortReq \in BOOLEAN, NEW enable \in BOOLEAN,
             Idle(dsValid, enable, abortReq)
      PROVE  OrderInv'
  BY <1>0, <1>1, OrderStep DEF Idle
<1>2. ASSUME NEW dsValid \in BOOLEAN, Dispatch(dsValid)
      PROVE  OrderInv'
  BY <1>0, <1>2, OrderStep DEF Dispatch
<1>3. ASSUME NEW dsValid \in BOOLEAN, NEW abortReq \in BOOLEAN, NEW mdReady \in BOOLEAN,
             Request(dsValid, abortReq, mdReady)
      PROVE  OrderInv'
  BY <1>0, <1>3, OrderStep DEF Request
<1>4. ASSUME NEW dsValid \in BOOLEAN, NEW abortReq \in BOOLEAN, NEW jobEnd \in BOOLEAN,
             Await(dsValid, abortReq, jobEnd)
      PROVE  OrderInv'
  BY <1>0, <1>4, OrderStep DEF Await
<1>5. ASSUME UNCHANGED vars PROVE OrderInv'
  BY <1>5 DEF vars, queue, OrderInv, Base
<1>6. QED
  BY <1>1, <1>2, <1>3, <1>4, <1>5 DEF Next

\* In every reachable state what waits is in order.
LEMMA Ordered == Spec => [](IInv /\ OrderInv)
<1>1. Init => OrderInv
  BY QDepthAssumption DEF Init, OrderInv, Base, Ptr, Skid!EmptySkid
<1>2. QED
  BY <1>1, InitInv, NextInv, NextOrder, PTL DEF Spec

\* `busy' falls only when every descriptor accepted so far was handed to the
\* engine and finished, or was dropped by an abort (STATUS.busy).
THEOREM BusyHonestHolds == Spec => []BusyHonest
<1>1. IInv /\ OrderInv => BusyHonest
  BY MaxDescAssumption
  DEF IInv, TypeOK, SkidInv, OrderInv, Base, BusyHonest, Busy, Bit, Skid!MValid, Desc, NoDesc
<1>2. QED
  BY <1>1, Ordered, PTL
-----------------------------------------------------------------------------
(* The walker implements the job queue of JobQueue.                        *)

Pending == Window \o LiveBeats
Waiting == count + (skidOcc - skidDrop)

\* The FIFO's index arithmetic: one turn of the ring at most.
LEMMA RingIndex ==
  ASSUME NEW n \in Nat, n < 2 * QDepth
  PROVE  n % QDepth = IF n < QDepth THEN n ELSE n - QDepth
  BY QDepthAssumption

\* The FIFO from rd_ptr on holds the first waiting descriptors.
LEMMA WindowIsRun ==
  ASSUME IInv, OrderInv
  PROVE  Window = [k \in 1 .. count |-> Base + k]
<1>1. rdPtr \in 0 .. QDepth - 1 /\ count \in 0 .. QDepth /\ QDepth \in Nat
  BY QDepthAssumption DEF IInv, TypeOK, Ptr
<1>2. Base \in Int
  BY MaxDescAssumption, <1>1 DEF IInv, TypeOK, Base
<1>3. ASSUME NEW k \in 1 .. count
      PROVE  mem[(rdPtr + (k - 1)) % QDepth] = Base + k
  <2>1. (rdPtr + (k - 1)) % QDepth
          = IF rdPtr + (k - 1) < QDepth THEN rdPtr + (k - 1) ELSE rdPtr + (k - 1) - QDepth
    BY <1>1, RingIndex
  <2>2. CASE rdPtr + (k - 1) < QDepth
    <3>1. mem[rdPtr + (k - 1)] = Base + 1 + ((rdPtr + (k - 1)) - rdPtr)
      BY <1>1, <2>2 DEF OrderInv, Ptr
    <3> QED
      BY <1>1, <1>2, <2>1, <2>2, <3>1
  <2>3. CASE ~(rdPtr + (k - 1) < QDepth)
    <3> DEFINE i == rdPtr + (k - 1) - QDepth
    <3>1. i \in Ptr /\ i + QDepth < rdPtr + count
      BY <1>1, <2>3 DEF Ptr
    <3>2. mem[i] = Base + 1 + (i + QDepth - rdPtr)
      BY <3>1 DEF OrderInv
    <3> QED
      BY <1>1, <1>2, <2>1, <2>3, <3>2
  <2> QED
    BY <2>2, <2>3
<1> QED
  BY <1>3 DEF Window

\* The live beats of the skid are those that come after them.
LEMMA LiveIsRun ==
  ASSUME IInv, OrderInv
  PROVE  LiveBeats = [k \in 1 .. skidOcc - skidDrop |-> Base + count + k]
<1>1. /\ skidOcc \in 0 .. 2 /\ skidDrop \in 0 .. skidOcc /\ accepted \in Nat /\ count \in Nat
      /\ skid \in Skid!SkidState
      /\ skid.back # NoDesc => skid.out # NoDesc
      /\ skidOcc = Bit(skid.out # NoDesc) + Bit(skid.back # NoDesc)
  BY QDepthAssumption, MaxDescAssumption DEF IInv, TypeOK, SkidInv
<1>2. Base + count = accepted - (skidOcc - skidDrop)
  BY <1>1 DEF Base
<1>3. Skid!Occupancy(skid) = skidOcc
  BY <1>1, OccupancyBits
<1>4. LiveBeats = SubSeq(Skid!Held(skid), skidDrop + 1, skidOcc)
  BY <1>3 DEF LiveBeats
<1>5. CASE skidOcc = 0
  <2>1. skidDrop = 0 /\ Skid!Held(skid) = << >>
    BY <1>1, <1>5 DEF Skid!Held, Skid!MValid, Bit
  <2> QED
    BY <1>4, <1>5, <2>1
<1>6. CASE skidOcc = 1
  <2>1. Skid!Held(skid) = <<accepted>>
    BY <1>1, <1>6 DEF Skid!Held, Skid!MValid, Skid!SReady, Bit, OrderInv
  <2>2. CASE skidDrop = 0
    BY <1>1, <1>2, <1>4, <1>6, <2>1, <2>2
  <2>3. CASE skidDrop = 1
    BY <1>1, <1>2, <1>4, <1>6, <2>1, <2>3
  <2> QED
    BY <1>1, <1>6, <2>2, <2>3
<1>7. CASE skidOcc = 2
  <2>1. Skid!Held(skid) = <<accepted - 1, accepted>>
    BY <1>1, <1>7 DEF Skid!Held, Skid!MValid, Skid!SReady, Bit, OrderInv
  <2>2. CASE skidDrop = 0
    BY <1>1, <1>2, <1>4, <1>7, <2>1, <2>2
  <2>3. CASE skidDrop = 1
    BY <1>1, <1>2, <1>4, <1>7, <2>1, <2>3
  <2>4. CASE skidDrop = 2
    BY <1>1, <1>2, <1>4, <1>7, <2>1, <2>4
  <2> QED
    BY <1>1, <1>7, <2>2, <2>3, <2>4
<1> QED
  BY <1>1, <1>5, <1>6, <1>7

\* What waits, as the job queue sees it: the numbers after Base, in order.
LEMMA PendingIsRun ==
  IInv /\ OrderInv =>
    /\ Pending = [k \in 1 .. Waiting |-> Base + k]
    /\ Base \in Nat /\ Waiting \in Nat /\ Base + Waiting = accepted
<1> SUFFICES ASSUME IInv, OrderInv
             PROVE  /\ Pending = [k \in 1 .. Waiting |-> Base + k]
                    /\ Base \in Nat /\ Waiting \in Nat /\ Base + Waiting = accepted
  OBVIOUS
<1> DEFINE live == skidOcc - skidDrop
<1>1. live \in Nat /\ count \in Nat /\ accepted \in Nat /\ Base \in Int
  BY QDepthAssumption, MaxDescAssumption DEF IInv, TypeOK, SkidInv, Base
<1>2. Base + (count + live) = accepted /\ Waiting = count + live
  BY <1>1 DEF Base, Waiting
<1>3. Base \in Nat
  <2>1. CASE count = 0 /\ live = 0
    BY <1>1, <1>2, <2>1
  <2>2. CASE count # 0
    <3>1. rdPtr \in Ptr /\ Used(rdPtr) /\ mem[rdPtr] = Base + 1 /\ barrier \in Nat
      BY <1>1, <2>2, QDepthAssumption, MaxDescAssumption DEF IInv, TypeOK, Ptr, Used, OrderInv
    <3> QED
      BY <1>1, <3>1 DEF IInv, FreshInv
  <2>3. CASE count = 0 /\ live # 0
    BY <1>1, <1>2, <2>3, MaxDescAssumption
    DEF IInv, TypeOK, SkidInv, OrderInv, FreshInv, Bit, Desc, NoDesc, Skid!SkidState, Skid!Slot
  <2> QED
    BY <2>1, <2>2, <2>3
<1>4. Window = [k \in 1 .. count |-> Base + k] /\ LiveBeats = [k \in 1 .. live |-> (Base + count) + k]
  BY WindowIsRun, LiveIsRun
<1> HIDE DEF live
<1>5. Window \in Seq(Nat) /\ LiveBeats \in Seq(Nat) /\ Len(Window) = count /\ Len(LiveBeats) = live
  BY <1>1, <1>3, <1>4
<1>6. Pending \in Seq(Nat) /\ Len(Pending) = count + live
  BY <1>5, ConcatProperties DEF Pending
<1>7. ASSUME NEW k \in 1 .. count + live
      PROVE  Pending[k] = Base + k
  BY <1>1, <1>3, <1>4, <1>5, <1>7, ConcatProperties DEF Pending
<1>8. Pending = [k \in 1 .. count + live |-> Base + k]
  BY <1>1, <1>6, <1>7
<1> QED
  BY <1>1, <1>2, <1>3, <1>8

\* A run of consecutive numbers, one longer at the end or one shorter at the
\* beginning.
Run(b, n) == [k \in 1 .. n |-> b + k]

LEMMA RunGrows ==
  ASSUME NEW b \in Nat, NEW n \in Nat
  PROVE  /\ Run(b, n) \in Seq(Nat) /\ Len(Run(b, n)) = n
         /\ Append(Run(b, n), b + n + 1) = Run(b, n + 1)
<1>1. Run(b, n) \in Seq(Nat) /\ Len(Run(b, n)) = n
  BY DEF Run
<1>2. Append(Run(b, n), b + n + 1) = Run(b, n + 1)
  <2>1. Append(Run(b, n), b + n + 1) \in Seq(Nat) /\ Len(Append(Run(b, n), b + n + 1)) = n + 1
    BY <1>1
  <2>2. ASSUME NEW k \in 1 .. n + 1
        PROVE  Append(Run(b, n), b + n + 1)[k] = b + k
    BY <1>1, <2>2 DEF Run
  <2> QED
    BY <2>1, <2>2 DEF Run
<1> QED
  BY <1>1, <1>2

LEMMA RunShrinks ==
  ASSUME NEW b \in Nat, NEW n \in Nat \ {0}
  PROVE  /\ Run(b, n) # << >> /\ Head(Run(b, n)) = b + 1
         /\ Tail(Run(b, n)) = Run(b + 1, n - 1)
<1>1. Run(b, n) \in Seq(Nat) /\ Len(Run(b, n)) = n
  BY DEF Run
<1>2. Run(b, n) # << >> /\ Head(Run(b, n)) = b + 1
  BY <1>1 DEF Run
<1>3. Tail(Run(b, n)) \in Seq(Nat) /\ Len(Tail(Run(b, n))) = n - 1
  BY <1>1, <1>2
<1>4. ASSUME NEW k \in 1 .. n - 1
      PROVE  Tail(Run(b, n))[k] = b + 1 + k
  BY <1>1, <1>4 DEF Run
<1>5. Run(b + 1, n - 1) \in Seq(Nat) /\ Len(Run(b + 1, n - 1)) = n - 1
  BY DEF Run
<1>6. \A k \in 1 .. n - 1 : Run(b + 1, n - 1)[k] = b + 1 + k
  BY DEF Run
<1>7. Tail(Run(b, n)) = Run(b + 1, n - 1)
  BY <1>3, <1>4, <1>5, <1>6, SeqEqual
<1> QED
  BY <1>2, <1>7

\* The waiting descriptors are the run from Base to the last one accepted.
PendingRun ==
  /\ Pending = Run(Base, Waiting)
  /\ Base \in Nat /\ Waiting \in Nat /\ Base + Waiting = accepted

\* One clock edge of the waiting descriptors.
LEMMA QueueMoves ==
  ASSUME IInv, OrderInv, PendingRun, PendingRun',
         NEW dsValid \in BOOLEAN, NEW abortEff \in BOOLEAN, NEW pop \in BOOLEAN,
         abortActive => abortEff, pop => ~abortEff /\ count # 0,
         Intake(dsValid, abortEff), Fifo(abortEff, pop)
  PROVE  /\ abortEff => Pending' = << >>
         /\ pop => Pending # << >> /\ mem[rdPtr] = Head(Pending)
         /\ ~abortEff =>
              LET rest == IF pop THEN Tail(Pending) ELSE Pending
              IN  \/ Pending' = rest
                  \/ Len(Pending) < QDepth + 2 /\ \E d \in Desc : Pending' = Append(rest, d)
<1> DEFINE rest == IF pop THEN Tail(Pending) ELSE Pending
<1>0. /\ Base \in Nat /\ Waiting \in Nat /\ Base + Waiting = accepted /\ Pending = Run(Base, Waiting)
      /\ Base' \in Nat /\ Waiting' \in Nat /\ Base' + Waiting' = accepted'
      /\ Pending' = Run(Base', Waiting')
  BY DEF PendingRun
<1>1. /\ abortEff => Base' = accepted'
      /\ ~abortEff => Base' = Base + Bit(pop)
  BY BaseStep
<1>2. abortEff => Pending' = << >>
  <2> SUFFICES ASSUME abortEff PROVE Pending' = << >>
    OBVIOUS
  <2>1. Waiting' = 0
    BY <1>0, <1>1
  <2> QED
    BY <1>0, <2>1 DEF Run
<1>3. pop => Waiting # 0 /\ mem[rdPtr] = Base + 1
  <2> SUFFICES ASSUME pop PROVE Waiting # 0 /\ mem[rdPtr] = Base + 1
    OBVIOUS
  <2>1. rdPtr \in Ptr /\ count \in Nat \ {0} /\ skidOcc - skidDrop \in Nat
    BY QDepthAssumption DEF IInv, TypeOK, SkidInv
  <2> QED
    BY <1>0, <2>1, QDepthAssumption DEF OrderInv, Waiting, Ptr
<1>4. pop => Pending # << >> /\ mem[rdPtr] = Head(Pending)
  BY <1>0, <1>3, RunShrinks
<1>5. ~abortEff => rest = Run(Base', accepted - Base') /\ accepted - Base' \in Nat
  <2>1. CASE ~abortEff /\ pop
    <3>1. Base' = Base + 1 /\ Waiting - 1 = accepted - Base'
      BY <1>0, <1>1, <2>1 DEF Bit
    <3>2. Tail(Pending) = Run(Base + 1, Waiting - 1)
      BY <1>0, <1>3, <2>1, RunShrinks
    <3> QED
      BY <1>0, <1>3, <2>1, <3>1, <3>2
  <2>2. CASE ~abortEff /\ ~pop
    BY <1>0, <1>1, <2>2 DEF Bit
  <2> QED
    BY <2>1, <2>2
<1>6. accepted' = accepted \/ (accepted' = accepted + 1 /\ accepted' \in Desc /\ Waiting < QDepth + 2)
  <2>1. CASE ~SAcc(dsValid)
    BY <2>1, <1>0 DEF Intake, Bit
  <2>2. CASE SAcc(dsValid)
    <3>1. accepted' = accepted + 1 /\ dsValid /\ skid.back = NoDesc
      BY <2>2 DEF Intake, Bit, SAcc, Skid!SReady
    <3>2. accepted' \in Desc
      <4>1. accepted < MaxDesc
        BY <3>1 DEF Intake
      <4> QED
        BY <3>1, <4>1, <1>0, MaxDescAssumption DEF Desc
    <3>3. Waiting < QDepth + 2
      BY <3>1, QDepthAssumption DEF IInv, TypeOK, SkidInv, Waiting, Bit
    <3> QED
      BY <3>1, <3>2, <3>3
  <2> QED
    BY <2>1, <2>2
<1>7. ASSUME ~abortEff
      PROVE  \/ Pending' = rest
             \/ Len(Pending) < QDepth + 2 /\ \E d \in Desc : Pending' = Append(rest, d)
  <2> HIDE DEF rest
  <2>1. CASE accepted' = accepted
    <3>1. Waiting' = accepted - Base'
      BY <1>0, <2>1
    <3> QED
      BY <1>0, <1>5, <1>7, <3>1
  <2>2. CASE accepted' = accepted + 1 /\ accepted' \in Desc /\ Waiting < QDepth + 2
    <3>1. Len(Pending) = Waiting
      BY <1>0, RunGrows
    <3>2. Waiting' = (accepted - Base') + 1 /\ accepted' = Base' + (accepted - Base') + 1
      <4>1. accepted \in Nat /\ Base' \in Nat /\ Waiting' \in Nat /\ Base' + Waiting' = accepted + 1
        BY <1>0, <2>2
      <4>2. \A a, b, w \in Nat : b + w = a + 1 => w = (a - b) + 1 /\ a + 1 = b + (a - b) + 1
        OBVIOUS
      <4> QED
        BY <2>2, <4>1, <4>2
    <3>3. Pending' = Append(rest, accepted')
      BY <1>0, <1>5, <1>7, <3>2, RunGrows
    <3> QED
      BY <2>2, <3>1, <3>3
  <2> QED
    BY <1>6, <2>1, <2>2
<1> QED
  BY <1>2, <1>4, <1>7

\* Every step of the walker is a step of the job queue, or none.
LEMMA NextIsJobs ==
  ASSUME IInv, OrderInv, PendingRun, PendingRun', [Next]_vars
  PROVE  [Jobs!Next]_(Jobs!vars)
<1> USE DEF AbortEff
<1> DEFINE rest(pop) == IF pop THEN Tail(Pending) ELSE Pending
           AcceptStep(r) == \/ Pending' = r
                            \/ Len(Pending) < QDepth + 2 /\ \E d \in Desc : Pending' = Append(r, d)
           HoldStep == Phase' = Phase /\ headQ' = headQ
           GrantStep == Phase = "offered" /\ Phase' = "running" /\ headQ' = headQ
           FinishStep == Phase = "running" /\ Phase' = "idle" /\ headQ' = headQ
           OfferStep == Phase = "idle" /\ Pending # << >> /\ Phase' = "offered" /\ headQ' = Head(Pending)
<1>0. abortActive \in BOOLEAN
  BY DEF IInv, TypeOK
<1>1. ASSUME NEW dsValid \in BOOLEAN, NEW abortReq \in BOOLEAN,
             Intake(dsValid, AbortEff(abortReq)), Fifo(AbortEff(abortReq), FALSE)
      PROVE  AcceptStep(Pending) \/ Pending' = << >>
  <2>1. AbortEff(abortReq) \in BOOLEAN /\ (abortActive => AbortEff(abortReq))
    BY <1>0
  <2> QED
    BY <1>1, <2>1, QueueMoves
<1>2. ASSUME NEW dsValid \in BOOLEAN, NEW abortReq \in BOOLEAN, NEW enable \in BOOLEAN,
             Idle(dsValid, enable, abortReq)
      PROVE  HoldStep /\ (AcceptStep(Pending) \/ Pending' = << >>)
  BY <1>1, <1>2 DEF Idle, Phase
<1>3. ASSUME NEW dsValid \in BOOLEAN, Dispatch(dsValid)
      PROVE  OfferStep /\ AcceptStep(Tail(Pending))
  <2>1. ~abortActive /\ count # 0 /\ Intake(dsValid, FALSE) /\ Fifo(FALSE, TRUE)
    BY <1>3 DEF Dispatch
  <2>2. Pending # << >> /\ mem[rdPtr] = Head(Pending) /\ AcceptStep(Tail(Pending))
    BY <2>1, QueueMoves
  <2> QED
    BY <1>3, <2>2 DEF Dispatch, Phase
<1>4. ASSUME NEW dsValid \in BOOLEAN, NEW abortReq \in BOOLEAN, NEW mdReady \in BOOLEAN,
             Request(dsValid, abortReq, mdReady)
      PROVE  (HoldStep \/ GrantStep) /\ (AcceptStep(Pending) \/ Pending' = << >>)
  BY <1>1, <1>4 DEF Request, Phase
<1>5. ASSUME NEW dsValid \in BOOLEAN, NEW abortReq \in BOOLEAN, NEW jobEnd \in BOOLEAN,
             Await(dsValid, abortReq, jobEnd)
      PROVE  (HoldStep \/ FinishStep) /\ (AcceptStep(Pending) \/ Pending' = << >>)
  BY <1>1, <1>5 DEF Await, Phase
<1>6. CASE Next
  <2>1. \/ OfferStep /\ AcceptStep(Tail(Pending))
        \/ (GrantStep \/ FinishStep \/ HoldStep) /\ (AcceptStep(Pending) \/ Pending' = << >>)
    BY <1>2, <1>3, <1>4, <1>5, <1>6 DEF Next
  <2>2. Jobs!Next
    BY <2>1
    DEF Jobs!Next, Jobs!Offer, Jobs!Grant, Jobs!Finish, Jobs!Hold, Jobs!Accept, Jobs!Flush, Pending
  <2> QED
    BY <2>2
<1>7. CASE UNCHANGED vars
  <2>1. Window' = Window /\ LiveBeats' = LiveBeats /\ Phase' = Phase /\ headQ' = headQ
    BY <1>7
    DEF vars, queue, Window, LiveBeats, Phase, Skid!Held, Skid!Occupancy, Skid!MValid, Skid!SReady
  <2> QED
    BY <2>1 DEF Jobs!vars
<1> QED
  BY <1>6, <1>7

\* The walker implements the job queue that software is promised: one job at
\* a time, in stream order, none lost or repeated, an abort dropping all that
\* wait and only those (ARCHITECTURE.md section 1, D-006).
THEOREM QueueRefinementHolds == Spec => QueueRefinement
<1>1. Init => Jobs!Init
  <2> SUFFICES ASSUME Init PROVE Jobs!Init
    OBVIOUS
  <2>1. Window = << >> /\ LiveBeats = << >>
    BY DEF Init, Window, LiveBeats, Skid!EmptySkid, Skid!Held, Skid!Occupancy, Skid!MValid
  <2> QED
    BY <2>1 DEF Jobs!Init, Init, Phase
<1>2. IInv /\ OrderInv => PendingRun
  BY PendingIsRun DEF PendingRun, Run
<1>3. IInv /\ OrderInv /\ PendingRun /\ PendingRun' /\ [Next]_vars => [Jobs!Next]_(Jobs!vars)
  BY NextIsJobs
<1>4. QED
  BY <1>1, <1>2, <1>3, Ordered, PTL DEF Spec, QueueRefinement, Jobs!Spec
-----------------------------------------------------------------------------
\* The walker waits exactly while the engine has a job or an answer for it.
InStep == state = "WAIT" <=> running \/ done \/ descError

\* An answer comes only after the job; the engine's outputs are Booleans.
AnswerAfterJob ==
  /\ running \in BOOLEAN /\ done \in BOOLEAN /\ descError \in BOOLEAN
  /\ done \/ descError => ~running

Agree == InStep /\ AnswerAfterJob

\* An engine that is offered nothing keeps its job until it answers, and an
\* answer lasts one cycle (mxe_ctrl.sv: done and desc_error are pulses).
LEMMA AloneLemma ==
  ASSUME Agree, EngineAlone
  PROVE  /\ running => running' \/ done'
         /\ ~running => ~running' /\ ~done' /\ ~descError'
         /\ AnswerAfterJob'
<1>1. CASE Eng!Rest
  <2>1. ~running /\ running' = running /\ done' = FALSE /\ descError' = FALSE
    BY <1>1 DEF Eng!Rest
  <2>2. running' \in BOOLEAN
    BY <2>1 DEF Agree, AnswerAfterJob
  <2> QED
    BY <2>1, <2>2 DEF AnswerAfterJob
<1>2. CASE Eng!Work
  <2>1. running /\ running' = running /\ done' = FALSE /\ descError' = FALSE
    BY <1>2 DEF Eng!Work
  <2>2. running' \in BOOLEAN
    BY <2>1 DEF Agree, AnswerAfterJob
  <2> QED
    BY <2>1, <2>2 DEF AnswerAfterJob
<1>3. CASE Eng!Finish
  <2>1. running /\ running' = FALSE /\ done' = TRUE /\ descError' = FALSE
    BY <1>3 DEF Eng!Finish
  <2> QED
    BY <2>1 DEF AnswerAfterJob
<1> QED
  BY <1>1, <1>2, <1>3 DEF EngineAlone

\* An engine that takes a descriptor starts its job or reports it illegal.
LEMMA TakesLemma ==
  ASSUME Agree, EngineTakes
  PROVE  /\ running' \/ descError'
         /\ AnswerAfterJob'
<1>1. CASE Eng!Refuse
  <2>1. ~running /\ running' = running /\ done' = FALSE /\ descError' = TRUE
    BY <1>1 DEF Eng!Refuse, Eng!Ready
  <2>2. running' \in BOOLEAN
    BY <2>1 DEF Agree, AnswerAfterJob
  <2> QED
    BY <2>1, <2>2 DEF AnswerAfterJob
<1>2. CASE \E m \in 1 .. MaxResults : Eng!Start(m)
  <2>1. running' = TRUE /\ done' = FALSE /\ descError' = FALSE
    BY <1>2 DEF Eng!Start
  <2> QED
    BY <2>1 DEF AnswerAfterJob
<1> QED
  BY <1>1, <1>2 DEF EngineTakes

\* One clock edge of the pair keeps them in agreement.
LEMMA TickLemma ==
  ASSUME Agree,
         NEW dsValid \in BOOLEAN, NEW enable \in BOOLEAN, NEW abortReq \in BOOLEAN,
         Tick(dsValid, enable, abortReq)
  PROVE  Agree'
<1>1. CASE Idle(dsValid, enable, abortReq) /\ EngineAlone
  <2>1. state = "IDLE" /\ state' = "IDLE"
    BY <1>1 DEF Idle
  <2>2. ~running
    BY <2>1 DEF Agree, InStep
  <2> QED
    BY <1>1, <2>1, <2>2, AloneLemma DEF Agree, InStep
<1>2. CASE Dispatch(dsValid) /\ EngineAlone
  <2>1. state = "IDLE" /\ state' = "REQ"
    BY <1>2 DEF Dispatch
  <2>2. ~running
    BY <2>1 DEF Agree, InStep
  <2> QED
    BY <1>2, <2>1, <2>2, AloneLemma DEF Agree, InStep
<1>3. CASE Await(dsValid, abortReq, done \/ descError) /\ EngineAlone
  <2>1. state = "WAIT" /\ state' = IF done \/ descError THEN "IDLE" ELSE "WAIT"
    BY <1>3 DEF Await
  <2>2. CASE done \/ descError
    <3>1. ~running
      BY <2>2 DEF Agree, AnswerAfterJob
    <3> QED
      BY <1>3, <2>1, <2>2, <3>1, AloneLemma DEF Agree, InStep
  <2>3. CASE ~(done \/ descError)
    <3>1. running
      BY <2>1, <2>3 DEF Agree, InStep
    <3> QED
      BY <1>3, <2>1, <2>3, <3>1, AloneLemma DEF Agree, InStep
  <2> QED
    BY <2>2, <2>3
<1>4. CASE Request(dsValid, abortReq, Eng!Ready) /\ IF Eng!Ready THEN EngineTakes ELSE EngineAlone
  <2>1. state = "REQ"
    BY <1>4 DEF Request
  <2>2. ~running /\ ~done /\ ~descError
    BY <2>1 DEF Agree, InStep
  <2>3. Eng!Ready
    BY <2>2 DEF Eng!Ready
  <2>4. state' = "WAIT"
    BY <1>4, <2>3 DEF Request
  <2> QED
    BY <1>4, <2>3, <2>4, TakesLemma DEF Agree, InStep
<1> QED
  BY <1>1, <1>2, <1>3, <1>4 DEF Tick

\* The pair is in agreement in every reachable state.
THEOREM Agreement == SysSpec => []Agree
<1>1. SysInit => Agree
  BY DEF SysInit, Init, Eng!Init, Agree, InStep, AnswerAfterJob
<1>2. Agree /\ [SysNext]_sysVars => Agree'
  <2> SUFFICES ASSUME Agree, [SysNext]_sysVars PROVE Agree'
    OBVIOUS
  <2>1. CASE SysNext
    BY <2>1, TickLemma DEF SysNext
  <2>2. CASE UNCHANGED sysVars
    BY <2>2 DEF sysVars, vars, engine, Agree, InStep, AnswerAfterJob
  <2> QED
    BY <2>1, <2>2
<1> QED
  BY <1>1, <1>2, PTL DEF SysSpec

\* D-006: a job is in flight only while the walker waits for it, so no
\* descriptor is presented to a running engine (seq_walker.sv S_WAIT).
THEOREM OneJobInFlightHolds == SysSpec => []OneJobInFlight
<1>1. Agree => OneJobInFlight
  BY DEF Agree, InStep, OneJobInFlight
<1> QED
  BY <1>1, Agreement, PTL

\* No done or desc_error pulse comes while the walker is not looking for it.
THEOREM NoAnswerLostHolds == SysSpec => []NoAnswerLost
<1>1. Agree => NoAnswerLost
  BY DEF Agree, InStep, NoAnswerLost
<1> QED
  BY <1>1, Agreement, PTL

\* An abort ends only in a cycle in which the engine has nothing in flight,
\* before and after (seq_walker.sv: abort_active is released when drained).
THEOREM AbortWaitsForJobHolds == SysSpec => AbortWaitsForJob
<1>1. ASSUME Agree, SysNext, abortActive, ~abortActive'
      PROVE  ~running /\ ~running'
  <2>1. PICK dsValid \in BOOLEAN, enable \in BOOLEAN, abortReq \in BOOLEAN :
          Tick(dsValid, enable, abortReq)
    BY <1>1 DEF SysNext
  <2>2. CASE Idle(dsValid, enable, abortReq) /\ EngineAlone
    <3>1. ~running
      BY <1>1, <2>2 DEF Idle, Agree, InStep
    <3> QED
      BY <1>1, <2>2, <3>1, AloneLemma
  <2>3. CASE Dispatch(dsValid)
    BY <1>1, <2>3 DEF Dispatch
  <2>4. CASE Await(dsValid, abortReq, done \/ descError) /\ EngineAlone
    <3>1. done \/ descError
      BY <1>1, <2>4 DEF Await, Release
    <3>2. ~running
      BY <1>1, <3>1 DEF Agree, AnswerAfterJob
    <3> QED
      BY <1>1, <2>4, <3>2, AloneLemma
  <2>5. CASE Request(dsValid, abortReq, Eng!Ready)
    BY <1>1, <2>5 DEF Request, Release
  <2> QED
    BY <2>1, <2>2, <2>3, <2>4, <2>5 DEF Tick
<1>2. Agree /\ [SysNext]_sysVars => [abortActive /\ ~abortActive' => ~running /\ ~running']_sysVars
  BY <1>1
<1> QED
  BY <1>2, Agreement, PTL DEF SysSpec, AbortWaitsForJob

\* The walker beside the engine is the walker under some inputs: what holds
\* of SeqWalker under every engine holds of the pair.
THEOREM PairKeepsWalker == SysSpec => Spec
<1>1. SysInit => Init
  BY DEF SysInit
<1>2. SysNext => Next
  <2> SUFFICES ASSUME NEW dsValid \in BOOLEAN, NEW enable \in BOOLEAN, NEW abortReq \in BOOLEAN,
                      Tick(dsValid, enable, abortReq)
               PROVE  Next
    BY DEF SysNext
  <2>1. (done \/ descError) \in BOOLEAN /\ Eng!Ready \in BOOLEAN
    BY DEF Eng!Ready
  <2> QED
    BY <2>1, Zenon DEF Tick, Next
<1>3. UNCHANGED sysVars => UNCHANGED vars
  BY DEF sysVars
<1> QED
  BY <1>1, <1>2, <1>3, PTL DEF SysSpec, Spec

\* The pair serves the descriptors one at a time, in stream order, none lost
\* or repeated, an abort dropping all that wait and only those.
THEOREM PairIsJobQueue == SysSpec => QueueRefinement
BY PairKeepsWalker, QueueRefinementHolds, PTL

\* Beside the engine, too, busy falls only when nothing accepted is left.
THEOREM PairBusyHonest == SysSpec => []BusyHonest
BY PairKeepsWalker, BusyHonestHolds, PTL

\* Nor does an abort leak a descriptor to the engine.
THEOREM PairNoAbortLeak == SysSpec => NoAbortLeak
BY PairKeepsWalker, NoAbortLeakHolds, PTL
-----------------------------------------------------------------------------
(***************************************************************************)
(* One stream_skid between a producer and a consumer (SkidChannel), for    *)
(* every payload type and every length of stream: order and content are    *)
(* kept, a waiting beat is never withdrawn, and the skid implements a      *)
(* FIFO of depth two.                                                      *)
(***************************************************************************)
CONSTANTS Beat, NoBeat, MaxBeats             \* of the channel
VARIABLES lane, offer, sent, received        \* of the channel

Chan == INSTANCE SkidChannel WITH skid <- lane

ChanInv == Chan!TypeOK /\ Chan!NoHiddenBeat /\ Chan!InOrder

-----------------------------------------------------------------------------
\* The output register fills first, so what is inside is one of three shapes.
LEMMA HeldShapes ==
  ASSUME NEW q \in Chan!SkidState, q.back # NoBeat => q.out # NoBeat
  PROVE  /\ q.out = NoBeat => Chan!Held(q) = << >>
         /\ q.out # NoBeat /\ q.back = NoBeat => Chan!Held(q) = <<q.out>>
         /\ q.back # NoBeat => Chan!Held(q) = <<q.out, q.back>>
  BY DEF Chan!Held, Chan!MValid, Chan!SReady

\* A sequence of two is its first element with the second appended.
LEMMA PairIsAppend ==
  ASSUME NEW S, NEW a \in S, NEW b \in S
  PROVE  <<a, b>> = Append(<<a>>, b)
<1>1. << >> \in Seq(S) /\ <<a, b>> \in Seq(S)
  OBVIOUS
<1>2. << >> \o <<a, b>> = Append(Append(<< >>, a), b)
  BY <1>1
<1>3. << >> \o <<a, b>> = <<a, b>>
  BY <1>1, ConcatEmptySeq
<1>4. QED
  BY <1>2, <1>3

\* Appending commutes with what stands in front.
LEMMA ConcatAppend ==
  ASSUME NEW S, NEW s \in Seq(S), NEW t \in Seq(S), NEW x \in S
  PROVE  s \o Append(t, x) = Append(s \o t, x)
  OBVIOUS

\* The beat on the output is the oldest one inside.
LEMMA HeldHead ==
  ASSUME NEW q \in Chan!SkidState, Chan!MValid(q)
  PROVE  Chan!Held(q) # << >> /\ Head(Chan!Held(q)) = q.out
  BY DEF Chan!Held

\* The skid after a clock edge, by what was accepted and what was delivered.
LEMMA AdvanceHeld ==
  ASSUME NEW q \in Chan!SkidState, NEW s \in Chan!Slot, NEW mReady \in BOOLEAN,
         q.back # NoBeat => q.out # NoBeat
  PROVE  LET after == Chan!Advance(q, s, mReady)
             in == s # NoBeat /\ Chan!SReady(q)
             out == Chan!MValid(q) /\ mReady
         IN  /\ after \in Chan!SkidState
             /\ after.back # NoBeat => after.out # NoBeat
             /\ Chan!MValid(q) /\ ~out => after.out = q.out
             /\ ~in /\ ~out => Chan!Held(after) = Chan!Held(q)
             /\ in /\ ~out => Chan!Held(after) = Append(Chan!Held(q), s)
             /\ ~in /\ out => Chan!Held(after) = Tail(Chan!Held(q))
             /\ in /\ out => Chan!Held(after) = Append(Tail(Chan!Held(q)), s)
<1> DEFINE after == Chan!Advance(q, s, mReady)
<1>1. /\ after \in Chan!SkidState
      /\ after.back # NoBeat => after.out # NoBeat
      /\ Chan!MValid(q) /\ ~mReady => after.out = q.out
  BY DEF Chan!Advance, Chan!SkidState, Chan!Slot, Chan!SReady, Chan!MValid
<1>2. after = IF mReady \/ q.out = NoBeat
              THEN IF q.back = NoBeat THEN [out |-> s, back |-> NoBeat]
                                      ELSE [out |-> q.back, back |-> NoBeat]
              ELSE IF q.back = NoBeat THEN [out |-> q.out, back |-> s] ELSE q
  BY DEF Chan!Advance, Chan!SReady, Chan!MValid
<1>3. CASE q.out = NoBeat
  <2>1. after = [out |-> s, back |-> NoBeat] /\ Chan!Held(q) = << >>
    BY <1>2, <1>3, HeldShapes
  <2>2. Chan!Held(after) = IF s = NoBeat THEN << >> ELSE <<s>>
    BY <2>1 DEF Chan!Held, Chan!MValid, Chan!SReady
  <2>3. QED
    BY <1>1, <1>3, <2>1, <2>2 DEF Chan!SReady, Chan!MValid
<1>4. CASE q.out # NoBeat /\ q.back = NoBeat
  <2>1. Chan!Held(q) = <<q.out>>
    BY <1>4, HeldShapes
  <2>2. mReady => Chan!Held(after) = IF s = NoBeat THEN << >> ELSE <<s>>
    BY <1>2, <1>4 DEF Chan!Held, Chan!MValid, Chan!SReady
  <2>3. ~mReady => Chan!Held(after) = IF s = NoBeat THEN <<q.out>> ELSE <<q.out, s>>
    BY <1>2, <1>4 DEF Chan!Held, Chan!MValid, Chan!SReady
  <2>4. <<q.out, s>> = Append(<<q.out>>, s)
    BY PairIsAppend DEF Chan!SkidState
  <2>5. QED
    BY <1>1, <1>4, <2>1, <2>2, <2>3, <2>4 DEF Chan!SReady, Chan!MValid
<1>5. CASE q.back # NoBeat
  <2>1. Chan!Held(q) = <<q.out, q.back>> /\ q.out # NoBeat
    BY <1>5, HeldShapes
  <2>2. mReady => Chan!Held(after) = <<q.back>>
    BY <1>2, <1>5 DEF Chan!Held, Chan!MValid, Chan!SReady
  <2>3. ~mReady => after = q
    BY <1>2, <1>5, <2>1
  <2>4. QED
    BY <1>1, <1>5, <2>1, <2>2, <2>3 DEF Chan!SReady, Chan!MValid
<1>6. QED
  BY <1>3, <1>4, <1>5
-----------------------------------------------------------------------------
\* Initially the invariant holds.
LEMMA ChanInitInv ==
  ASSUME Chan!NoBeatOutside
  PROVE  Chan!Init => ChanInv
  BY DEF Chan!NoBeatOutside, Chan!Init, ChanInv, Chan!TypeOK, Chan!NoHiddenBeat, Chan!InOrder, Chan!EmptySkid, Chan!SkidState, Chan!Slot, Chan!Held, Chan!MValid

\* One clock edge of the channel, whatever the consumer's ready.
LEMMA ClockInv ==
  ASSUME Chan!NoBeatOutside, ChanInv, NEW mReady \in BOOLEAN, Chan!Clock(mReady)
  PROVE  ChanInv'
<1> DEFINE out == Chan!MValid(lane) /\ mReady
<1>1. /\ lane \in Chan!SkidState /\ offer \in Chan!Slot
      /\ sent \in Seq(Beat) /\ received \in Seq(Beat)
      /\ lane.back # NoBeat => lane.out # NoBeat
      /\ sent = received \o Chan!Held(lane)
  BY DEF ChanInv, Chan!TypeOK, Chan!NoHiddenBeat, Chan!InOrder
<1>2. lane' = Chan!Advance(lane, offer, mReady)
  BY DEF Chan!Clock
<1>3. lane' \in Chan!SkidState /\ Chan!NoHiddenBeat'
  BY <1>1, <1>2, AdvanceHeld DEF Chan!NoHiddenBeat
<1>4. /\ sent' = IF Chan!SAccept THEN Append(sent, offer) ELSE sent
      /\ received' = IF out THEN Append(received, lane.out) ELSE received
  BY DEF Chan!Clock
<1>5. sent' \in Seq(Beat) /\ received' \in Seq(Beat)
  BY <1>1, <1>4 DEF Chan!NoBeatOutside, Chan!SAccept, Chan!Slot, Chan!SkidState, Chan!MValid
<1>6. offer' \in Chan!Slot
  BY <1>1 DEF Chan!Clock, Chan!NextOffer, Chan!Slot
<1>7. Chan!Held(lane) \in Seq(Beat)
  BY <1>1, HeldShapes DEF Chan!NoBeatOutside, Chan!SkidState, Chan!Slot
<1>8. Chan!SAccept => Append(sent, offer) = received \o Append(Chan!Held(lane), offer)
  <2>1. Chan!SAccept => offer \in Beat
    BY <1>1 DEF Chan!SAccept, Chan!Slot
  <2>2. offer \in Beat => received \o Append(Chan!Held(lane), offer) = Append(received \o Chan!Held(lane), offer)
    BY <1>1, <1>7, ConcatAppend
  <2>3. QED
    BY <1>1, <2>1, <2>2
<1>9. out => received \o Chan!Held(lane) = Append(received, lane.out) \o Tail(Chan!Held(lane))
  <2>1. SUFFICES ASSUME out
                 PROVE  received \o Chan!Held(lane) = Append(received, lane.out) \o Tail(Chan!Held(lane))
    OBVIOUS
  <2>2. Chan!Held(lane) # << >> /\ Head(Chan!Held(lane)) = lane.out
    BY <1>1, <2>1, HeldHead
  <2>3. QED
    BY <1>1, <1>7, <2>2
<1>10. Chan!InOrder'
  <2>1. CASE ~out
    BY <1>1, <1>2, <1>4, <1>8, <2>1, AdvanceHeld DEF Chan!InOrder, Chan!SAccept
  <2>2. CASE out
    <3>1. Tail(Chan!Held(lane)) \in Seq(Beat) /\ lane.out \in Beat
      BY <1>1, <1>7, <2>2, HeldShapes DEF Chan!MValid, Chan!SkidState, Chan!Slot
    <3>2. Chan!SAccept => received' \o Append(Tail(Chan!Held(lane)), offer)
                     = Append(received' \o Tail(Chan!Held(lane)), offer)
      BY <1>1, <1>5, <3>1, ConcatAppend DEF Chan!SAccept, Chan!Slot
    <3>3. QED
      BY <1>1, <1>2, <1>4, <1>9, <2>2, <3>1, <3>2, AdvanceHeld DEF Chan!InOrder, Chan!SAccept
  <2>3. QED
    BY <2>1, <2>2
<1>11. QED
  BY <1>3, <1>5, <1>6, <1>10 DEF ChanInv, Chan!TypeOK

\* Every step preserves the invariant.
LEMMA ChanNextInv ==
  ASSUME Chan!NoBeatOutside
  PROVE  ChanInv /\ [Chan!Next]_Chan!vars => ChanInv'
<1> SUFFICES ASSUME ChanInv, [Chan!Next]_Chan!vars PROVE ChanInv'
  OBVIOUS
<1>1. CASE Chan!Stall
  BY <1>1, ClockInv DEF Chan!Stall
<1>2. CASE Chan!Drain
  BY <1>2, ClockInv DEF Chan!Drain
<1>3. CASE UNCHANGED Chan!vars
  BY <1>3 DEF Chan!vars, ChanInv, Chan!TypeOK, Chan!NoHiddenBeat, Chan!InOrder
<1>4. QED
  BY <1>1, <1>2, <1>3 DEF Chan!Next
-----------------------------------------------------------------------------
\* The invariant of every reachable state of the channel.
THEOREM ChanInvariance ==
  ASSUME Chan!NoBeatOutside
  PROVE  Chan!Spec => []ChanInv
  BY ChanInitInv, ChanNextInv, PTL DEF Chan!Spec

\* No pattern of backpressure loses, repeats or reorders a beat: what was
\* accepted upstream is what was delivered followed by what is held.
THEOREM InOrderHolds ==
  ASSUME Chan!NoBeatOutside
  PROVE  Chan!Spec => []Chan!InOrder
<1>1. ChanInv => Chan!InOrder
  BY DEF ChanInv
<1>2. QED
  BY <1>1, ChanInvariance, PTL

\* A beat waiting on the output is neither withdrawn nor changed until the
\* cycle in which it is accepted (REQ-PROTO-002).
THEOREM NoRetractionHolds ==
  ASSUME Chan!NoBeatOutside
  PROVE  Chan!Spec => Chan!NoRetraction
<1>1. ChanInv /\ [Chan!Next]_Chan!vars
        => [Chan!MValid(lane) /\ received' = received => lane'.out = lane.out]_Chan!vars
  <2> SUFFICES ASSUME ChanInv, Chan!Next, Chan!MValid(lane), received' = received
               PROVE  lane'.out = lane.out
    BY DEF Chan!vars
  <2>1. PICK mReady \in BOOLEAN : Chan!Clock(mReady)
    BY DEF Chan!Next, Chan!Stall, Chan!Drain
  <2>2. received \in Seq(Beat) /\ lane.out \in Beat
    BY DEF ChanInv, Chan!TypeOK, Chan!SkidState, Chan!Slot, Chan!MValid
  <2>3. ~mReady
    <3>1. Append(received, lane.out) # received
      BY <2>2
    <3>2. QED
      BY <2>1, <3>1 DEF Chan!Clock
  <2>4. QED
    BY <2>1, <2>3 DEF Chan!Clock, Chan!Advance, ChanInv, Chan!TypeOK, Chan!SkidState
<1>2. QED
  BY <1>1, ChanInvariance, PTL DEF Chan!Spec, Chan!NoRetraction

\* The skid implements a two-deep FIFO: every clock edge of the channel is a
\* Put, a Take, both, or neither.
THEOREM ImplementsFifo ==
  ASSUME Chan!NoBeatOutside
  PROVE  Chan!Spec => Chan!FifoRefinement
<1>1. Chan!Init => Chan!Fifo!FifoInit
  BY DEF Chan!Init, Chan!Fifo!FifoInit, Chan!Held, Chan!MValid, Chan!EmptySkid
<1>2. ChanInv /\ [Chan!Next]_Chan!vars => [Chan!Fifo!FifoNext]_(Chan!Held(lane))
  <2> SUFFICES ASSUME ChanInv, [Chan!Next]_Chan!vars PROVE Chan!Fifo!FifoNext \/ Chan!Held(lane)' = Chan!Held(lane)
    OBVIOUS
  <2>1. CASE UNCHANGED Chan!vars
    BY <2>1 DEF Chan!vars, Chan!Held, Chan!MValid, Chan!SReady
  <2>2. CASE Chan!Next
    <3>1. PICK mReady \in BOOLEAN : Chan!Clock(mReady)
      BY <2>2 DEF Chan!Next, Chan!Stall, Chan!Drain
    <3>2. /\ lane' = Chan!Advance(lane, offer, mReady)
          /\ Chan!Held(lane)' = Chan!Held(Chan!Advance(lane, offer, mReady))
      BY <3>1 DEF Chan!Clock, Chan!Held, Chan!MValid, Chan!SReady
    <3>3. lane \in Chan!SkidState /\ offer \in Chan!Slot /\ (lane.back # NoBeat => lane.out # NoBeat)
      BY DEF ChanInv, Chan!TypeOK, Chan!NoHiddenBeat
    <3>4. Chan!SReady(lane) => Len(Chan!Held(lane)) < 2
      BY DEF Chan!Held, Chan!SReady
    <3>5. Chan!MValid(lane) => Chan!Held(lane) # << >>
      BY DEF Chan!Held
    <3>6. offer # NoBeat => offer \in Beat
      BY <3>3 DEF Chan!Slot
    <3>7. QED
      BY <3>2, <3>3, <3>4, <3>5, <3>6, AdvanceHeld
      DEF Chan!Fifo!FifoNext, Chan!Fifo!Put, Chan!Fifo!Take, Chan!Fifo!PutAndTake
  <2>3. QED
    BY <2>1, <2>2
<1>3. QED
  BY <1>1, <1>2, ChanInvariance, PTL DEF Chan!Spec, Chan!FifoRefinement, Chan!Fifo!FifoSpec
=============================================================================
