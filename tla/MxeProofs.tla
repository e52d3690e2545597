----------------------------- MODULE MxeProofs -----------------------------
(***************************************************************************)
(* Proofs about Mxe, for arrays, jobs and programs of every size: the      *)
(* engine keeps the contract of its descriptor port, and every result beat *)
(* is exact.                                                               *)
(***************************************************************************)
EXTENDS Mxe, TLAPS, WellFoundedInduction

InJobStates == {"INGEST", "WLOAD", "COMPUTE", "FLUSH", "DRAIN", "WAIT_DONE"}

\* The program is one software can submit, the job in flight is a legal one
\* of it.
JobInv ==
  /\ program \in [1 .. NJobs -> Descs]
  /\ offered \in Nat \ {0}
  /\ state \in InJobStates \cup {"IDLE"}
  /\ state # "IDLE" => job \in 1 .. NJobs /\ Legal(program[job])

\* done is a pulse of the idle state.
PulseInv ==
  /\ done \in BOOLEAN /\ descError \in BOOLEAN
  /\ done \/ descError => state = "IDLE"

InResSkid == (IF resSkid.out = None THEN 0 ELSE 1) + (IF resSkid.back = None THEN 0 ELSE 1)

\* Every result beat the job has sent is either accepted downstream or in the
\* output skid; none is left there when the job ends, and none is sent before
\* the drain.
BeatInv ==
  /\ resSkid.back # None => resSkid.out # None
  /\ sentCnt \in Nat /\ accnCnt \in Nat /\ drainCnt \in Nat
  /\ state = "IDLE" => InResSkid = 0
  /\ state # "IDLE" => accnCnt + InResSkid = sentCnt
  /\ state \in {"INGEST", "WLOAD", "COMPUTE", "FLUSH"} => sentCnt = 0
  /\ state = "DRAIN" => drainCnt = sentCnt /\ sentCnt < MCnt
  /\ state = "WAIT_DONE" => sentCnt = MCnt

IInv == JobInv /\ PulseInv /\ BeatInv

-----------------------------------------------------------------------------
\* The output skid in one clock: a beat offered into it while it is ready is
\* kept, and a beat that leaves it is one the consumer accepted.
LEMMA ResultsStep ==
  ASSUME resSkid.back # None => resSkid.out # None,
         NEW resReady \in BOOLEAN, Results(resReady),
         RValid => job \in 1 .. NJobs
  PROVE  /\ resSkid'.back # None => resSkid'.out # None
         /\ ResAccepted(resReady) => InResSkid # 0
         /\ InResSkid' = (InResSkid + (IF RValid /\ Skid!SReady(resSkid) THEN 1 ELSE 0))
                           - (IF ResAccepted(resReady) THEN 1 ELSE 0)
<1>1. RValid => RBeat # None
  <2> SUFFICES ASSUME RValid, RBeat = None PROVE FALSE
    OBVIOUS
  <2>1. RBeat.job = job /\ None.job = 0
    BY DEF RBeat, None
  <2> QED
    BY <2>1
<1> DEFINE s == IF RValid THEN RBeat ELSE None
<1>2. /\ resSkid' = Skid!Advance(resSkid, s, resReady)
      /\ RValid <=> s # None
  BY <1>1 DEF Results
<1> HIDE DEF s
<1> QED
  BY <1>2 DEF Skid!Advance, Skid!SReady, Skid!MValid, ResAccepted, InResSkid

\* An edge in which a job is in flight or nothing is accepted: the job, its
\* legality and the program stay, and the beats add up.
LEMMA InJobStep ==
  ASSUME IInv, NEW in \in Inputs, NEW swap, InJob(in, swap),
         state' \in InJobStates \cup {"IDLE"}, state = "IDLE" => state' = "IDLE"
  PROVE  /\ JobInv'
         /\ job' = job /\ program' = program /\ MCnt' = MCnt
         /\ descError' = FALSE
         /\ resSkid'.back # None => resSkid'.out # None
         /\ accnCnt' \in Nat
         /\ accnCnt' = accnCnt \/ (accnCnt' = accnCnt + 1 /\ InResSkid # 0)
         /\ accnCnt' + InResSkid'
              = accnCnt + InResSkid + (IF RValid /\ Skid!SReady(resSkid) THEN 1 ELSE 0)
<1>1. job' = job /\ program' = program /\ offered' = offered /\ descError' = FALSE
  BY DEF InJob, Datapath
<1>2. JobInv'
  BY <1>1 DEF IInv, JobInv, InJobStates
<1>3. MCnt' = MCnt
  BY <1>1 DEF MCnt, D
<1>4. in.res \in BOOLEAN /\ Results(in.res) /\ accnCnt \in Nat
  BY DEF InJob, Datapath, Inputs, IInv, BeatInv
<1>5. RValid => job \in 1 .. NJobs
  BY DEF RValid, IInv, JobInv
<1>6. /\ resSkid'.back # None => resSkid'.out # None
      /\ ResAccepted(in.res) => InResSkid # 0
      /\ InResSkid' = (InResSkid + (IF RValid /\ Skid!SReady(resSkid) THEN 1 ELSE 0))
                        - (IF ResAccepted(in.res) THEN 1 ELSE 0)
  BY <1>4, <1>5, ResultsStep DEF IInv, BeatInv
<1>7. accnCnt' = IF ResAccepted(in.res) THEN accnCnt + 1 ELSE accnCnt
  BY DEF InJob, AccnNext
<1>8. InResSkid \in Nat
  BY DEF InResSkid
<1> QED
  BY <1>1, <1>2, <1>3, <1>4, <1>6, <1>7, <1>8

\* The job contract of a step that neither begins nor ends a job.
StaysInJob ==
  /\ state # "IDLE" /\ state' # "IDLE"
  /\ MCnt' = MCnt /\ done' = FALSE /\ descError' = FALSE
  /\ accnCnt' = accnCnt \/ (accnCnt' = accnCnt + 1 /\ accnCnt < MCnt)

\* What a step means to the descriptor port.
PortStep ==
  \/ /\ state = "IDLE" /\ ~done /\ state' # "IDLE"                \* Start
     /\ MCnt' \in 1 .. MTile /\ accnCnt' = 0 /\ done' = FALSE /\ descError' = FALSE
  \/ /\ state = "IDLE" /\ ~done /\ state' = "IDLE"                \* Refuse
     /\ descError' = TRUE /\ done' = FALSE
  \/ /\ state = "IDLE" /\ state' = "IDLE" /\ done' = FALSE /\ descError' = FALSE   \* Rest
  \/ StaysInJob                                                   \* Work
  \/ /\ state # "IDLE" /\ state' = "IDLE" /\ accnCnt = MCnt       \* Finish
     /\ done' = TRUE /\ descError' = FALSE

\* A sum that did not change, one part of which did not change either.
LEMMA NoneSent ==
  \A a, b, x, y \in Nat : x = 0 /\ b = a /\ b + y = a + x + 0 => y = 0
  OBVIOUS

\* The idle engine: nothing is in the output skid and nothing enters it.
LEMMA IdleStep ==
  ASSUME IInv, NEW in \in Inputs, Idle(in)
  PROVE  IInv' /\ PortStep
<1>1. /\ state = "IDLE" /\ state' = "IDLE" /\ done' = FALSE /\ InJob(in, FALSE)
      /\ sentCnt' = sentCnt /\ drainCnt' = drainCnt
  BY DEF Idle, counters
<1>2. /\ JobInv' /\ descError' = FALSE /\ accnCnt' \in Nat
      /\ resSkid'.back # None => resSkid'.out # None
      /\ accnCnt' = accnCnt \/ (accnCnt' = accnCnt + 1 /\ InResSkid # 0)
      /\ accnCnt' + InResSkid'
           = accnCnt + InResSkid + (IF RValid /\ Skid!SReady(resSkid) THEN 1 ELSE 0)
  BY <1>1, InJobStep DEF InJobStates
<1>3. InResSkid = 0 /\ accnCnt \in Nat /\ ~RValid /\ sentCnt \in Nat /\ drainCnt \in Nat
  BY <1>1 DEF IInv, BeatInv, RValid
<1>4. InResSkid' = 0
  <2>1. InResSkid' \in Nat
    BY DEF InResSkid
  <2>2. (IF RValid /\ Skid!SReady(resSkid) THEN 1 ELSE 0) = 0
    BY <1>3
  <2>3. accnCnt' + InResSkid' = accnCnt + InResSkid + 0
    BY <1>2, <2>2
  <2>4. InResSkid \in Nat
    BY <1>3
  <2>5. accnCnt' = accnCnt /\ accnCnt \in Nat /\ accnCnt' \in Nat
    BY <1>2, <1>3
  <2> QED
    BY <1>3, <2>1, <2>3, <2>4, <2>5, NoneSent, Zenon
<1>5. BeatInv'
  BY <1>1, <1>2, <1>3, <1>4 DEF BeatInv
<1> QED
  BY <1>1, <1>2, <1>5 DEF IInv, PulseInv, PortStep

\* A descriptor taken, legal or not: the output skid is empty and stays so.
LEMMA TakeStep ==
  ASSUME IInv, NEW in \in Inputs, Accept(in) \/ Reject(in)
  PROVE  IInv' /\ PortStep
<1>1. /\ state = "IDLE" /\ ~done /\ offered \in 1 .. NJobs /\ program' = program
      /\ Results(in.res) /\ in.res \in BOOLEAN
  <2>1. DescReady /\ offered <= NJobs /\ Datapath(in)
    BY DEF Accept, Reject
  <2>2. offered \in Nat \ {0} /\ NJobs \in Nat
    BY ArrayAssumption DEF IInv, JobInv
  <2>3. in.res \in BOOLEAN
    BY DEF Inputs
  <2> QED
    BY <2>1, <2>2, <2>3 DEF Datapath, DescReady
<1>2. InResSkid = 0 /\ ~RValid /\ sentCnt \in Nat /\ drainCnt \in Nat /\ accnCnt \in Nat
  BY <1>1 DEF IInv, BeatInv, RValid
<1>3. /\ resSkid'.back # None => resSkid'.out # None
      /\ InResSkid' = 0 /\ ~ResAccepted(in.res)
  <2>1. /\ resSkid'.back # None => resSkid'.out # None
        /\ ResAccepted(in.res) => InResSkid # 0
        /\ InResSkid' = (InResSkid + (IF RValid /\ Skid!SReady(resSkid) THEN 1 ELSE 0))
                          - (IF ResAccepted(in.res) THEN 1 ELSE 0)
    BY <1>1, <1>2, ResultsStep DEF IInv, BeatInv
  <2> QED
    BY <1>2, <2>1
<1>4. CASE Accept(in)
  <2>1. /\ Legal(program[offered]) /\ job' = offered /\ offered' = offered + 1
        /\ state' = "INGEST" /\ sentCnt' = 0 /\ accnCnt' = 0 /\ drainCnt' = drainCnt
        /\ done' = FALSE /\ descError' = FALSE
    BY <1>4 DEF Accept
  <2>2. JobInv'
    BY <1>1, <2>1 DEF IInv, JobInv, InJobStates
  <2>3. MCnt' \in 1 .. MTile
    BY <1>1, <2>1 DEF Legal, MCnt, D
  <2>4. BeatInv'
    BY <1>2, <1>3, <2>1 DEF BeatInv
  <2> QED
    BY <1>1, <2>1, <2>2, <2>3, <2>4 DEF IInv, PulseInv, PortStep
<1>5. CASE Reject(in)
  <2>1. /\ job' = job /\ offered' = offered + 1 /\ state' = state
        /\ sentCnt' = sentCnt /\ accnCnt' = AccnNext(in) /\ drainCnt' = drainCnt
        /\ done' = FALSE /\ descError' = TRUE
    BY <1>5 DEF Reject, counters
  <2>2. JobInv'
    BY <1>1, <2>1 DEF IInv, JobInv, InJobStates
  <2>3. accnCnt' \in Nat
    BY <1>2, <1>3, <2>1 DEF AccnNext
  <2>4. BeatInv'
    BY <1>1, <1>2, <1>3, <2>1, <2>3 DEF BeatInv
  <2> QED
    BY <1>1, <2>1, <2>2, <2>4 DEF IInv, PulseInv, PortStep
<1> QED
  BY <1>4, <1>5

\* Before the drain nothing is sent, so nothing is accepted.
LEMMA LoadingStep ==
  ASSUME IInv, NEW in \in Inputs, Ingest(in) \/ Wload(in) \/ Compute(in) \/ Flush(in)
  PROVE  IInv' /\ PortStep
<1>1. /\ state \in {"INGEST", "WLOAD", "COMPUTE", "FLUSH"}
      /\ state' \in {"INGEST", "WLOAD", "COMPUTE", "FLUSH", "DRAIN"}
      /\ state' = "DRAIN" => drainCnt' = 0
      /\ drainCnt' = drainCnt \/ drainCnt' = 0
      /\ sentCnt' = sentCnt /\ done' = FALSE
      /\ \E swap : InJob(in, swap)
  <2>1. CASE Ingest(in)
    BY <2>1 DEF Ingest, EnterCompute
  <2>2. CASE Wload(in)
    BY <2>2 DEF Wload, EnterCompute
  <2>3. CASE Compute(in)
    BY <2>3 DEF Compute
  <2>4. CASE Flush(in)
    BY <2>4 DEF Flush, EnterCompute
  <2> QED
    BY <2>1, <2>2, <2>3, <2>4
<1>2. /\ JobInv' /\ descError' = FALSE /\ accnCnt' \in Nat /\ MCnt' = MCnt
      /\ resSkid'.back # None => resSkid'.out # None
      /\ accnCnt' = accnCnt \/ (accnCnt' = accnCnt + 1 /\ InResSkid # 0)
      /\ accnCnt' + InResSkid'
           = accnCnt + InResSkid + (IF RValid /\ Skid!SReady(resSkid) THEN 1 ELSE 0)
  BY <1>1, InJobStep DEF InJobStates
<1>3. /\ sentCnt = 0 /\ accnCnt \in Nat /\ InResSkid \in Nat /\ drainCnt \in Nat
      /\ accnCnt + InResSkid = 0 /\ ~RValid /\ InResSkid' \in Nat
  BY <1>1 DEF IInv, BeatInv, RValid, InResSkid
<1>4. (IF RValid /\ Skid!SReady(resSkid) THEN 1 ELSE 0) = 0
  BY <1>3
<1>5. accnCnt' = 0 /\ accnCnt = 0 /\ InResSkid' = 0
  BY <1>2, <1>3, <1>4
<1>6. MCnt \in Nat \ {0}
  BY <1>1 DEF IInv, JobInv, Legal, MCnt, D
<1>7. BeatInv'
  BY <1>1, <1>2, <1>3, <1>5, <1>6 DEF BeatInv
<1> QED
  BY <1>1, <1>2, <1>5, <1>7 DEF IInv, PulseInv, PortStep, StaysInJob

\* A result beat is sent only into a ready skid, and never more than m.
LEMMA DrainStep ==
  ASSUME IInv, NEW in \in Inputs, Drain(in)
  PROVE  IInv' /\ PortStep
<1> DEFINE sent == Skid!SReady(resSkid)
<1>1. /\ state = "DRAIN" /\ done' = FALSE /\ InJob(in, FALSE)
      /\ state' \in {"DRAIN", "WAIT_DONE"}
      /\ sent => /\ sentCnt' = sentCnt + 1 /\ drainCnt' = drainCnt + 1
                 /\ state' = IF drainCnt = MCnt - 1 THEN "WAIT_DONE" ELSE "DRAIN"
      /\ ~sent => sentCnt' = sentCnt /\ drainCnt' = drainCnt /\ state' = "DRAIN"
  BY DEF Drain
<1>2. /\ JobInv' /\ descError' = FALSE /\ accnCnt' \in Nat /\ MCnt' = MCnt
      /\ resSkid'.back # None => resSkid'.out # None
      /\ accnCnt' = accnCnt \/ (accnCnt' = accnCnt + 1 /\ InResSkid # 0)
      /\ accnCnt' + InResSkid' = accnCnt + InResSkid + (IF RValid /\ sent THEN 1 ELSE 0)
  BY <1>1, InJobStep DEF InJobStates
<1>3. /\ accnCnt \in Nat /\ InResSkid \in Nat /\ drainCnt \in Nat /\ sentCnt \in Nat
      /\ accnCnt + InResSkid = sentCnt /\ InResSkid' \in Nat /\ RValid
      /\ drainCnt = sentCnt /\ sentCnt < MCnt
  BY <1>1 DEF IInv, BeatInv, RValid, InResSkid
<1>4. MCnt \in Nat \ {0}
  BY <1>1 DEF IInv, JobInv, Legal, MCnt, D
<1> HIDE DEF sent
<1>5. /\ accnCnt' + InResSkid' = sentCnt' /\ sentCnt' \in Nat /\ drainCnt' = sentCnt'
      /\ state' = "DRAIN" => sentCnt' < MCnt
      /\ state' = "WAIT_DONE" => sentCnt' = MCnt
  BY <1>1, <1>2, <1>3, <1>4
<1>6. BeatInv'
  BY <1>1, <1>2, <1>5 DEF BeatInv
<1>7. accnCnt' = accnCnt \/ (accnCnt' = accnCnt + 1 /\ accnCnt < MCnt)
  BY <1>2, <1>3, <1>4
<1> QED
  BY <1>1, <1>2, <1>6, <1>7 DEF IInv, PulseInv, PortStep, StaysInJob

\* The job ends once every beat sent has been accepted.
LEMMA WaitDoneStep ==
  ASSUME IInv, NEW in \in Inputs, WaitDone(in)
  PROVE  IInv' /\ PortStep
<1>1. /\ state = "WAIT_DONE" /\ InJob(in, FALSE)
      /\ done' = (accnCnt = MCnt) /\ state' = IF accnCnt = MCnt THEN "IDLE" ELSE "WAIT_DONE"
      /\ sentCnt' = sentCnt /\ drainCnt' = drainCnt
  BY DEF WaitDone, counters
<1>2. /\ accnCnt \in Nat /\ InResSkid \in Nat /\ drainCnt \in Nat /\ sentCnt \in Nat
      /\ accnCnt + InResSkid = sentCnt /\ InResSkid' \in Nat /\ ~RValid
      /\ sentCnt = MCnt
  BY <1>1 DEF IInv, BeatInv, RValid, InResSkid
<1>3. (IF RValid /\ Skid!SReady(resSkid) THEN 1 ELSE 0) = 0
  BY <1>2
<1>4. /\ JobInv' /\ descError' = FALSE /\ accnCnt' \in Nat /\ MCnt' = MCnt
      /\ resSkid'.back # None => resSkid'.out # None
      /\ accnCnt' = accnCnt \/ (accnCnt' = accnCnt + 1 /\ InResSkid # 0)
      /\ accnCnt' + InResSkid' = accnCnt + InResSkid + 0
  BY <1>1, <1>3, InJobStep DEF InJobStates
<1>5. CASE accnCnt = MCnt
  <2>1. InResSkid = 0
    BY <1>2, <1>5
  <2>4. accnCnt' = accnCnt
    BY <1>4, <2>1
  <2>5. accnCnt' + InResSkid' = accnCnt + InResSkid + 0
    BY <1>4
  <2>2. accnCnt' = accnCnt /\ InResSkid' = 0
    BY <1>2, <1>4, <2>1, <2>4, <2>5, NoneSent, Zenon
  <2>3. BeatInv'
    BY <1>1, <1>2, <1>4, <1>5, <2>2 DEF BeatInv
  <2> QED
    BY <1>1, <1>4, <1>5, <2>3 DEF IInv, PulseInv, PortStep
<1>6. CASE accnCnt # MCnt
  <2>1. BeatInv'
    BY <1>1, <1>2, <1>4, <1>6 DEF BeatInv
  <2>2. accnCnt' = accnCnt \/ (accnCnt' = accnCnt + 1 /\ accnCnt < MCnt)
    BY <1>2, <1>4
  <2> QED
    BY <1>1, <1>4, <1>6, <2>1, <2>2 DEF IInv, PulseInv, PortStep, StaysInJob
<1> QED
  BY <1>5, <1>6

\* A step changes nothing, or keeps the invariant and the port's contract.
LEMMA NextStep ==
  ASSUME IInv, Next
  PROVE  IInv' /\ PortStep
<1>1. PICK in \in Inputs : Step(in)
  BY DEF Next
<1> QED
  BY <1>1, IdleStep, TakeStep, LoadingStep, DrainStep, WaitDoneStep DEF Step

\* The engine's invariant: the job in flight is legal, and every result beat
\* it has sent is accepted downstream or in the output skid.
THEOREM Invariance == Spec => []IInv
<1>1. Init => IInv
  <2> SUFFICES ASSUME Init PROVE IInv
    OBVIOUS
  <2>1. JobInv
    BY DEF Init, JobInv
  <2>3. PulseInv
    BY DEF Init, PulseInv
  <2>2. BeatInv
    BY DEF Init, BeatInv, InResSkid, Skid!EmptySkid
  <2> QED
    BY <2>1, <2>2, <2>3 DEF IInv
<1>2. IInv /\ [Next]_vars => IInv'
  <2>1. IInv /\ Next => IInv'
    BY NextStep
  <2>2. IInv /\ UNCHANGED vars => IInv'
    BY DEF vars, fsm, counters, streams, datapath, IInv, JobInv, PulseInv, BeatInv, InResSkid,
           MCnt, D
  <2> QED
    BY <2>1, <2>2
<1> QED
  BY <1>1, <1>2, PTL DEF Spec

\* The contract of the descriptor port (apex_pkg.sv "job semantics", D-006):
\* one answer for each descriptor, none while a job is offered, and done only
\* once the job's final result beat has been accepted past the output skid.
THEOREM JobContractHolds == Spec => JobContract
<1>1. Init => Jobs!Init
  BY DEF Init, Jobs!Init
<1>2. IInv /\ [Next]_vars => [Jobs!Next]_(Jobs!vars)
  <2> SUFFICES ASSUME IInv, [Next]_vars PROVE [Jobs!Next]_(Jobs!vars)
    OBVIOUS
  <2>1. CASE UNCHANGED vars
    BY <2>1 DEF vars, fsm, streams, datapath, Jobs!vars, MCnt, D
  <2>2. CASE Next
    <3>1. PortStep
      BY <2>2, NextStep
    <3>2. state # "IDLE" => MCnt \in Nat /\ accnCnt \in Nat
      BY DEF IInv, JobInv, BeatInv, Legal, MCnt, D
    <3> QED
      BY <3>1, <3>2
      DEF PortStep, StaysInJob, Jobs!Next, Jobs!Start, Jobs!Refuse, Jobs!Rest, Jobs!Work, Jobs!Finish, Jobs!Ready
  <2> QED
    BY <2>1, <2>2
<1> QED
  BY <1>1, <1>2, Invariance, PTL DEF Spec, JobContract, Jobs!Spec

-----------------------------------------------------------------------------
(* The data.  What follows is about the products themselves: where each of   *)
(* them is in every cycle of a job, whatever the producers and the consumer  *)
(* do, so that the beats of the drain are exact.                             *)

\* The beat of row k of A in pass p of job j, the weight of an element, and
\* the sum that has come down column c to row r of the array.
BeatAt(d, j, p, k) == IF k \in 0 .. d.m - 1 THEN [job |-> j, m |-> k, p |-> p] ELSE None
WeightAt(d, j, p, r, c) == IF Masked(d, p, r, c) THEN None ELSE [job |-> j, p |-> p, c |-> c]
SumAt(d, j, p, k, r, c) ==
  IF k \in 0 .. d.m - 1
  THEN {[act |-> [job |-> j, m |-> k, p |-> p], wgt |-> [job |-> j, p |-> p, c |-> c], row |-> q] :
          q \in {q \in 0 .. r : ~Masked(d, p, q, c)}}
  ELSE {}

\* What accumulator m of column c holds once q passes of job j are in it.
AccAt(prog, j, q, m, c) ==
  IF m < prog[j].m
  THEN (IF q > 0 /\ Clears(prog[j]) THEN {} ELSE Resident(prog, j - 1, m, c))
         \cup UNION {ChunkDot(prog[j], j, p, m, c) : p \in 0 .. q - 1}
  ELSE Resident(prog, j - 1, m, c)

\* The array t cycles into pass p of job j: row k of A, injected in cycle k + 1,
\* is r + c elements in, its sum with it, and leaves column c for the
\* accumulators MXE_N + c cycles later, where the tag of its cycle meets it.
Pipe(a, d, j, p, t) ==
  /\ \A r \in Lane : \A i \in 0 .. r - 1 : a.skew[r][i] = BeatAt(d, j, p, t - 2 - i)
  /\ \A r, c \in Lane : a.act[r][c] = BeatAt(d, j, p, t - 2 - r - c)
  /\ \A r, c \in Lane : a.psum[r][c] = SumAt(d, j, p, t - 2 - r - c, r, c)
  /\ \A i \in 0 .. TagDepth - 1 :
       /\ a.tags[i].valid = (t - 2 - i \in 0 .. d.m - 1)
       /\ a.tags[i].valid => /\ a.tags[i].row = t - 2 - i
                             /\ a.tags[i].clear = (Clears(d) /\ p = 0)

\* Nothing in flight.
Quiet(a) ==
  /\ \A r \in Lane : \A i \in 0 .. r - 1 : a.skew[r][i] = None
  /\ \A r, c \in Lane : a.act[r][c] = None
  /\ \A r, c \in Lane : a.psum[r][c] = {}
  /\ \A i \in 0 .. TagDepth - 1 : a.tags[i].valid = FALSE

\* The accumulators t cycles into pass p of job j: row m is in column c's once
\* its sum has left the column.
Accs(a, prog, j, p, t) ==
  \A c \in Lane : \A m \in Row :
    a.acc[c][m] = AccAt(prog, j, IF m < t - 1 - MxeN - c THEN p + 1 ELSE p, m, c)

\* The accumulators between jobs.
Settled(a, prog, j) == \A c \in Lane : \A m \in Row : a.acc[c][m] = Resident(prog, j, m, c)

Shape(a) ==
  /\ a = [skew |-> a.skew, act |-> a.act, psum |-> a.psum, bank |-> a.bank,
          tags |-> a.tags, acc |-> a.acc]
  /\ a.bank = [b \in {0, 1} |-> a.bank[b]]
  /\ \A c \in Lane : a.acc[c] = [m \in Row |-> a.acc[c][m]]

\* What a bank holds: all the columns of a chunk, or its first n ones, shifted
\* in from the right.
Holds(bank, d, j, p) == \A r, c \in Lane : bank[r][c] = WeightAt(d, j, p, r, c)
HoldsFirst(bank, d, j, p, n) ==
  \A r, c \in Lane : c >= MxeN - n => bank[r][c] = WeightAt(d, j, p, r, c - (MxeN - n))

-----------------------------------------------------------------------------
Streaming == state \in {"COMPUTE", "FLUSH"}
Loading == state \in {"INGEST", "WLOAD", "COMPUTE", "FLUSH"}

\* The cycles of a pass: compute, then flush.
T == IF state = "COMPUTE" THEN compCyc ELSE MCnt + 1 + flushCnt

ArrayInv ==
  /\ Shape(array)
  /\ IF Streaming THEN Pipe(array, D, job, passQ, T) ELSE Quiet(array)
  /\ IF Loading THEN Accs(array, program, job, passQ, IF Streaming THEN T ELSE 0)
                ELSE Settled(array, program, job)

\* The passes of a job in flight, and the reads of one.
PassInv ==
  /\ passQ \in Nat /\ compCyc \in Nat /\ flushCnt \in Nat /\ ingCnt \in Nat /\ rdAddr \in Nat
  /\ state # "IDLE" => passQ < KbCnt
  /\ state = "INGEST" => passQ = 0
  /\ state = "COMPUTE" => compCyc <= MCnt
  /\ state = "FLUSH" => flushCnt < FlushCycles
  /\ state = "COMPUTE" /\ compCyc < MCnt => rdAddr = compCyc * KbCnt + passQ
InjectInv ==
  /\ injValid \in BOOLEAN
  /\ Streaming => injValid = (T - 1 \in 0 .. MCnt - 1)
  /\ Streaming /\ injValid => rdata = BeatAt(D, job, passQ, T - 1) /\ injRow = T - 1

\* The buffer: the beat of row m, chunk p of A is at m * KbCnt + p.
BufInv ==
  /\ abuf = [i \in 0 .. MTile * KbMax - 1 |-> abuf[i]]
  /\ state = "INGEST" => ingCnt < MCnt * KbCnt
  /\ state # "IDLE" =>
       \A m \in 0 .. MCnt - 1, p \in 0 .. KbCnt - 1 :
         (state = "INGEST" => m * KbCnt + p < ingCnt)
           => abuf[m * KbCnt + p] = [job |-> job, m |-> m, p |-> p]

\* The next chunk to enter the array; the loader has gone past it when the
\* shadow bank is full.
NextPass == IF Streaming THEN passQ + 1 ELSE passQ
Shadow == IF shValid THEN 1 ELSE 0

\* The loader runs one chunk ahead of the passes, and what the banks hold.
LoaderInv ==
  /\ wlCnt \in Lane /\ lpass \in Nat /\ liveQ \in {0, 1} /\ shValid \in BOOLEAN
  /\ Loading => /\ lpass = NextPass + Shadow
                /\ lpass <= KbCnt
                /\ shValid => wlCnt = 0
BankInv ==
  /\ Streaming => Holds(array.bank[liveQ], D, job, passQ)
  /\ Loading /\ shValid => Holds(array.bank[1 - liveQ], D, job, lpass - 1)
  /\ Loading /\ ~shValid /\ lpass < KbCnt =>
       HoldsFirst(array.bank[1 - liveQ], D, job, lpass, wlCnt)

-----------------------------------------------------------------------------
\* j is the first legal job from there on, or past the last of the program.
IsNext(prog, from, j) ==
  /\ j \in from .. NJobs + 1
  /\ j \in 1 .. NJobs => Legal(prog[j])
  /\ \A i \in from .. j - 1 : ~Legal(prog[i])

FirstAct(j) == [job |-> j, m |-> 0, p |-> 0]
FirstWgt(j) == [job |-> j, p |-> 0, c |-> 0]

\* A beat of a legal job, or the first of the job past the last.
IsAct(prog, b) ==
  \/ b = FirstAct(NJobs + 1)
  \/ \E j \in 1 .. NJobs : /\ Legal(prog[j])
                           /\ \E m \in 0 .. prog[j].m - 1, p \in 0 .. Chunks(prog[j]) - 1 :
                                b = [job |-> j, m |-> m, p |-> p]
IsWgt(prog, b) ==
  \/ b = FirstWgt(NJobs + 1)
  \/ \E j \in 1 .. NJobs : /\ Legal(prog[j])
                           /\ \E p \in 0 .. Chunks(prog[j]) - 1, c \in 0 .. prog[j].n - 1 :
                                b = [job |-> j, p |-> p, c |-> c]

\* b2 is the beat after b: the next chunk of the row, the next row, the next job;
\* the next column of the chunk, the next chunk, the next job.
ActFollows(prog, b, b2) ==
  LET kb == Chunks(prog[b.job])
  IN  CASE b.p + 1 < kb -> b2 = [job |-> b.job, m |-> b.m, p |-> b.p + 1]
        [] b.p + 1 >= kb /\ b.m + 1 < prog[b.job].m -> b2 = [job |-> b.job, m |-> b.m + 1, p |-> 0]
        [] OTHER -> \E j \in 1 .. NJobs + 1 : IsNext(prog, b.job + 1, j) /\ b2 = FirstAct(j)
WgtFollows(prog, b, b2) ==
  LET kb == Chunks(prog[b.job])
  IN  CASE b.c + 1 < prog[b.job].n -> b2 = [job |-> b.job, p |-> b.p, c |-> b.c + 1]
        [] b.c + 1 >= prog[b.job].n /\ b.p + 1 < kb -> b2 = [job |-> b.job, p |-> b.p + 1, c |-> 0]
        [] OTHER -> \E j \in 1 .. NJobs + 1 : IsNext(prog, b.job + 1, j) /\ b2 = FirstWgt(j)

\* The beats of a stream, in its skid and at its producer, are consecutive.
ActLine(prog, s, next) ==
  /\ s.back # None => s.out # None
  /\ IsAct(prog, next)
  /\ s.out # None => IsAct(prog, s.out) /\ s.out.job <= NJobs
  /\ s.back # None => IsAct(prog, s.back) /\ s.back.job <= NJobs
  /\ s.out # None /\ s.back = None => ActFollows(prog, s.out, next)
  /\ s.back # None => ActFollows(prog, s.out, s.back) /\ ActFollows(prog, s.back, next)
WgtLine(prog, s, next) ==
  /\ s.back # None => s.out # None
  /\ IsWgt(prog, next)
  /\ s.out # None => IsWgt(prog, s.out) /\ s.out.job <= NJobs
  /\ s.back # None => IsWgt(prog, s.back) /\ s.back.job <= NJobs
  /\ s.out # None /\ s.back = None => WgtFollows(prog, s.out, next)
  /\ s.back # None => WgtFollows(prog, s.out, s.back) /\ WgtFollows(prog, s.back, next)

\* The oldest beat of a stream.
Front(s, next) == IF s.out = None THEN next ELSE s.out

\* The beat the engine takes next: beat number n of job j's tile, and the
\* column wl of chunk lp of its weights, or the first of the chunk after it
\* when the columns left are masked; afterwards the first of the next job's.
ActWant(prog, j, n, b) ==
  LET kb == Chunks(prog[j])
  IN  \E m \in 0 .. prog[j].m - 1, p \in 0 .. kb - 1 :
        b = [job |-> j, m |-> m, p |-> p] /\ m * kb + p = n
WgtWant(prog, j, lp, wl, b) ==
  LET kb == Chunks(prog[j])
  IN  CASE lp < kb /\ wl < prog[j].n -> b = [job |-> j, p |-> lp, c |-> wl]
        [] lp + 1 < kb /\ wl >= prog[j].n -> b = [job |-> j, p |-> lp + 1, c |-> 0]
        [] OTHER -> \E k \in 1 .. NJobs + 1 : IsNext(prog, j + 1, k) /\ b = FirstWgt(k)
ActDue(b) ==
  IF state = "INGEST" THEN ActWant(program, job, ingCnt, b)
  ELSE \E j \in 1 .. NJobs + 1 : IsNext(program, job + 1, j) /\ b = FirstAct(j)
WgtDue(b) ==
  IF Loading THEN WgtWant(program, job, lpass, wlCnt, b)
  ELSE \E j \in 1 .. NJobs + 1 : IsNext(program, job + 1, j) /\ b = FirstWgt(j)
ActInv == ActLine(program, actSkid, actNext) /\ ActDue(Front(actSkid, actNext))
WgtInv == WgtLine(program, wgtSkid, wgtNext) /\ WgtDue(Front(wgtSkid, wgtNext))

\* The jobs between the one in flight and the descriptor offered are illegal.
OrderInv ==
  /\ job \in 0 .. NJobs /\ offered \in job + 1 .. NJobs + 1
  /\ \A i \in job + 1 .. offered - 1 : ~Legal(program[i])

DataInv ==
  /\ OrderInv /\ PassInv /\ InjectInv /\ BufInv /\ LoaderInv /\ ArrayInv /\ BankInv
  /\ ActInv /\ WgtInv /\ ResultExact

-----------------------------------------------------------------------------
\* A legal job fits the array, its accumulators and its buffer.
LEMMA LegalJob ==
  ASSUME NEW d \in Descs, Legal(d)
  PROVE  /\ d.m \in 1 .. MTile /\ d.n \in 1 .. MxeN
         /\ Chunks(d) \in 1 .. KbMax /\ LastRows(d) \in 1 .. MxeN
<1>1. MxeN \in Nat \ {0} /\ KbMax \in Nat \ {0} /\ MTile \in Nat \ {0}
  BY ArrayAssumption
<1>2. d.k \in Nat /\ d.k \in 1 .. KbMax * MxeN /\ d.m \in 1 .. MTile /\ d.n \in 1 .. MxeN
  BY DescAssumption DEF Legal
<1>3. \A k \in Nat, n, b \in Nat \ {0} :
        k \in 1 .. b * n => (k + n - 1) \div n \in 1 .. b
  <2> TAKE k \in Nat, n, b \in Nat \ {0}
  <2> HAVE k \in 1 .. b * n
  <2> DEFINE q == (k + n - 1) \div n
  <2>1. q \in Int /\ n * q <= k + n - 1 /\ k + n - 1 < n * q + n
    OBVIOUS
  <2> HIDE DEF q
  <2>2. q >= 1
    <3> SUFFICES ASSUME q <= 0 PROVE FALSE
      BY <2>1
    <3>1. n * q <= 0
      BY <2>1
    <3> QED
      BY <2>1, <3>1
  <2>3. q <= b
    <3> SUFFICES ASSUME q >= b + 1 PROVE FALSE
      BY <2>1
    <3>1. n * q >= n * (b + 1)
      BY <2>1
    <3>2. n * (b + 1) = b * n + n
      OBVIOUS
    <3>3. b * n \in Int
      OBVIOUS
    <3> QED
      BY <2>1, <3>1, <3>2, <3>3
  <2>4. q \in 1 .. b
    BY <2>1, <2>2, <2>3
  <2> QED
    BY <2>4 DEF q
<1>4. Chunks(d) \in 1 .. KbMax
  BY <1>1, <1>2, <1>3 DEF Chunks
<1>5. LastRows(d) \in 1 .. MxeN
  BY <1>1, <1>2 DEF LastRows
<1> QED
  BY <1>2, <1>4, <1>5

\* The jobs whose products are still in row m after job j.
Standing(prog, j, m) == {i \in 1 .. j : Writes(prog[i], m) /\ Survives(prog, i, j, m)}

\* A job adds its product to what is resident, or replaces it, in the rows it
\* writes; the other rows keep what they had.
LEMMA ResidentStep ==
  ASSUME NEW prog, NEW j \in Nat \ {0}, NEW m, NEW c
  PROVE  Resident(prog, j, m, c) =
           IF Writes(prog[j], m)
           THEN (IF Clears(prog[j]) THEN {} ELSE Resident(prog, j - 1, m, c))
                  \cup Dot(prog[j], j, m, c)
           ELSE Resident(prog, j - 1, m, c)
<1>1. \A i \in 1 .. j : Survives(prog, i, j, m) <=>
         \/ i = j
         \/ /\ i \in 1 .. j - 1 /\ Survives(prog, i, j - 1, m)
            /\ Writes(prog[j], m) => ~Clears(prog[j])
  BY DEF Survives
<1>2. /\ Writes(prog[j], m) => Standing(prog, j, m) =
           (IF Clears(prog[j]) THEN {} ELSE Standing(prog, j - 1, m)) \cup {j}
      /\ ~Writes(prog[j], m) => Standing(prog, j, m) = Standing(prog, j - 1, m)
  BY <1>1 DEF Standing
<1>3. \A i, x : x \in Resident(prog, i, m, c) <=>
                  \E k \in Standing(prog, i, m) : x \in Dot(prog[k], k, m, c)
  BY DEF Resident, Standing
<1>4. CASE Writes(prog[j], m) /\ Clears(prog[j])
  BY <1>2, <1>3, <1>4
<1>5. CASE Writes(prog[j], m) /\ ~Clears(prog[j])
  <2>1. Standing(prog, j, m) = Standing(prog, j - 1, m) \cup {j}
    BY <1>2, <1>5
  <2>2. \A x : x \in Resident(prog, j, m, c) <=>
                 x \in Resident(prog, j - 1, m, c) \/ x \in Dot(prog[j], j, m, c)
    BY <1>3, <2>1
  <2> QED
    BY <1>5, <2>2
<1>6. CASE ~Writes(prog[j], m)
  BY <1>2, <1>6 DEF Resident, Standing
<1> QED
  BY <1>4, <1>5, <1>6

\* An illegal descriptor leaves the accumulators alone.
LEMMA ResidentSkip ==
  ASSUME NEW prog, NEW j \in Nat, NEW o \in Nat, j <= o,
         \A i \in j + 1 .. o : ~Legal(prog[i]), NEW m, NEW c
  PROVE  Resident(prog, o, m, c) = Resident(prog, j, m, c)
<1>1. \A i \in 1 .. o : Writes(prog[i], m) => i \in 1 .. j
  BY DEF Writes
<1>2. \A i \in 1 .. j : Survives(prog, i, o, m) <=> Survives(prog, i, j, m)
  <2> TAKE i \in 1 .. j
  <2>1. \A k \in i + 1 .. o : k \in i + 1 .. j \/ ~Writes(prog[k], m)
    BY DEF Writes
  <2>2. \A k \in i + 1 .. j : k \in i + 1 .. o
    OBVIOUS
  <2> QED
    BY <2>1, <2>2 DEF Survives
<1>3. Standing(prog, o, m) = Standing(prog, j, m)
  BY <1>1, <1>2 DEF Standing
<1> QED
  BY <1>3 DEF Resident, Standing

\* What is resident after job j comes from the jobs up to j.
LEMMA ResidentOlder ==
  ASSUME NEW prog, NEW j \in Nat, NEW m, NEW c
  PROVE  \A x \in Resident(prog, j, m, c) : x.act.job \in 1 .. j
<1>1. \A d, i, p : \A x \in ChunkDot(d, i, p, m, c) : x.act.job = i
  BY DEF ChunkDot
<1>2. \A d, i : \A x \in Dot(d, i, m, c) : x.act.job = i
  BY <1>1 DEF Dot
<1> QED
  BY <1>2 DEF Resident

\* The sum that comes down one row further takes that row's product once.
LEMMA SumStep ==
  ASSUME NEW d, NEW j \in Nat \ {0}, NEW p, NEW k \in Int, NEW r \in Lane, NEW c,
         d.m \in Nat
  PROVE  Plus(IF r = 0 THEN {} ELSE SumAt(d, j, p, k, r - 1, c),
              Product(BeatAt(d, j, p, k), WeightAt(d, j, p, r, c), r))
           = SumAt(d, j, p, k, r, c)
<1> DEFINE act == [job |-> j, m |-> k, p |-> p]
           wgt == [job |-> j, p |-> p, c |-> c]
           one(q) == [act |-> act, wgt |-> wgt, row |-> q]
           above == IF r = 0 THEN {} ELSE SumAt(d, j, p, k, r - 1, c)
           prod == Product(BeatAt(d, j, p, k), WeightAt(d, j, p, r, c), r)
<1>0. r \in Nat
  BY ArrayAssumption DEF Lane
<1>1. act # None /\ wgt # None
  <2>1. act.job = j /\ wgt.job = j /\ None.job = 0
    BY DEF None
  <2> QED
    BY <2>1
<1>2. \A q1, q2 : one(q1) = one(q2) => q1 = q2
  <2>1. \A q : one(q).row = q
    OBVIOUS
  <2> QED
    BY <2>1
<1> HIDE DEF act, wgt
<1>3. CASE k \notin 0 .. d.m - 1
  <2>1. above = {} /\ prod = {} /\ SumAt(d, j, p, k, r, c) = {}
    BY <1>3 DEF SumAt, Product, BeatAt
  <2> QED
    BY <2>1 DEF Plus
<1>4. CASE k \in 0 .. d.m - 1
  <2>1. \A s \in Int : SumAt(d, j, p, k, s, c) = {one(q) : q \in {q \in 0 .. s : ~Masked(d, p, q, c)}}
    BY <1>4 DEF SumAt, act, wgt
  <2>2. above = {one(q) : q \in {q \in 0 .. r - 1 : ~Masked(d, p, q, c)}}
    <3>1. CASE r = 0
      BY <3>1
    <3>2. CASE r # 0
      BY <1>0, <2>1, <3>2
    <3> QED
      BY <3>1, <3>2
  <2>3. prod = IF Masked(d, p, r, c) THEN {} ELSE {one(r)}
    BY <1>1, <1>4 DEF Product, BeatAt, WeightAt, act, wgt
  <2> HIDE DEF one, above, prod
  <2>4. above \cap prod = {}
    <3> SUFFICES ASSUME NEW x \in above, x \in prod PROVE FALSE
      OBVIOUS
    <3>1. PICK q \in 0 .. r - 1 : x = one(q)
      BY <2>2
    <3>2. x = one(r)
      BY <2>3
    <3> QED
      BY <1>0, <3>1, <3>2 DEF one
  <2>5. above \cup prod = {one(q) : q \in {q \in 0 .. r : ~Masked(d, p, q, c)}}
    <3>1. \A q : q \in 0 .. r <=> q \in 0 .. r - 1 \/ q = r
      BY <1>0
    <3> QED
      BY <2>2, <2>3, <3>1
  <2>6. Plus(above, prod) = above \cup prod
    BY <2>4 DEF Plus
  <2>7. SumAt(d, j, p, k, r, c) = {one(q) : q \in {q \in 0 .. r : ~Masked(d, p, q, c)}}
    BY <1>0, <2>1
  <2> QED
    BY <2>5, <2>6, <2>7 DEF above, prod
<1> QED
  BY <1>3, <1>4

\* The controller's inputs to the array in cycle t of a pass.
Injects(beat, tag, d, j, p, t) ==
  /\ beat = BeatAt(d, j, p, t - 1)
  /\ tag.valid = (t - 1 \in 0 .. d.m - 1)
  /\ tag.valid => tag.row = t - 1 /\ tag.clear = (Clears(d) /\ p = 0)

\* One compute cycle moves every beat, every sum and every tag one element on.
LEMMA PipeStep ==
  ASSUME NEW a, NEW d, d.m \in Nat, NEW j \in Nat \ {0}, NEW p, NEW t \in Nat,
         NEW live, NEW beat, NEW tag,
         Pipe(a, d, j, p, t), Injects(beat, tag, d, j, p, t), Holds(a.bank[live], d, j, p)
  PROVE  Pipe(ComputeStep(a, beat, tag, live), d, j, p, t + 1)
<1> DEFINE b == ComputeStep(a, beat, tag, live)
<1>0. MxeN \in Nat \ {0}
  BY ArrayAssumption
<1>1. \A r, c \in Lane : ActIn(a, beat, r, c) = BeatAt(d, j, p, t - 1 - r - c)
  <2> TAKE r \in Lane, c \in Lane
  <2>0. r \in Nat /\ c \in Nat
    BY <1>0 DEF Lane
  <2>1. CASE c = 0 /\ r = 0
    <3>1. t - 1 - r - c = t - 1
      BY <2>1
    <3> QED
      BY <2>1, <3>1 DEF ActIn, ActWest, Injects
  <2>2. CASE c = 0 /\ r # 0
    <3>1. r - 1 \in 0 .. r - 1 /\ t - 2 - (r - 1) = t - 1 - r - c
      BY <2>0, <2>2
    <3>2. a.skew[r][r - 1] = BeatAt(d, j, p, t - 2 - (r - 1))
      BY <3>1 DEF Pipe
    <3> QED
      BY <2>2, <3>1, <3>2 DEF ActIn, ActWest
  <2>3. CASE c # 0
    <3>1. c - 1 \in Lane /\ t - 2 - r - (c - 1) = t - 1 - r - c
      BY <1>0, <2>0, <2>3 DEF Lane
    <3>2. a.act[r][c - 1] = BeatAt(d, j, p, t - 2 - r - (c - 1))
      BY <3>1 DEF Pipe
    <3> QED
      BY <2>3, <3>1, <3>2 DEF ActIn
  <2> QED
    BY <2>1, <2>2, <2>3
<1>2. \A r \in Lane : \A i \in 0 .. r - 1 : b.skew[r][i] = BeatAt(d, j, p, (t + 1) - 2 - i)
  <2> TAKE r \in Lane
  <2> TAKE i \in 0 .. r - 1
  <2>1. b.skew[r][i] = IF i = 0 THEN beat ELSE a.skew[r][i - 1]
    BY DEF ComputeStep
  <2>2. CASE i = 0
    <3>1. (t + 1) - 2 - i = t - 1
      BY <2>2
    <3> QED
      BY <2>1, <2>2, <3>1 DEF Injects
  <2>3. CASE i # 0
    <3>1. r \in Nat
      BY <1>0 DEF Lane
    <3>2. i - 1 \in 0 .. r - 1 /\ (t + 1) - 2 - i = t - 2 - (i - 1)
      BY <2>3, <3>1
    <3>3. a.skew[r][i - 1] = BeatAt(d, j, p, t - 2 - (i - 1))
      BY <3>2 DEF Pipe
    <3> QED
      BY <2>1, <2>3, <3>2, <3>3
  <2> QED
    BY <2>2, <2>3
<1>3. \A r, c \in Lane : b.act[r][c] = BeatAt(d, j, p, (t + 1) - 2 - r - c)
  <2> TAKE r \in Lane, c \in Lane
  <2>1. b.act[r][c] = ActIn(a, beat, r, c)
    BY DEF ComputeStep
  <2>2. (t + 1) - 2 - r - c = t - 1 - r - c
    BY <1>0 DEF Lane
  <2> QED
    BY <1>1, <2>1, <2>2
<1>4. \A r, c \in Lane : b.psum[r][c] = SumAt(d, j, p, (t + 1) - 2 - r - c, r, c)
  <2> TAKE r \in Lane, c \in Lane
  <2> DEFINE k == t - 1 - r - c
  <2>0. r \in Nat /\ c \in Nat
    BY <1>0 DEF Lane
  <2>1. b.psum[r][c] = Plus(PsumIn(a, r, c), Product(ActIn(a, beat, r, c), a.bank[live][r][c], r))
    BY DEF ComputeStep
  <2>2. PsumIn(a, r, c) = IF r = 0 THEN {} ELSE SumAt(d, j, p, k, r - 1, c)
    <3>1. CASE r = 0
      BY <3>1 DEF PsumIn
    <3>2. CASE r # 0
      <4>1. r - 1 \in Lane /\ t - 2 - (r - 1) - c = k
        BY <1>0, <2>0, <3>2 DEF Lane
      <4>2. a.psum[r - 1][c] = SumAt(d, j, p, t - 2 - (r - 1) - c, r - 1, c)
        BY <4>1 DEF Pipe
      <4> QED
        BY <3>2, <4>1, <4>2 DEF PsumIn
    <3> QED
      BY <3>1, <3>2
  <2>3. a.bank[live][r][c] = WeightAt(d, j, p, r, c)
    BY DEF Holds
  <2>4. ActIn(a, beat, r, c) = BeatAt(d, j, p, k)
    BY <1>1
  <2>5. k \in Int /\ (t + 1) - 2 - r - c = k
    BY <2>0
  <2> HIDE DEF k, b
  <2> QED
    BY <2>1, <2>2, <2>3, <2>4, <2>5, SumStep
<1>5. \A i \in 0 .. TagDepth - 1 :
        /\ b.tags[i].valid = ((t + 1) - 2 - i \in 0 .. d.m - 1)
        /\ b.tags[i].valid => /\ b.tags[i].row = (t + 1) - 2 - i
                              /\ b.tags[i].clear = (Clears(d) /\ p = 0)
  <2> TAKE i \in 0 .. TagDepth - 1
  <2>0. TagDepth \in Nat
    BY <1>0 DEF TagDepth
  <2>1. b.tags[i] = IF i = 0 THEN tag ELSE a.tags[i - 1]
    BY DEF ComputeStep
  <2> HIDE DEF b
  <2>2. CASE i = 0
    <3>1. (t + 1) - 2 - i = t - 1
      BY <2>2
    <3> QED
      BY <2>1, <2>2, <3>1 DEF Injects
  <2>3. CASE i # 0
    <3>1. i - 1 \in 0 .. TagDepth - 1 /\ (t + 1) - 2 - i = t - 2 - (i - 1)
      BY <2>0, <2>3
    <3>2. /\ a.tags[i - 1].valid = (t - 2 - (i - 1) \in 0 .. d.m - 1)
          /\ a.tags[i - 1].valid => /\ a.tags[i - 1].row = t - 2 - (i - 1)
                                    /\ a.tags[i - 1].clear = (Clears(d) /\ p = 0)
      BY <3>1 DEF Pipe
    <3> QED
      BY <2>1, <2>3, <3>1, <3>2
  <2> QED
    BY <2>2, <2>3
<1> HIDE DEF b
<1>6. Pipe(b, d, j, p, t + 1)
  BY <1>2, <1>3, <1>4, <1>5, Zenon DEF Pipe
<1> QED
  BY <1>6 DEF b

\* A pass's sum for row m of a column, added to the earlier passes' or put in
\* their place by the first pass of an overwriting job.
LEMMA AccAdd ==
  ASSUME NEW prog, NEW j \in Nat \ {0}, NEW p \in Nat, NEW m \in Row, NEW c,
         prog[j].m \in Nat, m < prog[j].m
  PROVE  AccAt(prog, j, p + 1, m, c) =
           Plus(IF Clears(prog[j]) /\ p = 0 THEN {} ELSE AccAt(prog, j, p, m, c),
                SumAt(prog[j], j, p, m, MxeN - 1, c))
<1> DEFINE base == IF Clears(prog[j]) THEN {} ELSE Resident(prog, j - 1, m, c)
           before == UNION {ChunkDot(prog[j], j, q, m, c) : q \in 0 .. p - 1}
           sum == ChunkDot(prog[j], j, p, m, c)
<1>0. m \in Nat /\ j - 1 \in Nat
  BY ArrayAssumption DEF Row
<1>1. AccAt(prog, j, p + 1, m, c) = base \cup before \cup sum
  <2>1. \A q : q \in 0 .. (p + 1) - 1 <=> q \in 0 .. p - 1 \/ q = p
    OBVIOUS
  <2>2. UNION {ChunkDot(prog[j], j, q, m, c) : q \in 0 .. (p + 1) - 1} = before \cup sum
    BY <2>1
  <2>3. p + 1 > 0
    OBVIOUS
  <2> QED
    BY <2>2, <2>3 DEF AccAt
<1>2. (IF Clears(prog[j]) /\ p = 0 THEN {} ELSE AccAt(prog, j, p, m, c)) = base \cup before
  <2>1. CASE p = 0
    <3>1. before = {}
      BY <2>1
    <3>2. AccAt(prog, j, p, m, c) = Resident(prog, j - 1, m, c) \cup before
      BY <2>1 DEF AccAt
    <3> HIDE DEF before
    <3> QED
      BY <2>1, <3>1, <3>2
  <2>2. CASE p # 0
    BY <2>2 DEF AccAt
  <2> QED
    BY <2>1, <2>2
<1>3. SumAt(prog[j], j, p, m, MxeN - 1, c) = sum
  <2>1. m \in 0 .. prog[j].m - 1
    BY <1>0
  <2> QED
    BY <2>1 DEF SumAt, ChunkDot, Lane
<1>4. (base \cup before) \cap sum = {}
  <2>1. \A q : \A x \in ChunkDot(prog[j], j, q, m, c) : x.act.p = q /\ x.act.job = j
    BY DEF ChunkDot
  <2>2. \A x \in base : x.act.job \in 1 .. j - 1
    BY <1>0, ResidentOlder
  <2>3. \A x \in before : x.act.p \in 0 .. p - 1
    BY <2>1
  <2>4. \A x \in sum : x.act.p = p /\ x.act.job = j
    BY <2>1
  <2> HIDE DEF base, before, sum
  <2> QED
    BY <2>2, <2>3, <2>4
<1> HIDE DEF base, before, sum
<1> QED
  BY <1>1, <1>2, <1>3, <1>4 DEF Plus

\* One compute cycle takes into each column's accumulators the sum that left it.
LEMMA AccsStep ==
  ASSUME NEW a, NEW prog, NEW j \in Nat \ {0}, NEW p \in Nat, NEW t \in Nat,
         NEW live, NEW beat, NEW tag, prog[j].m \in 0 .. MTile,
         Pipe(a, prog[j], j, p, t), Accs(a, prog, j, p, t), Shape(a)
  PROVE  Accs(ComputeStep(a, beat, tag, live), prog, j, p, t + 1)
<1> DEFINE b == ComputeStep(a, beat, tag, live)
<1>0. MxeN \in Nat \ {0} /\ MTile \in Nat \ {0} /\ prog[j].m \in Nat
  BY ArrayAssumption
<1>1. SUFFICES ASSUME NEW c \in Lane, NEW m \in Row
               PROVE  b.acc[c][m] = AccAt(prog, j, IF m < (t + 1) - 1 - MxeN - c THEN p + 1 ELSE p, m, c)
  BY DEF Accs
<1>2. b.acc[c][m] = AccNext(a, c)[m]
  BY DEF ComputeStep
<1> HIDE DEF b
<1> DEFINE k == t - 1 - MxeN - c
           tg == a.tags[MxeN + c - 1]
<1>3. c \in Nat /\ m \in Nat /\ c <= MxeN - 1 /\ m <= MTile - 1
  BY <1>0 DEF Lane, Row
<1>4. /\ tg.valid = (k \in 0 .. prog[j].m - 1)
      /\ tg.valid => tg.row = k /\ tg.clear = (Clears(prog[j]) /\ p = 0)
  <2>1. MxeN + c - 1 \in 0 .. TagDepth - 1 /\ t - 2 - (MxeN + c - 1) = k
    BY <1>0, <1>3 DEF TagDepth
  <2>2. /\ a.tags[MxeN + c - 1].valid = (t - 2 - (MxeN + c - 1) \in 0 .. prog[j].m - 1)
        /\ a.tags[MxeN + c - 1].valid =>
             /\ a.tags[MxeN + c - 1].row = t - 2 - (MxeN + c - 1)
             /\ a.tags[MxeN + c - 1].clear = (Clears(prog[j]) /\ p = 0)
    BY <2>1 DEF Pipe
  <2> QED
    BY <2>1, <2>2
<1>5. a.psum[MxeN - 1][c] = SumAt(prog[j], j, p, k, MxeN - 1, c)
  <2>1. MxeN - 1 \in Lane /\ t - 2 - (MxeN - 1) - c = k
    BY <1>0, <1>3 DEF Lane
  <2>2. a.psum[MxeN - 1][c] = SumAt(prog[j], j, p, t - 2 - (MxeN - 1) - c, MxeN - 1, c)
    BY <2>1 DEF Pipe
  <2> QED
    BY <2>1, <2>2
<1>6. a.acc[c][m] = AccAt(prog, j, IF m < k THEN p + 1 ELSE p, m, c)
  BY DEF Accs
<1>7. k \in Int /\ (t + 1) - 1 - MxeN - c = k + 1
  BY <1>0, <1>3
<1>8. a.acc[c] = [i \in Row |-> a.acc[c][i]]
  BY DEF Shape
<1>9. AccNext(a, c)[m] = IF tg.valid /\ m = tg.row
                         THEN Plus(IF tg.clear THEN {} ELSE a.acc[c][m], a.psum[MxeN - 1][c])
                         ELSE a.acc[c][m]
  BY <1>8 DEF AccNext
<1> HIDE DEF k, tg
<1>10. CASE m = k /\ m < prog[j].m
  <2>1. k \in 0 .. prog[j].m - 1
    BY <1>0, <1>3, <1>10
  <2>2. AccNext(a, c)[m] = Plus(IF Clears(prog[j]) /\ p = 0 THEN {} ELSE AccAt(prog, j, p, m, c),
                                SumAt(prog[j], j, p, m, MxeN - 1, c))
    <3>1. tg.valid /\ m = tg.row /\ tg.clear = (Clears(prog[j]) /\ p = 0)
      BY <1>4, <1>10, <2>1
    <3>2. a.acc[c][m] = AccAt(prog, j, p, m, c)
      BY <1>3, <1>6, <1>10
    <3> QED
      BY <1>5, <1>9, <1>10, <3>1, <3>2
  <2>3. AccNext(a, c)[m] = AccAt(prog, j, p + 1, m, c)
    BY <1>0, <1>10, <2>2, AccAdd
  <2>4. m < k + 1
    BY <1>3, <1>10
  <2> QED
    BY <1>2, <1>7, <2>3, <2>4
<1>11. CASE m = k /\ ~(m < prog[j].m)
  <2>1. \A q \in Nat : AccAt(prog, j, q, m, c) = Resident(prog, j - 1, m, c)
    BY <1>11 DEF AccAt
  <2>2. ~tg.valid
    <3>1. k \notin 0 .. prog[j].m - 1
      BY <1>0, <1>7, <1>11
    <3> QED
      BY <1>4, <3>1
  <2> QED
    BY <1>2, <1>6, <1>7, <1>9, <2>1, <2>2
<1>12. CASE m # k
  <2>1. ~(tg.valid /\ m = tg.row)
    BY <1>4, <1>12
  <2>2. m < k <=> m < k + 1
    BY <1>3, <1>7, <1>12
  <2> QED
    BY <1>2, <1>6, <1>7, <1>9, <2>1, <2>2
<1> QED
  BY <1>10, <1>11, <1>12

\* A compute cycle leaves the banks alone.
LEMMA ShapeStep ==
  ASSUME NEW a, NEW beat, NEW tag, NEW live, Shape(a)
  PROVE  /\ Shape(ComputeStep(a, beat, tag, live))
         /\ ComputeStep(a, beat, tag, live).bank = a.bank
<1> DEFINE b == ComputeStep(a, beat, tag, live)
<1>1. b.bank = a.bank
  BY DEF ComputeStep
<1>2. b = [skew |-> b.skew, act |-> b.act, psum |-> b.psum, bank |-> b.bank,
           tags |-> b.tags, acc |-> b.acc]
  BY DEF ComputeStep
<1>3. \A c \in Lane : AccNext(a, c) = [m \in Row |-> AccNext(a, c)[m]]
  <2> TAKE c \in Lane
  <2>1. a.acc[c] = [m \in Row |-> a.acc[c][m]]
    BY DEF Shape
  <2> QED
    BY <2>1 DEF AccNext
<1>4. \A c \in Lane : b.acc[c] = AccNext(a, c)
  BY DEF ComputeStep
<1> HIDE DEF b
<1>5. b.bank = [i \in {0, 1} |-> b.bank[i]]
  BY <1>1 DEF Shape
<1>6. Shape(b)
  BY <1>2, <1>3, <1>4, <1>5 DEF Shape
<1> QED
  BY <1>1, <1>6 DEF b

\* A column shift touches the bank that is not live and nothing else.
LEMMA LoadFrame ==
  ASSUME NEW a, NEW column, NEW live \in {0, 1}, Shape(a)
  PROVE  /\ Shape(LoadStep(a, column, live))
         /\ LoadStep(a, column, live).skew = a.skew /\ LoadStep(a, column, live).act = a.act
         /\ LoadStep(a, column, live).psum = a.psum /\ LoadStep(a, column, live).tags = a.tags
         /\ LoadStep(a, column, live).acc = a.acc
         /\ LoadStep(a, column, live).bank[live] = a.bank[live]
         /\ \A r, c \in Lane : LoadStep(a, column, live).bank[1 - live][r][c] =
              IF c = MxeN - 1 THEN column[r] ELSE a.bank[1 - live][r][c + 1]
<1> DEFINE b == LoadStep(a, column, live)
           new == [r \in Lane |-> [c \in Lane |->
                     IF c = MxeN - 1 THEN column[r] ELSE a.bank[1 - live][r][c + 1]]]
<1>1. /\ a = [skew |-> a.skew, act |-> a.act, psum |-> a.psum, bank |-> a.bank,
              tags |-> a.tags, acc |-> a.acc]
      /\ a.bank = [i \in {0, 1} |-> a.bank[i]]
  BY DEF Shape
<1>2. b = [a EXCEPT !.bank = [a.bank EXCEPT ![1 - live] = new]]
  BY DEF LoadStep
<1>3. b = [skew |-> a.skew, act |-> a.act, psum |-> a.psum,
           bank |-> [a.bank EXCEPT ![1 - live] = new], tags |-> a.tags, acc |-> a.acc]
  <2> HIDE DEF b, new
  <2> QED
    BY <1>1, <1>2
<1>4. /\ b.bank[1 - live] = new /\ b.bank[live] = a.bank[live]
      /\ b.bank = [i \in {0, 1} |-> b.bank[i]]
  <2> HIDE DEF b, new
  <2>1. b.bank = [a.bank EXCEPT ![1 - live] = new]
    BY <1>3
  <2>2. 1 - live \in {0, 1} /\ 1 - live # live
    OBVIOUS
  <2> QED
    BY <1>1, <2>1, <2>2
<1>5. \A r, c \in Lane : new[r][c] = IF c = MxeN - 1 THEN column[r] ELSE a.bank[1 - live][r][c + 1]
  OBVIOUS
<1> HIDE DEF b, new
<1>6. Shape(b)
  BY <1>3, <1>4 DEF Shape
<1> QED
  BY <1>3, <1>4, <1>5, <1>6 DEF b

-----------------------------------------------------------------------------
\* Before its first cycle a pass has nothing in the array, and nothing is left
\* there 2 * MXE_N + 1 cycles after its last row went in.
LEMMA QuietPipe ==
  ASSUME NEW a, NEW d, d.m \in Nat, NEW j, NEW p, Quiet(a)
  PROVE  Pipe(a, d, j, p, 0)
<1>0. MxeN \in Nat \ {0}
  BY ArrayAssumption
<1>1. \A k \in Int : k < 0 => k \notin 0 .. d.m - 1
  OBVIOUS
<1>2. \A k, r, c : k \notin 0 .. d.m - 1 => BeatAt(d, j, p, k) = None /\ SumAt(d, j, p, k, r, c) = {}
  BY DEF BeatAt, SumAt
<1>3. \A r \in Lane : \A i \in 0 .. r - 1 : a.skew[r][i] = BeatAt(d, j, p, 0 - 2 - i)
  <2> TAKE r \in Lane
  <2> TAKE i \in 0 .. r - 1
  <2>1. 0 - 2 - i \in Int /\ 0 - 2 - i < 0
    BY <1>0 DEF Lane
  <2> QED
    BY <1>1, <1>2, <2>1 DEF Quiet
<1>4. \A r, c \in Lane : /\ a.act[r][c] = BeatAt(d, j, p, 0 - 2 - r - c)
                         /\ a.psum[r][c] = SumAt(d, j, p, 0 - 2 - r - c, r, c)
  <2> TAKE r \in Lane, c \in Lane
  <2>1. 0 - 2 - r - c \in Int /\ 0 - 2 - r - c < 0
    BY <1>0 DEF Lane
  <2> QED
    BY <1>1, <1>2, <2>1 DEF Quiet
<1>5. \A i \in 0 .. TagDepth - 1 :
        a.tags[i].valid = (0 - 2 - i \in 0 .. d.m - 1) /\ ~a.tags[i].valid
  <2> TAKE i \in 0 .. TagDepth - 1
  <2>1. (0 - 2 - i \in 0 .. d.m - 1) = FALSE
    BY <1>0 DEF TagDepth
  <2>2. a.tags[i].valid = FALSE
    BY DEF Quiet
  <2> QED
    BY <2>1, <2>2, Zenon
<1> QED
  BY <1>3, <1>4, <1>5 DEF Pipe

\* After the flush nothing of the pass is in flight.
LEMMA PipeQuiet ==
  ASSUME NEW a, NEW d, d.m \in Nat, NEW j, NEW p, Pipe(a, d, j, p, d.m + 1 + FlushCycles)
  PROVE  Quiet(a)
<1> DEFINE t == d.m + 1 + FlushCycles
<1>0. MxeN \in Nat \ {0} /\ t \in Nat /\ t = d.m + 1 + 2 * MxeN
  BY ArrayAssumption DEF FlushCycles
<1> HIDE DEF t
<1>1. \A k \in Int : k >= d.m => k \notin 0 .. d.m - 1
  OBVIOUS
<1>2. \A k, r, c : k \notin 0 .. d.m - 1 => BeatAt(d, j, p, k) = None /\ SumAt(d, j, p, k, r, c) = {}
  BY DEF BeatAt, SumAt
<1>3. \A r \in Lane : \A i \in 0 .. r - 1 : a.skew[r][i] = None
  <2> TAKE r \in Lane
  <2> TAKE i \in 0 .. r - 1
  <2>1. t - 2 - i \in Int /\ t - 2 - i >= d.m
    BY <1>0 DEF Lane
  <2>2. a.skew[r][i] = BeatAt(d, j, p, t - 2 - i)
    BY DEF Pipe, t
  <2> QED
    BY <1>1, <1>2, <2>1, <2>2
<1>4. \A r, c \in Lane : a.act[r][c] = None /\ a.psum[r][c] = {}
  <2> TAKE r \in Lane, c \in Lane
  <2>1. t - 2 - r - c \in Int /\ t - 2 - r - c >= d.m
    BY <1>0 DEF Lane
  <2>2. /\ a.act[r][c] = BeatAt(d, j, p, t - 2 - r - c)
        /\ a.psum[r][c] = SumAt(d, j, p, t - 2 - r - c, r, c)
    BY DEF Pipe, t
  <2> QED
    BY <1>1, <1>2, <2>1, <2>2
<1>5. \A i \in 0 .. TagDepth - 1 : a.tags[i].valid = FALSE
  <2> TAKE i \in 0 .. TagDepth - 1
  <2>1. t - 2 - i \in Int /\ t - 2 - i >= d.m
    BY <1>0 DEF TagDepth
  <2>2. a.tags[i].valid = (t - 2 - i \in 0 .. d.m - 1)
    BY DEF Pipe, t
  <2>3. (t - 2 - i \in 0 .. d.m - 1) = FALSE
    BY <1>1, <2>1
  <2> QED
    BY <2>2, <2>3, Zenon
<1> QED
  BY <1>3, <1>4, <1>5 DEF Quiet

\* What pass p leaves in the accumulators is what pass p + 1 finds.
LEMMA AccsTurn ==
  ASSUME NEW a, NEW prog, NEW j, NEW p \in Nat, prog[j].m \in 0 .. MTile,
         Accs(a, prog, j, p, prog[j].m + 1 + FlushCycles)
  PROVE  Accs(a, prog, j, p + 1, 0)
<1> DEFINE t == prog[j].m + 1 + FlushCycles
<1>0. MxeN \in Nat \ {0} /\ MTile \in Nat /\ t \in Nat /\ t = prog[j].m + 1 + 2 * MxeN
  BY ArrayAssumption DEF FlushCycles
<1> HIDE DEF t
<1> SUFFICES ASSUME NEW c \in Lane, NEW m \in Row
             PROVE  a.acc[c][m] = AccAt(prog, j, IF m < 0 - 1 - MxeN - c THEN (p + 1) + 1 ELSE p + 1, m, c)
  BY DEF Accs
<1>1. c \in Nat /\ m \in Nat /\ c <= MxeN - 1 /\ prog[j].m \in Nat
  BY <1>0 DEF Lane, Row
<1>2. ~(m < 0 - 1 - MxeN - c)
  BY <1>0, <1>1
<1>3. a.acc[c][m] = AccAt(prog, j, IF m < t - 1 - MxeN - c THEN p + 1 ELSE p, m, c)
  BY DEF Accs, t
<1>4. CASE m < prog[j].m
  <2>1. m < t - 1 - MxeN - c
    BY <1>0, <1>1, <1>4
  <2> QED
    BY <1>2, <1>3, <2>1
<1>5. CASE ~(m < prog[j].m)
  <2>1. \A q : AccAt(prog, j, q, m, c) = Resident(prog, j - 1, m, c)
    BY <1>5 DEF AccAt
  <2> QED
    BY <1>3, <2>1
<1> QED
  BY <1>4, <1>5

\* A job begins on what is resident, and all its passes make what is resident after it.
LEMMA AccsBegin ==
  ASSUME NEW a, NEW prog, NEW j, Settled(a, prog, j - 1)
  PROVE  Accs(a, prog, j, 0, 0)
<1>0. MxeN \in Nat \ {0}
  BY ArrayAssumption
<1> SUFFICES ASSUME NEW c \in Lane, NEW m \in Row
             PROVE  a.acc[c][m] = AccAt(prog, j, IF m < 0 - 1 - MxeN - c THEN 0 + 1 ELSE 0, m, c)
  BY DEF Accs
<1>1. ~(m < 0 - 1 - MxeN - c)
  BY <1>0, ArrayAssumption DEF Lane, Row
<1>2. {ChunkDot(prog[j], j, q, m, c) : q \in 0 .. 0 - 1} = {}
  OBVIOUS
<1>3. AccAt(prog, j, 0, m, c) = Resident(prog, j - 1, m, c)
  <2> DEFINE s == {ChunkDot(prog[j], j, q, m, c) : q \in 0 .. 0 - 1}
  <2>1. s = {}
    BY <1>2
  <2>2. AccAt(prog, j, 0, m, c) = IF m < prog[j].m THEN Resident(prog, j - 1, m, c) \cup UNION s
                                  ELSE Resident(prog, j - 1, m, c)
    BY DEF AccAt
  <2> HIDE DEF s
  <2> QED
    BY <2>1, <2>2
<1> QED
  BY <1>1, <1>3 DEF Settled

\* After its last pass the job's products are resident.
LEMMA AccsEnd ==
  ASSUME NEW a, NEW prog, NEW j \in Nat \ {0}, Legal(prog[j]), Chunks(prog[j]) \in Nat \ {0},
         Accs(a, prog, j, Chunks(prog[j]), 0)
  PROVE  Settled(a, prog, j)
<1>0. MxeN \in Nat \ {0}
  BY ArrayAssumption
<1> SUFFICES ASSUME NEW c \in Lane, NEW m \in Row
             PROVE  a.acc[c][m] = Resident(prog, j, m, c)
  BY DEF Settled
<1> DEFINE kb == Chunks(prog[j])
<1>1. ~(m < 0 - 1 - MxeN - c)
  BY <1>0, ArrayAssumption DEF Lane, Row
<1>2. a.acc[c][m] = AccAt(prog, j, kb, m, c)
  BY <1>1 DEF Accs
<1>3. AccAt(prog, j, kb, m, c) =
        IF m < prog[j].m
        THEN (IF Clears(prog[j]) THEN {} ELSE Resident(prog, j - 1, m, c)) \cup Dot(prog[j], j, m, c)
        ELSE Resident(prog, j - 1, m, c)
  <2>1. kb > 0
    OBVIOUS
  <2> QED
    BY <2>1 DEF AccAt, Dot
<1>4. Writes(prog[j], m) <=> m < prog[j].m
  BY DEF Writes
<1> QED
  BY <1>2, <1>3, <1>4, ResidentStep

\* The job in flight is legal, so its parameters are in range.
LEMMA JobFacts ==
  ASSUME IInv, state # "IDLE"
  PROVE  /\ job \in 1 .. NJobs /\ job \in Nat \ {0} /\ D \in Descs /\ D = program[job] /\ Legal(D)
         /\ MCnt = D.m /\ MCnt \in 1 .. MTile /\ MCnt \in Nat \ {0}
         /\ KbCnt = Chunks(D) /\ KbCnt \in 1 .. KbMax /\ KbCnt \in Nat \ {0}
         /\ D.n \in 1 .. MxeN /\ LastRows(D) \in 1 .. MxeN
<1>1. job \in 1 .. NJobs /\ D \in Descs /\ D = program[job] /\ Legal(D)
  BY DEF IInv, JobInv, D
<1>2. NJobs \in Nat /\ MTile \in Nat /\ KbMax \in Nat
  BY ArrayAssumption
<1> QED
  BY <1>1, <1>2, LegalJob DEF MCnt, KbCnt

\* The cycle of a pass, in the numbers of the array.
LEMMA CycleFacts ==
  ASSUME IInv, PassInv, Streaming
  PROVE  T \in Nat /\ T <= MCnt + FlushCycles
<1> MxeN \in Nat \ {0}
  BY ArrayAssumption
<1> QED
  BY JobFacts DEF Streaming, T, PassInv, FlushCycles

\* What the controller injects in a streaming cycle.
LEMMA InjectFacts ==
  ASSUME IInv, PassInv, InjectInv, Streaming
  PROVE  Injects(Beat, Tag, D, job, passQ, T)
<1>1. state # "IDLE"
  BY DEF Streaming
<1>2. MCnt = D.m /\ MCnt \in Nat /\ T \in Nat
  BY <1>1, JobFacts, CycleFacts
<1>3. injValid = (T - 1 \in 0 .. D.m - 1) /\ injValid \in BOOLEAN
  BY <1>2 DEF InjectInv
<1>4. Beat = BeatAt(D, job, passQ, T - 1)
  <2>1. CASE injValid
    BY <2>1 DEF Beat, InjectInv
  <2>2. CASE ~injValid
    <3>1. T - 1 \notin 0 .. D.m - 1
      BY <1>3, <2>2
    <3> QED
      BY <2>2, <3>1 DEF Beat, BeatAt
  <2> QED
    BY <2>1, <2>2
<1>5. Tag.valid = injValid /\ Tag.clear = (Clears(D) /\ passQ = 0) /\ Tag.row = injRow
  BY DEF Tag
<1>6. injValid => injRow = T - 1
  BY DEF InjectInv
<1> QED
  BY <1>3, <1>4, <1>5, <1>6, Zenon DEF Injects

\* The array in one clock edge: in a pass it moves on by one cycle, outside it
\* stands; the live bank is never touched, the other one by a column shift only.
LEMMA ArrayEdge ==
  ASSUME IInv, PassInv, InjectInv, LoaderInv, BankInv, ArrayInv, Array
  PROVE  /\ Shape(array')
         /\ Streaming => /\ Pipe(array', D, job, passQ, T + 1)
                         /\ Accs(array', program, job, passQ, T + 1)
         /\ ~Streaming => /\ Quiet(array')
                          /\ Loading => Accs(array', program, job, passQ, 0)
         /\ ~Loading => Settled(array', program, job)
         /\ array'.bank[liveQ] = array.bank[liveQ]
         /\ ~WShift => array'.bank[1 - liveQ] = array.bank[1 - liveQ]
         /\ WShift => \A r, c \in Lane : array'.bank[1 - liveQ][r][c] =
              IF c = MxeN - 1 THEN Column[r] ELSE array.bank[1 - liveQ][r][c + 1]
<1> DEFINE b == IF ArrEn THEN ComputeStep(array, Beat, Tag, liveQ) ELSE array
<1>0. liveQ \in {0, 1}
  BY DEF LoaderInv
<1>1. ArrEn <=> Streaming
  BY DEF ArrEn, Streaming
<1>2. /\ Shape(b) /\ b.bank = array.bank
      /\ Streaming => /\ Pipe(b, D, job, passQ, T + 1)
                      /\ Accs(b, program, job, passQ, T + 1)
      /\ ~Streaming => /\ Quiet(b)
                       /\ Loading => Accs(b, program, job, passQ, 0)
      /\ ~Loading => Settled(b, program, job)
  <2>1. CASE Streaming
    <3>1. b = ComputeStep(array, Beat, Tag, liveQ)
      BY <1>1, <2>1
    <3> HIDE DEF b
    <3>2. state # "IDLE" /\ Loading
      BY <2>1 DEF Streaming, Loading
    <3>3. /\ D.m \in Nat /\ D.m \in 0 .. MTile /\ D = program[job] /\ job \in Nat \ {0}
          /\ T \in Nat /\ passQ \in Nat
      BY <2>1, <3>2, JobFacts, CycleFacts DEF PassInv
    <3>4. Injects(Beat, Tag, D, job, passQ, T)
      BY <2>1, InjectFacts
    <3>5. /\ Shape(array) /\ Pipe(array, D, job, passQ, T)
          /\ Accs(array, program, job, passQ, T)
      BY <2>1, <3>2 DEF ArrayInv
    <3>6. Holds(array.bank[liveQ], D, job, passQ)
      BY <2>1 DEF BankInv
    <3>7. Pipe(b, D, job, passQ, T + 1)
      BY <3>1, <3>3, <3>4, <3>5, <3>6, PipeStep
    <3>8. Accs(b, program, job, passQ, T + 1)
      BY <3>1, <3>3, <3>5, AccsStep
    <3>9. Shape(b) /\ b.bank = array.bank
      BY <3>1, <3>5, ShapeStep
    <3> QED
      BY <2>1, <3>2, <3>7, <3>8, <3>9
  <2>2. CASE ~Streaming
    <3>1. b = array
      BY <1>1, <2>2
    <3> QED
      BY <2>2, <3>1 DEF ArrayInv
  <2> QED
    BY <2>1, <2>2
<1>3. array' = IF WShift THEN LoadStep(b, Column, liveQ) ELSE b
  BY DEF Array
<1> HIDE DEF b
<1>4. CASE ~WShift
  BY <1>2, <1>3, <1>4
<1>5. CASE WShift
  <2>1. array' = LoadStep(b, Column, liveQ)
    BY <1>3, <1>5
  <2>2. /\ Shape(array')
        /\ array'.skew = b.skew /\ array'.act = b.act
        /\ array'.psum = b.psum /\ array'.tags = b.tags
        /\ array'.acc = b.acc
        /\ array'.bank[liveQ] = b.bank[liveQ]
        /\ \A r, c \in Lane : array'.bank[1 - liveQ][r][c] =
             IF c = MxeN - 1 THEN Column[r] ELSE b.bank[1 - liveQ][r][c + 1]
    BY <1>0, <1>2, <2>1, LoadFrame
  <2>3. /\ \A d, j, p, t : Pipe(b, d, j, p, t) => Pipe(array', d, j, p, t)
        /\ Quiet(b) => Quiet(array')
        /\ \A g, j, p, t : Accs(b, g, j, p, t) => Accs(array', g, j, p, t)
        /\ \A g, j : Settled(b, g, j) => Settled(array', g, j)
    BY <2>2 DEF Pipe, Quiet, Accs, Settled
  <2> QED
    BY <1>2, <1>5, <2>2, <2>3
<1> QED
  BY <1>4, <1>5

-----------------------------------------------------------------------------
\* A set of numbers that is not empty has a least one.
LEMMA LeastOf ==
  ASSUME NEW S, S \subseteq Nat, S # {}
  PROVE  \E m \in S : \A n \in S : m <= n
<1>1. PICK m \in S : \A n \in S : ~(<<n, m>> \in OpToRel(<, Nat))
  BY NatLessThanWellFounded, WFMin, Zenon
<1>2. \A n \in S : ~(n < m)
  <2> SUFFICES ASSUME NEW n \in S, n < m PROVE <<n, m>> \in OpToRel(<, Nat)
    BY <1>1
  <2> QED
    BY DEF OpToRel
<1> QED
  BY <1>2

\* The choice of FirstLegal is the first legal job, and the only one.
LEMMA FirstLegalIsNext ==
  ASSUME NEW from \in 1 .. NJobs + 1
  PROVE  IsNext(program, from, FirstLegal(from)) /\ FirstLegal(from) \in 1 .. NJobs + 1
<1>0. NJobs \in Nat
  BY ArrayAssumption
<1> DEFINE S == {j \in from .. NJobs : Legal(program[j])}
<1>1. CASE S = {}
  <2>1. FirstLegal(from) = NJobs + 1
    BY <1>1 DEF FirstLegal
  <2> QED
    BY <1>0, <1>1, <2>1 DEF IsNext
<1>2. CASE S # {}
  <2>1. S \subseteq Nat
    BY <1>0
  <2>2. PICK j \in S : \A i \in S : j <= i
    BY <1>2, <2>1, LeastOf
  <2>3. j \in from .. NJobs /\ Legal(program[j]) /\ \A i \in from .. j - 1 : ~Legal(program[i])
    <3>1. \A i \in from .. j - 1 : i \in from .. NJobs /\ ~(j <= i)
      BY <1>0
    <3> QED
      BY <2>2, <3>1
  <2> DEFINE First(k) == Legal(program[k]) /\ \A i \in from .. k - 1 : ~Legal(program[i])
  <2>4. FirstLegal(from) = CHOOSE k \in from .. NJobs : First(k)
    BY <2>3 DEF FirstLegal
  <2>5. \E k \in from .. NJobs : First(k)
    BY <2>3
  <2>6. FirstLegal(from) \in from .. NJobs /\ First(FirstLegal(from))
    <3> HIDE DEF First
    <3> QED
      BY <2>4, <2>5, Zenon
  <2> QED
    BY <1>0, <2>6 DEF IsNext
<1> QED
  BY <1>1, <1>2

\* There is one such job.
LEMMA NextUnique ==
  ASSUME NEW prog, NEW from \in Nat, NEW i, NEW j,
         IsNext(prog, from, i), IsNext(prog, from, j), from # 0
  PROVE  i = j
<1>0. NJobs \in Nat
  BY ArrayAssumption
<1>1. i \in Nat /\ j \in Nat
  BY <1>0 DEF IsNext
<1>2. \A a, b : IsNext(prog, from, a) /\ IsNext(prog, from, b) => ~(a < b)
  <2> SUFFICES ASSUME NEW a, NEW b, IsNext(prog, from, a), IsNext(prog, from, b), a < b PROVE FALSE
    OBVIOUS
  <2>1. a \in 1 .. NJobs /\ a \in from .. b - 1
    BY <1>0 DEF IsNext
  <2> QED
    BY <2>1 DEF IsNext
<1> QED
  BY <1>1, <1>2

\* The beat each producer turns to follows the one it has handed over.
LEMMA ActAfterFollows ==
  ASSUME IInv, NEW b, IsAct(program, b), b.job <= NJobs
  PROVE  ActFollows(program, b, ActAfter(b)) /\ IsAct(program, ActAfter(b))
<1>0. NJobs \in Nat /\ program \in [1 .. NJobs -> Descs]
  BY ArrayAssumption DEF IInv, JobInv
<1>1. PICK j \in 1 .. NJobs : /\ Legal(program[j])
                              /\ \E m \in 0 .. program[j].m - 1, p \in 0 .. Chunks(program[j]) - 1 :
                                   b = [job |-> j, m |-> m, p |-> p]
  <2>1. b # FirstAct(NJobs + 1)
    <3>1. FirstAct(NJobs + 1).job = NJobs + 1
      BY DEF FirstAct
    <3> QED
      BY <1>0, <3>1
  <2> QED
    BY <2>1 DEF IsAct
<1>2. PICK m \in 0 .. program[j].m - 1, p \in 0 .. Chunks(program[j]) - 1 : b = [job |-> j, m |-> m, p |-> p]
  BY <1>1
<1> DEFINE d == program[j]
           kb == Chunks(d)
<1>3. d.m \in Nat \ {0} /\ kb \in Nat \ {0}
  <2>1. d \in Descs /\ MTile \in Nat /\ KbMax \in Nat
    BY <1>0, ArrayAssumption
  <2> QED
    BY <1>1, <2>1, LegalJob
<1>4. b.job = j /\ b.m = m /\ b.p = p /\ m \in Nat /\ p \in Nat /\ m < d.m /\ p < kb
  BY <1>2, <1>3
<1> HIDE DEF kb
<1>5. CASE p + 1 < kb
  <2>1. ActAfter(b) = [job |-> j, m |-> m, p |-> p + 1]
    <3>1. ActAfter(b) = [b EXCEPT !.p = b.p + 1]
      BY <1>4, <1>5 DEF ActAfter, kb
    <3> QED
      BY <1>2, <1>4, <3>1
  <2>2. p + 1 \in 0 .. kb - 1
    BY <1>3, <1>4, <1>5
  <2>3. ActFollows(program, b, ActAfter(b))
    BY <1>3, <1>4, <1>5, <2>1 DEF ActFollows, kb
  <2> QED
    BY <1>1, <2>1, <2>2, <2>3 DEF IsAct, kb
<1>6. CASE p + 1 = kb /\ m + 1 < d.m
  <2>1. ActAfter(b) = [job |-> j, m |-> m + 1, p |-> 0]
    <3>1. ActAfter(b) = [b EXCEPT !.p = 0, !.m = b.m + 1]
      BY <1>3, <1>4, <1>6 DEF ActAfter, kb
    <3> QED
      BY <1>2, <1>4, <3>1
  <2>2. m + 1 \in 0 .. d.m - 1 /\ 0 \in 0 .. kb - 1
    BY <1>3, <1>4, <1>6
  <2>3. ActFollows(program, b, ActAfter(b))
    BY <1>3, <1>4, <1>6, <2>1 DEF ActFollows, kb
  <2> QED
    BY <1>1, <2>1, <2>2, <2>3 DEF IsAct, kb
<1>7. CASE p + 1 = kb /\ m + 1 = d.m
  <2>1. ActAfter(b) = FirstAct(FirstLegal(j + 1))
    BY <1>3, <1>4, <1>7 DEF ActAfter, FirstAct, kb
  <2> DEFINE n == FirstLegal(j + 1)
  <2>2. IsNext(program, j + 1, n) /\ n \in 1 .. NJobs + 1
    BY <1>0, FirstLegalIsNext
  <2> HIDE DEF n
  <2>3. ActFollows(program, b, ActAfter(b))
    BY <1>3, <1>4, <1>7, <2>1, <2>2 DEF ActFollows, kb, n
  <2>4. IsAct(program, FirstAct(n))
    <3>1. CASE n = NJobs + 1
      BY <3>1 DEF IsAct
    <3>2. CASE n \in 1 .. NJobs
      <4>1. Legal(program[n]) /\ program[n] \in Descs /\ MTile \in Nat /\ KbMax \in Nat
        BY <1>0, <2>2, <3>2, ArrayAssumption DEF IsNext
      <4>2. 0 \in 0 .. program[n].m - 1 /\ 0 \in 0 .. Chunks(program[n]) - 1
        BY <4>1, LegalJob
      <4> QED
        BY <3>2, <4>1, <4>2 DEF IsAct, FirstAct
    <3> QED
      BY <1>0, <2>2, <3>1, <3>2
  <2> QED
    BY <2>1, <2>3, <2>4 DEF n
<1> QED
  BY <1>3, <1>4, <1>5, <1>6, <1>7

\* The weight producer delivers them in the controller's order too.
LEMMA WgtAfterFollows ==
  ASSUME IInv, NEW b, IsWgt(program, b), b.job <= NJobs
  PROVE  WgtFollows(program, b, WgtAfter(b)) /\ IsWgt(program, WgtAfter(b))
<1>0. NJobs \in Nat /\ program \in [1 .. NJobs -> Descs]
  BY ArrayAssumption DEF IInv, JobInv
<1>1. PICK j \in 1 .. NJobs : /\ Legal(program[j])
                              /\ \E p \in 0 .. Chunks(program[j]) - 1, c \in 0 .. program[j].n - 1 :
                                   b = [job |-> j, p |-> p, c |-> c]
  <2>1. b # FirstWgt(NJobs + 1)
    <3>1. FirstWgt(NJobs + 1).job = NJobs + 1
      BY DEF FirstWgt
    <3> QED
      BY <1>0, <3>1
  <2> QED
    BY <2>1 DEF IsWgt
<1>2. PICK p \in 0 .. Chunks(program[j]) - 1, c \in 0 .. program[j].n - 1 : b = [job |-> j, p |-> p, c |-> c]
  BY <1>1
<1> DEFINE d == program[j]
           kb == Chunks(d)
<1>3. d.n \in Nat \ {0} /\ kb \in Nat \ {0}
  <2>1. d \in Descs /\ MxeN \in Nat /\ KbMax \in Nat
    BY <1>0, ArrayAssumption
  <2> QED
    BY <1>1, <2>1, LegalJob
<1>4. b.job = j /\ b.c = c /\ b.p = p /\ c \in Nat /\ p \in Nat /\ c < d.n /\ p < kb
  BY <1>2, <1>3
<1> HIDE DEF kb
<1>5. CASE c + 1 < d.n
  <2>1. WgtAfter(b) = [job |-> j, p |-> p, c |-> c + 1]
    <3>1. WgtAfter(b) = [b EXCEPT !.c = b.c + 1]
      BY <1>4, <1>5 DEF WgtAfter, kb
    <3> QED
      BY <1>2, <1>4, <3>1
  <2>2. c + 1 \in 0 .. d.n - 1
    BY <1>3, <1>4, <1>5
  <2>3. WgtFollows(program, b, WgtAfter(b))
    BY <1>3, <1>4, <1>5, <2>1 DEF WgtFollows, kb
  <2> QED
    BY <1>1, <2>1, <2>2, <2>3 DEF IsWgt, kb
<1>6. CASE c + 1 = d.n /\ p + 1 < kb
  <2>1. WgtAfter(b) = [job |-> j, p |-> p + 1, c |-> 0]
    <3>1. WgtAfter(b) = [b EXCEPT !.c = 0, !.p = b.p + 1]
      BY <1>3, <1>4, <1>6 DEF WgtAfter, kb
    <3> QED
      BY <1>2, <1>4, <3>1
  <2>2. p + 1 \in 0 .. kb - 1 /\ 0 \in 0 .. d.n - 1
    BY <1>3, <1>4, <1>6
  <2>3. WgtFollows(program, b, WgtAfter(b))
    BY <1>3, <1>4, <1>6, <2>1 DEF WgtFollows, kb
  <2> QED
    BY <1>1, <2>1, <2>2, <2>3 DEF IsWgt, kb
<1>7. CASE c + 1 = d.n /\ p + 1 = kb
  <2>1. WgtAfter(b) = FirstWgt(FirstLegal(j + 1))
    BY <1>3, <1>4, <1>7 DEF WgtAfter, FirstWgt, kb
  <2> DEFINE n == FirstLegal(j + 1)
  <2>2. IsNext(program, j + 1, n) /\ n \in 1 .. NJobs + 1
    BY <1>0, FirstLegalIsNext
  <2> HIDE DEF n
  <2>3. WgtFollows(program, b, WgtAfter(b))
    BY <1>3, <1>4, <1>7, <2>1, <2>2 DEF WgtFollows, kb, n
  <2>4. IsWgt(program, FirstWgt(n))
    <3>1. CASE n = NJobs + 1
      BY <3>1 DEF IsWgt
    <3>2. CASE n \in 1 .. NJobs
      <4>1. Legal(program[n]) /\ program[n] \in Descs /\ MxeN \in Nat /\ KbMax \in Nat
        BY <1>0, <2>2, <3>2, ArrayAssumption DEF IsNext
      <4>2. 0 \in 0 .. program[n].n - 1 /\ 0 \in 0 .. Chunks(program[n]) - 1
        BY <4>1, LegalJob
      <4> QED
        BY <3>2, <4>1, <4>2 DEF IsWgt, FirstWgt
    <3> QED
      BY <1>0, <2>2, <3>1, <3>2
  <2> QED
    BY <2>1, <2>3, <2>4 DEF n
<1> QED
  BY <1>3, <1>4, <1>5, <1>6, <1>7

\* A column is shifted in only while a chunk is being loaded, and it is the
\* column due: its beat is at the head of the stream, or it is masked.
LEMMA ColumnFacts ==
  ASSUME IInv, LoaderInv, WgtInv, WShift
  PROVE  /\ Loading /\ state # "IDLE" /\ ~shValid /\ lpass < KbCnt
         /\ \A r \in Lane : Column[r] = WeightAt(D, job, lpass, r, wlCnt)
<1>1. Loading /\ state # "IDLE" /\ ~shValid /\ lpass < KbCnt
  BY DEF WShift, LdrRun, Loading
<1>2. /\ KbCnt = Chunks(D) /\ KbCnt \in Nat \ {0} /\ D.n \in Nat /\ LastRows(D) \in Nat
      /\ lpass \in Nat /\ wlCnt \in Nat /\ MxeN \in Nat
  <2>1. MxeN \in Nat
    BY ArrayAssumption
  <2> QED
    BY <1>1, <2>1, JobFacts DEF LoaderInv, Lane
<1>3. wlCnt < D.n => wgtSkid.out = [job |-> job, p |-> lpass, c |-> wlCnt]
  <2> SUFFICES ASSUME wlCnt < D.n PROVE wgtSkid.out = [job |-> job, p |-> lpass, c |-> wlCnt]
    OBVIOUS
  <2>1. wgtSkid.out # None
    BY DEF WShift, Skid!MValid
  <2>2. Front(wgtSkid, wgtNext) = [job |-> job, p |-> lpass, c |-> wlCnt]
    <3>1. WgtDue(Front(wgtSkid, wgtNext))
      BY DEF WgtInv
    <3>2. ~(wlCnt >= D.n) /\ Loading /\ lpass < Chunks(program[job]) /\ wlCnt < D.n
      BY <1>1, <1>2 DEF D
    <3> QED
      BY <3>1, <3>2 DEF WgtDue, WgtWant, D
  <2> QED
    BY <2>1, <2>2 DEF Front
<1>4. \A r \in Lane : wlCnt < D.n /\ r < RowsValid <=> ~Masked(D, lpass, r, wlCnt)
  <2> TAKE r \in Lane
  <2>1. r \in Nat /\ r < MxeN
    BY <1>2 DEF Lane
  <2> QED
    BY <1>1, <1>2, <2>1 DEF Masked, RowsValid
<1>5. \A r \in Lane : Column[r] = WeightAt(D, job, lpass, r, wlCnt)
  <2> TAKE r \in Lane
  <2>1. Column[r] = IF wlCnt < D.n /\ r < RowsValid THEN wgtSkid.out ELSE None
    BY DEF Column
  <2>2. CASE Masked(D, lpass, r, wlCnt)
    BY <1>4, <2>1, <2>2 DEF WeightAt
  <2>3. CASE ~Masked(D, lpass, r, wlCnt)
    BY <1>3, <1>4, <2>1, <2>3 DEF WeightAt
  <2> QED
    BY <2>2, <2>3
<1> QED
  BY <1>1, <1>5

\* What a column shift does to the bank being loaded.
LEMMA ShiftIn ==
  ASSUME NEW bank, NEW bank2, NEW column, NEW d, NEW j, NEW p, NEW n \in Lane,
         HoldsFirst(bank, d, j, p, n),
         \A r \in Lane : column[r] = WeightAt(d, j, p, r, n),
         \A r, c \in Lane : bank2[r][c] = IF c = MxeN - 1 THEN column[r] ELSE bank[r][c + 1]
  PROVE  /\ HoldsFirst(bank2, d, j, p, n + 1)
         /\ n = MxeN - 1 => Holds(bank2, d, j, p)
<1>0. MxeN \in Nat \ {0} /\ n \in Nat
  BY ArrayAssumption DEF Lane
<1>1. HoldsFirst(bank2, d, j, p, n + 1)
  <2> SUFFICES ASSUME NEW r \in Lane, NEW c \in Lane, c >= MxeN - (n + 1)
               PROVE  bank2[r][c] = WeightAt(d, j, p, r, c - (MxeN - (n + 1)))
    BY DEF HoldsFirst
  <2>0. c \in Nat /\ c <= MxeN - 1
    BY <1>0 DEF Lane
  <2>1. CASE c = MxeN - 1
    <3>1. c - (MxeN - (n + 1)) = n
      BY <1>0, <2>1
    <3>2. bank2[r][c] = WeightAt(d, j, p, r, n)
      BY <2>1
    <3> QED
      BY <3>1, <3>2
  <2>2. CASE c # MxeN - 1
    <3>1. c + 1 \in Lane /\ c + 1 >= MxeN - n /\ (c + 1) - (MxeN - n) = c - (MxeN - (n + 1))
      BY <1>0, <2>0, <2>2 DEF Lane
    <3>2. bank2[r][c] = bank[r][c + 1]
      BY <2>2
    <3>3. bank[r][c + 1] = WeightAt(d, j, p, r, (c + 1) - (MxeN - n))
      BY <3>1 DEF HoldsFirst
    <3> QED
      BY <3>1, <3>2, <3>3
  <2> QED
    BY <2>1, <2>2
<1>2. n = MxeN - 1 => Holds(bank2, d, j, p)
  <2> SUFFICES ASSUME n = MxeN - 1, NEW r \in Lane, NEW c \in Lane
               PROVE  bank2[r][c] = WeightAt(d, j, p, r, c)
    BY DEF Holds
  <2>1. c >= MxeN - (n + 1) /\ c - (MxeN - (n + 1)) = c
    BY <1>0 DEF Lane
  <2>2. bank2[r][c] = WeightAt(d, j, p, r, c - (MxeN - (n + 1)))
    BY <1>1, <2>1 DEF HoldsFirst
  <2> QED
    BY <2>1, <2>2
<1> QED
  BY <1>1, <1>2

\* The banks in one clock edge, as ArrayEdge gives them.
BankEdge ==
  /\ array'.bank[liveQ] = array.bank[liveQ]
  /\ ~WShift => array'.bank[1 - liveQ] = array.bank[1 - liveQ]
  /\ WShift => \A r, c \in Lane : array'.bank[1 - liveQ][r][c] =
       IF c = MxeN - 1 THEN Column[r] ELSE array.bank[1 - liveQ][r][c + 1]

\* The loader in an edge without a swap.
LEMMA LoaderEdge ==
  ASSUME IInv, LoaderInv, BankInv, WgtInv, Loading, Loader(FALSE), BankEdge
  PROVE  /\ wlCnt' \in Lane /\ lpass' \in Nat /\ liveQ' = liveQ /\ shValid' \in BOOLEAN
         /\ lpass' - Shadow' = lpass - Shadow
         /\ lpass' <= KbCnt
         /\ shValid' => wlCnt' = 0 /\ Holds(array'.bank[1 - liveQ], D, job, lpass' - 1)
         /\ ~shValid' /\ lpass' < KbCnt => HoldsFirst(array'.bank[1 - liveQ], D, job, lpass', wlCnt')
<1>0. /\ MxeN \in Nat \ {0} /\ KbCnt \in Nat \ {0} /\ wlCnt \in Lane /\ wlCnt \in Nat /\ lpass \in Nat
      /\ shValid \in BOOLEAN /\ lpass <= KbCnt /\ 0 \in Lane
      /\ shValid => wlCnt = 0
  <2>1. MxeN \in Nat \ {0} /\ state # "IDLE"
    BY ArrayAssumption DEF Loading
  <2> QED
    BY <2>1, JobFacts DEF LoaderInv, Lane
<1>1. CASE ~WShift
  <2>1. wlCnt' = wlCnt /\ lpass' = lpass /\ shValid' = shValid /\ liveQ' = liveQ
    BY <1>0, <1>1 DEF Loader
  <2>2. array'.bank[1 - liveQ] = array.bank[1 - liveQ]
    BY <1>1 DEF BankEdge
  <2> QED
    BY <1>0, <2>1, <2>2 DEF BankInv, Shadow
<1>2. CASE WShift
  <2>1. /\ ~shValid /\ lpass < KbCnt
        /\ \A r \in Lane : Column[r] = WeightAt(D, job, lpass, r, wlCnt)
    BY <1>2, ColumnFacts
  <2>2. HoldsFirst(array.bank[1 - liveQ], D, job, lpass, wlCnt)
    BY <2>1 DEF BankInv
  <2>3. \A r, c \in Lane : array'.bank[1 - liveQ][r][c] =
           IF c = MxeN - 1 THEN Column[r] ELSE array.bank[1 - liveQ][r][c + 1]
    BY <1>2 DEF BankEdge
  <2>4. /\ HoldsFirst(array'.bank[1 - liveQ], D, job, lpass, wlCnt + 1)
        /\ wlCnt = MxeN - 1 => Holds(array'.bank[1 - liveQ], D, job, lpass)
    <3> DEFINE old == array.bank[1 - liveQ]
               new == array'.bank[1 - liveQ]
    <3>1. /\ HoldsFirst(old, D, job, lpass, wlCnt)
          /\ \A r, c \in Lane : new[r][c] = IF c = MxeN - 1 THEN Column[r] ELSE old[r][c + 1]
      BY <2>2, <2>3
    <3> HIDE DEF old, new
    <3>2. /\ HoldsFirst(new, D, job, lpass, wlCnt + 1)
          /\ wlCnt = MxeN - 1 => Holds(new, D, job, lpass)
      BY <1>0, <2>1, <3>1, ShiftIn
    <3> QED
      BY <3>2 DEF new
  <2>5. CASE wlCnt = MxeN - 1
    <3>1. wlCnt' = 0 /\ lpass' = lpass + 1 /\ shValid' = TRUE /\ liveQ' = liveQ
      BY <1>2, <2>5 DEF Loader
    <3>2. lpass' - 1 = lpass
      BY <1>0, <3>1
    <3> QED
      BY <1>0, <2>1, <2>4, <2>5, <3>1, <3>2 DEF Shadow
  <2>6. CASE wlCnt # MxeN - 1
    <3>1. wlCnt' = wlCnt + 1 /\ lpass' = lpass /\ shValid' = FALSE /\ liveQ' = liveQ
      BY <1>2, <2>1, <2>6 DEF Loader
    <3>2. wlCnt' \in Lane
      BY <1>0, <2>6, <3>1 DEF Lane
    <3> QED
      BY <1>0, <2>1, <2>4, <3>1, <3>2 DEF Shadow
  <2> QED
    BY <2>5, <2>6
<1> QED
  BY <1>1, <1>2

\* The loader in an edge with one.
LEMMA SwapEdge ==
  ASSUME IInv, LoaderInv, BankInv, Loading, shValid, Loader(TRUE), BankEdge
  PROVE  /\ wlCnt' = 0 /\ lpass' = lpass /\ liveQ' = 1 - liveQ /\ liveQ' \in {0, 1} /\ shValid' = FALSE
         /\ Holds(array'.bank[1 - liveQ], D, job, lpass - 1)
         /\ HoldsFirst(array'.bank[liveQ], D, job, lpass, 0)
<1>1. ~WShift
  BY DEF WShift, LdrRun
<1>2. wlCnt = 0 /\ liveQ \in {0, 1} /\ Holds(array.bank[1 - liveQ], D, job, lpass - 1)
  BY DEF LoaderInv, BankInv
<1>3. HoldsFirst(array'.bank[liveQ], D, job, lpass, 0)
  <2>1. \A c \in Lane : ~(c >= MxeN - 0)
    BY ArrayAssumption DEF Lane
  <2> QED
    BY <2>1 DEF HoldsFirst
<1>4. wlCnt' = 0 /\ lpass' = lpass /\ liveQ' = 1 - liveQ /\ shValid' = FALSE
  BY <1>1, <1>2 DEF Loader
<1>5. 1 - liveQ \in {0, 1} /\ array'.bank[1 - liveQ] = array.bank[1 - liveQ]
  BY <1>1, <1>2 DEF BankEdge
<1> QED
  BY <1>2, <1>3, <1>4, <1>5

-----------------------------------------------------------------------------
\* The weight stream in one clock edge.
LEMMA WgtStream ==
  ASSUME IInv, LoaderInv, WgtInv, NEW in \in Inputs, Producers(in.act, in.wgt)
  PROVE  /\ WgtLine(program, wgtSkid', wgtNext')
         /\ ~(WShift /\ wlCnt < D.n) => Front(wgtSkid', wgtNext') = Front(wgtSkid, wgtNext)
         /\ WShift /\ wlCnt < D.n =>
              WgtFollows(program, [job |-> job, p |-> lpass, c |-> wlCnt], Front(wgtSkid', wgtNext'))
<1> DEFINE s == wgtSkid
           next == wgtNext
           after == WgtAfter(wgtNext)
           offer == in.wgt
           ready == WReady
           s2 == wgtSkid'
           next2 == wgtNext'
<1>a. /\ WgtLine(program, s, next) /\ offer \in BOOLEAN /\ ready \in BOOLEAN
      /\ offer => next.job <= NJobs
      /\ next.job <= NJobs => WgtFollows(program, next, after) /\ IsWgt(program, after)
  <2>1. WgtLine(program, s, next) /\ offer \in BOOLEAN /\ ready \in BOOLEAN
    BY DEF WgtInv, Inputs, WReady, LdrRun
  <2>2. offer => next.job <= NJobs
    BY DEF Producers
  <2>3. next.job <= NJobs => WgtFollows(program, next, after) /\ IsWgt(program, after)
    BY <2>1, WgtAfterFollows DEF WgtLine
  <2> QED
    BY <2>1, <2>2, <2>3
<1>b. /\ s2 = Skid!Advance(s, IF offer THEN next ELSE None, ready)
      /\ next2 = IF offer /\ Skid!SReady(s) THEN after ELSE next
  BY DEF Producers
<1> HIDE DEF s, next, after, offer, ready, s2, next2
<1> USE <1>a
<1>9. /\ WgtLine(program, s2, next2)
      /\ ~(ready /\ Skid!MValid(s)) => Front(s2, next2) = Front(s, next)
      /\ ready /\ Skid!MValid(s) =>
           Front(s, next) = s.out /\ WgtFollows(program, s.out, Front(s2, next2))
  <2>0. NJobs \in Nat
    BY ArrayAssumption
  <2>1. next # None
    <3>1. next.job # 0
      BY <2>0 DEF WgtLine, IsWgt, FirstWgt
    <3>2. None.job = 0
      BY DEF None
    <3> QED
      BY <3>1, <3>2
  <2> DEFINE x == IF offer THEN next ELSE None
  <2>2. offer <=> x # None
    BY <2>1
  <2>3. s2 = IF ready \/ s.out = None
             THEN IF s.back = None THEN [out |-> x, back |-> None] ELSE [out |-> s.back, back |-> None]
             ELSE IF s.back = None THEN [out |-> s.out, back |-> x] ELSE s
    BY <1>b DEF Skid!Advance, Skid!SReady, Skid!MValid
  <2>4. next2 = IF offer /\ s.back = None THEN after ELSE next
    BY <1>b DEF Skid!SReady
  <2>5. offer => x = next
    OBVIOUS
  <2> HIDE DEF x
  <2>6. CASE s.back # None
    <3>1. s.out # None /\ next2 = next
      BY <2>4, <2>6 DEF WgtLine
    <3>2. CASE ready
      <4>0. s2 = [out |-> s.back, back |-> None]
        BY <2>3, <2>6, <3>2, Zenon
      <4>1. s2.out = s.back /\ s2.back = None
        BY <4>0
      <4>2. /\ IsWgt(program, next) /\ IsWgt(program, s.back) /\ s.back.job <= NJobs
            /\ WgtFollows(program, s.out, s.back) /\ WgtFollows(program, s.back, next)
        BY <2>6 DEF WgtLine
      <4>3. WgtLine(program, s2, next2)
        BY <2>6, <3>1, <4>1, <4>2 DEF WgtLine
      <4>4. Front(s2, next2) = s.back /\ Front(s, next) = s.out
        BY <2>6, <3>1, <4>1 DEF Front
      <4> QED
        BY <3>1, <3>2, <4>2, <4>3, <4>4 DEF Skid!MValid
    <3>3. CASE ~ready
      <4>1. s2 = s
        BY <2>3, <2>6, <3>1, <3>3
      <4> QED
        BY <3>1, <3>3, <4>1
    <3> QED
      BY <3>2, <3>3
  <2>7. CASE s.back = None /\ (ready \/ s.out = None)
    <3>1. s2.out = x /\ s2.back = None
      BY <2>3, <2>7
    <3>2. CASE offer
      <4>1. next2 = after /\ s2.out = next /\ WgtFollows(program, next, after) /\ IsWgt(program, after)
            /\ next.job <= NJobs
        BY <2>4, <2>5, <2>7, <3>1, <3>2
      <4> QED
        BY <2>1, <2>7, <3>1, <4>1 DEF WgtLine, Front, Skid!MValid
    <3>3. CASE ~offer
      <4>1. next2 = next /\ s2.out = None
        BY <2>2, <2>4, <3>1, <3>3
      <4> QED
        BY <2>7, <3>1, <4>1 DEF WgtLine, Front, Skid!MValid
    <3> QED
      BY <3>2, <3>3
  <2>8. CASE s.back = None /\ ~ready /\ s.out # None
    <3>1. s2.out = s.out /\ s2.back = x
      BY <2>3, <2>8
    <3>2. CASE offer
      <4>1. next2 = after /\ s2.back = next /\ WgtFollows(program, next, after) /\ IsWgt(program, after)
            /\ next.job <= NJobs
        BY <2>4, <2>5, <2>8, <3>1, <3>2
      <4> QED
        BY <2>1, <2>8, <3>1, <4>1 DEF WgtLine, Front, Skid!MValid
    <3>3. CASE ~offer
      <4>1. next2 = next /\ s2.back = None
        BY <2>2, <2>4, <3>1, <3>3
      <4> QED
        BY <2>8, <3>1, <4>1 DEF WgtLine, Front, Skid!MValid
    <3> QED
      BY <3>2, <3>3
  <2> QED
    BY <2>6, <2>7, <2>8
<1>10. ready /\ Skid!MValid(s) <=> WShift /\ wlCnt < D.n
  BY DEF WReady, WShift, ready, s
<1>11. ASSUME WShift, wlCnt < D.n
      PROVE  wgtSkid.out = [job |-> job, p |-> lpass, c |-> wlCnt]
  <2>1. Loading /\ lpass < KbCnt /\ state # "IDLE"
    BY <1>11, ColumnFacts
  <2>2. D.n \in Nat /\ wlCnt \in Nat /\ KbCnt = Chunks(program[job]) /\ D = program[job]
    BY <2>1, JobFacts, ArrayAssumption DEF LoaderInv, Lane
  <2>3. WgtWant(program, job, lpass, wlCnt, Front(wgtSkid, wgtNext))
    BY <2>1 DEF WgtInv, WgtDue
  <2>4. ~(wlCnt >= D.n)
    BY <1>11, <2>2
  <2>5. Front(wgtSkid, wgtNext) = [job |-> job, p |-> lpass, c |-> wlCnt]
    BY <1>11, <2>1, <2>2, <2>3, <2>4 DEF WgtWant
  <2>6. Front(s, next) = s.out
    BY <1>9, <1>10, <1>11
  <2> QED
    BY <2>5, <2>6 DEF next, s
<1> QED
  BY <1>9, <1>10, <1>11 DEF next, s, s2, next2

\* What the weight stream owes once the loader has moved.
LEMMA WgtWanted ==
  ASSUME IInv, LoaderInv, WgtInv, Loading, NEW in \in Inputs, Producers(in.act, in.wgt),
         NEW swap \in BOOLEAN, swap => shValid, Loader(swap)
  PROVE  WgtWant(program, job, lpass', wlCnt', Front(wgtSkid', wgtNext'))
<1> DEFINE f == Front(wgtSkid, wgtNext)
           f2 == Front(wgtSkid', wgtNext')
           n == D.n
           kb == KbCnt
<1>0. /\ MxeN \in Nat \ {0} /\ n \in 1 .. MxeN /\ kb \in Nat \ {0} /\ kb = Chunks(program[job])
      /\ n = program[job].n
      /\ wlCnt \in Nat /\ wlCnt <= MxeN - 1 /\ lpass \in Nat /\ job \in Nat \ {0}
  <2>1. state # "IDLE" /\ MxeN \in Nat \ {0}
    BY ArrayAssumption DEF Loading
  <2> QED
    BY <2>1, JobFacts DEF LoaderInv, Lane
<1>1. WgtWant(program, job, lpass, wlCnt, f)
  BY DEF WgtInv, WgtDue
<1>2. /\ ~(WShift /\ wlCnt < n) => f2 = f
      /\ WShift /\ wlCnt < n => WgtFollows(program, [job |-> job, p |-> lpass, c |-> wlCnt], f2)
  BY WgtStream
<1>3. WShift => lpass < kb /\ ~shValid
  BY DEF WShift, LdrRun
<1>4. /\ WShift /\ wlCnt = MxeN - 1 => wlCnt' = 0 /\ lpass' = lpass + 1
      /\ WShift /\ wlCnt # MxeN - 1 => wlCnt' = wlCnt + 1 /\ lpass' = lpass
      /\ ~WShift => wlCnt' = wlCnt /\ lpass' = lpass
  BY DEF Loader
<1> HIDE DEF f, f2, n, kb
<1>5. CASE ~WShift
  BY <1>1, <1>2, <1>4, <1>5 DEF f2
<1>6. CASE WShift /\ ~(wlCnt < n)
  <2>1. f2 = f /\ lpass < kb
    BY <1>2, <1>3, <1>6
  <2>2. CASE lpass + 1 < kb
    <3>1. f = [job |-> job, p |-> lpass + 1, c |-> 0]
      BY <1>0, <1>1, <1>6, <2>2 DEF WgtWant
    <3>2. CASE wlCnt = MxeN - 1
      <4>1. wlCnt' = 0 /\ lpass' = lpass + 1 /\ lpass' < kb /\ wlCnt' < n /\ ~(wlCnt' >= n)
        BY <1>0, <1>4, <1>6, <2>2, <3>2
      <4> QED
        BY <1>0, <2>1, <3>1, <4>1 DEF WgtWant, f2
    <3>3. CASE wlCnt # MxeN - 1
      <4>1. wlCnt' = wlCnt + 1 /\ lpass' = lpass /\ ~(wlCnt' < n) /\ wlCnt' >= n /\ lpass' + 1 < kb
        BY <1>0, <1>4, <1>6, <2>2, <3>3
      <4> QED
        BY <1>0, <2>1, <3>1, <4>1 DEF WgtWant, f2
    <3> QED
      BY <3>2, <3>3
  <2>3. CASE ~(lpass + 1 < kb)
    <3>1. \E k \in 1 .. NJobs + 1 : IsNext(program, job + 1, k) /\ f = FirstWgt(k)
      BY <1>0, <1>1, <1>6, <2>3 DEF WgtWant
    <3>2. ~(lpass' < kb /\ wlCnt' < n) /\ ~(lpass' + 1 < kb /\ wlCnt' >= n)
      BY <1>0, <1>4, <1>6, <2>3
    <3> QED
      BY <1>0, <2>1, <3>1, <3>2 DEF WgtWant, f2
  <2> QED
    BY <2>2, <2>3
<1>7. CASE WShift /\ wlCnt < n
  <2>1. WgtFollows(program, [job |-> job, p |-> lpass, c |-> wlCnt], f2) /\ lpass < kb
    BY <1>2, <1>3, <1>7
  <2>2. CASE wlCnt + 1 < n
    <3>1. f2 = [job |-> job, p |-> lpass, c |-> wlCnt + 1]
      BY <1>0, <2>1, <2>2 DEF WgtFollows
    <3>2. wlCnt' = wlCnt + 1 /\ lpass' = lpass /\ lpass' < kb /\ wlCnt' < n /\ ~(wlCnt' >= n)
      BY <1>0, <1>4, <1>7, <2>1, <2>2
    <3> QED
      BY <1>0, <3>1, <3>2 DEF WgtWant, f2
  <2>3. CASE ~(wlCnt + 1 < n) /\ lpass + 1 < kb
    <3>1. f2 = [job |-> job, p |-> lpass + 1, c |-> 0]
      <4>1. wlCnt + 1 >= n
        BY <1>0, <2>3
      <4> QED
        BY <1>0, <2>1, <2>3, <4>1 DEF WgtFollows
    <3>2. CASE wlCnt = MxeN - 1
      <4>1. wlCnt' = 0 /\ lpass' = lpass + 1 /\ lpass' < kb /\ wlCnt' < n /\ ~(wlCnt' >= n)
        BY <1>0, <1>4, <1>7, <2>3, <3>2
      <4> QED
        BY <1>0, <3>1, <4>1 DEF WgtWant, f2
    <3>3. CASE wlCnt # MxeN - 1
      <4>1. wlCnt' = wlCnt + 1 /\ lpass' = lpass /\ ~(wlCnt' < n) /\ wlCnt' >= n /\ lpass' + 1 < kb
        BY <1>0, <1>4, <1>7, <2>3, <3>3
      <4> QED
        BY <1>0, <3>1, <4>1 DEF WgtWant, f2
    <3> QED
      BY <3>2, <3>3
  <2>4. CASE ~(wlCnt + 1 < n) /\ ~(lpass + 1 < kb)
    <3>1. \E k \in 1 .. NJobs + 1 : IsNext(program, job + 1, k) /\ f2 = FirstWgt(k)
      <4>1. wlCnt + 1 >= n
        BY <1>0, <2>4
      <4> QED
        BY <1>0, <2>1, <2>4, <4>1 DEF WgtFollows
    <3>2. ~(lpass' < kb /\ wlCnt' < n) /\ ~(lpass' + 1 < kb /\ wlCnt' >= n)
      BY <1>0, <1>4, <1>7, <2>1, <2>4
    <3> QED
      BY <1>0, <3>1, <3>2 DEF WgtWant, f2
  <2> QED
    BY <2>2, <2>3, <2>4
<1> QED
  BY <1>5, <1>6, <1>7

\* Row and chunk of a place in the buffer are determined by it.
LEMMA OnePlace ==
  ASSUME NEW kb \in Nat \ {0}, NEW m \in Nat, NEW m2 \in Nat, NEW p \in 0 .. kb - 1, NEW p2 \in 0 .. kb - 1,
         m * kb + p = m2 * kb + p2
  PROVE  m = m2 /\ p = p2
<1>1. \A a, b \in Nat : \A x, y \in 0 .. kb - 1 : a < b => a * kb + x < b * kb + y
  <2> TAKE a \in Nat, b \in Nat
  <2> TAKE x \in 0 .. kb - 1, y \in 0 .. kb - 1
  <2> HAVE a < b
  <2>1. (a + 1) * kb <= b * kb
    OBVIOUS
  <2>2. (a + 1) * kb = a * kb + kb
    OBVIOUS
  <2>3. a * kb \in Nat /\ b * kb \in Nat
    OBVIOUS
  <2> QED
    BY <2>1, <2>2, <2>3
<1>2. ~(m < m2) /\ ~(m2 < m)
  <2>1. m * kb + p \in Int /\ m2 * kb + p2 \in Int
    OBVIOUS
  <2> QED
    BY <1>1, <2>1
<1>3. m = m2
  BY <1>2
<1> QED
  BY <1>3

\* The places of a tile are within it, and within the buffer.
LEMMA InTile ==
  ASSUME NEW kb \in Nat \ {0}, NEW rows \in Nat, NEW m \in 0 .. rows - 1, NEW p \in 0 .. kb - 1
  PROVE  m * kb + p \in Nat /\ m * kb + p < rows * kb
<1>1. (m + 1) * kb <= rows * kb
  OBVIOUS
<1>2. (m + 1) * kb = m * kb + kb
  OBVIOUS
<1>3. m * kb \in Nat /\ rows * kb \in Nat
  OBVIOUS
<1> QED
  BY <1>1, <1>2, <1>3

\* A tile fits in the buffer.
LEMMA InBuffer ==
  ASSUME NEW kb \in 1 .. KbMax, NEW rows \in 1 .. MTile
  PROVE  rows * kb <= MTile * KbMax /\ rows * kb \in Nat \ {0} /\ MTile * KbMax \in Nat \ {0}
<1>0. MTile \in Nat /\ KbMax \in Nat
  BY ArrayAssumption
<1>1. rows * kb <= MTile * kb
  BY <1>0
<1>2. MTile * kb <= MTile * KbMax
  BY <1>0
<1>3. rows * kb \in Int /\ MTile * kb \in Int /\ MTile * KbMax \in Int
  BY <1>0
<1>4. rows * kb >= 1
  BY <1>0
<1> QED
  BY <1>1, <1>2, <1>3, <1>4

\* The activation stream in one clock edge: its beats stay in order, none is
\* lost, and the oldest one leaves when the engine takes it.
LEMMA ActStream ==
  ASSUME IInv, ActInv, NEW in \in Inputs, Producers(in.act, in.wgt)
  PROVE  /\ ActLine(program, actSkid', actNext')
         /\ ~(AReady /\ AValid) => Front(actSkid', actNext') = Front(actSkid, actNext)
         /\ AReady /\ AValid =>
              /\ Front(actSkid, actNext) = actSkid.out
              /\ ActFollows(program, actSkid.out, Front(actSkid', actNext'))
<1> DEFINE s == actSkid
           next == actNext
           after == ActAfter(actNext)
           offer == in.act
           ready == AReady
           s2 == actSkid'
           next2 == actNext'
<1>a. /\ ActLine(program, s, next) /\ offer \in BOOLEAN /\ ready \in BOOLEAN
      /\ offer => next.job <= NJobs
      /\ next.job <= NJobs => ActFollows(program, next, after) /\ IsAct(program, after)
  <2>1. ActLine(program, s, next) /\ offer \in BOOLEAN /\ ready \in BOOLEAN
    BY DEF ActInv, Inputs, AReady
  <2>2. offer => next.job <= NJobs
    BY DEF Producers
  <2>3. next.job <= NJobs => ActFollows(program, next, after) /\ IsAct(program, after)
    BY <2>1, ActAfterFollows DEF ActLine
  <2> QED
    BY <2>1, <2>2, <2>3
<1>b. /\ s2 = Skid!Advance(s, IF offer THEN next ELSE None, ready)
      /\ next2 = IF offer /\ Skid!SReady(s) THEN after ELSE next
  BY DEF Producers
<1> HIDE DEF s, next, after, offer, ready, s2, next2
<1> USE <1>a
<1>9. /\ ActLine(program, s2, next2)
      /\ ~(ready /\ Skid!MValid(s)) => Front(s2, next2) = Front(s, next)
      /\ ready /\ Skid!MValid(s) =>
           Front(s, next) = s.out /\ ActFollows(program, s.out, Front(s2, next2))
  <2>0. NJobs \in Nat
    BY ArrayAssumption
  <2>1. next # None
    <3>1. next.job # 0
      BY <2>0 DEF ActLine, IsAct, FirstAct
    <3>2. None.job = 0
      BY DEF None
    <3> QED
      BY <3>1, <3>2
  <2> DEFINE x == IF offer THEN next ELSE None
  <2>2. offer <=> x # None
    BY <2>1
  <2>3. s2 = IF ready \/ s.out = None
             THEN IF s.back = None THEN [out |-> x, back |-> None] ELSE [out |-> s.back, back |-> None]
             ELSE IF s.back = None THEN [out |-> s.out, back |-> x] ELSE s
    BY <1>b DEF Skid!Advance, Skid!SReady, Skid!MValid
  <2>4. next2 = IF offer /\ s.back = None THEN after ELSE next
    BY <1>b DEF Skid!SReady
  <2>5. offer => x = next
    OBVIOUS
  <2> HIDE DEF x
  <2>6. CASE s.back # None
    <3>1. s.out # None /\ next2 = next
      BY <2>4, <2>6 DEF ActLine
    <3>2. CASE ready
      <4>0. s2 = [out |-> s.back, back |-> None]
        BY <2>3, <2>6, <3>2, Zenon
      <4>1. s2.out = s.back /\ s2.back = None
        BY <4>0
      <4>2. /\ IsAct(program, next) /\ IsAct(program, s.back) /\ s.back.job <= NJobs
            /\ ActFollows(program, s.out, s.back) /\ ActFollows(program, s.back, next)
        BY <2>6 DEF ActLine
      <4>3. ActLine(program, s2, next2)
        BY <2>6, <3>1, <4>1, <4>2 DEF ActLine
      <4>4. Front(s2, next2) = s.back /\ Front(s, next) = s.out
        BY <2>6, <3>1, <4>1 DEF Front
      <4> QED
        BY <3>1, <3>2, <4>2, <4>3, <4>4 DEF Skid!MValid
    <3>3. CASE ~ready
      <4>1. s2 = s
        BY <2>3, <2>6, <3>1, <3>3
      <4> QED
        BY <3>1, <3>3, <4>1
    <3> QED
      BY <3>2, <3>3
  <2>7. CASE s.back = None /\ (ready \/ s.out = None)
    <3>1. s2.out = x /\ s2.back = None
      BY <2>3, <2>7
    <3>2. CASE offer
      <4>1. next2 = after /\ s2.out = next /\ ActFollows(program, next, after) /\ IsAct(program, after)
            /\ next.job <= NJobs
        BY <2>4, <2>5, <2>7, <3>1, <3>2
      <4> QED
        BY <2>1, <2>7, <3>1, <4>1 DEF ActLine, Front, Skid!MValid
    <3>3. CASE ~offer
      <4>1. next2 = next /\ s2.out = None
        BY <2>2, <2>4, <3>1, <3>3
      <4> QED
        BY <2>7, <3>1, <4>1 DEF ActLine, Front, Skid!MValid
    <3> QED
      BY <3>2, <3>3
  <2>8. CASE s.back = None /\ ~ready /\ s.out # None
    <3>1. s2.out = s.out /\ s2.back = x
      BY <2>3, <2>8
    <3>2. CASE offer
      <4>1. next2 = after /\ s2.back = next /\ ActFollows(program, next, after) /\ IsAct(program, after)
            /\ next.job <= NJobs
        BY <2>4, <2>5, <2>8, <3>1, <3>2
      <4> QED
        BY <2>1, <2>8, <3>1, <4>1 DEF ActLine, Front, Skid!MValid
    <3>3. CASE ~offer
      <4>1. next2 = next /\ s2.back = None
        BY <2>2, <2>4, <3>1, <3>3
      <4> QED
        BY <2>8, <3>1, <4>1 DEF ActLine, Front, Skid!MValid
    <3> QED
      BY <3>2, <3>3
  <2> QED
    BY <2>6, <2>7, <2>8
<1> QED
  BY <1>9 DEF AValid, s, next, s2, next2, ready

\* The beat after the n-th of a tile is the next of it, or the next job's first.
LEMMA TileFollows ==
  ASSUME NEW prog, NEW j \in Nat, NEW n \in Nat, NEW b, NEW b2,
         prog[j].m \in Nat \ {0}, Chunks(prog[j]) \in Nat \ {0},
         ActWant(prog, j, n, b), ActFollows(prog, b, b2)
  PROVE  /\ n < prog[j].m * Chunks(prog[j])
         /\ n + 1 # prog[j].m * Chunks(prog[j]) => ActWant(prog, j, n + 1, b2)
         /\ n + 1 = prog[j].m * Chunks(prog[j]) =>
              \E k \in 1 .. NJobs + 1 : IsNext(prog, j + 1, k) /\ b2 = FirstAct(k)
<1> DEFINE kb == Chunks(prog[j])
           rows == prog[j].m
<1>1. PICK m \in 0 .. rows - 1, p \in 0 .. kb - 1 : b = [job |-> j, m |-> m, p |-> p] /\ m * kb + p = n
  BY DEF ActWant
<1>2. b.job = j /\ b.m = m /\ b.p = p
  BY <1>1
<1>3. rows \in Nat \ {0} /\ kb \in Nat \ {0} /\ m \in Nat /\ p \in Nat /\ m < rows /\ p < kb
      /\ m * kb \in Nat /\ rows * kb \in Nat
  OBVIOUS
<1>4. n < rows * kb
  BY <1>1, <1>3, InTile
<1>5. /\ p + 1 < kb => b2 = [job |-> j, m |-> m, p |-> p + 1]
      /\ p + 1 >= kb /\ m + 1 < rows => b2 = [job |-> j, m |-> m + 1, p |-> 0]
      /\ ~(p + 1 < kb) /\ ~(p + 1 >= kb /\ m + 1 < rows) =>
            \E k \in 1 .. NJobs + 1 : IsNext(prog, j + 1, k) /\ b2 = FirstAct(k)
  <2> HIDE DEF kb, rows
  <2>1. kb = Chunks(prog[b.job]) /\ rows = prog[b.job].m
    BY <1>2 DEF kb, rows
  <2>2. ~(p + 1 < kb /\ p + 1 >= kb)
    BY <1>3
  <2> QED
    BY <1>2, <2>1, <2>2 DEF ActFollows
<1>6. (m + 1) * kb = m * kb + kb
  BY <1>3
<1>7. CASE p + 1 < kb
  <2>1. p + 1 \in 0 .. kb - 1 /\ m * kb + (p + 1) = n + 1
    BY <1>1, <1>3, <1>7
  <2>2. n + 1 < rows * kb
    BY <2>1, <1>3, InTile
  <2>3. ActWant(prog, j, n + 1, b2)
    <3> HIDE DEF kb, rows
    <3> QED
      BY <1>5, <1>7, <2>1 DEF ActWant, kb, rows
  <2> QED
    BY <1>3, <1>4, <2>2, <2>3
<1>8. CASE ~(p + 1 < kb) /\ m + 1 < rows
  <2>1. m + 1 \in 0 .. rows - 1 /\ 0 \in 0 .. kb - 1 /\ p + 1 >= kb
    BY <1>3, <1>8
  <2>2. (m + 1) * kb + 0 = n + 1
    BY <1>1, <1>3, <1>6, <1>8
  <2>3. n + 1 < rows * kb
    BY <2>1, <2>2, <1>3, InTile
  <2>4. b2 = [job |-> j, m |-> m + 1, p |-> 0]
    BY <1>5, <1>8, <2>1
  <2>5. ActWant(prog, j, n + 1, b2)
    <3> HIDE DEF kb, rows
    <3> QED
      BY <2>1, <2>2, <2>4 DEF ActWant, kb, rows
  <2> QED
    BY <1>3, <1>4, <2>3, <2>5
<1>9. CASE ~(p + 1 < kb) /\ ~(m + 1 < rows)
  <2>1. p + 1 = kb /\ m + 1 = rows
    <3> HIDE DEF kb, rows
    <3> QED
      BY <1>3, <1>9
  <2>2. n + 1 = rows * kb
    BY <1>1, <1>3, <1>6, <2>1
  <2> QED
    BY <1>4, <1>5, <1>9, <2>2
<1> QED
  BY <1>7, <1>8, <1>9

-----------------------------------------------------------------------------
\* An edge without a swap keeps the loader one chunk ahead of the same pass.
LEMMA LoaderStays ==
  ASSUME IInv, LoaderInv, BankInv, WgtInv, Loading, Loader(FALSE), BankEdge,
         program' = program, job' = job,
         Streaming' => Streaming /\ passQ' = passQ,
         Loading' => NextPass' = NextPass,
         passQ \in Nat
  PROVE  LoaderInv' /\ BankInv'
<1>1. /\ wlCnt' \in Lane /\ lpass' \in Nat /\ liveQ' = liveQ /\ shValid' \in BOOLEAN
      /\ lpass' - Shadow' = lpass - Shadow
      /\ lpass' <= KbCnt
      /\ shValid' => wlCnt' = 0 /\ Holds(array'.bank[1 - liveQ], D, job, lpass' - 1)
      /\ ~shValid' /\ lpass' < KbCnt => HoldsFirst(array'.bank[1 - liveQ], D, job, lpass', wlCnt')
  BY LoaderEdge
<1>2. D' = D /\ KbCnt' = KbCnt
  BY DEF D, KbCnt
<1>3. array'.bank[liveQ] = array.bank[liveQ] /\ liveQ \in {0, 1}
  BY DEF BankEdge, LoaderInv
<1>4. lpass = NextPass + Shadow /\ lpass \in Nat /\ NextPass \in Nat /\ Shadow \in Nat /\ Shadow' \in Nat
  BY DEF LoaderInv, NextPass, Shadow
<1>5. Loading' => lpass' = NextPass' + Shadow'
  <2>1. lpass' \in Nat /\ lpass' - Shadow' = lpass - Shadow
    BY <1>1, Zenon
  <2>2. PICK s \in Nat, l \in Nat : s = Shadow' /\ l = lpass'
    BY <1>4, <2>1, Zenon
  <2>5. l - s = lpass - Shadow
    BY <2>1, <2>2, Zenon
  <2>7. lpass \in Nat /\ NextPass \in Nat /\ Shadow \in Nat /\ lpass = NextPass + Shadow
    BY <1>4
  <2>6. l = NextPass + s
    BY <2>5, <2>7
  <2>3. lpass' = NextPass + Shadow'
    BY <2>2, <2>6, Zenon
  <2> SUFFICES ASSUME Loading' PROVE lpass' = NextPass' + Shadow'
    OBVIOUS
  <2>4. NextPass' = NextPass
    OBVIOUS
  <2> QED
    BY <2>3, <2>4, Zenon
<1>8. liveQ' \in {0, 1} /\ lpass' <= KbCnt' /\ (shValid' => wlCnt' = 0)
  BY <1>1, <1>2, <1>3
<1>6. LoaderInv'
  BY <1>1, <1>8, <1>5 DEF LoaderInv
<1>7. Streaming' => Holds(array'.bank[liveQ'], D', job', passQ')
  BY <1>1, <1>2, <1>3 DEF BankInv
<1> QED
  BY <1>1, <1>2, <1>6, <1>7 DEF BankInv

\* A swap makes the chunk loaded the one of the pass that begins.
LEMMA LoaderSwaps ==
  ASSUME IInv, LoaderInv, BankInv, Loading, shValid, Loader(TRUE), BankEdge,
         program' = program, job' = job, Streaming', passQ \in Nat,
         passQ' = NextPass
  PROVE  LoaderInv' /\ BankInv'
<1>1. /\ wlCnt' = 0 /\ lpass' = lpass /\ liveQ' = 1 - liveQ /\ liveQ' \in {0, 1} /\ shValid' = FALSE
      /\ Holds(array'.bank[1 - liveQ], D, job, lpass - 1)
      /\ HoldsFirst(array'.bank[liveQ], D, job, lpass, 0)
  BY SwapEdge
<1>2. D' = D /\ KbCnt' = KbCnt
  BY DEF D, KbCnt
<1>3. lpass = NextPass + Shadow /\ Shadow = 1 /\ lpass <= KbCnt /\ lpass \in Nat /\ liveQ \in {0, 1}
      /\ NextPass \in Nat
  BY DEF LoaderInv, Shadow, NextPass
<1>4. 0 \in Lane /\ 1 - (1 - liveQ) = liveQ /\ lpass - 1 = passQ' /\ lpass = passQ' + 1
  BY <1>3, ArrayAssumption DEF Lane
<1>5. NextPass' = passQ' + 1 /\ Shadow' = 0
  BY <1>1 DEF NextPass, Shadow
<1>6. lpass' = NextPass' + Shadow' /\ lpass' <= KbCnt'
  BY <1>1, <1>2, <1>3, <1>4, <1>5
<1>7. LoaderInv'
  BY <1>1, <1>3, <1>4, <1>6 DEF LoaderInv
<1> QED
  BY <1>1, <1>2, <1>4, <1>7 DEF BankInv

\* Outside a job's loading the loader stands.
LEMMA LoaderRests ==
  ASSUME IInv, LoaderInv, ~Loading, Loader(FALSE), ~Loading'
  PROVE  LoaderInv' /\ BankInv'
<1>1. ~WShift /\ shValid \in BOOLEAN
  BY DEF WShift, LdrRun, Loading, LoaderInv
<1>2. wlCnt' = wlCnt /\ lpass' = lpass /\ shValid' = shValid /\ liveQ' = liveQ
  BY <1>1 DEF Loader
<1>3. ~Streaming'
  BY DEF Loading, Streaming
<1> QED
  BY <1>2, <1>3 DEF LoaderInv, BankInv

\* A beat whose lanes are the products resident after its job.
ExactBeat(prog, b) == b # None => \A c \in DOMAIN b.lanes : b.lanes[c] = Resident(prog, b.job, b.row, c)

\* A result beat is made of settled accumulators.
LEMMA ResultStep ==
  ASSUME IInv, ArrayInv, ResultExact, NEW ready \in BOOLEAN, Results(ready), program' = program
  PROVE  ResultExact'
<1>1. ExactBeat(program, resSkid.out) /\ ExactBeat(program, resSkid.back)
  BY DEF ResultExact, ExactBeat
<1>2. RValid => ExactBeat(program, RBeat)
  <2> SUFFICES ASSUME RValid, NEW c \in DOMAIN RBeat.lanes
               PROVE  RBeat.lanes[c] = Resident(program, RBeat.job, RBeat.row, c)
    BY DEF ExactBeat
  <2>1. state = "DRAIN" /\ state # "IDLE"
    BY DEF RValid
  <2>2. D.n \in 1 .. MxeN /\ MCnt \in 1 .. MTile /\ drainCnt \in Nat /\ drainCnt < MCnt
    BY <2>1, JobFacts DEF IInv, BeatInv
  <2>3. RBeat.job = job /\ RBeat.row = drainCnt
        /\ RBeat.lanes = [l \in 0 .. D.n - 1 |-> array.acc[l][drainCnt]]
    BY DEF RBeat
  <2>4. c \in Lane /\ drainCnt \in Row /\ RBeat.lanes[c] = array.acc[c][drainCnt]
    BY <2>2, <2>3, ArrayAssumption DEF Lane, Row
  <2>5. Settled(array, program, job)
    BY <2>1 DEF ArrayInv, Loading
  <2> QED
    BY <2>3, <2>4, <2>5 DEF Settled
<1> DEFINE s == IF RValid THEN RBeat ELSE None
<1>3. ExactBeat(program, s)
  BY <1>2 DEF ExactBeat
<1>4. resSkid' = Skid!Advance(resSkid, s, ready)
  BY DEF Results
<1>5. ExactBeat(program, None)
  BY DEF ExactBeat
<1> HIDE DEF s
<1>6. resSkid'.out \in {s, resSkid.back, resSkid.out} /\ resSkid'.back \in {None, s, resSkid.back}
  BY <1>4 DEF Skid!Advance
<1>7. ExactBeat(program', resSkid'.out) /\ ExactBeat(program', resSkid'.back)
  BY <1>1, <1>3, <1>5, <1>6
<1> QED
  BY <1>7 DEF ResultExact, ExactBeat

-----------------------------------------------------------------------------
\* Outside the ingest the buffer stands.
LEMMA BufStays ==
  ASSUME BufInv, Buffer, program' = program, job' = job,
         state # "INGEST", state' # "INGEST", state' # "IDLE" => state # "IDLE"
  PROVE  BufInv'
<1>1. abuf' = abuf
  BY DEF Buffer, AReady
<1>2. MCnt' = MCnt /\ KbCnt' = KbCnt
  BY DEF MCnt, KbCnt, D
<1> QED
  BY <1>1, <1>2 DEF BufInv

\* Outside the ingest the activation stream keeps its oldest beat.
LEMMA ActStays ==
  ASSUME IInv, ActInv, NEW in \in Inputs, Producers(in.act, in.wgt), program' = program, job' = job,
         state # "INGEST", state' # "INGEST"
  PROVE  ActInv'
<1>1. /\ ActLine(program, actSkid', actNext')
      /\ Front(actSkid', actNext') = Front(actSkid, actNext)
  BY ActStream DEF AReady
<1>2. \E j \in 1 .. NJobs + 1 : IsNext(program, job + 1, j) /\ Front(actSkid, actNext) = FirstAct(j)
  BY DEF ActInv, ActDue
<1>3. ActDue(Front(actSkid, actNext))'
  BY <1>1, <1>2 DEF ActDue
<1> QED
  BY <1>1, <1>3 DEF ActInv

\* The weight stream during a job, and when the last of its chunks is used.
LEMMA WgtStays ==
  ASSUME IInv, LoaderInv, WgtInv, NEW in \in Inputs, Producers(in.act, in.wgt),
         NEW swap \in BOOLEAN, swap => shValid, Loader(swap), program' = program, job' = job,
         Loading' => Loading, Loading /\ ~Loading' => lpass' = KbCnt
  PROVE  WgtInv'
<1> DEFINE f2 == Front(wgtSkid', wgtNext')
<1>1. WgtLine(program, wgtSkid', wgtNext')
  BY WgtStream
<1>2. CASE Loading /\ Loading'
  <2>1. WgtWant(program, job, lpass', wlCnt', f2)
    BY <1>2, WgtWanted
  <2> QED
    BY <1>1, <1>2, <2>1 DEF WgtInv, WgtDue
<1>3. CASE Loading /\ ~Loading'
  <2>1. WgtWant(program, job, lpass', wlCnt', f2) /\ lpass' = KbCnt
    BY <1>3, WgtWanted
  <2>2. KbCnt = Chunks(program[job]) /\ KbCnt \in Nat
    BY <1>3, JobFacts DEF Loading
  <2>3. ~(KbCnt < KbCnt) /\ ~(KbCnt + 1 < KbCnt)
    BY <2>2
  <2>4. \E k \in 1 .. NJobs + 1 : IsNext(program, job + 1, k) /\ f2 = FirstWgt(k)
    BY <2>1, <2>2, <2>3 DEF WgtWant
  <2> QED
    BY <1>1, <1>3, <2>4 DEF WgtInv, WgtDue
<1>4. CASE ~Loading
  <2>1. ~WShift
    BY <1>4 DEF WShift, LdrRun, Loading
  <2>2. f2 = Front(wgtSkid, wgtNext)
    BY <2>1, WgtStream
  <2>3. \E k \in 1 .. NJobs + 1 : IsNext(program, job + 1, k) /\ f2 = FirstWgt(k)
    BY <1>4, <2>2 DEF WgtInv, WgtDue
  <2> QED
    BY <1>1, <1>4, <2>3 DEF WgtInv, WgtDue
<1> QED
  BY <1>2, <1>3, <1>4

\* A cycle in which nothing is being loaded: between jobs, and in the drain.
LEMMA RestStep ==
  ASSUME IInv, DataInv, NEW in \in Inputs, Datapath(in), Loader(FALSE), job' = job,
         ~Loading, ~Loading', state' # "IDLE" => state # "IDLE",
         ingCnt' = ingCnt, passQ' = passQ, compCyc' = compCyc, rdAddr' = rdAddr, flushCnt' = flushCnt,
         OrderInv'
  PROVE  DataInv'
<1>1. /\ OrderInv /\ PassInv /\ InjectInv /\ BufInv /\ LoaderInv /\ ArrayInv /\ BankInv
      /\ ActInv /\ WgtInv /\ ResultExact
  BY DEF DataInv
<1>2. /\ Producers(in.act, in.wgt) /\ Results(in.res) /\ Array /\ Buffer /\ Inject /\ program' = program
      /\ in.res \in BOOLEAN
  BY DEF Datapath, Inputs
<1>3. ~Streaming /\ ~Streaming' /\ state # "INGEST" /\ state' # "INGEST"
      /\ state' # "COMPUTE" /\ state' # "FLUSH"
  BY DEF Loading, Streaming
<1>4. D' = D /\ KbCnt' = KbCnt
  BY <1>2 DEF D, KbCnt
<1>5. Shape(array') /\ Quiet(array') /\ Settled(array', program, job)
  BY <1>1, <1>2, <1>3, ArrayEdge
<1>6. ArrayInv'
  BY <1>2, <1>3, <1>5 DEF ArrayInv
<1>7. PassInv'
  BY <1>1, <1>3, <1>4 DEF PassInv
<1>8. InjectInv'
  BY <1>2, <1>3 DEF InjectInv, Inject
<1>9. LoaderInv' /\ BankInv'
  BY <1>1, LoaderRests
<1>10. BufInv' /\ ActInv'
  BY <1>1, <1>2, <1>3, BufStays, ActStays
<1>11. WgtInv'
  BY <1>1, <1>2, WgtStays
<1>12. ResultExact'
  BY <1>1, <1>2, ResultStep
<1> QED
  BY <1>6, <1>7, <1>8, <1>9, <1>10, <1>11, <1>12 DEF DataInv

\* The descriptor port between jobs.
LEMMA OrderStays ==
  ASSUME OrderInv, program' = program, job' = job, offered' = offered
  PROVE  OrderInv'
BY DEF OrderInv

\* The actions between jobs, in the drain and in the wait for its beats.
LEMMA RestData ==
  ASSUME IInv, DataInv, NEW in \in Inputs, Idle(in) \/ Reject(in) \/ Drain(in) \/ WaitDone(in)
  PROVE  DataInv'
<1>0. OrderInv
  BY DEF DataInv
<1>1. CASE Idle(in)
  <2>1. /\ state = "IDLE" /\ state' = "IDLE" /\ Datapath(in) /\ Loader(FALSE) /\ job' = job
        /\ offered' = offered /\ ingCnt' = ingCnt /\ passQ' = passQ /\ compCyc' = compCyc
        /\ rdAddr' = rdAddr /\ flushCnt' = flushCnt /\ program' = program
    BY <1>1 DEF Idle, InJob, counters, Datapath
  <2>2. ~Loading /\ ~Loading'
    BY <2>1 DEF Loading
  <2> QED
    BY <1>0, <2>1, <2>2, OrderStays, RestStep
<1>2. CASE Reject(in)
  <2>1. /\ state = "IDLE" /\ state' = "IDLE" /\ Datapath(in) /\ Loader(FALSE) /\ job' = job
        /\ offered' = offered + 1 /\ ingCnt' = ingCnt /\ passQ' = passQ /\ compCyc' = compCyc
        /\ rdAddr' = rdAddr /\ flushCnt' = flushCnt /\ program' = program
        /\ offered <= NJobs /\ ~Legal(program[offered])
    BY <1>2 DEF Reject, DescReady, counters, Datapath
  <2>2. ~Loading /\ ~Loading'
    BY <2>1 DEF Loading
  <2>3. OrderInv'
    <3>1. NJobs \in Nat
      BY ArrayAssumption
    <3>2. job \in 0 .. NJobs /\ offered \in job + 1 .. NJobs + 1
          /\ \A i \in job + 1 .. offered - 1 : ~Legal(program[i])
      BY <1>0 DEF OrderInv
    <3>3. \A i \in job + 1 .. (offered + 1) - 1 : i = offered \/ i \in job + 1 .. offered - 1
      BY <3>1, <3>2
    <3>4. \A i \in job + 1 .. (offered + 1) - 1 : ~Legal(program[i])
      BY <2>1, <3>2, <3>3
    <3>5. offered + 1 \in job + 1 .. NJobs + 1
      BY <2>1, <3>1, <3>2
    <3> QED
      BY <2>1, <3>2, <3>4, <3>5 DEF OrderInv
  <2> QED
    BY <2>1, <2>2, <2>3, RestStep
<1>3. CASE Drain(in)
  <2>1. /\ state = "DRAIN" /\ state' \in {"DRAIN", "WAIT_DONE"} /\ Datapath(in) /\ Loader(FALSE)
        /\ job' = job /\ offered' = offered /\ ingCnt' = ingCnt /\ passQ' = passQ
        /\ compCyc' = compCyc /\ rdAddr' = rdAddr /\ flushCnt' = flushCnt /\ program' = program
    BY <1>3 DEF Drain, InJob, Datapath
  <2>2. ~Loading /\ ~Loading'
    BY <2>1 DEF Loading
  <2> QED
    BY <1>0, <2>1, <2>2, OrderStays, RestStep
<1>4. CASE WaitDone(in)
  <2>1. /\ state = "WAIT_DONE" /\ state' \in {"IDLE", "WAIT_DONE"} /\ Datapath(in) /\ Loader(FALSE)
        /\ job' = job /\ offered' = offered /\ ingCnt' = ingCnt /\ passQ' = passQ
        /\ compCyc' = compCyc /\ rdAddr' = rdAddr /\ flushCnt' = flushCnt /\ program' = program
    BY <1>4 DEF WaitDone, InJob, counters, Datapath
  <2>2. ~Loading /\ ~Loading'
    BY <2>1 DEF Loading
  <2> QED
    BY <1>0, <2>1, <2>2, OrderStays, RestStep
<1> QED
  BY <1>1, <1>2, <1>3, <1>4

\* A pass begins on an array in which nothing moves.
LEMMA BeginPass ==
  ASSUME IInv, state # "IDLE", NEW p \in Nat, program' = program, job' = job,
         Shape(array'), Quiet(array'), Accs(array', program, job, p, 0),
         Inject, state # "COMPUTE", EnterCompute(p), passQ' = p
  PROVE  ArrayInv' /\ InjectInv'
<1>1. state' = "COMPUTE" /\ compCyc' = 0 /\ T' = 0 /\ Streaming' /\ Loading'
  BY DEF EnterCompute, T, Streaming, Loading
<1>2. D' = D /\ MCnt' = MCnt /\ D.m \in Nat /\ MCnt \in Nat
  BY JobFacts DEF D, MCnt
<1>3. Pipe(array', D', job', passQ', T')
  BY <1>1, <1>2, QuietPipe
<1>4. Accs(array', program', job', passQ', T')
  BY <1>1
<1>5. ArrayInv'
  BY <1>1, <1>3, <1>4 DEF ArrayInv
<1>6. injValid' = FALSE
  BY DEF Inject
<1>7. (T' - 1 \in 0 .. MCnt' - 1) = FALSE
  BY <1>1, <1>2
<1>8. InjectInv'
  BY <1>6, <1>7, Zenon DEF InjectInv
<1> QED
  BY <1>5, <1>8

\* A cycle of a job in which nothing moves in the array, before and after.
LEMMA StandStill ==
  ASSUME program' = program, job' = job, passQ' = passQ,
         Shape(array'), Quiet(array'), Accs(array', program, job, passQ, 0),
         Inject, state # "COMPUTE", ~Streaming', Loading'
  PROVE  ArrayInv' /\ InjectInv'
<1>1. ArrayInv'
  BY DEF ArrayInv
<1>2. InjectInv'
  BY DEF InjectInv, Inject
<1> QED
  BY <1>1, <1>2

\* The beat that fills a place of the buffer is the one due there.
LEMMA BufFills ==
  ASSUME IInv, PassInv, BufInv, ActInv, Buffer, state = "INGEST", AValid, program' = program, job' = job,
         ingCnt' = ingCnt + 1, Front(actSkid, actNext) = actSkid.out,
         state' # "INGEST" => ingCnt + 1 = MCnt * KbCnt,
         state' = "INGEST" => ingCnt + 1 < MCnt * KbCnt
  PROVE  BufInv'
<1>0. /\ MCnt \in 1 .. MTile /\ KbCnt \in 1 .. KbMax /\ MCnt = D.m /\ KbCnt = Chunks(D)
      /\ D = program[job] /\ MCnt \in Nat \ {0} /\ KbCnt \in Nat \ {0} /\ ingCnt \in Nat
      /\ ingCnt < MCnt * KbCnt
  BY JobFacts DEF PassInv, BufInv
<1>1. ActWant(program, job, ingCnt, actSkid.out)
  BY DEF ActInv, ActDue
<1>2. PICK m \in 0 .. MCnt - 1, p \in 0 .. KbCnt - 1 :
        actSkid.out = [job |-> job, m |-> m, p |-> p] /\ m * KbCnt + p = ingCnt
  BY <1>0, <1>1 DEF ActWant
<1> DEFINE places == 0 .. MTile * KbMax - 1
<1>3. ingCnt \in places
  <2>1. MCnt * KbCnt <= MTile * KbMax /\ MCnt * KbCnt \in Nat \ {0} /\ MTile * KbMax \in Nat \ {0}
    BY <1>0, InBuffer
  <2> QED
    BY <1>0, <2>1
<1>4. abuf' = [abuf EXCEPT ![ingCnt] = actSkid.out]
  BY DEF Buffer, AReady
<1>5. abuf = [i \in places |-> abuf[i]]
  BY DEF BufInv
<1> HIDE DEF places
<1>6. abuf' = [i \in places |-> IF i = ingCnt THEN actSkid.out ELSE abuf[i]]
  BY <1>4, <1>5
<1>7. abuf' = [i \in places |-> abuf'[i]]
  BY <1>6
<1>8. \A m2 \in 0 .. MCnt - 1, p2 \in 0 .. KbCnt - 1 :
        m2 * KbCnt + p2 < ingCnt + 1
          => abuf'[m2 * KbCnt + p2] = [job |-> job, m |-> m2, p |-> p2]
  <2> SUFFICES ASSUME NEW m2 \in 0 .. MCnt - 1, NEW p2 \in 0 .. KbCnt - 1,
                      m2 * KbCnt + p2 < ingCnt + 1
               PROVE  abuf'[m2 * KbCnt + p2] = [job |-> job, m |-> m2, p |-> p2]
    OBVIOUS
  <2> DEFINE i == m2 * KbCnt + p2
  <2>1. i \in Nat /\ i < MCnt * KbCnt
    BY <1>0, InTile
  <2>2. i \in places
    <3>1. MCnt * KbCnt <= MTile * KbMax /\ MCnt * KbCnt \in Nat \ {0} /\ MTile * KbMax \in Nat \ {0}
      BY <1>0, InBuffer
    <3> QED
      BY <2>1, <3>1 DEF places
  <2>3. abuf'[i] = IF i = ingCnt THEN actSkid.out ELSE abuf[i]
    BY <1>6, <2>2
  <2>4. CASE i = ingCnt
    <3>1. m2 = m /\ p2 = p
      <4>1. m \in Nat /\ m2 \in Nat
        BY <1>0
      <4>2. m2 * KbCnt + p2 = m * KbCnt + p
        BY <1>2, <2>4
      <4> QED
        BY <1>0, <4>1, <4>2, OnePlace
    <3> QED
      BY <1>2, <2>3, <2>4, <3>1
  <2>5. CASE i # ingCnt
    <3>1. i < ingCnt
      BY <1>0, <2>1, <2>5
    <3>2. abuf[i] = [job |-> job, m |-> m2, p |-> p2]
      BY <3>1 DEF BufInv
    <3> QED
      BY <2>3, <2>5, <3>2
  <2> QED
    BY <2>4, <2>5
<1>9. MCnt' = MCnt /\ KbCnt' = KbCnt
  BY DEF MCnt, KbCnt, D
<1>10. \A m2 \in 0 .. MCnt - 1, p2 \in 0 .. KbCnt - 1 :
         (state' = "INGEST" => m2 * KbCnt + p2 < ingCnt')
           => abuf'[m2 * KbCnt + p2] = [job |-> job, m |-> m2, p |-> p2]
  <2>1. CASE state' = "INGEST"
    BY <1>8, <2>1
  <2>2. CASE state' # "INGEST"
    <3>1. \A m2 \in 0 .. MCnt - 1, p2 \in 0 .. KbCnt - 1 : m2 * KbCnt + p2 < ingCnt + 1
      BY <1>0, <2>2, InTile
    <3> QED
      BY <1>8, <3>1
  <2> QED
    BY <2>1, <2>2
<1>11. state' = "INGEST" => ingCnt' < MCnt * KbCnt
  OBVIOUS
<1> QED
  BY <1>7, <1>9, <1>10, <1>11 DEF BufInv, places

\* A cycle that ends outside the array's activity, or begins a pass, keeps the
\* loader's side of the invariant.
LEMMA LoadSide ==
  ASSUME IInv, DataInv, NEW in \in Inputs, Datapath(in), Loading, ~Streaming, passQ' = passQ,
         job' = job, NEW swap \in BOOLEAN, swap => shValid, Loader(swap),
         swap => Streaming', ~swap => ~Streaming' /\ Loading'
  PROVE  LoaderInv' /\ BankInv' /\ WgtInv'
<1>1. /\ LoaderInv /\ BankInv /\ WgtInv /\ PassInv /\ InjectInv /\ ArrayInv
  BY DEF DataInv
<1>2. /\ program' = program /\ Array /\ Producers(in.act, in.wgt) /\ passQ \in Nat
  BY <1>1 DEF Datapath, PassInv
<1>3. BankEdge
  BY <1>1, <1>2, ArrayEdge DEF BankEdge
<1>4. Loading'
  BY DEF Streaming, Loading
<1>5. WgtInv'
  BY <1>1, <1>2, <1>4, WgtStays
<1>6. NextPass = passQ
  BY DEF NextPass
<1>7. CASE swap
  <2>1. Loader(TRUE) /\ shValid /\ Streaming'
    BY <1>7
  <2> QED
    BY <1>1, <1>2, <1>3, <1>5, <1>6, <2>1, LoaderSwaps
<1>8. CASE ~swap
  <2>1. Loader(FALSE) /\ ~Streaming'
    BY <1>8
  <2>2. NextPass' = NextPass
    BY <1>6, <2>1 DEF NextPass
  <2> QED
    BY <1>1, <1>2, <1>3, <1>5, <2>1, <2>2, LoaderStays
<1> QED
  BY <1>7, <1>8

\* A cycle that waits for the shadow bank, or in which it is full and a pass begins.
LEMMA WloadData ==
  ASSUME IInv, DataInv, NEW in \in Inputs, Wload(in)
  PROVE  DataInv'
<1>1. /\ OrderInv /\ PassInv /\ InjectInv /\ BufInv /\ LoaderInv /\ ArrayInv /\ BankInv
      /\ ActInv /\ WgtInv /\ ResultExact
  BY DEF DataInv
<1>2. /\ state = "WLOAD" /\ Datapath(in) /\ Loader(shValid) /\ job' = job /\ offered' = offered
      /\ ingCnt' = ingCnt /\ passQ' = passQ /\ flushCnt' = flushCnt
      /\ shValid => EnterCompute(passQ)
      /\ ~shValid => state' = state /\ compCyc' = compCyc /\ rdAddr' = rdAddr
  BY DEF Wload, InJob
<1>3. /\ Producers(in.act, in.wgt) /\ Results(in.res) /\ Array /\ Buffer /\ Inject /\ program' = program
      /\ in.res \in BOOLEAN
  BY <1>2 DEF Datapath, Inputs
<1>4. /\ Loading /\ ~Streaming /\ state # "IDLE" /\ state # "INGEST" /\ state' # "INGEST"
      /\ state' # "IDLE" /\ state' # "FLUSH" /\ shValid \in BOOLEAN
      /\ shValid => Streaming' /\ state' = "COMPUTE"
      /\ ~shValid => ~Streaming' /\ Loading' /\ state' = "WLOAD"
  BY <1>1, <1>2 DEF Loading, Streaming, EnterCompute, LoaderInv
<1>5. LoaderInv' /\ BankInv' /\ WgtInv'
  BY <1>2, <1>4, LoadSide
<1>6. BufInv' /\ ActInv'
  BY <1>1, <1>2, <1>3, <1>4, BufStays, ActStays
<1>7. OrderInv' /\ ResultExact'
  BY <1>1, <1>2, <1>3, OrderStays, ResultStep
<1>8. Shape(array') /\ Quiet(array') /\ Accs(array', program, job, passQ, 0)
  BY <1>1, <1>3, <1>4, ArrayEdge
<1>9. ArrayInv' /\ InjectInv'
  <2>1. CASE shValid
    <3>1. passQ \in Nat /\ state # "COMPUTE"
      BY <1>1, <1>2 DEF PassInv
    <3> QED
      BY <1>2, <1>3, <1>4, <1>8, <2>1, <3>1, BeginPass
  <2>2. CASE ~shValid
    BY <1>2, <1>3, <1>4, <1>8, <2>2, StandStill
  <2> QED
    BY <2>1, <2>2
<1>10. PassInv'
  <2>1. KbCnt' = KbCnt /\ MCnt' = MCnt /\ KbCnt \in Nat /\ MCnt \in Nat /\ passQ \in Nat /\ passQ < KbCnt
    <3>1. KbCnt' = KbCnt /\ MCnt' = MCnt
      BY <1>2, <1>3 DEF KbCnt, MCnt, D
    <3>2. KbCnt \in Nat /\ MCnt \in Nat
      BY <1>4, JobFacts
    <3> QED
      BY <1>1, <1>4, <3>1, <3>2 DEF PassInv
  <2>2. CASE shValid
    <3>1. compCyc' = 0 /\ rdAddr' = passQ /\ state' = "COMPUTE"
      BY <1>2, <2>2 DEF EnterCompute
    <3>2. 0 * KbCnt + passQ = passQ
      BY <2>1
    <3> QED
      BY <1>1, <1>2, <2>1, <3>1, <3>2 DEF PassInv
  <2>3. CASE ~shValid
    BY <1>1, <1>2, <1>4, <2>1, <2>3 DEF PassInv
  <2> QED
    BY <2>2, <2>3
<1> QED
  BY <1>5, <1>6, <1>7, <1>9, <1>10 DEF DataInv

\* A cycle of the ingest: its beat, if there is one, enters the buffer.
LEMMA IngestData ==
  ASSUME IInv, DataInv, NEW in \in Inputs, Ingest(in)
  PROVE  DataInv'
<1> DEFINE final == AValid /\ ingCnt = MCnt * KbCnt - 1
           swap == final /\ shValid
<1>1. /\ OrderInv /\ PassInv /\ InjectInv /\ BufInv /\ LoaderInv /\ ArrayInv /\ BankInv
      /\ ActInv /\ WgtInv /\ ResultExact
  BY DEF DataInv
<1>2. /\ state = "INGEST" /\ Datapath(in) /\ Loader(swap) /\ job' = job /\ offered' = offered
      /\ ingCnt' = (IF AValid THEN ingCnt + 1 ELSE ingCnt) /\ passQ' = passQ /\ flushCnt' = flushCnt
      /\ swap => EnterCompute(passQ)
      /\ ~swap => /\ state' = IF final THEN "WLOAD" ELSE "INGEST"
                  /\ compCyc' = compCyc /\ rdAddr' = rdAddr
  BY DEF Ingest, InJob
<1>3. /\ Producers(in.act, in.wgt) /\ Results(in.res) /\ Array /\ Buffer /\ Inject /\ program' = program
      /\ in.res \in BOOLEAN
  BY <1>2 DEF Datapath, Inputs
<1>4. AValid \in BOOLEAN /\ final \in BOOLEAN /\ swap \in BOOLEAN /\ (swap => shValid) /\ (swap => final)
      /\ (final => AValid)
  BY <1>1 DEF LoaderInv, AValid, Skid!MValid
<1>5. final => ingCnt = MCnt * KbCnt - 1
  OBVIOUS
<1>6. AValid /\ ~final => ingCnt # MCnt * KbCnt - 1
  OBVIOUS
<1> HIDE DEF final, swap
<1>7. /\ Loading /\ ~Streaming /\ state # "IDLE" /\ AReady
      /\ state' # "IDLE" /\ state' # "FLUSH"
      /\ swap => Streaming' /\ state' = "COMPUTE"
      /\ ~swap => ~Streaming' /\ Loading' /\ state' = IF final THEN "WLOAD" ELSE "INGEST"
      /\ final <=> state' # "INGEST"
  BY <1>2, <1>4 DEF Loading, Streaming, EnterCompute, AReady
<1>8. LoaderInv' /\ BankInv' /\ WgtInv'
  BY <1>2, <1>4, <1>7, LoadSide
<1>9. OrderInv' /\ ResultExact'
  BY <1>1, <1>2, <1>3, OrderStays, ResultStep
<1>10. Shape(array') /\ Quiet(array') /\ Accs(array', program, job, passQ, 0)
  BY <1>1, <1>3, <1>7, ArrayEdge
<1>11. /\ MCnt \in 1 .. MTile /\ KbCnt \in 1 .. KbMax /\ MCnt = program[job].m /\ KbCnt = Chunks(program[job])
       /\ MCnt \in Nat \ {0} /\ KbCnt \in Nat \ {0} /\ ingCnt \in Nat /\ job \in Nat \ {0}
       /\ ingCnt < MCnt * KbCnt /\ passQ = 0 /\ passQ < KbCnt
  BY <1>1, <1>2, <1>7, JobFacts DEF PassInv, BufInv
<1>12. MCnt * KbCnt \in Nat
  BY <1>11
<1>13. ArrayInv' /\ InjectInv'
  <2>1. CASE swap
    <3>1. passQ \in Nat /\ state # "COMPUTE"
      BY <1>1, <1>2 DEF PassInv
    <3> QED
      BY <1>2, <1>3, <1>7, <1>10, <2>1, <3>1, BeginPass
  <2>2. CASE ~swap
    <3>1. state # "COMPUTE"
      BY <1>2
    <3> QED
      BY <1>2, <1>3, <1>7, <1>10, <2>2, <3>1, StandStill
  <2> QED
    BY <2>1, <2>2
<1>14. PassInv'
  <2>1. KbCnt' = KbCnt /\ MCnt' = MCnt
    BY <1>2, <1>3 DEF KbCnt, MCnt, D
  <2>2. ingCnt' \in Nat
    BY <1>2, <1>11
  <2>3. CASE swap
    <3>1. compCyc' = 0 /\ rdAddr' = passQ /\ state' = "COMPUTE"
      BY <1>2, <2>3 DEF EnterCompute
    <3>2. 0 * KbCnt + passQ = passQ
      BY <1>11
    <3> QED
      BY <1>1, <1>2, <1>11, <2>1, <2>2, <3>1, <3>2 DEF PassInv
  <2>4. CASE ~swap
    BY <1>1, <1>2, <1>7, <1>11, <2>1, <2>2, <2>4 DEF PassInv
  <2> QED
    BY <2>3, <2>4
<1>15. /\ ActLine(program, actSkid', actNext')
       /\ ~AValid => Front(actSkid', actNext') = Front(actSkid, actNext)
       /\ AValid => /\ Front(actSkid, actNext) = actSkid.out
                    /\ ActFollows(program, actSkid.out, Front(actSkid', actNext'))
  BY <1>1, <1>3, <1>7, ActStream
<1>16. ActWant(program, job, ingCnt, Front(actSkid, actNext))
  BY <1>1, <1>2 DEF ActInv, ActDue
<1>17. BufInv' /\ ActInv'
  <2>1. CASE ~AValid
    <3>1. ~final /\ state' = "INGEST" /\ ingCnt' = ingCnt
      BY <1>2, <1>4, <1>7, <2>1
    <3>2. abuf' = abuf /\ MCnt' = MCnt /\ KbCnt' = KbCnt
      BY <1>2, <1>3, <2>1 DEF Buffer, MCnt, KbCnt, D
    <3>3. BufInv'
      BY <1>1, <1>2, <1>3, <3>1, <3>2 DEF BufInv
    <3>4. ActDue(Front(actSkid, actNext))'
      BY <1>2, <1>3, <1>15, <1>16, <2>1, <3>1 DEF ActDue
    <3>5. ActInv'
      BY <1>2, <1>3, <1>15, <3>4 DEF ActInv
    <3> QED
      BY <3>3, <3>5
  <2>2. CASE AValid
    <3>1. ingCnt' = ingCnt + 1
      BY <1>2, <2>2
    <3>2. state' # "INGEST" => ingCnt + 1 = MCnt * KbCnt
      BY <1>5, <1>7, <1>11, <1>12
    <3>3. state' = "INGEST" => ingCnt + 1 < MCnt * KbCnt
      BY <1>6, <1>7, <1>11, <1>12, <2>2
    <3>4. BufInv'
      BY <1>1, <1>2, <1>3, <1>15, <2>2, <3>1, <3>2, <3>3, BufFills
    <3> DEFINE f2 == Front(actSkid', actNext')
    <3>5. ActWant(program, job, ingCnt, actSkid.out) /\ ActFollows(program, actSkid.out, f2)
      BY <1>15, <1>16, <2>2
    <3>6. CASE state' = "INGEST"
      <4>1. ingCnt + 1 # MCnt * KbCnt
        BY <1>11, <1>12, <3>3, <3>6
      <4>2. ActWant(program, job, ingCnt + 1, f2)
        BY <1>11, <3>5, <4>1, TileFollows
      <4>3. ActDue(Front(actSkid, actNext))'
        BY <1>2, <1>3, <3>1, <3>6, <4>2 DEF ActDue
      <4>4. ActInv'
        BY <1>2, <1>3, <1>15, <4>3 DEF ActInv
      <4> QED
        BY <3>4, <4>4
    <3>7. CASE state' # "INGEST"
      <4>1. ingCnt + 1 = MCnt * KbCnt
        BY <3>2, <3>7
      <4>2. \E k \in 1 .. NJobs + 1 : IsNext(program, job + 1, k) /\ f2 = FirstAct(k)
        BY <1>11, <3>5, <4>1, TileFollows
      <4>3. ActDue(Front(actSkid, actNext))'
        BY <1>2, <1>3, <3>7, <4>2 DEF ActDue
      <4>4. ActInv'
        BY <1>2, <1>3, <1>15, <4>3 DEF ActInv
      <4> QED
        BY <3>4, <4>4
    <3> QED
      BY <3>6, <3>7
  <2> QED
    BY <1>4, <2>1, <2>2
<1> QED
  BY <1>8, <1>9, <1>13, <1>14, <1>17 DEF DataInv

\* A cycle that injects a row, reads the next and moves every wavefront on.
LEMMA ComputeData ==
  ASSUME IInv, DataInv, NEW in \in Inputs, Compute(in)
  PROVE  DataInv'
<1>1. /\ OrderInv /\ PassInv /\ InjectInv /\ BufInv /\ LoaderInv /\ ArrayInv /\ BankInv
      /\ ActInv /\ WgtInv /\ ResultExact
  BY DEF DataInv
<1>2. /\ state = "COMPUTE" /\ Datapath(in) /\ Loader(FALSE) /\ job' = job /\ offered' = offered
      /\ ingCnt' = ingCnt /\ passQ' = passQ /\ compCyc' = compCyc + 1
      /\ rdAddr' = (IF compCyc < MCnt THEN (rdAddr + KbCnt) % (MTile * KbMax) ELSE rdAddr)
      /\ compCyc = MCnt => state' = "FLUSH" /\ flushCnt' = 0
      /\ compCyc # MCnt => state' = "COMPUTE" /\ flushCnt' = flushCnt
  BY DEF Compute, InJob
<1>3. /\ Producers(in.act, in.wgt) /\ Results(in.res) /\ Array /\ Buffer /\ Inject /\ program' = program
      /\ in.res \in BOOLEAN
  BY <1>2 DEF Datapath, Inputs
<1>4. /\ Loading /\ Streaming /\ Loading' /\ Streaming' /\ state # "IDLE" /\ state # "INGEST"
      /\ state' # "INGEST" /\ state' # "IDLE" /\ state' \in {"COMPUTE", "FLUSH"}
  BY <1>2 DEF Loading, Streaming
<1>5. /\ MCnt \in 1 .. MTile /\ KbCnt \in 1 .. KbMax /\ MCnt = D.m /\ KbCnt = Chunks(D)
      /\ MCnt \in Nat \ {0} /\ KbCnt \in Nat \ {0} /\ job \in Nat \ {0}
      /\ compCyc \in Nat /\ compCyc <= MCnt /\ passQ \in Nat /\ passQ < KbCnt
      /\ MTile \in Nat /\ KbMax \in Nat /\ MxeN \in Nat \ {0}
      /\ rdAddr \in Nat /\ (compCyc < MCnt => rdAddr = compCyc * KbCnt + passQ)
  <2>1. MTile \in Nat /\ KbMax \in Nat /\ MxeN \in Nat \ {0}
    BY ArrayAssumption
  <2> QED
    BY <1>1, <1>2, <1>4, <2>1, JobFacts DEF PassInv
<1>6. D' = D /\ KbCnt' = KbCnt /\ MCnt' = MCnt
  BY <1>2, <1>3 DEF KbCnt, MCnt, D
<1>7. T = compCyc /\ T' = compCyc + 1
  <2>1. T = compCyc
    BY <1>2 DEF T
  <2>2. CASE compCyc = MCnt
    BY <1>2, <1>5, <1>6, <2>2 DEF T
  <2>3. CASE compCyc # MCnt
    BY <1>2, <2>3 DEF T
  <2> QED
    BY <2>1, <2>2, <2>3
<1>8. /\ Shape(array') /\ Pipe(array', D, job, passQ, compCyc + 1)
      /\ Accs(array', program, job, passQ, compCyc + 1) /\ BankEdge
  BY <1>1, <1>3, <1>4, <1>7, ArrayEdge DEF BankEdge
<1>9. ArrayInv'
  BY <1>2, <1>3, <1>4, <1>6, <1>7, <1>8 DEF ArrayInv
<1>10. LoaderInv' /\ BankInv'
  <2>1. NextPass' = NextPass /\ passQ \in Nat
    BY <1>2, <1>4, <1>5 DEF NextPass
  <2> QED
    BY <1>1, <1>2, <1>3, <1>4, <1>8, <2>1, LoaderStays
<1>11. WgtInv'
  BY <1>1, <1>2, <1>3, <1>4, WgtStays
<1>12. BufInv' /\ ActInv'
  BY <1>1, <1>2, <1>3, <1>4, BufStays, ActStays
<1>13. OrderInv' /\ ResultExact'
  BY <1>1, <1>2, <1>3, OrderStays, ResultStep
<1>14. compCyc < MCnt =>
         /\ compCyc % MTile = compCyc
         /\ rdata' = [job |-> job, m |-> compCyc, p |-> passQ]
  <2> SUFFICES ASSUME compCyc < MCnt
               PROVE  /\ compCyc % MTile = compCyc
                      /\ rdata' = [job |-> job, m |-> compCyc, p |-> passQ]
    OBVIOUS
  <2>1. compCyc % MTile = compCyc
    BY <1>5
  <2>2. compCyc \in 0 .. MCnt - 1 /\ passQ \in 0 .. KbCnt - 1
    BY <1>5
  <2>3. rdata' = abuf[rdAddr] /\ rdAddr = compCyc * KbCnt + passQ
    BY <1>3, <1>5 DEF Buffer
  <2>4. abuf[compCyc * KbCnt + passQ] = [job |-> job, m |-> compCyc, p |-> passQ]
    BY <1>1, <1>4, <2>2 DEF BufInv
  <2> QED
    BY <2>1, <2>3, <2>4
<1>15. InjectInv'
  <2>1. injValid' = (compCyc < MCnt) /\ injRow' = compCyc % MTile
    BY <1>2, <1>3 DEF Inject
  <2>2. T' - 1 = compCyc
    BY <1>5, <1>7
  <2>3. (T' - 1 \in 0 .. MCnt' - 1) = (compCyc < MCnt)
    BY <1>5, <1>6, <2>2
  <2>4. compCyc < MCnt => BeatAt(D, job, passQ, compCyc) = [job |-> job, m |-> compCyc, p |-> passQ]
    <3> SUFFICES ASSUME compCyc < MCnt PROVE compCyc \in 0 .. D.m - 1
      BY DEF BeatAt
    <3> QED
      BY <1>5
  <2>5. injValid' => rdata' = BeatAt(D', job', passQ', T' - 1) /\ injRow' = T' - 1
    BY <1>2, <1>6, <1>14, <2>1, <2>2, <2>4
  <2>6. injValid' \in BOOLEAN /\ injValid' = (T' - 1 \in 0 .. MCnt' - 1)
    BY <2>1, <2>3
  <2> QED
    BY <2>5, <2>6 DEF InjectInv
<1>16. compCyc + 1 < MCnt => rdAddr' = (compCyc + 1) * KbCnt + passQ
  <2> SUFFICES ASSUME compCyc + 1 < MCnt PROVE rdAddr' = (compCyc + 1) * KbCnt + passQ
    OBVIOUS
  <2> DEFINE next == (compCyc + 1) * KbCnt + passQ
             size == MTile * KbMax
  <2>1. compCyc + 1 \in 0 .. MCnt - 1 /\ passQ \in 0 .. KbCnt - 1
    BY <1>5
  <2>2. next \in Nat /\ next < MCnt * KbCnt
    BY <1>5, <2>1, InTile
  <2>3. MCnt * KbCnt <= size /\ MCnt * KbCnt \in Nat \ {0} /\ size \in Nat \ {0}
    BY <1>5, InBuffer
  <2>11. \A x, k \in Nat : (x + 1) * k = x * k + k /\ x * k \in Nat
    OBVIOUS
  <2>4. (compCyc + 1) * KbCnt = compCyc * KbCnt + KbCnt /\ compCyc * KbCnt \in Nat
    BY <1>5, <2>11
  <2>5. rdAddr = compCyc * KbCnt + passQ /\ rdAddr' = (rdAddr + KbCnt) % size
    BY <1>2, <1>5
  <2>9. next = (compCyc * KbCnt + KbCnt) + passQ
    BY <2>4, Zenon
  <2> HIDE DEF next, size
  <2>10. \A a, k, q \in Nat : (a + q) + k = (a + k) + q
    OBVIOUS
  <2> HIDE DEF next, size
  <2>12. KbCnt \in Nat /\ passQ \in Nat
    BY <1>5
  <2>6. rdAddr + KbCnt = next
    BY <2>4, <2>5, <2>9, <2>10, <2>12
  <2>7. next < size
    BY <2>2, <2>3
  <2>8. next % size = next
    BY <2>2, <2>3, <2>7
  <2> QED
    BY <2>5, <2>6, <2>8 DEF next
<1>17. rdAddr' \in Nat
  <2>1. MTile * KbMax \in Nat \ {0} /\ rdAddr + KbCnt \in Nat
    BY <1>5, InBuffer
  <2>2. (rdAddr + KbCnt) % (MTile * KbMax) \in Nat
    BY <2>1
  <2> QED
    BY <1>2, <1>5, <2>2
<1>18. PassInv'
  <2>1. compCyc' \in Nat /\ ingCnt' \in Nat /\ flushCnt' \in Nat /\ passQ' \in Nat
    BY <1>1, <1>2, <1>5 DEF PassInv
  <2>2. state' = "COMPUTE" => compCyc' <= MCnt'
    BY <1>2, <1>5, <1>6
  <2>3. state' = "FLUSH" => flushCnt' < FlushCycles
    BY <1>2, <1>5 DEF FlushCycles
  <2>4. state' = "COMPUTE" /\ compCyc' < MCnt' => rdAddr' = compCyc' * KbCnt' + passQ'
    BY <1>2, <1>6, <1>16
  <2>5. passQ' < KbCnt'
    BY <1>2, <1>5, <1>6
  <2> QED
    BY <1>4, <1>17, <2>1, <2>2, <2>3, <2>4, <2>5 DEF PassInv
<1> QED
  BY <1>9, <1>10, <1>11, <1>12, <1>13, <1>15, <1>18 DEF DataInv

\* A cycle of the flush in which a wavefront still moves.
LEMMA FlushMoves ==
  ASSUME IInv, DataInv, NEW in \in Inputs, Flush(in), flushCnt # FlushCycles - 1
  PROVE  DataInv'
<1>1. /\ OrderInv /\ PassInv /\ InjectInv /\ BufInv /\ LoaderInv /\ ArrayInv /\ BankInv
      /\ ActInv /\ WgtInv /\ ResultExact
  BY DEF DataInv
<1>2. /\ state = "FLUSH" /\ state' = "FLUSH" /\ Datapath(in) /\ Loader(FALSE) /\ job' = job
      /\ offered' = offered /\ ingCnt' = ingCnt /\ passQ' = passQ /\ flushCnt' = flushCnt + 1
      /\ compCyc' = compCyc /\ rdAddr' = rdAddr
  BY DEF Flush, InJob
<1>3. /\ Producers(in.act, in.wgt) /\ Results(in.res) /\ Array /\ Buffer /\ Inject /\ program' = program
      /\ in.res \in BOOLEAN
  BY <1>2 DEF Datapath, Inputs
<1>4. /\ Loading /\ Streaming /\ Loading' /\ Streaming' /\ state # "IDLE" /\ state # "INGEST"
      /\ state' # "INGEST" /\ state' # "IDLE"
  BY <1>2 DEF Loading, Streaming
<1>5. /\ MCnt \in Nat \ {0} /\ flushCnt \in Nat /\ flushCnt < FlushCycles /\ FlushCycles \in Nat
      /\ passQ \in Nat
  <2>1. FlushCycles \in Nat
    BY ArrayAssumption DEF FlushCycles
  <2> QED
    BY <1>1, <1>2, <1>4, <2>1, JobFacts DEF PassInv
<1>6. D' = D /\ KbCnt' = KbCnt /\ MCnt' = MCnt
  BY <1>2, <1>3 DEF KbCnt, MCnt, D
<1>7. T = MCnt + 1 + flushCnt /\ T' = T + 1 /\ T' = MCnt + 1 + (flushCnt + 1)
  <2>1. T = MCnt + 1 + flushCnt /\ T' = MCnt' + 1 + flushCnt'
    BY <1>2 DEF T
  <2>2. T' = MCnt + 1 + (flushCnt + 1)
    BY <1>2, <1>6, <2>1
  <2>3. MCnt + 1 + (flushCnt + 1) = (MCnt + 1 + flushCnt) + 1
    BY <1>5
  <2> QED
    BY <2>1, <2>2, <2>3
<1>8. /\ Shape(array') /\ Pipe(array', D, job, passQ, T + 1)
      /\ Accs(array', program, job, passQ, T + 1) /\ BankEdge
  BY <1>1, <1>3, <1>4, ArrayEdge DEF BankEdge
<1>9. ArrayInv'
  BY <1>2, <1>3, <1>4, <1>6, <1>7, <1>8 DEF ArrayInv
<1>10. LoaderInv' /\ BankInv'
  <2>1. NextPass' = NextPass
    BY <1>2, <1>4 DEF NextPass
  <2> QED
    BY <1>1, <1>2, <1>3, <1>4, <1>5, <1>8, <2>1, LoaderStays
<1>11. WgtInv'
  BY <1>1, <1>2, <1>3, <1>4, WgtStays
<1>12. BufInv' /\ ActInv'
  BY <1>1, <1>2, <1>3, <1>4, BufStays, ActStays
<1>13. OrderInv' /\ ResultExact'
  BY <1>1, <1>2, <1>3, OrderStays, ResultStep
<1>14. InjectInv'
  <2>1. injValid' = FALSE
    BY <1>2, <1>3 DEF Inject
  <2>2. (T' - 1 \in 0 .. MCnt' - 1) = FALSE
    BY <1>5, <1>6, <1>7
  <2> QED
    BY <2>1, <2>2, Zenon DEF InjectInv
<1>15. PassInv'
  BY <1>1, <1>2, <1>4, <1>5, <1>6 DEF PassInv
<1> QED
  BY <1>9, <1>10, <1>11, <1>12, <1>13, <1>14, <1>15 DEF DataInv

\* The last cycle of a flush leaves an array in which nothing moves, with the
\* pass in the accumulators.
LEMMA FlushEnds ==
  ASSUME IInv, DataInv, Array, state = "FLUSH", flushCnt = FlushCycles - 1
  PROVE  /\ Shape(array') /\ Quiet(array') /\ Accs(array', program, job, passQ + 1, 0)
         /\ passQ + 1 = KbCnt => Settled(array', program, job)
<1>1. PassInv /\ InjectInv /\ LoaderInv /\ ArrayInv /\ BankInv
  BY DEF DataInv
<1>2. Streaming /\ state # "IDLE"
  BY DEF Streaming
<1>3. /\ MCnt \in Nat \ {0} /\ MCnt = program[job].m /\ D = program[job] /\ KbCnt = Chunks(program[job])
      /\ KbCnt \in Nat \ {0} /\ Legal(program[job]) /\ job \in Nat \ {0} /\ program[job].m \in 0 .. MTile
      /\ passQ \in Nat /\ FlushCycles \in Nat
  <2>1. FlushCycles \in Nat /\ MTile \in Nat
    BY ArrayAssumption DEF FlushCycles
  <2> QED
    BY <1>1, <1>2, <2>1, JobFacts DEF PassInv
<1>4. Shape(array') /\ Pipe(array', D, job, passQ, T + 1) /\ Accs(array', program, job, passQ, T + 1)
  BY <1>1, <1>2, ArrayEdge
<1>5. T + 1 = program[job].m + 1 + FlushCycles
  <2>1. T = MCnt + 1 + (FlushCycles - 1)
    BY DEF T
  <2> QED
    BY <1>3, <2>1
<1>6. Quiet(array')
  BY <1>3, <1>4, <1>5, PipeQuiet
<1>7. Accs(array', program, job, passQ + 1, 0)
  BY <1>3, <1>4, <1>5, AccsTurn
<1>8. passQ + 1 = KbCnt => Settled(array', program, job)
  BY <1>3, <1>7, AccsEnd
<1> QED
  BY <1>4, <1>6, <1>7, <1>8

\* The last cycle of a flush: the next pass, the wait for its chunk, or the drain.
LEMMA FlushTurns ==
  ASSUME IInv, DataInv, NEW in \in Inputs, Flush(in), flushCnt = FlushCycles - 1
  PROVE  DataInv'
<1> DEFINE more == passQ + 1 < KbCnt
           swap == more /\ shValid
<1>1. /\ OrderInv /\ PassInv /\ InjectInv /\ BufInv /\ LoaderInv /\ ArrayInv /\ BankInv
      /\ ActInv /\ WgtInv /\ ResultExact
  BY DEF DataInv
<1>2. /\ state = "FLUSH" /\ Datapath(in) /\ Loader(swap) /\ job' = job
      /\ offered' = offered /\ ingCnt' = ingCnt /\ passQ' = (IF more THEN passQ + 1 ELSE passQ)
      /\ flushCnt' = flushCnt + 1
      /\ swap => EnterCompute(passQ + 1)
      /\ ~swap => /\ state' = IF more THEN "WLOAD" ELSE "DRAIN"
                  /\ compCyc' = compCyc /\ rdAddr' = rdAddr
  BY DEF Flush, InJob
<1>3. /\ Producers(in.act, in.wgt) /\ Results(in.res) /\ Array /\ Buffer /\ Inject /\ program' = program
      /\ in.res \in BOOLEAN
  BY <1>2 DEF Datapath, Inputs
<1>4. shValid \in BOOLEAN /\ swap \in BOOLEAN /\ more \in BOOLEAN /\ (swap => shValid) /\ (swap => more)
      /\ (more /\ shValid => swap)
  BY <1>1 DEF LoaderInv
<1>5. /\ MCnt \in Nat \ {0} /\ KbCnt \in Nat \ {0} /\ passQ \in Nat /\ passQ < KbCnt /\ flushCnt \in Nat
  <2>1. state # "IDLE"
    BY <1>2
  <2> QED
    BY <1>1, <2>1, JobFacts DEF PassInv
<1>6. (more => passQ + 1 < KbCnt) /\ (~more => passQ + 1 = KbCnt)
  BY <1>5
<1> HIDE DEF more, swap
<1>7. /\ Loading /\ Streaming /\ state # "IDLE" /\ state # "INGEST" /\ state # "COMPUTE"
      /\ state' # "INGEST" /\ state' # "IDLE" /\ state' # "FLUSH"
      /\ swap => Streaming' /\ Loading' /\ state' = "COMPUTE"
      /\ ~swap => ~Streaming' /\ state' # "COMPUTE"
      /\ more => Loading'
      /\ ~more => ~Loading' /\ ~swap
  BY <1>2, <1>4 DEF Loading, Streaming, EnterCompute
<1>8. D' = D /\ KbCnt' = KbCnt /\ MCnt' = MCnt
  BY <1>2, <1>3 DEF KbCnt, MCnt, D
<1>9. /\ Shape(array') /\ Quiet(array') /\ Accs(array', program, job, passQ + 1, 0)
      /\ passQ + 1 = KbCnt => Settled(array', program, job)
  BY <1>2, <1>3, FlushEnds
<1>10. BankEdge
  BY <1>1, <1>3, ArrayEdge DEF BankEdge
<1>11. BufInv' /\ ActInv'
  BY <1>1, <1>2, <1>3, <1>7, BufStays, ActStays
<1>12. OrderInv' /\ ResultExact'
  BY <1>1, <1>2, <1>3, OrderStays, ResultStep
<1>13. NextPass = passQ + 1
  BY <1>7 DEF NextPass
\* The pass is the job's last: all its chunks are in, the loader stands.
<1>14. ~more => lpass' = KbCnt
  <2> SUFFICES ASSUME ~more PROVE lpass' = KbCnt
    OBVIOUS
  <2>1. lpass = (passQ + 1) + Shadow /\ lpass <= KbCnt /\ Shadow \in {0, 1} /\ lpass \in Nat
    BY <1>1, <1>7, <1>13 DEF LoaderInv, Shadow
  <2>2. lpass = KbCnt
    BY <1>5, <1>6, <2>1
  <2>3. ~WShift
    BY <1>5, <2>2 DEF WShift, LdrRun
  <2> QED
    BY <1>2, <2>2, <2>3 DEF Loader
<1>15. WgtInv'
  BY <1>1, <1>2, <1>3, <1>4, <1>7, <1>14, WgtStays
<1>16. LoaderInv' /\ BankInv'
  <2>1. CASE swap
    <3>1. Loader(TRUE) /\ shValid /\ Streaming'
      BY <1>2, <1>4, <1>7, <2>1
    <3>2. passQ' = NextPass
      BY <1>2, <1>4, <1>13, <2>1
    <3> QED
      BY <1>1, <1>2, <1>3, <1>5, <1>7, <1>10, <3>1, <3>2, LoaderSwaps
  <2>2. CASE ~swap
    <3>1. Loader(FALSE) /\ ~Streaming'
      BY <1>2, <1>4, <1>7, <2>2
    <3>2. Loading' => NextPass' = NextPass
      <4>1. NextPass' = passQ'
        BY <3>1 DEF NextPass
      <4> QED
        BY <1>2, <1>4, <1>7, <1>13, <4>1
    <3> QED
      BY <1>1, <1>2, <1>3, <1>5, <1>7, <1>10, <3>1, <3>2, LoaderStays
  <2> QED
    BY <2>1, <2>2
<1>17. ArrayInv' /\ InjectInv'
  <2>1. CASE swap
    <3>1. passQ' = passQ + 1 /\ passQ + 1 \in Nat
      BY <1>2, <1>4, <1>5, <2>1
    <3> QED
      BY <1>2, <1>3, <1>7, <1>9, <2>1, <3>1, BeginPass
  <2>2. CASE ~swap
    <3>1. more => passQ' = passQ + 1
      BY <1>2
    <3>2. ArrayInv'
      BY <1>2, <1>3, <1>6, <1>7, <1>9, <2>2, <3>1 DEF ArrayInv
    <3>3. InjectInv'
      BY <1>3, <1>7, <2>2 DEF InjectInv, Inject
    <3> QED
      BY <3>2, <3>3
  <2> QED
    BY <2>1, <2>2
<1>18. PassInv'
  <2>1. passQ' \in Nat /\ passQ' < KbCnt'
    BY <1>2, <1>5, <1>6, <1>8
  <2>2. flushCnt' \in Nat /\ ingCnt' \in Nat
    BY <1>1, <1>2, <1>5 DEF PassInv
  <2>3. CASE swap
    <3>1. compCyc' = 0 /\ rdAddr' = passQ' /\ state' = "COMPUTE"
      BY <1>2, <1>4, <2>3 DEF EnterCompute
    <3>4. \A k, q \in Nat : 0 * k + q = q
      OBVIOUS
    <3>2. 0 * KbCnt' + passQ' = passQ'
      BY <1>5, <1>8, <2>1, <3>4
    <3>3. 0 <= MCnt'
      BY <1>5, <1>8
    <3> QED
      BY <2>1, <2>2, <3>1, <3>2, <3>3 DEF PassInv
  <2>4. CASE ~swap
    BY <1>1, <1>2, <1>7, <2>1, <2>2, <2>4 DEF PassInv
  <2> QED
    BY <2>3, <2>4
<1> QED
  BY <1>11, <1>12, <1>15, <1>16, <1>17, <1>18 DEF DataInv

\* A legal descriptor is taken: its beats are the next of both streams, and
\* what is resident in the accumulators is what its first pass finds.
LEMMA AcceptData ==
  ASSUME IInv, DataInv, NEW in \in Inputs, Accept(in)
  PROVE  DataInv'
<1>1. /\ OrderInv /\ PassInv /\ InjectInv /\ BufInv /\ LoaderInv /\ ArrayInv /\ BankInv
      /\ ActInv /\ WgtInv /\ ResultExact
  BY DEF DataInv
<1>2. /\ state = "IDLE" /\ state' = "INGEST" /\ offered <= NJobs /\ Legal(program[offered])
      /\ Datapath(in) /\ job' = offered /\ offered' = offered + 1
      /\ ingCnt' = 0 /\ passQ' = 0 /\ lpass' = 0 /\ wlCnt' = 0 /\ shValid' = FALSE
      /\ compCyc' = compCyc /\ rdAddr' = rdAddr /\ flushCnt' = flushCnt /\ liveQ' = liveQ
  BY DEF Accept, DescReady
<1>3. /\ Producers(in.act, in.wgt) /\ Results(in.res) /\ Array /\ Buffer /\ Inject /\ program' = program
      /\ in.res \in BOOLEAN
  BY <1>2 DEF Datapath, Inputs
<1>4. ~Loading /\ ~Streaming /\ Loading' /\ ~Streaming' /\ ~AReady /\ ~WShift
  BY <1>2 DEF Loading, Streaming, AReady, WShift, LdrRun
<1>5. /\ NJobs \in Nat /\ job \in Nat /\ offered \in Nat \ {0} /\ offered \in 1 .. NJobs
      /\ offered - 1 \in Nat /\ job <= offered - 1 /\ offered \in job + 1 .. NJobs + 1
      /\ \A i \in job + 1 .. offered - 1 : ~Legal(program[i])
  <2>1. NJobs \in Nat
    BY ArrayAssumption
  <2>2. /\ job \in 0 .. NJobs /\ offered \in job + 1 .. NJobs + 1
        /\ \A i \in job + 1 .. offered - 1 : ~Legal(program[i])
    BY <1>1 DEF OrderInv
  <2> QED
    BY <1>2, <2>1, <2>2
<1> DEFINE d == program[offered]
<1>6. /\ d \in Descs /\ d.m \in 1 .. MTile /\ d.m \in Nat \ {0} /\ d.n \in 1 .. MxeN /\ d.n \in Nat \ {0}
      /\ Chunks(d) \in Nat \ {0} /\ MTile \in Nat /\ MxeN \in Nat \ {0}
  <2>1. d \in Descs
    BY <1>5 DEF IInv, JobInv
  <2>2. MTile \in Nat /\ KbMax \in Nat /\ MxeN \in Nat \ {0}
    BY ArrayAssumption
  <2> QED
    BY <1>2, <2>1, <2>2, LegalJob
<1>7. D' = d /\ MCnt' = d.m /\ KbCnt' = Chunks(d)
  BY <1>2, <1>3 DEF D, MCnt, KbCnt
<1>8. Shape(array') /\ Quiet(array') /\ Settled(array', program, job)
  BY <1>1, <1>3, <1>4, ArrayEdge
<1>9. Settled(array', program, offered - 1)
  <2> SUFFICES ASSUME NEW c \in Lane, NEW m \in Row
               PROVE  array'.acc[c][m] = Resident(program, offered - 1, m, c)
    BY DEF Settled
  <2>1. Resident(program, offered - 1, m, c) = Resident(program, job, m, c)
    BY <1>5, ResidentSkip
  <2> QED
    BY <1>8, <2>1 DEF Settled
<1>10. Accs(array', program, offered, 0, 0)
  BY <1>9, AccsBegin
<1>11. ArrayInv'
  BY <1>2, <1>3, <1>4, <1>8, <1>10 DEF ArrayInv
<1>12. InjectInv'
  BY <1>2, <1>3, <1>4 DEF InjectInv, Inject
<1>13. PassInv'
  <2>1. compCyc \in Nat /\ rdAddr \in Nat /\ flushCnt \in Nat
    BY <1>1 DEF PassInv
  <2> QED
    BY <1>2, <1>6, <1>7, <2>1 DEF PassInv
<1>14. BufInv'
  <2>1. abuf' = abuf
    BY <1>3, <1>4 DEF Buffer
  <2>2. 0 < d.m * Chunks(d)
    BY <1>6
  <2>3. \A m \in 0 .. d.m - 1, p \in 0 .. Chunks(d) - 1 : ~(m * Chunks(d) + p < 0)
    <3> TAKE m \in 0 .. d.m - 1, p \in 0 .. Chunks(d) - 1
    <3>1. m * Chunks(d) + p \in Nat
      BY <1>6, InTile
    <3> QED
      BY <3>1
  <2> QED
    BY <1>1, <1>2, <1>7, <2>1, <2>2, <2>3 DEF BufInv
<1>15. LoaderInv'
  <2>1. NextPass' = 0 /\ Shadow' = 0
    BY <1>2, <1>4 DEF NextPass, Shadow
  <2>2. lpass' = NextPass' + Shadow' /\ lpass' <= KbCnt' /\ lpass' \in Nat
    BY <1>2, <1>6, <1>7, <2>1
  <2>3. liveQ \in {0, 1} /\ 0 \in Lane
    BY <1>1, <1>6 DEF LoaderInv, Lane
  <2> QED
    BY <1>2, <2>2, <2>3 DEF LoaderInv
<1>16. BankInv'
  <2>1. \A c \in Lane : ~(c >= MxeN - 0)
    BY <1>6 DEF Lane
  <2>2. HoldsFirst(array'.bank[1 - liveQ'], D', job', lpass', 0)
    BY <2>1 DEF HoldsFirst
  <2> QED
    BY <1>2, <1>4, <2>2 DEF BankInv
<1>17. IsNext(program, job + 1, offered)
  BY <1>2, <1>5 DEF IsNext
<1>18. \A k \in 1 .. NJobs + 1 : IsNext(program, job + 1, k) => k = offered
  BY <1>5, <1>17, NextUnique
<1>19. ActInv'
  <2>1. /\ ActLine(program, actSkid', actNext')
        /\ Front(actSkid', actNext') = Front(actSkid, actNext)
    BY <1>1, <1>3, <1>4, ActStream
  <2>2. Front(actSkid, actNext) = FirstAct(offered)
    BY <1>1, <1>2, <1>18 DEF ActInv, ActDue
  <2>3. 0 \in 0 .. d.m - 1 /\ 0 \in 0 .. Chunks(d) - 1 /\ 0 * Chunks(d) + 0 = 0
    BY <1>6
  <2>4. ActWant(program, offered, 0, FirstAct(offered))
    BY <2>3 DEF ActWant, FirstAct
  <2>5. ActDue(Front(actSkid, actNext))'
    BY <1>2, <1>3, <2>1, <2>2, <2>4 DEF ActDue
  <2> QED
    BY <1>3, <2>1, <2>5 DEF ActInv
<1>20. WgtInv'
  <2>1. /\ WgtLine(program, wgtSkid', wgtNext')
        /\ Front(wgtSkid', wgtNext') = Front(wgtSkid, wgtNext)
    BY <1>1, <1>3, <1>4, WgtStream
  <2>2. Front(wgtSkid, wgtNext) = FirstWgt(offered)
    BY <1>1, <1>4, <1>18 DEF WgtInv, WgtDue
  <2>3. 0 < Chunks(d) /\ 0 < d.n
    BY <1>6
  <2>4. WgtWant(program, offered, 0, 0, FirstWgt(offered))
    <3>1. ~(0 >= d.n)
      BY <1>6
    <3> QED
      BY <2>3, <3>1 DEF WgtWant, FirstWgt
  <2>5. WgtDue(Front(wgtSkid, wgtNext))'
    BY <1>2, <1>3, <1>4, <2>1, <2>2, <2>4 DEF WgtDue
  <2> QED
    BY <1>3, <2>1, <2>5 DEF WgtInv
<1>21. OrderInv'
  <2>1. offered \in 0 .. NJobs /\ offered + 1 \in offered + 1 .. NJobs + 1
        /\ \A i \in offered + 1 .. (offered + 1) - 1 : FALSE
    BY <1>5
  <2> QED
    BY <1>2, <1>3, <2>1 DEF OrderInv
<1>22. ResultExact'
  BY <1>1, <1>3, ResultStep
<1> QED
  BY <1>11, <1>12, <1>13, <1>14, <1>15, <1>16, <1>19, <1>20, <1>21, <1>22 DEF DataInv

\* Every step keeps the data where they belong.
LEMMA NextData ==
  ASSUME IInv, DataInv, Next
  PROVE  DataInv'
<1>1. PICK in \in Inputs : Step(in)
  BY DEF Next
<1>2. CASE Flush(in)
  BY <1>2, FlushMoves, FlushTurns
<1> QED
  BY <1>1, <1>2, RestData, AcceptData, IngestData, WloadData, ComputeData DEF Step

\* A reset engine holds no product.
LEMMA InitData ==
  ASSUME Init
  PROVE  DataInv
<1>1. /\ program \in [1 .. NJobs -> Descs] /\ offered = 1 /\ job = 0 /\ state = "IDLE"
      /\ ingCnt = 0 /\ passQ = 0 /\ compCyc = 0 /\ rdAddr = 0 /\ flushCnt = 0
      /\ injValid = FALSE /\ injRow = 0
      /\ liveQ = 0 /\ lpass = 0 /\ wlCnt = 0 /\ shValid = FALSE
      /\ abuf = [i \in 0 .. MTile * KbMax - 1 |-> None]
      /\ array = ResetArray
      /\ actSkid = Skid!EmptySkid /\ wgtSkid = Skid!EmptySkid /\ resSkid = Skid!EmptySkid
      /\ actNext = [job |-> FirstLegal(1), m |-> 0, p |-> 0]
      /\ wgtNext = [job |-> FirstLegal(1), p |-> 0, c |-> 0]
  BY DEF Init
<1>2. NJobs \in Nat \ {0} /\ MxeN \in Nat \ {0} /\ MTile \in Nat \ {0}
  BY ArrayAssumption
<1>3. ~Loading /\ ~Streaming
  BY <1>1 DEF Loading, Streaming
<1>4. OrderInv
  BY <1>1, <1>2 DEF OrderInv
<1>5. PassInv /\ InjectInv
  BY <1>1, <1>3 DEF PassInv, InjectInv
<1>6. BufInv
  BY <1>1 DEF BufInv
<1>7. LoaderInv /\ BankInv
  <2>1. 0 \in Lane
    BY <1>2 DEF Lane
  <2> QED
    BY <1>1, <1>3, <2>1 DEF LoaderInv, BankInv
<1>8. ArrayInv
  <2>1. Shape(array)
    BY <1>1 DEF Shape, ResetArray
  <2>2. Quiet(array)
    BY <1>1 DEF Quiet, ResetArray, NoTag
  <2>3. \A c \in Lane, m \in Row : array.acc[c][m] = {}
    BY <1>1 DEF ResetArray
  <2>4. \A m, c : Resident(program, 0, m, c) = {}
    <3>1. \A i \in 1 .. 0 : FALSE
      OBVIOUS
    <3> QED
      BY <3>1 DEF Resident
  <2>5. Settled(array, program, job)
    BY <1>1, <2>3, <2>4 DEF Settled
  <2> QED
    BY <1>3, <2>1, <2>2, <2>5 DEF ArrayInv
<1>9. IsNext(program, 1, FirstLegal(1)) /\ FirstLegal(1) \in 1 .. NJobs + 1
  <2>1. 1 \in 1 .. NJobs + 1
    BY <1>2
  <2> QED
    BY <2>1, FirstLegalIsNext
<1> DEFINE j == FirstLegal(1)
<1>10. j = NJobs + 1 \/ (j \in 1 .. NJobs /\ Legal(program[j]))
  BY <1>2, <1>9 DEF IsNext
<1>11. job + 1 = 1
  BY <1>1
<1>12. actSkid.out = None /\ actSkid.back = None /\ wgtSkid.out = None /\ wgtSkid.back = None
       /\ resSkid.out = None /\ resSkid.back = None
  BY <1>1 DEF Skid!EmptySkid
<1>13. j \in 1 .. NJobs => /\ 0 \in 0 .. program[j].m - 1 /\ 0 \in 0 .. Chunks(program[j]) - 1
                           /\ 0 \in 0 .. program[j].n - 1
  <2> SUFFICES ASSUME j \in 1 .. NJobs
               PROVE  /\ 0 \in 0 .. program[j].m - 1 /\ 0 \in 0 .. Chunks(program[j]) - 1
                      /\ 0 \in 0 .. program[j].n - 1
    OBVIOUS
  <2>1. program[j] \in Descs /\ Legal(program[j])
    BY <1>1, <1>2, <1>10
  <2>2. /\ program[j].m \in 1 .. MTile /\ program[j].n \in 1 .. MxeN
        /\ Chunks(program[j]) \in 1 .. KbMax
    BY <2>1, LegalJob
  <2>3. KbMax \in Nat
    BY ArrayAssumption
  <2> QED
    BY <1>2, <2>2, <2>3
<1>14. ActInv
  <2>1. actNext = FirstAct(j)
    BY <1>1 DEF FirstAct
  <2>2. IsAct(program, actNext)
    BY <1>10, <1>13, <2>1 DEF IsAct, FirstAct
  <2>3. ActLine(program, actSkid, actNext)
    BY <1>12, <2>2 DEF ActLine
  <2>4. ActDue(Front(actSkid, actNext))
    BY <1>1, <1>9, <1>11, <1>12, <2>1 DEF ActDue, Front
  <2> QED
    BY <2>3, <2>4 DEF ActInv
<1>15. WgtInv
  <2>1. wgtNext = FirstWgt(j)
    BY <1>1 DEF FirstWgt
  <2>2. IsWgt(program, wgtNext)
    BY <1>10, <1>13, <2>1 DEF IsWgt, FirstWgt
  <2>3. WgtLine(program, wgtSkid, wgtNext)
    BY <1>12, <2>2 DEF WgtLine
  <2>4. WgtDue(Front(wgtSkid, wgtNext))
    BY <1>3, <1>9, <1>11, <1>12, <2>1 DEF WgtDue, Front
  <2> QED
    BY <2>3, <2>4 DEF WgtInv
<1>16. ResultExact
  BY <1>12 DEF ResultExact
<1> QED
  BY <1>4, <1>5, <1>6, <1>7, <1>8, <1>14, <1>15, <1>16 DEF DataInv

\* A clock edge of something else.
LEMMA StutterData ==
  ASSUME DataInv, UNCHANGED vars
  PROVE  DataInv'
<1>1. /\ program' = program /\ offered' = offered /\ job' = job /\ state' = state
      /\ ingCnt' = ingCnt /\ passQ' = passQ /\ compCyc' = compCyc /\ rdAddr' = rdAddr
      /\ flushCnt' = flushCnt /\ injValid' = injValid /\ injRow' = injRow /\ liveQ' = liveQ
      /\ lpass' = lpass /\ wlCnt' = wlCnt /\ shValid' = shValid /\ abuf' = abuf /\ rdata' = rdata
      /\ array' = array /\ actSkid' = actSkid /\ wgtSkid' = wgtSkid /\ resSkid' = resSkid
      /\ actNext' = actNext /\ wgtNext' = wgtNext
  BY DEF vars, fsm, counters, loader, streams, datapath
<1>2. D' = D /\ MCnt' = MCnt /\ KbCnt' = KbCnt
  BY <1>1 DEF D, MCnt, KbCnt
<1>3. Streaming' = Streaming /\ Loading' = Loading /\ T' = T /\ NextPass' = NextPass /\ Shadow' = Shadow
  BY <1>1, <1>2 DEF Streaming, Loading, T, NextPass, Shadow
<1>4. OrderInv' /\ PassInv' /\ InjectInv' /\ BufInv'
  BY <1>1, <1>2, <1>3 DEF DataInv, OrderInv, PassInv, InjectInv, BufInv
<1>5. LoaderInv' /\ BankInv'
  BY <1>1, <1>2, <1>3 DEF DataInv, LoaderInv, BankInv
<1>6. ArrayInv'
  BY <1>1, <1>2, <1>3 DEF DataInv, ArrayInv
<1>7. ActInv' /\ WgtInv'
  BY <1>1, <1>3 DEF DataInv, ActInv, WgtInv, ActDue, WgtDue
<1>8. ResultExact'
  BY <1>1 DEF DataInv, ResultExact
<1> QED
  BY <1>4, <1>5, <1>6, <1>7, <1>8 DEF DataInv

\* What Mxe's run checks as ResultExact holds of arrays of every size and of
\* every program: the products of a result beat are those of its job, its row
\* and its column, and those resident before it, each of them once.
THEOREM DataExact == Spec => []ResultExact
<1>1. Init => DataInv
  BY InitData
<1>2. IInv /\ DataInv /\ [Next]_vars => DataInv'
  BY NextData, StutterData
<1>3. IInv /\ DataInv => ResultExact
  BY DEF DataInv
<1> QED
  BY <1>1, <1>2, <1>3, Invariance, PTL DEF Spec
=============================================================================
