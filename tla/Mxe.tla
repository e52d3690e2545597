-------------------------------- MODULE Mxe --------------------------------
(***************************************************************************)
(* The matrix engine: mxe_ctrl.sv (job FSM and weight loader), mxe_buf.sv, *)
(* mxe_array.sv and the three boundary skids of mxe_top.sv.  A step is one *)
(* clock edge.  Software has a program of descriptors; for every legal one *)
(* the activation and the weight producers each deliver its beats in the   *)
(* order mxe_ctrl.sv prescribes, independently of one another and of the   *)
(* descriptor port, and the result consumer's ready is arbitrary.          *)
(***************************************************************************)
EXTENDS MxeArray, Sequences

CONSTANTS KbMax,    \* KB_MAX: K-chunks of the longest legal job
          Descs,    \* the descriptors software may submit
          NJobs     \* bound of the model: descriptors in a program

ASSUME ArrayAssumption == {MxeN, MTile, KbMax, NJobs} \subseteq Nat \ {0}
ASSUME DescAssumption ==
  \A d \in Descs : /\ d.op \in {"WS", "OS", "NOP"}
                   /\ d.m \in Nat /\ d.k \in Nat /\ d.n \in Nat
                   /\ d.accumulate \in BOOLEAN /\ d.buf \in Nat

VARIABLES program,    \* what software submits, in order
          offered,    \* number of the descriptor on the desc port
          job,        \* number of the descriptor the registered fields came from
          state,      \* the job FSM
          done, descError,
          ingCnt, passQ, compCyc, rdAddr, flushCnt, drainCnt, sentCnt, accnCnt,
          injValid, injRow,
          liveQ, lpass, wlCnt, shValid,     \* weight loader and banks
          abuf, rdata,                      \* mxe_buf and its read register
          array,                            \* mxe_array
          actSkid, wgtSkid, resSkid,
          actNext, wgtNext,                 \* the beat each producer has next
          lastRes                           \* history: the last result beat delivered

fsm == <<state, done, descError, offered, job>>
counters == <<ingCnt, passQ, compCyc, rdAddr, flushCnt, drainCnt, sentCnt>>
loader == <<lpass, wlCnt, shValid, liveQ>>
streams == <<actSkid, wgtSkid, resSkid, actNext, wgtNext, lastRes>>
datapath == <<abuf, rdata, array, injValid, injRow, accnCnt>>
vars == <<program, fsm, counters, loader, streams, datapath>>

Chunk == 0 .. KbMax - 1
ActBeat == [job : 1 .. NJobs, m : Row, p : Chunk]
WgtBeat == [job : 1 .. NJobs, p : Chunk, c : Lane]

Skid == INSTANCE StreamSkid WITH Beat <- ActBeat \cup WgtBeat, NoBeat <- None
-----------------------------------------------------------------------------
\* The legality check of an offered descriptor, before any state changes.
Legal(d) ==
  /\ d.op \in {"WS", "OS"}
  /\ d.k \in 1 .. KbMax * MxeN
  /\ d.m \in 1 .. MTile
  /\ d.n \in 1 .. MxeN
  /\ d.buf = 0

Chunks(d) == (d.k + MxeN - 1) \div MxeN                    \* kb_new
LastRows(d) == IF d.k % MxeN = 0 THEN MxeN ELSE d.k % MxeN  \* klast
Clears(d) == ~(d.op = "OS" /\ d.accumulate)                \* clear_job

D == program[job]      \* the registered job parameters
MCnt == D.m
KbCnt == Chunks(D)

\* The streams' beats: A[m][MXE_N*p ..] is [job, m, p], row-major and
\* chunk-minor; column c of chunk p of B is [job, p, c], chunk-major.
FirstLegal(from) ==
  IF \E j \in from .. NJobs : Legal(program[j])
  THEN CHOOSE j \in from .. NJobs :
         Legal(program[j]) /\ \A i \in from .. j - 1 : ~Legal(program[i])
  ELSE NJobs + 1

ActAfter(b) ==
  CASE b.p + 1 < Chunks(program[b.job]) -> [b EXCEPT !.p = @ + 1]
    [] b.p + 1 = Chunks(program[b.job]) /\ b.m + 1 < program[b.job].m ->
         [b EXCEPT !.p = 0, !.m = @ + 1]
    [] OTHER -> [job |-> FirstLegal(b.job + 1), m |-> 0, p |-> 0]

WgtAfter(b) ==
  CASE b.c + 1 < program[b.job].n -> [b EXCEPT !.c = @ + 1]
    [] b.c + 1 = program[b.job].n /\ b.p + 1 < Chunks(program[b.job]) ->
         [b EXCEPT !.c = 0, !.p = @ + 1]
    [] OTHER -> [job |-> FirstLegal(b.job + 1), p |-> 0, c |-> 0]

Init ==
  /\ program \in [1 .. NJobs -> Descs]
  /\ offered = 1 /\ job = 0
  /\ state = "IDLE" /\ done = FALSE /\ descError = FALSE
  /\ ingCnt = 0 /\ passQ = 0 /\ compCyc = 0 /\ rdAddr = 0
  /\ flushCnt = 0 /\ drainCnt = 0 /\ sentCnt = 0 /\ accnCnt = 0
  /\ injValid = FALSE /\ injRow = 0
  /\ liveQ = 0 /\ lpass = 0 /\ wlCnt = 0 /\ shValid = FALSE
  /\ abuf = [i \in 0 .. MTile * KbMax - 1 |-> None] /\ rdata = None
  /\ array = ResetArray
  /\ actSkid = Skid!EmptySkid /\ wgtSkid = Skid!EmptySkid /\ resSkid = Skid!EmptySkid
  /\ actNext = [job |-> FirstLegal(1), m |-> 0, p |-> 0]
  /\ wgtNext = [job |-> FirstLegal(1), p |-> 0, c |-> 0]
  /\ lastRes = None
-----------------------------------------------------------------------------
\* Mutant of DescReady: a descriptor is taken in the cycle of a done pulse.
DescReadyInDone == state = "IDLE"

\* Combinational signals.
DescReady == state = "IDLE" /\ ~done
AReady == state = "INGEST"
AValid == Skid!MValid(actSkid)

LdrRunNotInWload == state \in {"INGEST", "COMPUTE", "FLUSH"} /\ ~shValid /\ lpass < KbCnt

LdrRun == state \in {"INGEST", "WLOAD", "COMPUTE", "FLUSH"} /\ ~shValid /\ lpass < KbCnt
WReady == LdrRun /\ wlCnt < D.n
WShift == LdrRun /\ (wlCnt < D.n => Skid!MValid(wgtSkid))

RowsValid == IF lpass = KbCnt - 1 THEN LastRows(D) ELSE MxeN
Column == [r \in Lane |-> IF wlCnt < D.n /\ r < RowsValid THEN wgtSkid.out ELSE None]

ResAccepted(resReady) == Skid!MValid(resSkid) /\ resReady
RValid == state = "DRAIN"

RBeat == [job |-> job, row |-> drainCnt, last |-> drainCnt = MCnt - 1,
          lanes |-> [c \in 0 .. D.n - 1 |-> array.acc[c][drainCnt]]]

ArrEn == state \in {"COMPUTE", "FLUSH"}
Beat == IF injValid THEN rdata ELSE None

\* Mutant of Tag: every chunk overwrites, not the job's first only.
TagEveryPass == [valid |-> injValid, clear |-> Clears(D), row |-> injRow]

Tag == [valid |-> injValid, clear |-> Clears(D) /\ passQ = 0, row |-> injRow]
-----------------------------------------------------------------------------
\* What every clock edge does, whatever the state of the job FSM.
Producers(aOffer, wOffer) ==
  /\ aOffer => actNext.job <= NJobs
  /\ wOffer => wgtNext.job <= NJobs
  /\ actSkid' = Skid!Advance(actSkid, IF aOffer THEN actNext ELSE None, AReady)
  /\ wgtSkid' = Skid!Advance(wgtSkid, IF wOffer THEN wgtNext ELSE None, WReady)
  /\ actNext' = IF aOffer /\ Skid!SReady(actSkid) THEN ActAfter(actNext) ELSE actNext
  /\ wgtNext' = IF wOffer /\ Skid!SReady(wgtSkid) THEN WgtAfter(wgtNext) ELSE wgtNext

Results(resReady) ==
  /\ resSkid' = Skid!Advance(resSkid, IF RValid THEN RBeat ELSE None, resReady)
  /\ lastRes' = IF ResAccepted(resReady) THEN resSkid.out ELSE lastRes

Array ==
  LET computed == IF ArrEn THEN ComputeStep(array, Beat, Tag, liveQ) ELSE array
  IN  array' = IF WShift THEN LoadStep(computed, Column, liveQ) ELSE computed

Buffer ==
  /\ abuf' = IF AReady /\ AValid THEN [abuf EXCEPT ![ingCnt] = actSkid.out] ELSE abuf
  /\ rdata' = abuf[rdAddr]

Inject ==
  /\ injValid' = (state = "COMPUTE" /\ compCyc < MCnt)
  /\ injRow' = compCyc % MTile

Loader(swap) ==
  LET full == WShift /\ wlCnt = MxeN - 1
  IN  /\ wlCnt' = IF full THEN 0 ELSE IF WShift THEN wlCnt + 1 ELSE wlCnt
      /\ lpass' = IF full THEN lpass + 1 ELSE lpass
      /\ shValid' = (~swap /\ (full \/ shValid))
      /\ liveQ' = IF swap THEN 1 - liveQ ELSE liveQ

Datapath(in) ==
  /\ Producers(in.act, in.wgt)
  /\ Results(in.res)
  /\ Array
  /\ Buffer
  /\ Inject
  /\ UNCHANGED program

AccnNext(in) == IF ResAccepted(in.res) THEN accnCnt + 1 ELSE accnCnt

\* An edge in which a job is in flight; done and desc_error are pulses.
InJob(in, swap) ==
  /\ Datapath(in)
  /\ Loader(swap)
  /\ accnCnt' = AccnNext(in)
  /\ descError' = FALSE
  /\ UNCHANGED <<offered, job>>

\* Entering S_COMPUTE for chunk p swaps the banks.
EnterCompute(p) == state' = "COMPUTE" /\ compCyc' = 0 /\ rdAddr' = p
-----------------------------------------------------------------------------
\* S_IDLE, nothing offered or not ready for it.
Idle(in) ==
  /\ state = "IDLE"
  /\ ~(in.desc /\ DescReady)
  /\ InJob(in, FALSE)
  /\ done' = FALSE
  /\ UNCHANGED <<state, counters>>

\* S_IDLE: a legal descriptor is registered and the job begins.
Accept(in) ==
  /\ DescReady /\ in.desc /\ offered <= NJobs
  /\ Legal(program[offered])
  /\ Datapath(in)
  /\ job' = offered /\ offered' = offered + 1
  /\ state' = "INGEST"
  /\ ingCnt' = 0 /\ passQ' = 0 /\ sentCnt' = 0 /\ accnCnt' = 0
  /\ lpass' = 0 /\ wlCnt' = 0 /\ shValid' = FALSE
  /\ done' = FALSE /\ descError' = FALSE
  /\ UNCHANGED <<compCyc, rdAddr, flushCnt, drainCnt, liveQ>>

\* S_IDLE: an illegal descriptor is consumed and nothing else happens.
Reject(in) ==
  /\ DescReady /\ in.desc /\ offered <= NJobs
  /\ ~Legal(program[offered])
  /\ Datapath(in)
  /\ Loader(FALSE)
  /\ accnCnt' = AccnNext(in)
  /\ offered' = offered + 1
  /\ descError' = TRUE /\ done' = FALSE
  /\ UNCHANGED <<job, state, counters>>

\* S_INGEST: activation beats fill the buffer; after the last one the banks
\* are swapped if the loader has finished chunk 0.
Ingest(in) ==
  /\ state = "INGEST"
  /\ LET final == AValid /\ ingCnt = MCnt * KbCnt - 1
     IN  /\ InJob(in, final /\ shValid)
         /\ ingCnt' = IF AValid THEN ingCnt + 1 ELSE ingCnt
         /\ IF final /\ shValid THEN EnterCompute(passQ)
            ELSE /\ state' = IF final THEN "WLOAD" ELSE "INGEST"
                 /\ UNCHANGED <<compCyc, rdAddr>>
  /\ done' = FALSE
  /\ UNCHANGED <<passQ, flushCnt, drainCnt, sentCnt>>

\* S_WLOAD: wait for the shadow bank.
Wload(in) ==
  /\ state = "WLOAD"
  /\ InJob(in, shValid)
  /\ IF shValid THEN EnterCompute(passQ) ELSE UNCHANGED <<state, compCyc, rdAddr>>
  /\ done' = FALSE
  /\ UNCHANGED <<ingCnt, passQ, flushCnt, drainCnt, sentCnt>>

\* S_COMPUTE: M buffer reads, then the cycle that injects the last one.
Compute(in) ==
  /\ state = "COMPUTE"
  /\ InJob(in, FALSE)
  /\ compCyc' = compCyc + 1
  /\ rdAddr' = IF compCyc < MCnt THEN (rdAddr + KbCnt) % (MTile * KbMax) ELSE rdAddr
  /\ IF compCyc = MCnt
     THEN state' = "FLUSH" /\ flushCnt' = 0
     ELSE UNCHANGED <<state, flushCnt>>
  /\ done' = FALSE
  /\ UNCHANGED <<ingCnt, passQ, drainCnt, sentCnt>>

\* S_FLUSH: the last wavefront leaves the array; then the next chunk, with a
\* swap if it is loaded, or the drain.
Flush(in) ==
  /\ state = "FLUSH"
  /\ flushCnt' = flushCnt + 1
  /\ LET final == flushCnt = FlushCycles - 1
         more == passQ + 1 < KbCnt
     IN  /\ InJob(in, final /\ more /\ shValid)
         /\ passQ' = IF final /\ more THEN passQ + 1 ELSE passQ
         /\ drainCnt' = IF final /\ ~more THEN 0 ELSE drainCnt
         /\ IF final /\ more /\ shValid THEN EnterCompute(passQ + 1)
            ELSE /\ state' = IF ~final THEN "FLUSH" ELSE IF more THEN "WLOAD" ELSE "DRAIN"
                 /\ UNCHANGED <<compCyc, rdAddr>>
  /\ done' = FALSE
  /\ UNCHANGED <<ingCnt, sentCnt>>

\* S_DRAIN: one result beat per cycle in which the output skid is ready.
Drain(in) ==
  /\ state = "DRAIN"
  /\ InJob(in, FALSE)
  /\ IF Skid!SReady(resSkid)
     THEN /\ sentCnt' = sentCnt + 1
          /\ drainCnt' = drainCnt + 1
          /\ state' = IF drainCnt = MCnt - 1 THEN "WAIT_DONE" ELSE "DRAIN"
     ELSE UNCHANGED <<sentCnt, drainCnt, state>>
  /\ done' = FALSE
  /\ UNCHANGED <<ingCnt, passQ, compCyc, rdAddr, flushCnt>>

\* Mutant of WaitDone: done once every beat has entered the output skid.
WaitSent(in) ==
  /\ state = "WAIT_DONE"
  /\ InJob(in, FALSE)
  /\ done' = (sentCnt = MCnt)
  /\ state' = IF sentCnt = MCnt THEN "IDLE" ELSE "WAIT_DONE"
  /\ UNCHANGED counters

\* S_WAIT_DONE: done once every result beat is accepted past the skid.
WaitDone(in) ==
  /\ state = "WAIT_DONE"
  /\ InJob(in, FALSE)
  /\ done' = (accnCnt = MCnt)
  /\ state' = IF accnCnt = MCnt THEN "IDLE" ELSE "WAIT_DONE"
  /\ UNCHANGED counters

Step(in) ==
  \/ Idle(in) \/ Accept(in) \/ Reject(in)
  \/ Ingest(in) \/ Wload(in) \/ Compute(in) \/ Flush(in)
  \/ Drain(in) \/ WaitDone(in)

\* The levels of desc_valid, act_valid, wgt_valid and res_ready in a cycle.
Inputs == [desc : BOOLEAN, act : BOOLEAN, wgt : BOOLEAN, res : BOOLEAN]

Next == \E in \in Inputs : Step(in)

Spec == Init /\ [][Next]_vars

\* Each producer that has beats left offers one again and again, software
\* keeps submitting and the consumer keeps returning, each in its own time.
FairSpec ==
  /\ Spec
  /\ WF_vars(\E in \in Inputs : in.desc /\ Step(in))
  /\ WF_vars(\E in \in Inputs : in.act /\ Step(in))
  /\ WF_vars(\E in \in Inputs : in.wgt /\ Step(in))
  /\ WF_vars(\E in \in Inputs : in.res /\ Step(in))
-----------------------------------------------------------------------------
TypeOK ==
  /\ offered \in 1 .. NJobs + 1 /\ job \in 0 .. NJobs
  /\ state \in {"IDLE", "INGEST", "WLOAD", "COMPUTE", "FLUSH", "DRAIN", "WAIT_DONE"}
  /\ {done, descError, injValid, shValid} \subseteq BOOLEAN
  /\ ingCnt \in 0 .. MTile * KbMax /\ passQ \in Chunk
  /\ compCyc \in 0 .. MTile + 1 /\ rdAddr \in 0 .. MTile * KbMax - 1
  /\ flushCnt \in 0 .. FlushCycles /\ drainCnt \in 0 .. MTile
  /\ sentCnt \in 0 .. MTile /\ accnCnt \in 0 .. MTile
  /\ liveQ \in {0, 1} /\ lpass \in 0 .. KbMax /\ wlCnt \in Lane
  /\ abuf \in [0 .. MTile * KbMax - 1 -> ActBeat \cup {None}]
  /\ rdata \in ActBeat \cup {None}
  /\ {actSkid.out, actSkid.back} \subseteq ActBeat \cup {None}
  /\ {wgtSkid.out, wgtSkid.back} \subseteq WgtBeat \cup {None}

\* The weight of column c of a chunk p is masked in row r of the array: rows
\* beyond the last one of a ragged chunk and columns beyond n hold zeros.
Masked(d, p, r, c) ==
  \/ c >= d.n
  \/ p = Chunks(d) - 1 /\ r >= LastRows(d)

\* The products of C[m][c] that chunk p of job j contributes, and all of them.
ChunkDot(d, j, p, m, c) ==
  {[act |-> [job |-> j, m |-> m, p |-> p], wgt |-> [job |-> j, p |-> p, c |-> c], row |-> r] :
     r \in {r \in Lane : ~Masked(d, p, r, c)}}
Dot(d, j, m, c) == UNION {ChunkDot(d, j, p, m, c) : p \in 0 .. Chunks(d) - 1}

\* A job that writes row m of the accumulators; an overwriting one starts from
\* nothing in each of its rows, an accumulating one adds to what is resident.
Writes(d, m) == Legal(d) /\ m < d.m
Survives(prog, i, j, m) == \A k \in i + 1 .. j : Writes(prog[k], m) => ~Clears(prog[k])

\* What accumulator m of column c holds once jobs 1 .. j of a program are done.
Resident(prog, j, m, c) ==
  UNION {Dot(prog[i], i, m, c) :
           i \in {i \in 1 .. j : Writes(prog[i], m) /\ Survives(prog, i, j, m)}}

\* Every result beat that leaves the engine carries, lane by lane, exactly
\* the dot product of its row of A and its column of B, on top of what an
\* accumulating job found resident: no product is missing, counted twice,
\* taken from another chunk, another job or a column being loaded meanwhile.
ResultExact ==
  \A b \in {resSkid.out, resSkid.back} \ {None} :
    \A c \in DOMAIN b.lanes : b.lanes[c] = Resident(program, b.job, b.row, c)

\* the job contract, seen through the engine's state
Jobs == INSTANCE MxeJob
          WITH running <- state # "IDLE", MaxResults <- MTile,
               owed <- IF state = "IDLE" THEN 0 ELSE MCnt - accnCnt

\* The engine keeps the job contract of its descriptor port: answers one at a
\* time, none while a job is offered, and done (D-006) only after the job's
\* final result beat has been accepted downstream of the output skid, not
\* merely stored in it.
JobContract == Jobs!Spec

\* However the two producers drift apart, no job hangs: the loader and the
\* job FSM never wait for each other.
EveryJobEnds == \A j \in 1 .. NJobs : offered = j ~> (offered > j /\ state = "IDLE")

=============================================================================
