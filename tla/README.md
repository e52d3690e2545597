# A TLA+ model of the APEX tile and of the host that drives it

This directory is a verification development for this repository: the RTL of the APEX inference tile
(`rtl/`) and the Python host stack that compiles register programs for it, flies them on a simulator
or on an F2 card, and decides from what comes back whether a language model was served by the tile
(`scripts/fpga/f2/`). It holds TLA+ modules translated from the source, TLC configurations that check
them on small instances, and proofs checked by TLAPS. `PROJECT.json` is the index: components, runs,
the source lines every definition stands for, the mutants that show each property can fail, the
hazards and the theorems. A helper whose lines lie within those of a listed definition of its module has
no entry of its own there.

Two modelling conventions, one for each half:
- **RTL.** One action is one clock edge. Registers are variables, a combinational signal is an
  operator of the same name in camel case (`in_m_ready` is `InReady`), an input port is quantified
  with `\E` in every cycle, a nonblocking assignment is a primed variable computed from the values
  before the edge; the order of assignments in an `always_ff` (the last one wins) is the nesting of
  an IF.
- **Host.** One action is one step between two points where another process, the card, a timeout, a
  death or a failing transfer can intervene. Names are the source's, in camel case
  (`check_tile_clock` is `ClockRight`). Numbers, tensors and files are symbols: a value is the name
  of what it was computed from, so that a stale, foreign, doubled or missing one shows.

## 1. Inventory

### Hardware

| Component | State it keeps | Operations | Talks to | Hard behaviour | What makes it correct |
|---|---|---|---|---|---|
| Stream skid, `xbr/stream_skid.sv` | output and backup register | load, shift, drain | every ready/valid stream | backpressure in any cycle | a FIFO of two: no beat lost, reordered, withdrawn |
| Descriptor sequencer, `seq/seq_walker.sv` | descriptor FIFO, walker FSM, abort flag, skid poison counts | accept, dispatch, await the answer, soft abort | software (`ds_*`), matrix engine (`md_*`, answer pulses) | abort at any moment; beats still in the input skid | one job at a time in order; an abort drops all that waits and only that; `busy` never lies |
| Matrix engine, `mxe/*.sv` | job FSM, loader, two weight banks, systolic pipeline, accumulators | accept or refuse a job, ingest, load, compute, flush, drain | three skidded streams | weights load under a running wavefront; a stall of any stream | exact results in order; `done` only after acceptance; no hang |
| KV-cache engine, `kvq/` | token assembly, key group, record SRAM, scale banks, read burst, CSRs | store, group, flush, read, soft reset, mask commit | KV streams, AXI-Lite host | reset in any cycle; deferred reads; strobes that act a cycle late | `STATUS.idle` never lies; records, rows and masks belong together; a burst is whole and exact |
| Tile, `top/apex_top.sv`, glue, seams, softmax, norm, layer walkers | stage rows, KV store, capture FIFOs, walker | one job of each engine; one walked layer | mailbox streams and register windows | engines finish in any order while the host goes on pushing | captures are what the program was built to compute |

### Host

| Component | State it keeps | Operations | Talks to | Hard behaviour | What makes it correct |
|---|---|---|---|---|---|
| Register-program executor, `f2_host_run.py` | position, FIFO budget, tallies | a line, or a compiled node | the card's registers | bursts, prepaid FIFO room | the compiled executor does what the line-by-line one does |
| Transports, `tile_exec_bridge.py`, `batch_exec.py`, `remote_hw_exec.py`, `clock_key.py` | daemon, runners, capture file, uploaded job | submit, wait, kill, restart, demultiplex, clock gate | executor processes, ssh | timeout against a late answer, deaths, truncated files | what is reported ok is the job's own; one runner at a time |
| Program builders, `gemm_job.py`, `gen_layer_ops.py`, `walk_job.py`, `compute_job.py` | none | compile a job to register operations | the tile | push order against bounded FIFOs | every program ends and captures the product |
| Layer walks and campaigns, `elane_*.py`, `walk_*.py`, `narrow_flight.py`, `sum2_mxe.py`, `wd_ksplit_05b.py`, `fatproof.py`, `fuel_proj_05b.py` | control and discriminator programs | build, fly, grade | the tile's walker and fuel path | a grader that cannot go red | a campaign passes exactly on a tile without a fault |
| Layer offload, `layer_offload.py`, `layer05b.py` | queue of programs, capture pool, served values | collapse, flush, replay, grade | executor, golden model | paths reused under a cached capture; values that depend on others still queued | the values are those of running every program where it is needed |
| Prompt run and head offload, `prompt05b.py`, `prompt_offload.py` | rebound names, ledger, head rows | arms of a run, report | golden model, executor | nested rebinds left by an exception or out of order | arms do not leak; a PASS means served |
| Interactive session, `apex_repl.py` | mode, reference cache, clock | bring-up, commands, prompts, interrupts | all of the above | cached reference of another prompt; an interrupt in mid-run | every verdict against golden's own run |
| Token loop, `token_loop.py`, `emit_cache.py` | tokens, templates, pool of emitting processes | admission, emit or patch, fly, grade, sample | executor | per-process templates patched in place; grade before sample | what is sampled, counted and passed was graded |
| Weight image and card drivers, `make_weight_image.py`, `f2_ddr_load.py`, `fly_e7*.py`, `seq_walker_fmt.py` | card DRAM, read-port owner | load, verify, poison, restore, fly | loader process over ssh | lost bursts, deaths between poison and restore | a poisoned card is never left behind a verdict |
| Step sweeps, `proj_sweep_batched.py`, `breadth_step.py` | record file, captured heads | batches, resume, grade | transports | records of another request; a counter that has moved on | PASS only over complete, own records |

How they interact: a driver (session, token loop, prompt run, campaign, sweep) asks golden code for a
layer; the seams it has rebound hand operations to builders, whose programs the transports fly; the
executor pushes them through the wrapper's mailbox into the tile, where descriptors pass the
sequencer to the matrix engine, the layer walker replaces the host for a whole layer, and results
come back through the capture FIFOs; the driver decodes and grades them and either substitutes them
for golden's values or compares them. On the hardware side the engine's answers to the sequencer are
one-cycle pulses, so both FSMs must agree in every cycle.

The hazards of this code, each at its line and with the properties that would catch it going wrong,
are the `hazards` of `PROJECT.json`.

## 2. The modules

### Hardware, cycle by cycle

| Module | Models | State and actions |
|---|---|---|
| `StreamSkid` | `stream_skid.sv` as a value | `Slot`s `out`, `back`; `Advance` is the whole `always_ff`. A library for the modules with skids in them |
| `SkidChannel` | one skid, arbitrary producer and consumer | `Stall`, `Drain`: a cycle without and with `m_ready` |
| `StreamFifo` | abstract: a FIFO with a capacity | `Put`, `Take`, both at once |
| `SeqWalker` | `seq_walker.sv` | `Idle`, `Dispatch`, `Request`, `Await`: the FSM's states, each with the input skid, the FIFO and the abort flag of that cycle |
| `JobQueue` | abstract: queue, one job at a time, abort | what `SeqWalker` promises |
| `MxeArray` | `mxe_array.sv`, `mxe_pe.sv` | skew pipes, PE registers, tags, accumulators; a partial sum is the bag of the products in it |
| `Mxe` | `mxe_ctrl.sv`, `mxe_buf.sv`, `mxe_top.sv` | one action for each state and branch of the job FSM; `InJob` is what every cycle does besides |
| `MxeJob` | abstract: the job contract of the descriptor port | `Start`, `Refuse`, `Rest`, `Work`, `Finish` |
| `SeqMxe` | the wiring of `u_seq` and `u_mxe` in `apex_top.sv` | `Tick`: both move on one edge; `SeqWalker` with `MxeJob` in place of the engine |
| `KvqEngine` | `kvq_engine.sv`, `sram_controller.sv`, `scale_bank_store.sv`, `cq_value_path.sv`, `cq_key_path.sv` | one action for each state of the streaming FSM; `Clock` is what memories and cores do in that cycle; `Csr` the AXI-Lite writes; the key path is a value, `Step` its possible successors in a clock (how long a walk takes is left open) |

### The tile at the level of jobs, and the programs for it

| Module | Models | State and actions |
|---|---|---|
| `Tile` | the tile as a register program sees it | streams, stage rows, array, requantizer, feeder, softmax, KV store, norm, residual row, capture FIFOs; `Host` and `Engine` steps, the latter any enabled unit's |
| `TilePrograms` | `gemm_job.py`, `compute_job.py`, `gen_l3_vectors.py` and the translators | programs as sequences of operations: projections (single, several on one staging, chained on the tile, split over files), attention |
| `LayerPrograms` | `gen_layer_ops.py` | residual windows, SwiGLU groups, norms, rotary stages, probes that expect a refusal |
| `LayerWalk` | `seq_layer_walker2.sv`, `walk_job.py` | from a mask of steps to the walker's own operations; the masks it refuses |
| `WalkPrograms` | `elane_norm_feed.py`, `elane_walk_norm.py`, `elane_walk_steps.py`, `elane_walk_qstage.py`, `walk_ffn_toy.py`, `walk_fuel_*.py`, `walk_layers_05b.py`, `fuel_proj_05b.py` | the norm's programs and its probes, the programs of one kick, their graders, the audits that the host wrote nothing meanwhile |
| `Campaigns` | the `run` of each of those drivers, `narrow_flight.py`, `sum2_mxe.py`, `wd_ksplit_05b.py`, `fatproof.py` | control and discriminators of a campaign, the faults a tile may have, the verdict |
| `TileJobs` | composition | `Fly`: a step of the program in flight or of an engine; `NextArm`, `Done` |

### The host

| Module | Models | State and actions |
|---|---|---|
| `LineExec` | `exec_interpreted` and `MockIO` of `f2_host_run.py` | a line: write, push, poll, capture, check, refusal |
| `CompiledExec` | `compile_file`, `exec_compiled`, `HwIO`'s bursts | the node list, each node under its first line; a step of a node: a dword of a burst, refill, prepaid push, capture, check |
| `CardJob` | `plan_batch`, `demux_captures` | a batch's script and its split |
| `HostExec` | `run_job`, `_HostDaemon`, `run_job_remote`, `check_tile_clock`, the runner's side of `f2_host_run.py`; `clock_key.py` as operators | client, runners, tile, capture file, clock: send, wait, time out, kill, gate, upload; reset, load, stall, capture, reply, die |
| `CapturePool` | `Runner` of `layer_offload.py` | a record and its methods |
| `LayerReplay` | `LayerOffloader` | an operation of the layer, flush of the queue, a replay pass, report |
| `PromptSession` | `apex_repl.py` | bring-up (`LoadImage`, `Recipe`, `Verify`), `Command`, `Enter`, `Work`, `Interrupt` |
| `LmHead` | `LmHeadOffloader` of `prompt05b.py` | a record and its methods |
| `MultiRun` | `prompt_offload.py`, `layer_offload.py`, `layer05b.py`, `prompt05b.py` | admission, arms with their nested rebinds, layers, head passes, tokens, report |
| `EmitCache` | `emit_cache.py` and the emission half of `token_loop.py` | templates, patches |
| `TokenLoop` | `token_loop.py` | gate, reference pass, engines, pool, batch, grade, window, sample, report |
| `WalkFormat` | `seq_walker_fmt.py`, arithmetic of `make_weight_image.py` and `f2_ddr_load.py` | pure operators, checked against reference facts (the `ASSUME`s of `MCCardImages`) |
| `CardImage` | `f2_ddr_load.py` as a process; `fly_e7_hw.py`, `fly_e7ng.py`, `fly_e7ng_poison.py`, hardware path of `walk_fuel_proj.py` | hash, preflight, burst, verify; fly, reload, abort, die |
| `StepSweep` | `proj_sweep_batched.py`, `breadth_step.py` | batches and resume; capture, heads, blocks, report |

`MC*` modules hold values of constants; `*Proofs` are described in section 5.

Compositions and refinements: `StreamSkid` is instantiated in `SkidChannel`, `SeqWalker` and `Mxe`;
`SkidChannel` implements `StreamFifo`; `SeqWalker` implements `JobQueue`; `Mxe` implements `MxeJob`, and
`SeqMxe` composes the sequencer with `MxeJob`, so what holds of the pair holds of any engine that
keeps the contract. `CompiledExec` implements `LineExec`. `LayerReplay` is compared with `Direct`, the
values of the transport without the collapse. `MCCardImages` puts the image drivers and the sweeps
on one card.

## 3. The runs

State counts and times are for two workers.

**seqmxe** (`SeqMxe`; queue of 2, 5 descriptors, jobs of up to 2 results). The engine ends a job at
any time, results are accepted at any pace, aborts come at any time. Five descriptors overflow queue
and skid (four places), so some arrive during and after an abort, and the pointers wrap. `BusyHonest`
is what software relies on, `NoAbortLeak` the claim of the abort logic's comments,
`QueueRefinement` the whole contract, `AbortWaitsForJob` and `EveryDescAnswered` need both parts.

**mxe** (`MCMxe`; 2 x 2 array, 2 accumulator rows, up to 3 chunks, every program of 2 from 4
descriptors). The four are a narrow job with a ragged last chunk, an accumulating job of three chunks,
a short overwriting one and one too deep, which is refused. Three chunks make both weight banks be
reused under a running wavefront; two jobs are enough for one to be hurt by what its predecessor left
behind. `ResultExact` compares with a definition of the matrix product (`Resident`), `JobContract` is
the refinement, `EveryJobEnds` that loader and FSM never wait for each other.

**kvq** (`KvqEngine`; D = 2, one outlier lane, groups of 2, 2 scale sets, 2 tokens, 2 records, one address each way). Values, keys,
partial groups, reads (deferred and of empty addresses), backpressure, soft resets in every cycle and
mask commits when idle. First beat, last beat and one outlier among two channels are all D = 2 needs
to show; the run where it is not enough, `kvq_reset_burst`, has D = 3. `RdWaitMax` is 1: the SRAM answers
in the next cycle and a wait beyond ends in RD_ERR. Two tokens make two groups at most, so no live
scale set is reused (SB_OVWR); that takes three, and many times the states.

**regops** (`MCRegOps`; every file of up to 3 lines over 13 kinds of line, and every file of 5 lines
of stream pushes and bursts; FIFO and budget of 2). The tile consumes at any moment. Three lines are
two of a node and what ends it; five exceed FIFO and budget twice.

**host** (`HostExec`; batches of 2 files with 2 captures, 2 jobs, each transport). Two jobs are enough
for one to meet the remains of the other: a runner that answers late, a capture file, an uploaded
job, a daemon. Any wait may time out, any process die or hang, any transfer fail, and the clock may be
reloaded by somebody else.

**layer_replay** (`MCLayerReplay`; all op families or two subsets, queue limits of 1 and 3 bytes,
refused and wrong operations, 12 passes). 21,372 states.

**session** (`MCPromptSession`; three prompts: one ends early, one is moved by the bus mode, one is
longer than the tile takes; 2 layers, 2 runs). Two runs are enough for a cached reference to be
reused, rightly or wrongly.

**multirun** (`MCMultiRun`; 3 head rows in slices of 2, 2 layers, prompts of 2 tokens and up to 2
generated; four drivers, all scopes, poisons and refusals). 1,228,556 states, about a minute.

**tile_jobs** (`TileJobs`; 3 beats to a row, FIFOs of 2, capture FIFOs of 6, chunks of 2, groups of 2,
7 stage rows, windows of 3, norm width up to 4; every program of the builders and 19 campaigns, each
on a healthy tile and on tiles with one fault). A row longer than a FIFO makes the push order matter;
7 stage rows hold two operands and their neighbours and no more. 172,558 states, three minutes.

**token_loop** (`MCTokenLoop`; 2 layers, 2 emitting processes, up to 3 tokens, the engines, masks,
cache modes, probes, fast grading and FFN windows of `TheRuns`, each with one thing going wrong, or
nothing). Two layers and two processes let one process patch what the other built; three tokens
let a template be patched twice. The drift fences compare descriptors the same builder made, so in a
run without a builder bug they never refuse; the builder bug that is modelled is `parity`, which only
the committed prompt's first layer catches. 476,859 states.

**card_tools** (`MCCardImages`; two tensors of 2 and more words, bursts of 2, the mutated word where a
sampled readback does not look; 2 sweep requests over the same file names, batches of 2; prompts of 2
and 3 tokens, 2 layers, 2 heads, projections of 3 and 2 blocks). 71,383 states. The facts of the wire format are its `ASSUME`s.

**kvq_reset_burst** ends in a violation, a disagreement of the code with what the repository says of
it: a soft reset while a burst is in ST_OUTPUT clears `olane_cnt` although the burst goes on. With one
outlier lane there is no later lane to get wrong (kvq passes); with two, the second outlier channel
is dequantized with lane 0, where `verif/kvq/sb/tb_kvq_sb.sv` asks for an exact burst.

**Deadlock** is checked except in four runs: host, session, multirun and regops stop when the session
is over, the run reported or the file executed.

**Mutants.** Definitions marked "Mutant of" are the way a plausible slip in that code would look (a
dropped guard, a key that leaves a field out, a flag not cleared). No specification uses them;
substituting one for its original makes the property beside it in `PROJECT.json` fail.

## 4. Fairness

- `SkidChannel`: a consumer that is ready again and again.
- `SeqMxe`: the pair is clocked with the sequencer enabled, results are accepted again and again.
- `Mxe`: four separate conditions, for the two producers, software and the consumer; nothing is
  assumed of their order.
- `KvqEngine`: weak fairness of `Unhindered`, a cycle in which nobody holds the engine back (a token
  begun goes on, a partial group is flushed, the read consumer is ready, a core's walk ends). Others
  may come in between. A stream that never pauses starves a deferred read, as in the code, where an
  accepted beat takes precedence.
- `HostExec`: of the session's process only. No runner is promised a step: that every job is told
  rests on the timeouts, which is the point.
- `TileJobs`: of the program and the engines together; `TokenLoop`: of the run's own steps;
  `MCCardImages`: of the processes that have the card. Nothing makes the DIMM calibrate, and nothing
  is fair about deaths, resets, aborts or new work.
- `LayerReplay`, `PromptSession`, `MultiRun`, `CompiledExec`: none; safety only.

## 5. Proofs

They hold for every value of the constants under the named assumptions.

`SeqProofs`, last section, about `SkidChannel` alone (the payload set does not contain the empty mark):
`InOrderHolds`, `NoRetractionHolds`, `ImplementsFifo`. The inductive invariant (`ChanInv`): what was accepted is what was
delivered followed by what the registers hold, and the backup register is full only if the output is;
without the second part a beat could pass the one in the backup register. The skid has no run of its
own; these theorems replace it.

`SeqProofs` (queue depth at least 2) begins with the walker alone: `TypeCorrect`, `SkidTrackedHolds`,
`AbortNeverStallsHolds`, `NoAbortLeakHolds`, `BusyHonestHolds` and `QueueRefinementHolds`. The invariant
adds that the walker's own count equals the beats in the skid, that no more are condemned than are
there, that an abort in effect keeps the backup register empty, and that every descriptor in the queue,
and every beat behind the condemned prefix, is younger than the last one accepted during an abort
(`FreshInv`, with `PtrInv`, which slots of the ring are in use). The last part makes `NoAbortLeak`
inductive: the claim concerns the moment of dispatch, but a leak is decided cycles earlier, when the
abort ends with beats still in the skid. For the refinement the numbers in the ring, then those in the
skid behind its condemned prefix, must be one ascending run without a gap up to the last descriptor
accepted (`OrderInv`): that is what makes the mapped queue the abstract one, and an accepted beat a `Put`.

The same module has the pair: `OneJobInFlightHolds`, `NoAnswerLostHolds`, `AbortWaitsForJobHolds`. The
invariant is an equivalence (`Agree`): the walker waits if and only if a job runs or an answer is on the
wires. `PairKeepsWalker` says that the composition implements the walker's own specification, so that
what is proved of the walker alone holds of the pair (`PairBusyHonest`, `PairNoAbortLeak`,
`PairIsJobQueue`).

`MxeProofs` (any array side, tile height, longest job and program). `JobContractHolds`: the matrix
engine refines `MxeJob`. The invariant (`BeatInv`) accounts for every result beat the job has sent, which
was accepted downstream or is in the output skid: all rows are sent when the FSM waits for the last
acceptance, and nothing is left in the skid when the job ends.

`DataExact` is about the values: every result beat is exact, for any interleaving of the two producers,
the descriptor port and the consumer. Its invariant (`DataInv`) says where each product is in every
cycle; TLC checked it, part by part, on the run's instance and on larger ones before it was proved.
- `ArrayInv`: in cycle `T` of a pass, row `k` of A is in the element of row `r` and column `c` exactly
  when `T - 2 - r - c = k`, the sum beside it has the products of the unmasked rows above and at `r`,
  and the tag of its cycle is as old (`Pipe`). An accumulator holds the passes whose sums have left its
  column, on top of what the job found (`Accs`); outside a pass nothing moves (`Quiet`). That the flush is
  long enough, and that a tag meets its own sum, is `PipeQuiet` and `AccsStep`.
- `InjectInv` and `BufInv`: beat `m, p` of A is at place `m * KbCnt + p` of the buffer, and the read
  pointer is at the beat of the cycle, so that its wrap is never taken.
- `LoaderInv` and `BankInv`: the loader is one chunk ahead of the passes when the shadow bank is full
  and at the next chunk when it is not, and the live bank holds all columns of the chunk in the pass.
- `ActInv` and `WgtInv`: the beats in a skid and at its producer are consecutive, and the oldest is the
  one the engine takes next, or the first of the next legal job (`ActDue`, `WgtDue`): the engine does
  not look at what it takes, it counts, and only this makes its counting right. `OrderInv`: between the
  job in flight and the descriptor offered lie only illegal ones.

What is resident after a job is an operator on sets (`Resident`), so that `ResidentStep` and `AccAdd`,
not an induction, carry an accumulator from one job and one pass to the next.

`KvqProofs` (any vector, group and mask size, scale bank and record store). Four invariants, each on
those before:
- `IInv` ties the FSM to the key path, to its strobes and to the tokens that are still due:
  `IdleNeverLiesHolds`, `StoresAreDueHolds`. The difficulty is the cycle between a strobe and its
  effect, in which a soft reset may or may not overtake the store; `due` is the account.
- `ScaleInv`: while no overwrite was flagged, every record of a live set names the group whose row is,
  or in the next cycle will be, in the set: `RowOfOwnGroupHolds`. It covers what the run is too small
  for, the allocation pointer wrapping onto a live set.
- `MaskInv`: until a swap is flagged, every stored key record and the one being written are laid out by
  the live mask: `MaskOfRecordsHolds`, for a host that polls idle before a commit (`~CommitAnyTime`).
- `ReadInv`, what a burst holds and which beat its counters stand at: `BurstExactHolds`, for that host
  and while no reset crosses a burst of more than one outlier lane (`NoLaneLost`). The hypothesis is the
  defect of `kvq_reset_burst` and nothing else: `BurstExactOneLane` needs no such thing with one lane.

`CompiledProofs` (any FIFO, cap of the budget and set of files): `BudgetSafeHolds` and
`SameAsLinesHolds`. `BudgetSafe` is not inductive, a burst into the FIFO overdraws the budget until its
last dword cancels it; the invariant says that it is covered or the walk is inside such a burst
(`BudgetInv`). For the refinement, the walk stands at a line of a node, that line's address is the
burst's base plus the offset, and only notes lie between the end of a node and the next one (`WalkInv`);
a node's lines having one kind, and its addresses ascending, is an induction over the file, done with
the least line that breaks it (`LeastNumber`). Assumed of the files (`ProgramsAssumption`) is what the
emitters write: a `pw` goes to the stream FIFO and a `jf` does not. The second half is needed, see
section 7.

`HostProofs` (any number of files, captures and jobs, any set of transports): `GateIsSafe`, for every
image, recipe and frequency argument the clock gate admits no frequency above the one promised;
and `OneRunnerHolds`, that at most one runner drives the card, at no faster clock. `OneRunner` alone is
not inductive: that no second runner starts follows from where the client is and which process it
knows. `HostInv` adds the types; which of the client's steps belong to which transport (`OnItsPath`);
that only the registered server lives and is registered while a request is made (`OnlyServer`), or,
with a process for each job, only the last one, and none when the next is started (`OnlyLast`); and
that what passed the clock gate stays passed until its runner has started, a clock changing only where
nothing runs (`ClockHeld`). For the remote transport it rests on the assumption on the operator
(`MayGoOn`, section 6), which the code does not enforce.

On it rests `OkIsOwnHolds`: what a session is told of a job, and of each file of it, is what that job's
run read of that file. Its invariant is `OwnInv`. `RunnersOwn`: the one runner that drives the card runs
the session's job, the tile holds what its place in the script says (`Position`), and, while the file it
opened is still the one at the path, that file is `Written` up to there. `FileOwn` and `AnswerOwn`: from
the start of the job's run the capture file and the answer are the job's. `Written` says of the records
that each is from a part of the script (`From`), that they are in its order, and that no marker is
missing before a later part. From that alone `SegmentIsOwn` follows: between two markers lies only
their file, so a run that was cut off, or is still writing, gives each file only its own captures
(`TellOwn`).

`ReplayProofs` (any flush limits, sizes of programs, op families, refused and faulty sites, any bound on
the passes): all four invariants of the run, `CollapseExactHolds`, `PoolIsTrueHolds`,
`NothingVanishesHolds`, `VerdictEarnedHolds`. They stand on one another through the passes, so the
invariant is one:
- `QueueInv`: a queued program is on disk byte for byte as when it was queued, and each has a name of
  its own. Then a batch captures, under a program's key, what that program captures, and deletes
  nothing that a later batch runs (`RunBatchKeeps`). Two queued programs of one name would break both:
  the second emission overwrites the first's file. That it cannot happen is that a site is computed
  once in a pass, and the queue is empty when a pass begins.
- `RunnerOk`: the pool is true to its keys (`PoolTrue`), and the programs an operand is remembered by
  were built for it (`MemoTrue`).
- `PassInv`: while a pass has queued nothing, every computed site has the value its operands give it,
  and just the sites a direct run serves were served. A site the pool could not answer keeps golden's
  value for that pass, and this is why such a pass must not be the last.
- `WrongInv`: a wrong value that reached any site has a record that is not equal; grading looks at
  the records only.

At the end of a pass with no queue the values solve the equations of the layer. An operand is always of
an earlier site (`OperandsEarlier`), so they have one solution (`SolutionUnique`), and `Direct`, what
the transport without the collapse computes, is another name for it (`SolutionIsDirect`).

The last section of `ReplayProofs` (prompts of any length, whatever golden generates for them, any commands, any number of
runs) is about `PromptSession`: `ReferenceHolds`, the reference of a verdict is golden's own, and
`PassHolds`, PASS and exit status 0 are earned. Neither is inductive: the reference may come from the cache, and is right then
only if every entry was computed with the layer function restored. `SessionInv` adds that each entry
is golden's answer to its key (`CacheIsGolden`), that outside the offloaded decode the seam is golden's
(`Restored`, on the failure path and on Ctrl-C too), that what was served is what the mode offers at a
step the decode reaches (`RunInOrder`), and that the status remembers every failure.

`TokenProofs` (any runs, number of layers and pool of processes; `RunsAssumption`: a prompt has an
id, as `parse_ids` demands) has the three safety invariants of the token loop. `PatchedIsFullHolds`
follows from `EmitInv`: what a process remembers of a layer, and what the file holds, is a template of
whole programs, and with the cache on no layer that was built is missing from the disk (`BuiltOnce`), so
that no second process builds it. `GateEarnedHolds` and `SampledAfterGradeHolds` stand on `LoopInv`, for
neither is inductive: PASS and the counters are read off records, and what must be known is that the
records tell what the tile did.
- `SlotTrue`: the record of a slot says exact, ungraded or nothing as the flights of that layer at that
  token are, its product count is theirs, and a graded chain and every window were flown rightly.
  `StepTrue` and `TokensTrue` say it of the step and of the tokens sampled.
- A layer that waits for the flush has no such record yet. What it has depends on how far the batch is:
  nothing flown (`Queued`), one chain flown and its captures, each word of this step's value
  telling of a chain walked rightly (`InFlight`), or a true record without its window (`InWindows`).
  No slot is left behind: every layer before `li` is recorded or waits (`Types`), and at the head
  nothing waits (`InOrder`).
- `FlownBefore`: nothing is flown for a slot before its turn, so that the flights of a slot are those of
  its own turn.
- `CountsTrue`: an engine counter is the number of records that count as that. The ledger's sums are then
  cardinalities of sets of slots (`LedgerTrue`), and no slot is in two of them.

`CardProofs` (any tensor table, burst length and choice of words; the whole composition of
`MCCardImages`): `RestoredHolds` and `ClaimComesFirst`. The invariant `CardInv` says that a loader runs
only for the reload its driver stands at (`Serves`); that one that ended well has found on the card
what it was to read back, and never an image of another manifest (`ReadBack`); that past its first step
E-7 has flown its claim (`ClaimFirst`); and that the fuel-projection driver, whose restore is only
sampled, cannot reach it (`Stopped`): its poison is under the good manifest, and the loader refuses it.
The restore of the other two is read back in full, which is all `Restored` rests on. `PassIsWholeHolds`
is of the sweeps beside it, for any requests, batch size and numbers of heads and blocks. Its invariant
`SweepInv` says that the gate holds nothing, or everything, of the step asked for while it captures
(`CaughtAll`, `CaughtNone`: the place a layer had while it ran, and not the counter, decides both), that
the blocks flown are sampled ones, and what a verdict has seen; that the sample holds the ends of every
projection is `Endpoints`, over Python's rounding.

The last sections of `HostProofs` are about `MultiRun` and `LmHead` (any vocabulary, height of a slice,
block and program, number of layers and prompt; any command line of `Requests`, whatever the tile gives):
- `ArmsApartHolds`. The invariant is `ArmInv`: in an arm, every name resolves as its contexts leave it when
  entered over golden's names, the stack is what they then saved, and outside the arms all names are
  golden's. What makes it inductive is `LeaveUndoesEnter`: contexts that are left innermost first give
  back what was found, however their names overlap. With it come that the host's state is golden's and
  the bus arm's golden's or composed, which the layers of those arms keep.
- `HeadExactHolds`. `HeadExact` speaks of heads that are over; in between it is a statement about the
  slices done. `HeadInv` gives it for a pass that stands at row `s`: golden's logits of the rows before
  `s`, then of all; what is `Tiled` (rows served, flown once, remembered by slice, told exact or not,
  and one file kept) up to `s`; what the discriminator has changed (`Discriminated`) up to `s`. One
  lemma per kind of slice carries it on (`GoldenGemm`, `TileGemm` and `TileGemmOutside`, `PoisonGemm` and
  `PoisonGemmOutside`), together in `GemmKeeps`. The third pass flies nothing because every slice it asks
  for is remembered under the same budget, which needs the budget to be that of the pass, not of the call.
  `DecodeInv` adds that both seams of the head are one offloader's while it works (`ArmsResolve`). Only
  which rows the accumulators cover is used of the blocks and programs a slice is packed into, so that a
  tile that gives any wrong sum is within the theorem; what the sum of a healthy one is stays with TLC.
- `PassMeansServedHolds`. A report is read off what the first three arms gave, so the invariant says what
  each finished arm gives (`Fin`), what the running one has so far (`Place`, `Course`) and which arms
  are finished when (`Order`, `Before`). The arms share no value; what relates them is `Trace`, the
  hidden state as the command line alone determines it when only the composition moves it. The bus arm's
  state is `Trace`; so is the first arm's until a value of the tile, or a reconstructed family, has moved
  it (`FollowsTrace`); the host arm's is golden's. Each token is that of the state its head was given
  (`TraceIds`, `HostIds`), and all runs end by the same rule (`Whole`): equal states give equal tokens, and
  different tokens different states, which is what the blame of the report rests on (`SameTraces`,
  `SameAsGolden`). `OnBooks` keeps what was armed, served and wrong nested; `CostGood` the counts
  behind the shares and the predicted time, down to the programs and invocations of a slice
  (`PackedCounts`). The head offloader works on the first token of `prompt05b.py` only (`HeadOwn`).
  The rest is about the state of the report (`Reported`) and takes no step of the run: `TotalIsSum`, the
  total line adds the layers' lines up in whatever order; `FamiliesServed`, which families the aggregate
  finds served; `PassedHasNoReason`, the verdict of each driver is the absence of every reason.

Theorems are stated of `Spec` (`SessionSpec`, `MultiSpec` in the drivers); the specification with
fairness that a run checks implies it.

Only model-checked: all liveness and `ENABLED` (outside the prover); the three invariants of the
programs (`CapturesAreProduct`, `NothingDropped`, `VerdictTellsFault`). The programs
are sequences built by concatenation, and what they compute is compared with a reference by evaluating
both: that has no proof shorter than the evaluation.

## 6. What the models assume and leave out

Environment of the hardware modules: the KV engine's stream is enabled throughout and its sticky IRQ
bits are not cleared; a KV token has exactly D beats; the host writes WRITE_ADDR after it polled idle,
as `verif/top/l3/gen_l3_vectors.py` does; grouped-key builds with a power-of-two number of scale sets
only; a word never written is not acknowledged; a producer of `Mxe` delivers the beats the
controller counts, in its order.

Tile: the requant words and the composite words of a descriptor are one token (`comp`); a row is
`Bpr` symbols; staging layouts (`LayoutSound`) are checked over rows of up to five codes on rows of
three lanes. Two timing facts are assumed: the last weight chunk of a walked attention is in the array
before the walker's next window opens, and loading a 64-word descriptor outlasts a LOAD in flight.
The single busy read of the wedge probes cannot tell an ungated fetch reliably, so no fault relies on
it. Of the narrow campaign, the armed sum is a fixed symbol equal to what the chain is graded to.

Token loop: engines return golden's own residual bits, so `check_engine_bits` cannot fire; one
emission for each layer stands for both files of the e7 mask; a refusal ends the run.

Transports: the agfi a caller names is the image on the card; `$APEX_F2_NO_CLOCK_CHECK` is not
modelled, nor the wait for the clock generator's lock. A session waits for a runner it left on the
instance (`MayGoOn`): the code leaves that to the operator, see below.

Card tools: the three parts share only the tile's reset, so a behaviour exercises one. The
attestation file of `walk_layers_05b.py` is not modelled. Runs of several arms: scopes are exact
families or all; the cross-check, and the refusal to attach in hardware mode, are left out; a dry run
counts as served, as in the code.

Not modelled: floating-point and codec arithmetic, rotary pipelines and table look-ups (bit-exact
arithmetic without control, compared with golden by the repository's own benches); the packed-weight
feeders, CSR block, KV bank multiplexer, seams, softmax and importance unit cycle by cycle (their jobs
are in `Tile`); the two-clock FPGA wrapper (its FIFOs appear with their depths); the KV engine's TIER 0
build, CTRL.enable and write-one-to-clear bits; the golden model, evaluation, performance model and
demonstration scripts; self-tests, argument parsing, tables and wording of reports.

## 7. Disagreements noticed while modelling

One is a run (`kvq_reset_burst`). The others were met while reading, concern single lines and are
listed for whoever owns them; paths are under `scripts/fpga/f2/`.

- `layer_offload.py:1770`, `prompt_offload.py`: a discriminator that moved nothing is printed VACUOUS
  and the run still passes; `layer05b.py` and `prompt05b.py` fail it.
- `token_loop.py:2178`: with the e7 mask a hardware run is admitted up to 64 tokens but
  `e7_att_descriptor` refuses beyond 8, after earlier tokens were flown; the simulator engine has the
  fence.
- `elane_walk_qstage.py:1155`: the E-7 refusal programs arm the fuel path and never disarm it, so the
  reload that follows in `fly_e7_hw.py` is aborted by the loader's own ownership check whenever
  the last refusal executed (`E7` in `CardImage` shows the abort).
- `walk_fuel_proj.py`, hardware path: the poisoned image is shipped under the good manifest, so the
  loader always refuses it; and `audit_ok >= 1` compares the string `"n/a(hw)"`.
- `fly_e7_hw.py:238` tests a `verdict` the loader's JSON never has.
- `proj_sweep_batched.py:207`: a torn last line of `batches.jsonl` makes every `--resume` raise (`torn`); and
  records of another step under the same names are taken over and make the sweep fail (they cannot
  make it pass: `PassIsWhole`).
- `apex_repl.py:1309`: `:step -N` stores the step before the assertion that refuses it.
- `gen_layer_ops.py:206` says that STAGE_R_MAX is 16; `cl_apex.sv` passes 31, as `gemm_job.py` uses.
- `token_loop.py`: `all_walk_green` counts unwalked and refused layers as green.
- `prompt05b.py`: `multi_refused` (1492) and its comment (311) differ; LAYERS SERVED counts a layer
  for which nothing could be staged; the host ledger never lists the first norm when the norm is
  served.
- `f2_host_run.py:71`: the comment says that the prepaid budget is invalidated by any other write
  "(w/jf)" to the FIFO and that this is checked at compile time. `exec_compiled` does not invalidate
  at a `jf`, and `compile_file` checks nothing; no emitter writes such a line, which the proofs assume.
- A remote runner that outlives its timeout keeps the card; nothing but the operator keeps the next
  job away from it.

## 8. What is left

Model: the packed-weight feeders and the wrapper's asynchronous FIFO with two clocks; `csr_regs.sv`; the
importance unit. Prove: what the register programs of `TileJobs` compute, a program at a time.

## 9. Running

    tlasany SeqWalker.tla
    tlc -workers 2 -config SeqMxe.cfg SeqMxe
    tlc -workers 2 -config TileJobs.cfg TileJobs
    tlapm HostProofs.tla

Every `.cfg` is run with the module that `PROJECT.json` names beside it.
