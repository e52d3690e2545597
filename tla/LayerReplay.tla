----------------------------- MODULE LayerReplay -----------------------------
(***************************************************************************)
(* LayerOffloader: golden computes a decoder layer and every operation of  *)
(* the chosen layer is also asked of the tile, whose value replaces        *)
(* golden's.  With the collapse an operation whose captures are not in the *)
(* pool keeps golden's value and is queued, the queue is run, and the      *)
(* layer is replayed until one pass is served entirely.                    *)
(*                                                                         *)
(* A value is the set of deviations from pure golden that entered it:      *)
(* <<site, kind>>, where "recon" is a value rebuilt from the tile's codes  *)
(* and scales, "wrong" a tile that computed something else, "poison" the   *)
(* scaling of the discriminating run.                                      *)
(***************************************************************************)
EXTENDS CapturePool, TLC

CONSTANTS MaxPasses,   \* --max-passes
          Limits,      \* --max-batch-mb values of the model
          Scopes,      \* the op families offered to the tile
          Refusals,    \* sites whose operand the tile cannot take
          Faults       \* sites the tile computes wrongly

ASSUME MaxPassesAssumption == MaxPasses \in Nat \ {0}

Sites == <<"Wq", "Wkv", "rope1", "attn1", "rope2", "attn2", "Wo", "r1", "norm2", "Wgu",
           "swiglu", "Wd", "r2">>

Op(s) ==
  CASE s \in {"Wq", "Wkv", "Wo", "Wgu", "Wd"} -> "proj"
    [] s \in {"rope1", "rope2"} -> "rope"
    [] s \in {"attn1", "attn2"} -> "attn"
    [] s \in {"r1", "r2"} -> "resid"
    [] s = "norm2" -> "norm"
    [] s = "swiglu" -> "swiglu"

OpTypes == {"proj", "rope", "attn", "resid", "norm", "swiglu"}

\* The values decoder_layer_fx hands to each site.
Operands(s) ==
  CASE s \in {"Wq", "Wkv"} -> {}
    [] s \in {"rope1", "rope2"} -> {"Wq"}
    [] s = "attn1" -> {"rope1", "Wkv"}
    [] s = "attn2" -> {"rope2", "Wkv"}
    [] s = "Wo" -> {"attn1", "attn2"}
    [] s = "r1" -> {"Wo"}
    [] s = "norm2" -> {"r1"}
    [] s = "Wgu" -> {"norm2"}
    [] s = "swiglu" -> {"Wgu", "norm2"}
    [] s = "Wd" -> {"swiglu"}
    [] s = "r2" -> {"Wd", "r1"}

VARIABLES env,      \* the run's arguments and what the tile gets wrong
          runner,   \* the Runner
          pc, arm,  \* "on" or "poison"
          pass, at, \* pass of the layer, site being computed
          val,      \* value of every site computed in this pass
          recs,     \* the records of this pass
          todo,     \* what the flush has still to run
          verdict   \* of the report: "none", TRUE, FALSE

vars == <<env, runner, pc, arm, pass, at, val, recs, todo, verdict>>

Here == Sites[at]
In(v, s) == UNION {v[d] : d \in Operands(s)}
Served == {r.site : r \in recs}

\* What a substituted value carries beside its operand's deviations.
Deviations(e, a, s) ==
  (IF Op(s) \in {"rope", "norm", "swiglu"} THEN {<<s, "recon">>} ELSE {})
    \cup (IF s \in e.wrong THEN {<<s, "wrong">>} ELSE {})
    \cup (IF a = "poison" /\ Op(s) # "proj" THEN {<<s, "poison">>} ELSE {})

\* What the operation makes of its operand: attention quantizes the rebuilt
\* query row to the codes it was rebuilt from, every other keeps what it got.
Absorb(s, in) == IF Op(s) = "attn" THEN {m \in in : m[2] # "recon" \/ Op(m[1]) # "rope"} ELSE in

GoldenValue(s, in) == Absorb(s, in)
TileValue(e, a, s, in) == Absorb(s, in) \cup Deviations(e, a, s)

\* The names under which a site's programs are emitted; a projection is split.
Paths(s) == IF s = "Wq" THEN <<<<s, 1>>, <<s, 2>>>> ELSE <<<<s, 1>>>>

\* A site is offered to the tile if its family is, if the operand is one the
\* tile can take, and, for r2 and SwiGLU, if what it is built on was kept.
Serving(e, s) == Op(s) \in e.scope /\ s \notin e.refused
Tried(e, s, known) == Serving(e, s) /\ (s = "r2" => "r1" \in known)

NoVerdict == [given |-> FALSE, pass |-> FALSE, val |-> << >>]

Start(a) ==
  /\ arm' = a /\ pass' = 1 /\ at' = 1 /\ val' = << >> /\ recs' = {} /\ pc' = "op"

Init ==
  /\ env \in [scope : Scopes, refused : Refusals, wrong : Faults, limit : Limits,
              collapse : BOOLEAN, prune : BOOLEAN, poison : BOOLEAN]
  /\ env.prune => env.collapse
  /\ runner = EmptyRunner
  /\ pc = "op" /\ arm = "on" /\ pass = 1 /\ at = 1 /\ val = << >> /\ recs = {}
  /\ todo = << >>
  /\ verdict = NoVerdict
-----------------------------------------------------------------------------
(* One operation of golden's layer.                                        *)

At(op) == pc = "op" /\ at <= Len(Sites) /\ Op(Here) = op

Advance(value, rec, r) ==
  /\ val' = Put(val, Here, value)
  /\ recs' = recs \cup rec
  /\ runner' = r
  /\ at' = at + 1
  /\ UNCHANGED <<env, pc, arm, pass, todo, verdict>>

\* Golden's value stays: the site is not served, or its programs are queued
\* and this pass goes on without them.
KeepGolden(r) == Advance(GoldenValue(Here, In(val, Here)), {}, r)

\* The captures are decoded, graded against golden's view of the same operand
\* and put in golden's place.
Substitute(caps, r) ==
  Advance(TileValue(env, arm, Here, UNION ToSet(caps)),
          {[site |-> Here, equal |-> Here \notin env.wrong]}, r)

\* Build the programs, ask for their captures.
Ask ==
  \E r \in {Prepare(Emit(runner, Paths(Here), In(val, Here)), Paths(Here))} :
    IF ~env.collapse
    THEN Substitute(FromRun(r, Paths(Here)), Execute(r, Paths(Here)))
    ELSE IF InHand(r, Paths(Here)) THEN Substitute(FromPool(r, Paths(Here)), r)
    ELSE KeepGolden(Acquire(r, Paths(Here)))

\* A projection: with the collapse an operand already answered is not emitted
\* again; its program files may be deleted once they have run.
\* Mutant of Fingerprint: one answer per site, whatever the operand.
FingerprintBySite(s) == <<s, {}>>

Fingerprint(s) == <<s, In(val, s)>>

Evidence(r, paths) == IF r.keep = {} THEN [r EXCEPT !.keep = ToSet(paths)] ELSE r
Remember(r) ==
  LET marked == IF env.prune THEN MarkPrunable(r, Paths(Here)) ELSE r
  IN  MemoStore(marked, Fingerprint(Here), Paths(Here))

AskProjection ==
  \E r \in {Prepare(Evidence(Emit(runner, Paths(Here), In(val, Here)), Paths(Here)),
                    Paths(Here))} :
    IF InHand(r, Paths(Here))
    THEN Substitute(FromPool(r, Paths(Here)), Remember(r))
    ELSE KeepGolden(Remember(Acquire(r, Paths(Here))))

\* The projection that follows those this pass has made; the operand that
\* comes must be its tensor, or the map of the calls is stale.
CallOrder == <<"Wq", "Wkv", "Wo", "Wgu", "Wd">>
NextProj == CallOrder[Cardinality({s \in DOMAIN val : Op(s) = "proj"}) + 1]

Gemm ==
  /\ At("proj")
  /\ Here = NextProj
  /\ IF ~Serving(env, Here) THEN KeepGolden(runner)
     ELSE IF ~env.collapse THEN Ask
     ELSE IF MemoHit(runner, Fingerprint(Here)) THEN Substitute(FromMemo(runner, Fingerprint(Here)), runner)
     ELSE AskProjection

Rope == At("rope") /\ IF Serving(env, Here) THEN Ask ELSE KeepGolden(runner)

Attn == At("attn") /\ IF Serving(env, Here) THEN Ask ELSE KeepGolden(runner)

Norm == At("norm") /\ IF Serving(env, Here) THEN Ask ELSE KeepGolden(runner)

SwiGlu == At("swiglu") /\ IF Serving(env, Here) THEN Ask ELSE KeepGolden(runner)

\* The second residual is added onto the first one's row, which is known
\* only when the tile gave it in this pass.
Residual ==
  /\ At("resid")
  /\ IF Tried(env, Here, Served) THEN Ask ELSE KeepGolden(runner)

\* The narrowings of golden's layer, told apart by the line that makes them.
F16Sites == {"r1", "swiglu", "r2"}
F16 == at <= Len(Sites) /\ Here \in F16Sites /\ (Residual \/ SwiGlu)

Operation == Gemm \/ Rope \/ Attn \/ Norm \/ F16
-----------------------------------------------------------------------------
(* Between two passes.                                                     *)

EndOfPass == pc = "op" /\ at > Len(Sites)

\* A queue is left: run it, batch by batch.
BeginFlush ==
  /\ EndOfPass /\ runner.pending # << >>
  /\ todo' = runner.pending
  /\ pc' = "flush"
  /\ UNCHANGED <<env, runner, arm, pass, at, val, recs, verdict>>

\* One call of the executor; a vanished or unprepared program, or an
\* executor that does not honour the contract, ends the run.
Flush ==
  /\ pc = "flush" /\ todo # << >>
  /\ LET n     == BatchLen(todo, env.limit)
         batch == SubSeq(todo, 1, n)
         paths == PathsOf(batch)
     IN  /\ IF ToSet(paths) \subseteq DOMAIN runner.files /\ Prepared(runner, paths)
            THEN runner' = RunBatch(runner, batch) /\ pc' = "flush"
            ELSE pc' = "lost" /\ UNCHANGED runner
         /\ todo' = SubSeq(todo, n + 1, Len(todo))
  /\ UNCHANGED <<env, arm, pass, at, val, recs, verdict>>

ExecutorFails ==
  /\ pc = "flush" /\ todo # << >>
  /\ pc' = "failed"
  /\ UNCHANGED <<env, runner, arm, pass, at, val, recs, todo, verdict>>

\* The next pass starts from nothing but the pool.
PassBegin ==
  /\ pc = "flush" /\ todo = << >>
  /\ runner' = EndFlush(runner)
  /\ IF pass < MaxPasses
     THEN pc' = "op" /\ pass' = pass + 1 /\ at' = 1 /\ val' = << >> /\ recs' = {}
     ELSE pc' = "refused" /\ UNCHANGED <<pass, at, val, recs>>
  /\ UNCHANGED <<env, arm, todo, verdict>>

\* What the tile gave is what the kept pass of the model went on with.
Consumed == {"Wq", "rope1", "rope2", "attn1", "attn2"} \cup F16Sites \cup {"norm2"}
PostChecks == \A s \in Consumed \cap Served : val[s] = TileValue(env, arm, s, In(val, s))

\* The report: the token is golden's, something was served, and every
\* served value graded equal to golden's view of the same operation.  The
\* mutant leaves the grades out.
PassUngraded(identical) == identical /\ recs # {}

Pass(identical) ==
  /\ identical
  /\ recs # {}
  /\ PostChecks
  /\ \A r \in recs : r.equal

\* A whole pass was served: the layer is done.  A deviation that reaches
\* the last row may or may not move the argmax.
Stable ==
  /\ EndOfPass /\ runner.pending = << >>
  /\ \/ /\ arm = "on" /\ env.poison
        /\ Start("poison")
     \/ /\ arm = "poison" \/ ~env.poison
        /\ pc' = "done" /\ UNCHANGED <<arm, pass, at, val, recs>>
  /\ IF arm = "on"
     THEN \E identical \in (IF val["r2"] = {} THEN {TRUE} ELSE BOOLEAN) :
            verdict' = [given |-> TRUE, pass |-> Pass(identical), val |-> val]
     ELSE UNCHANGED verdict
  /\ UNCHANGED <<env, runner, todo>>

\* The run is over: nothing else may leave the layer without an answer.
Ended == pc \in {"done", "failed", "refused"} /\ UNCHANGED vars

Next == Operation \/ BeginFlush \/ Flush \/ ExecutorFails \/ PassBegin \/ Stable \/ Ended
Spec == Init /\ [][Next]_vars
-----------------------------------------------------------------------------
(* What the layer's values are without the collapse: every operation's      *)
(* program is run when it is reached.                                      *)

Direct(e, a) ==
  LET offered == {s \in ToSet(Sites) : Serving(e, s)}
      value[s \in ToSet(Sites)] ==
        LET in == UNION {value[d] : d \in Operands(s)}
        IN  IF Tried(e, s, offered) THEN TileValue(e, a, s, in) ELSE GoldenValue(s, in)
  IN  value

\* The values the model ends with are those of the transport that runs every
\* program where it is needed: no pass leaves a stale or a golden value behind
\* (layer_offload.py, the collapse of Runner and the replay of _layer).
CollapseExact ==
  pc = "done" => /\ verdict.val = Direct(env, "on")
                 /\ val = Direct(env, arm)

\* A pooled capture set is the one of the program it is filed under, though
\* the program's file is rewritten and deleted between passes and runs.
PoolIsTrue == \A k \in DOMAIN runner.pool : runner.pool[k] = k[2].operand

\* No queued program is gone or unprepared when its turn comes.
NothingVanishes == pc # "lost"

\* A report that passes has served something, and nothing the tile got wrong
\* is in any value of the layer.
VerdictEarned ==
  verdict.pass => /\ env.scope # {}
                  /\ \A s \in DOMAIN verdict.val : \A m \in verdict.val[s] : m[2] # "wrong"

=============================================================================
