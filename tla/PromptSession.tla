---------------------------- MODULE PromptSession ----------------------------
(***************************************************************************)
(* apex_repl.py: a warm session.  The card is brought up once; then every  *)
(* prompt is decoded with one operation family, or a whole layer, offered  *)
(* to the tile, decoded again by pure golden (or looked up from an earlier *)
(* prompt), and given a verdict.  The commands change what the next prompt *)
(* offers.                                                                 *)
(***************************************************************************)
EXTENDS Integers, FiniteSets

CONSTANTS Prompts,        \* token sequences a user may enter
          PromptLen(_),   \* their lengths
          EosAt(_),       \* tokens golden generates for one before its end token
          BusMoves(_),    \* whether the bus composition alone changes them
          TokensMax,      \* TOKENS_MAX
          Layers,         \* model.n_layers
          TokenLimits,    \* arguments of :tokens
          StepChoices,    \* arguments of :step, "last" included
          MaxRuns         \* bound of the model: prompts entered

ASSUME LayersAssumption == Layers \in Nat \ {0}
ASSUME PromptsAssumption == \A p \in Prompts : PromptLen(p) \in Nat /\ EosAt(p) \in Nat
ASSUME ChoicesAssumption == TokenLimits \subseteq Nat /\ StepChoices \subseteq Int

Families == {"proj", "rope", "attn", "norm", "resid", "swiglu"}
LastStep == -1     \* --offload-step left to its default

VARIABLES stage,    \* where the session is
          mode,     \* the executor: "hw", "sim" or "golden" (the dry run)
          clock,    \* tile clock of the card: "keyed" to its image, or not
          args,     \* what the commands set
          cache,    \* off_cache: references of this session
          seam,     \* what golden's layer function is bound to
          run,      \* the prompt being run
          worst,    \* exit status so far
          failed    \* whether any prompt of the session failed

session == <<stage, mode, clock, args, cache, seam, run, worst, failed>>

Min2(a, b) == IF a < b THEN a ELSE b

\* What decode yields on an untouched golden; an end token stops it early.
Generated(p, limit) == Min2(EosAt(p), limit)
Golden(p, limit) == [prompt |-> p, n |-> Generated(p, limit), golden |-> TRUE]
Moved(p, limit) == [Golden(p, limit) EXCEPT !.golden = FALSE]
Steps(p, limit) == PromptLen(p) + limit - 1
Reached(p, limit, step) == step < PromptLen(p) + Generated(p, limit) - 1

NoIds == [prompt |-> "none", n |-> 0, golden |-> FALSE]
NoRun == [n |-> 0, prompt |-> "none", limit |-> 0, step |-> 0, offload |-> "attention",
          on |-> NoIds, off |-> NoIds, served |-> {}, wrong |-> FALSE, caps |-> 0,
          result |-> "none"]

SessionInit ==
  /\ mode \in {"hw", "sim", "golden"}
  /\ stage = IF mode = "hw" THEN "image" ELSE "prompt"
  /\ clock \in {"keyed", "default"}
  /\ args = [offload |-> "attention", layer |-> 0, step |-> LastStep, tokens |-> 1]
  /\ cache = << >>
  /\ seam = "golden"
  /\ run = NoRun
  /\ worst = 0 /\ failed = FALSE
-----------------------------------------------------------------------------
(* bringup_hw: each step must succeed, or the session ends.                *)

Leave(code) ==
  /\ stage' = "exit" /\ worst' = code
  /\ UNCHANGED <<mode, args, cache, run, failed>>

BringUp(from, to, then) ==
  /\ stage = from
  /\ \/ stage' = to /\ clock' = then /\ UNCHANGED <<mode, args, cache, run, worst, failed>>
     \/ Leave(1) /\ clock' \in {clock, then}
  /\ UNCHANGED seam

\* An image load resets the clock generators; --skip-image-load leaves the
\* card as it flies.
LoadImage == BringUp("image", "recipe", "default") \/ BringUp("image", "recipe", clock)

\* The recipe the image is keyed to; there is no way round it.
Recipe == BringUp("recipe", "verify", "keyed")

\* Mutant of Verify: the tool's status is taken for the measurement.
VerifyByStatus ==
  /\ stage = "verify"
  /\ stage' = "prompt"
  /\ UNCHANGED <<mode, clock, args, cache, seam, run, worst, failed>>

\* check_tile_clock reads the frequency back and compares numbers.
Verify ==
  /\ stage = "verify"
  /\ \/ /\ clock = "keyed" /\ stage' = "prompt"
        /\ UNCHANGED <<mode, args, cache, run, worst, failed>>
     \/ Leave(1)
  /\ UNCHANGED <<clock, seam>>

\* The card's tool may report success and leave the generator as it was.
RecipeNoEffect ==
  /\ stage = "recipe" /\ stage' = "verify"
  /\ UNCHANGED <<mode, clock, args, cache, seam, run, worst, failed>>
-----------------------------------------------------------------------------
(* The commands.                                                           *)

Set(new) ==
  /\ stage = "prompt"
  /\ args' = new
  /\ UNCHANGED <<stage, mode, clock, cache, seam, run, worst, failed>>

Mode == \E m \in {"attention", "layer"} : Set([args EXCEPT !.offload = m])

\* The step is stored before it is looked at: a negative one is answered
\* with the usage line and stays.
Step == \E n \in StepChoices : Set([args EXCEPT !.step = n])

Target == \E l \in 0 .. Layers - 1 : Set([args EXCEPT !.layer = l])

Tokens == \E n \in TokenLimits : Set([args EXCEPT !.tokens = n])

Quit == stage = "prompt" /\ Leave(worst) /\ UNCHANGED <<clock, seam>>
-----------------------------------------------------------------------------
(* One prompt.                                                             *)

TargetStep(p) == IF args.step = LastStep THEN Steps(p, args.tokens) - 1 ELSE args.step

\* run_one and run_one_layer refuse before anything runs: too many tokens
\* for one head, or a step the prompt does not have.
Refused(p) ==
  \/ PromptLen(p) + args.tokens > TokensMax
  \/ args.offload = "layer" /\ TargetStep(p) \notin 0 .. Steps(p, args.tokens) - 1

Enter(p) ==
  /\ stage = "prompt" /\ run.n < MaxRuns
  /\ run' = [NoRun EXCEPT !.n = run.n + 1, !.prompt = p, !.limit = args.tokens,
                          !.offload = args.offload, !.step = TargetStep(p),
                          !.result = IF Refused(p) THEN "refused" ELSE "none"]
  /\ IF Refused(p) THEN UNCHANGED <<stage, seam>> ELSE stage' = "on" /\ seam' = args.offload
  /\ UNCHANGED <<mode, clock, args, cache, worst, failed>>

\* The rebinds are taken back on every way out of the block.
Restore == seam' = "golden"

\* A run that the executor did not deliver: no verdict, and the session
\* remembers it.
Fail ==
  /\ run' = [run EXCEPT !.result = "error"]
  /\ stage' = "prompt" /\ worst' = 1 /\ failed' = TRUE
  /\ Restore
  /\ UNCHANGED <<mode, clock, args, cache>>

\* The families the offloaded decode serves: attention at every step, a
\* layer's at the target step, if decoding gets that far.
Offers ==
  IF run.offload = "attention" THEN {{"attn"}}
  ELSE IF Reached(run.prompt, run.limit, run.step) THEN SUBSET Families ELSE {{}}

\* The tokens of the offloaded decode: a wrong tile value and the bus mode
\* of the composed layer may both move them.
OnIds(served, wrong) ==
  (IF wrong \/ (served # {} /\ run.offload = "layer" /\ BusMoves(run.prompt))
   THEN {Moved(run.prompt, run.limit)} ELSE {})
    \cup (IF run.offload = "layer" /\ served # {} /\ BusMoves(run.prompt) THEN {}
          ELSE {Golden(run.prompt, run.limit)})

\* decode with the offloader armed.
OffloadOn ==
  /\ stage = "on"
  /\ \E served \in Offers, wrong \in BOOLEAN :
       /\ wrong => served # {} /\ mode # "golden"
       /\ \E ids \in OnIds(served, wrong) :
            run' = [run EXCEPT !.on = ids, !.served = served, !.wrong = wrong,
                               !.caps = IF mode = "golden" THEN 0 ELSE Cardinality(served)]
  /\ Restore
  /\ stage' = "off"
  /\ UNCHANGED <<mode, clock, args, cache, worst, failed>>

DecodeFails == stage = "on" /\ mode # "golden" /\ Fail

\* Mutant of Key: the reference of a shorter run is taken for this one's.
KeyByIds(p, limit) == <<p, 0>>

\* The references are kept by token ids and token limit; tier and group do
\* not change in a session.
Key(p, limit) == <<p, limit>>

\* _off_reference: pure golden, unless this session has the answer.  What is
\* computed is what the layer function is bound to.
Reference ==
  LET key == Key(run.prompt, run.limit)
      ids == IF seam = "golden" THEN Golden(run.prompt, run.limit)
             ELSE Moved(run.prompt, run.limit)
  IN  /\ stage = "off"
      /\ run' = [run EXCEPT !.off = IF key \in DOMAIN cache THEN cache[key] ELSE ids]
      /\ cache' = [k \in DOMAIN cache \cup {key} |-> IF k \in DOMAIN cache THEN cache[k] ELSE ids]
      /\ stage' = IF run.offload = "layer" /\ run.on # run'.off THEN "bus" ELSE "verdict"
      /\ UNCHANGED <<mode, clock, args, seam, worst, failed>>

\* Only if the tokens differ: the layer composed on the bus, on the host, so
\* that a token the bus mode moved is not laid at the tile's door.
BusRun ==
  /\ stage = "bus"
  /\ stage' = "verdict"
  /\ UNCHANGED <<mode, clock, args, cache, seam, run, worst, failed>>

\* Mutant of Earned: some family served is enough.
EarnedByAny ==
  /\ run.on = run.off
  /\ run.served # {}
  /\ ~run.wrong
  /\ mode # "golden" => run.caps > 0

\* build_verdict and build_layer_verdict.
Earned ==
  /\ run.on = run.off
  /\ run.served # {}
  /\ ~run.wrong
  /\ mode # "golden" => run.caps > 0
  /\ run.offload = "layer" => run.served = Families

\* Mutant of Verdict: the exit status is that of the last prompt.
VerdictLast ==
  /\ stage = "verdict"
  /\ run' = [run EXCEPT !.result = IF Earned THEN "pass" ELSE "fail"]
  /\ worst' = IF Earned THEN 0 ELSE 1
  /\ failed' = (failed \/ ~Earned)
  /\ stage' = "prompt"
  /\ UNCHANGED <<mode, clock, args, cache, seam>>

Verdict ==
  /\ stage = "verdict"
  /\ run' = [run EXCEPT !.result = IF Earned THEN "pass" ELSE "fail"]
  /\ worst' = IF Earned THEN worst ELSE 1
  /\ failed' = (failed \/ ~Earned)
  /\ stage' = "prompt"
  /\ UNCHANGED <<mode, clock, args, cache, seam>>

\* Ctrl-C during a run ends the session, with the rebinds taken back.
Interrupt ==
  /\ stage \in {"on", "off", "bus", "verdict"}
  /\ Leave(130)
  /\ Restore
  /\ UNCHANGED clock

Command == Mode \/ Step \/ Target \/ Tokens \/ Quit

Work == OffloadOn \/ Reference \/ BusRun \/ Verdict

SessionNext ==
  \/ LoadImage \/ Recipe \/ RecipeNoEffect \/ Verify \/ Command \/ Work
  \/ DecodeFails \/ Interrupt
  \/ \E p \in Prompts : Enter(p)

SessionSpec == SessionInit /\ [][SessionNext]_session
-----------------------------------------------------------------------------
\* The reference a verdict compares with is what pure golden generates for
\* this prompt under this token limit, whatever was asked for before, offered
\* to the tile before, or failed before (off_cache, the rebinds' restoring).
ReferenceIsGolden == stage = "verdict" => run.off = Golden(run.prompt, run.limit)

\* PASS proves something: every family the mode claims was served by the
\* executor at the step it names, no value of them was wrong, and the tokens
\* are golden's; and no prompt is taken while the tile is off the clock its
\* image was closed at (bringup_hw: the recipe's effect is measured); and a
\* session that ends with status 0 had no prompt that failed or was cut off.
PassIsProof ==
  /\ stage = "exit" /\ worst = 0 => ~failed
  /\ mode = "hw" /\ stage \notin {"image", "recipe", "verify", "exit"} => clock = "keyed"
  /\ run.result = "pass" =>
       /\ run.served = IF run.offload = "layer" THEN Families ELSE {"attn"}
       /\ ~run.wrong
       /\ run.on.golden
       /\ run.offload = "layer" => Reached(run.prompt, run.limit, run.step)
=============================================================================
