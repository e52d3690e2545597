------------------------------ MODULE EmitCache ------------------------------
(***************************************************************************)
(* emit_cache.py and the emission half of token_loop.py: the walk program  *)
(* of a layer is built once per run, recorded as a template, and later     *)
(* steps overwrite the words a step changes.  The template is a file; each *)
(* emitting process keeps its own copy of it and overwrites THAT in place, *)
(* so a slot a patch leaves alone keeps what an earlier step put there.    *)
(*                                                                         *)
(* A program is the values of its slots: the activation payloads (qs, xw0),*)
(* the residual row (xrow), the descriptor words that may move between two *)
(* kicks (the tensors' bases, the requant and composite words), the words  *)
(* that may not (rest), and the program's name in its note.                *)
(***************************************************************************)
EXTENDS Naturals, Sequences, TLC

Put(f, x, v) == [y \in {x} \cup DOMAIN f |-> IF y = x THEN v ELSE f[y]]

\* walk_descriptor: bases of the layer, requant scale and composite calibrated
\* on this step's subject, which two steps may share; the mask and the geometry
\* are the same for every kick of a run.
Descriptor(layer, step) == [bases |-> layer, scales |-> step % 2, rest |-> "mask_b"]

RepointWords == {"bases", "scales"}
Moved(d, e) == {w \in DOMAIN d : d[w] # e[w]}

\* act_payloads of [h8, attn8] and the xrow bits, of the layer's subject.
Payloads(layer, step) == [qs |-> <<layer, step>>, xw0 |-> <<layer, step>>, xrow |-> <<layer, step>>]

\* _emit_program_full: every word from this step's subject.
FullProgram(layer, step) ==
  Payloads(layer, step) @@ [desc |-> Descriptor(layer, step), note |-> <<layer, step>>]

\* A template as record_template leaves it, on disk and in the process's copy.
Template(run, layer, step) ==
  [run |-> run, made |-> FullProgram(layer, step), ops |-> FullProgram(layer, step)]

\* _load: the process's own copy, or the file's; the file carries the token of
\* the run that wrote it.  A copy taken from the file is as it was recorded.
Loaded(disk, memory, layer) ==
  IF layer \in DOMAIN memory THEN {memory[layer]}
  ELSE IF layer \in DOMAIN disk THEN {disk[layer]} ELSE {}

StaleTemplate(disk, memory, run, layer) ==
  /\ layer \notin DOMAIN memory
  /\ layer \in DOMAIN disk
  /\ disk[layer].run # run

\* check_desc_drift.
Drifted(entry, layer, step) == ~(Moved(Descriptor(layer, step), entry.made.desc) \subseteq RepointWords)

\* patch_program: every slot is overwritten in the process's copy.
PatchDelta(entry, layer, step) ==
  LET new == FullProgram(layer, step)
  IN  [entry EXCEPT !.ops = [s \in DOMAIN new |->
         IF new[s] = entry.made[s] THEN entry.ops[s] ELSE new[s]]]
PatchProgram(entry, layer, step) == [entry EXCEPT !.ops = FullProgram(layer, step)]

\* _emit_program: what one process makes of one layer's subject.  "refused" is
\* the whole run's refusal; files and copies are what it leaves behind, mode is
\* what the emission ledger counts it as.
Emission(cache, disk, memory, layer, step) ==
  LET built == [program |-> FullProgram(layer, step), disk |-> disk, memory |-> memory,
                mode |-> "full", refused |-> FALSE]
  IN  IF cache.mode = "off" THEN built
      ELSE IF Loaded(disk, memory, layer) = {}
      THEN LET t == Template(cache.run, layer, step)
           IN  [built EXCEPT !.disk = Put(disk, layer, t), !.memory = Put(memory, layer, t),
                              !.mode = "template"]
      ELSE LET entry == CHOOSE e \in Loaded(disk, memory, layer) : TRUE
               done == PatchProgram(entry, layer, step)
           IN  [program |-> done.ops, disk |-> disk, memory |-> Put(memory, layer, done),
                mode |-> "patched",
                refused |-> \/ StaleTemplate(disk, memory, cache.run, layer)
                            \/ Drifted(entry, layer, step)
                            \/ (cache.mode = "verify" /\ done.ops # FullProgram(layer, step))]
=============================================================================
