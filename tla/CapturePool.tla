----------------------------- MODULE CapturePool -----------------------------
(***************************************************************************)
(* The Runner of layer_offload.py: it turns programs (files of regops)     *)
(* into capture sets.  Without the collapse every request is one call of   *)
(* the executor; with it a request that the pool cannot answer is queued,  *)
(* and flush() runs the queue in a few calls.  A Runner is a record; each  *)
(* method is an operator on it.                                            *)
(*                                                                         *)
(* A path holds a program: the operand it was built for, and whether       *)
(* prepare() has retargeted it to the image that will run it.  What a      *)
(* program captures is decided by its bytes, so the capture set of a       *)
(* program is written as the operand it was built for.                     *)
(***************************************************************************)
EXTENDS Integers, FiniteSets, SequencesExt

CONSTANTS Retargets,   \* whether prepare() rewrites what it audits (Runner05B does)
          Bytes(_)     \* size of the program at a path

Program(operand) == [operand |-> operand, ready |-> ~Retargets]

EmptyRunner ==
  [files |-> << >>, prepared |-> << >>, pool |-> << >>, pending |-> << >>, memo |-> << >>,
   prunable |-> {}, keep |-> {}, audited |-> {}, executed |-> {}, calls |-> 0]

\* dict.update: f with the entries of g over its own.
Under(f, g) == [x \in DOMAIN f \cup DOMAIN g |-> IF x \in DOMAIN g THEN g[x] ELSE f[x]]
Put(f, x, y) == Under(f, [z \in {x} |-> y])

\* Mutant of ProgramKey: a program is known by its name alone.
ProgramKeyByName(r, p) == <<p, Program({})>>

\* program_key: the name and the bytes.
ProgramKey(r, p) == <<p, r.files[p]>>

\* What a build_* function leaves on disk.
Emit(r, paths, operand) ==
  [r EXCEPT !.files = Under(@, [p \in ToSet(paths) |-> Program(operand)])]

\* _prepare_key, over the programs of one request: audit and retarget a
\* program unless these very bytes were.
Unprepared(r, paths) ==
  {p \in ToSet(paths) : ~ (p \in DOMAIN r.prepared /\ r.prepared[p] = ProgramKey(r, p))}
Retargeted(r, stale) ==
  [r EXCEPT !.files = [p \in DOMAIN r.files |->
                         IF p \in stale THEN [r.files[p] EXCEPT !.ready = TRUE] ELSE r.files[p]]]
Keyed(r, stale) ==
  [r EXCEPT !.prepared = Under(@, [p \in stale |-> ProgramKey(r, p)]),
            !.audited  = @ \cup {ProgramKey(r, p) : p \in stale}]
Prepare(r, paths) == Keyed(Retargeted(r, Unprepared(r, paths)), Unprepared(r, paths))

KeyOf(r, p) == r.prepared[p]
InHand(r, paths) == \A p \in ToSet(paths) : KeyOf(r, p) \in DOMAIN r.pool
Queued(queue) == {queue[i].key : i \in DOMAIN queue}

\* A program is queued once, and only if the pool does not hold its captures.
Enlist(r, queue, p) ==
  IF KeyOf(r, p) \in DOMAIN r.pool \cup Queued(queue) THEN queue
  ELSE Append(queue, [key |-> KeyOf(r, p), path |-> p])

Enqueue(r, paths) ==
  LET queue[n \in 0 .. Len(paths)] ==
        IF n = 0 THEN r.pending ELSE Enlist(r, queue[n - 1], paths[n])
  IN  [r EXCEPT !.pending = queue[Len(paths)]]

\* The executor: it refuses a program that was not prepared; otherwise it
\* captures what the file says now.
Prepared(r, paths) == \A p \in ToSet(paths) : p \in DOMAIN r.prepared
Execute(r, paths) ==
  [r EXCEPT !.executed = @ \cup {KeyOf(r, p) : p \in ToSet(paths)}, !.calls = @ + 1]
Captured(r, p) == r.files[p].operand

\* acquire, of prepared programs: the capture sets of all, or of none and
\* the ones not yet asked for queue.
Acquire(r, paths) == IF InHand(r, paths) THEN r ELSE Enqueue(r, paths)
FromPool(r, paths) == [i \in DOMAIN paths |-> r.pool[KeyOf(r, paths[i])]]

\* run, and acquire without the collapse: what the files say now.
FromRun(r, paths) == [i \in DOMAIN paths |-> Captured(r, paths[i])]

\* memo_lookup and memo_store: the programs an operand led to, while the
\* pool holds all of them.
MemoHit(r, fp) == fp \in DOMAIN r.memo /\ ToSet(r.memo[fp]) \subseteq DOMAIN r.pool
FromMemo(r, fp) == [i \in DOMAIN r.memo[fp] |-> r.pool[r.memo[fp][i]]]
MemoStore(r, fp, paths) ==
  [r EXCEPT !.memo = Put(@, fp, [i \in DOMAIN paths |-> KeyOf(r, paths[i])])]

MarkPrunable(r, paths) == [r EXCEPT !.prunable = @ \cup (ToSet(paths) \ r.keep)]

\* flush: a batch is cut where the next program would overfill it ...
Total(queue, n) == FoldLeft(LAMBDA sum, e : sum + Bytes(e.path), 0, SubSeq(queue, 1, n))
BatchLen(queue, limit) == Max({1} \cup {n \in 1 .. Len(queue) : Total(queue, n) <= limit})

\* ... run one batch, pool its capture sets and delete what was marked ...
PathsOf(batch) == [i \in DOMAIN batch |-> batch[i].path]
Reclaim(r, gone) ==
  [r EXCEPT !.files = [p \in DOMAIN @ \ gone |-> @[p]], !.prunable = @ \ gone]
PooledBatch(r, batch) ==
  LET own(k) == CHOOSE i \in DOMAIN batch : batch[i].key = k
  IN  [k \in {batch[i].key : i \in DOMAIN batch} |-> Captured(r, batch[own(k)].path)]
RunBatch(r, batch) ==
  Reclaim([Execute(r, PathsOf(batch)) EXCEPT !.pool = Under(@, PooledBatch(r, batch))],
          r.prunable \cap ToSet(PathsOf(batch)))

\* ... and, once every batch has run, forget the queue.
EndFlushKeeps(r) == r   \* mutant
EndFlush(r) == [r EXCEPT !.pending = << >>]
=============================================================================
