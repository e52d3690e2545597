---------------------------- MODULE ReplayProofs ----------------------------
(***************************************************************************)
(* Proofs about LayerReplay, for every set of flush limits, op families,   *)
(* refused and faulty sites, every size of the programs, and every bound   *)
(* on the passes: a replay from the pool ends with the values of a direct  *)
(* run, the pool holds what its programs capture, a queued program does    *)
(* not vanish before its batch is run, and a verdict is earned.            *)
(*                                                                         *)
(* What makes them hold across passes: a queued program is still on disk   *)
(* as it was when it was queued, and no two queued programs share a name,  *)
(* so what a batch captures and deletes is its own; what an operand is     *)
(* remembered by are programs built for it; and in a pass with no queue    *)
(* left every site has the value its operands give it.  An operand is of   *)
(* an earlier site, so those equations have one solution, which is what    *)
(* the transport without the collapse computes.                            *)
(*                                                                         *)
(* The last section is about PromptSession, the session that offers a      *)
(* layer, or one head, to the tile prompt after prompt.                    *)
(***************************************************************************)
EXTENDS LayerReplay, PromptSession, SequenceTheorems, WellFoundedInduction, TLAPS

SiteSet == ToSet(Sites)
Done == {Sites[i] : i \in 1 .. at - 1}      \* computed in this pass
Dev == SiteSet \X {"recon", "wrong", "poison"}
PathSet == UNION {ToSet(Paths(s)) : s \in SiteSet}
Prog == [operand : SUBSET Dev, ready : BOOLEAN]
Keys == PathSet \X Prog
Entries == [key : Keys, path : PathSet]     \* of the queue

\* A Runner has the fields __init__ gives it.
IsRunner(r) ==
  r = [files |-> r.files, prepared |-> r.prepared, pool |-> r.pool, pending |-> r.pending,
       memo |-> r.memo, prunable |-> r.prunable, keep |-> r.keep, audited |-> r.audited,
       executed |-> r.executed, calls |-> r.calls]

\* What the files hold, what the pool holds, and what an operand is
\* remembered by: programs built for it.
FilesTyped(r) == \A p \in DOMAIN r.files : r.files[p] \in Prog
PoolTrue(r) == \A k \in DOMAIN r.pool : r.pool[k] = k[2].operand
MemoTrue(r) ==
  \A fp \in DOMAIN r.memo :
    /\ DOMAIN r.memo[fp] # {}
    /\ \A i \in DOMAIN r.memo[fp] : r.memo[fp][i][2].operand = fp[2]

RunnerOk(r) == IsRunner(r) /\ FilesTyped(r) /\ PoolTrue(r) /\ MemoTrue(r)

\* A queued program is on disk as it was when it was queued.
Fresh(r, e) ==
  /\ e.path \in DOMAIN r.files /\ e.path \in DOMAIN r.prepared
  /\ e.key = <<e.path, r.files[e.path]>>

\* A queue is of programs of computed sites, each under a name of its own.
QueueOk(r, q, done) ==
  /\ q \in Seq(Entries)
  /\ \A i \in DOMAIN q : Fresh(r, q[i]) /\ q[i].path[1] \in done
  /\ \A i, j \in DOMAIN q : q[i].path = q[j].path => i = j

\* A pass has a value for the sites before the one it is at.
Shape ==
  /\ pc \in {"op", "flush", "failed", "refused", "done"}
  /\ arm \in {"on", "poison"}
  /\ at \in 1 .. 14
  /\ val = [s \in Done |-> val[s]]
  /\ \A s \in Done : val[s] \in SUBSET Dev
  /\ verdict = [given |-> verdict.given, pass |-> verdict.pass, val |-> verdict.val]

\* What is queued during a pass, and what a flush has still to run.
QueueInv ==
  /\ pc = "op" => QueueOk(runner, runner.pending, Done)
  /\ pc = "flush" => QueueOk(runner, todo, Done)

\* The equations of a layer: what a site's value is, from those of its
\* operands.
Value(e, a, v, s, tried) ==
  IF s \in tried THEN TileValue(e, a, s, In(v, s)) ELSE GoldenValue(s, In(v, s))
Offered(e) == {s \in SiteSet : Serving(e, s)}
TriedOf(e) == {s \in SiteSet : Tried(e, s, Offered(e))}
Solves(e, a, v) == v = [s \in SiteSet |-> Value(e, a, v, s, TriedOf(e))]

\* A record tells whether the tile agreed, and a wrong value that reached
\* any site has a record that says so.
RecsInv ==
  \A r \in recs : /\ r.site \in Done /\ r.equal = (r.site \notin env.wrong)
                  /\ Op(r.site) \in env.scope
WrongInv == \A s \in Done : \A m \in val[s] : m[2] = "wrong" => \E r \in recs : ~r.equal

\* While a pass has queued nothing it is what a direct run computes.
PassInv ==
  pc \in {"op", "done"} /\ runner.pending = << >> =>
    \A s \in Done : /\ s \in Served <=> s \in TriedOf(env)
                    /\ val[s] = Value(env, arm, val, s, TriedOf(env))

\* A verdict is of a completed pass, and a run ends with one.
VerdictInv ==
  /\ arm = "poison" => verdict.given = TRUE
  /\ pc = "done" => verdict.given = TRUE /\ at = 14 /\ runner.pending = << >>
  /\ verdict.given = TRUE => Solves(env, "on", verdict.val)
  /\ VerdictEarned

IInv == Shape /\ RunnerOk(runner) /\ QueueInv /\ RecsInv /\ WrongInv /\ PassInv /\ VerdictInv
-----------------------------------------------------------------------------
\* The layer's sites are thirteen, and distinct.
LEMMA SiteFacts ==
  /\ Len(Sites) = 13 /\ SiteSet = {Sites[i] : i \in 1 .. 13}
  /\ \A i, j \in 1 .. 13 : Sites[i] = Sites[j] => i = j
  BY DEF Sites, SiteSet, ToSet

\* Every operand of a site is computed before it.
LEMMA OperandsEarlier ==
  ASSUME NEW i \in 1 .. 13, NEW d \in Operands(Sites[i])
  PROVE  \E j \in 1 .. i - 1 : Sites[j] = d
<1>1. i = 1 \/ i = 2 \/ i = 3 \/ i = 4 \/ i = 5 \/ i = 6 \/ i = 7 \/ i = 8 \/ i = 9
      \/ i = 10 \/ i = 11 \/ i = 12 \/ i = 13
  OBVIOUS
<1>2. \A j \in 1 .. 13 : (j = 1 => Sites[j] = "Wq") /\ (j = 2 => Sites[j] = "Wkv")
        /\ (j = 3 => Sites[j] = "rope1") /\ (j = 4 => Sites[j] = "attn1")
        /\ (j = 5 => Sites[j] = "rope2") /\ (j = 6 => Sites[j] = "attn2")
        /\ (j = 7 => Sites[j] = "Wo") /\ (j = 8 => Sites[j] = "r1")
        /\ (j = 9 => Sites[j] = "norm2") /\ (j = 10 => Sites[j] = "Wgu")
        /\ (j = 11 => Sites[j] = "swiglu") /\ (j = 12 => Sites[j] = "Wd")
        /\ (j = 13 => Sites[j] = "r2")
  BY DEF Sites
<1>3. QED
  BY <1>1, <1>2 DEF Operands

\* The programs of a site.
LEMMA PathFacts ==
  ASSUME NEW s
  PROVE  /\ Paths(s) = <<<<s, 1>>, <<s, 2>>>> \/ Paths(s) = <<<<s, 1>>>>
         /\ ToSet(Paths(s)) = {Paths(s)[i] : i \in 1 .. Len(Paths(s))}
         /\ Len(Paths(s)) \in {1, 2} /\ DOMAIN Paths(s) = 1 .. Len(Paths(s))
         /\ \A i \in 1 .. Len(Paths(s)) : Paths(s)[i] = <<s, i>>
<1>1. Paths(s) = <<<<s, 1>>, <<s, 2>>>> \/ Paths(s) = <<<<s, 1>>>>
  BY DEF Paths
<1>2. CASE Paths(s) = <<<<s, 1>>, <<s, 2>>>>
  <2>1. Len(Paths(s)) = 2 /\ DOMAIN Paths(s) = 1 .. 2 /\ Paths(s)[1] = <<s, 1>> /\ Paths(s)[2] = <<s, 2>>
    BY <1>2
  <2>2. QED
    BY <1>1, <2>1 DEF ToSet
<1>3. CASE Paths(s) = <<<<s, 1>>>>
  <2>1. Len(Paths(s)) = 1 /\ DOMAIN Paths(s) = 1 .. 1 /\ Paths(s)[1] = <<s, 1>>
    BY <1>3
  <2>2. QED
    BY <1>1, <2>1 DEF ToSet
<1>4. QED
  BY <1>1, <1>2, <1>3

\* The files after an emission: the programs it names, and the others as they
\* were.
Written(r, e, paths, in) ==
  /\ DOMAIN e.files = DOMAIN r.files \cup ToSet(paths)
  /\ \A p \in ToSet(paths) : e.files[p] = Program(in)
  /\ \A p \in DOMAIN r.files : p \notin ToSet(paths) => e.files[p] = r.files[p]

\* A site has a program, and its programs are those of its list.
LEMMA PathsNamed ==
  ASSUME NEW s
  PROVE  /\ DOMAIN Paths(s) # {}
         /\ \A i \in DOMAIN Paths(s) : Paths(s)[i] \in ToSet(Paths(s))
<1>1. DOMAIN Paths(s) = 1 .. Len(Paths(s)) /\ Len(Paths(s)) \in {1, 2}
  BY PathFacts
<1>2. QED
  BY <1>1 DEF ToSet

\* Emission writes the programs of a site, and nothing else.
LEMMA EmitFacts ==
  ASSUME NEW r, IsRunner(r), NEW paths, NEW in, NEW e, e = Emit(r, paths, in)
  PROVE  /\ IsRunner(e) /\ Written(r, e, paths, in)
         /\ e.prepared = r.prepared /\ e.pool = r.pool /\ e.pending = r.pending /\ e.memo = r.memo
<1> DEFINE files == Under(r.files, [p \in ToSet(paths) |-> Program(in)])
<1>1. e = [r EXCEPT !.files = files]
  BY DEF Emit
<1>2. /\ DOMAIN files = DOMAIN r.files \cup ToSet(paths)
      /\ \A p \in ToSet(paths) : files[p] = Program(in)
      /\ \A p \in DOMAIN r.files : p \notin ToSet(paths) => files[p] = r.files[p]
  BY DEF Under
<1> HIDE DEF files
<1>3. /\ IsRunner(e) /\ e.files = files
      /\ e.prepared = r.prepared /\ e.pool = r.pool /\ e.pending = r.pending /\ e.memo = r.memo
  BY <1>1 DEF IsRunner
<1>4. QED
  BY <1>2, <1>3 DEF Written

\* Keeping programs as evidence changes which may be deleted, nothing else.
LEMMA EvidenceFacts ==
  ASSUME NEW r, IsRunner(r), NEW paths, NEW e, e = Evidence(r, paths)
  PROVE  /\ IsRunner(e) /\ e.files = r.files
         /\ e.prepared = r.prepared /\ e.pool = r.pool /\ e.pending = r.pending /\ e.memo = r.memo
  BY DEF IsRunner, Evidence

\* Preparation rewrites the stale programs, and knows them by what they say.
LEMMA PrepareFacts ==
  ASSUME NEW r, IsRunner(r), NEW paths, NEW e, e = Prepare(r, paths)
  PROVE  LET stale == Unprepared(r, paths)
         IN  /\ IsRunner(e)
             /\ DOMAIN e.files = DOMAIN r.files
             /\ \A p \in DOMAIN r.files :
                  e.files[p] = IF p \in stale THEN [r.files[p] EXCEPT !.ready = TRUE] ELSE r.files[p]
             /\ DOMAIN e.prepared = DOMAIN r.prepared \cup stale
             /\ \A p \in stale : e.prepared[p] = <<p, e.files[p]>>
             /\ \A p \in DOMAIN r.prepared : p \notin stale => e.prepared[p] = r.prepared[p]
             /\ e.pool = r.pool /\ e.pending = r.pending /\ e.memo = r.memo
<1> DEFINE stale == Unprepared(r, paths)
           files == [p \in DOMAIN r.files |->
                       IF p \in stale THEN [r.files[p] EXCEPT !.ready = TRUE] ELSE r.files[p]]
           q == Retargeted(r, stale)
<1>1. /\ IsRunner(q) /\ q.files = files
      /\ q.prepared = r.prepared /\ q.pool = r.pool /\ q.pending = r.pending /\ q.memo = r.memo
  <2> HIDE DEF stale
  <2>1. q = [r EXCEPT !.files = files]
    BY DEF Retargeted
  <2> HIDE DEF q, files
  <2>2. QED
    BY <2>1 DEF IsRunner
<1>2. e = Keyed(q, stale)
  BY DEF Prepare
<1> HIDE DEF q, stale, files
<1>3. DEFINE keyed == Under(q.prepared, [p \in stale |-> <<p, q.files[p]>>])
             audited == q.audited \cup {ProgramKey(q, p) : p \in stale}
<1>4. e = [q EXCEPT !.prepared = keyed, !.audited = audited]
  BY <1>2 DEF Keyed, ProgramKey
<1>5. keyed = Under(r.prepared, [p \in stale |-> <<p, files[p]>>])
  BY <1>1
<1> HIDE DEF keyed, audited
<1>6. /\ IsRunner(e) /\ e.files = q.files /\ e.prepared = keyed
      /\ e.pool = q.pool /\ e.pending = q.pending /\ e.memo = q.memo
  BY <1>1, <1>4 DEF IsRunner
<1>7. /\ DOMAIN keyed = DOMAIN r.prepared \cup stale
      /\ \A p \in stale : keyed[p] = <<p, files[p]>>
      /\ \A p \in DOMAIN r.prepared : p \notin stale => keyed[p] = r.prepared[p]
  BY <1>5 DEF Under
<1>8. /\ DOMAIN files = DOMAIN r.files
      /\ \A p \in DOMAIN r.files :
           files[p] = IF p \in stale THEN [r.files[p] EXCEPT !.ready = TRUE] ELSE r.files[p]
  BY DEF files
<1>9. QED
  BY <1>1, <1>6, <1>7, <1>8 DEF stale

\* After a request for the programs of a site was emitted and prepared, each of
\* them is on disk, built for this operand, and known by what the file says;
\* the programs of the other sites are as they were.
Staged(r, e, s, in) ==
  /\ IsRunner(e) /\ FilesTyped(e)
  /\ e.pool = r.pool /\ e.pending = r.pending /\ e.memo = r.memo
  /\ \A p \in ToSet(Paths(s)) :
       /\ p \in DOMAIN e.files /\ p \in DOMAIN e.prepared
       /\ e.files[p].operand = in /\ e.prepared[p] = <<p, e.files[p]>>
  /\ \A p : p \notin ToSet(Paths(s)) =>
       /\ p \in DOMAIN r.files => p \in DOMAIN e.files /\ e.files[p] = r.files[p]
       /\ p \in DOMAIN r.prepared => p \in DOMAIN e.prepared

\* Programs emitted for an operand are staged once they are prepared.
LEMMA PrepareStages ==
  ASSUME NEW r, IsRunner(r), FilesTyped(r), NEW s, NEW in \in SUBSET Dev,
         NEW m, IsRunner(m),
         Written(r, m, Paths(s), in),
         m.prepared = r.prepared, m.pool = r.pool, m.pending = r.pending, m.memo = r.memo,
         NEW e, e = Prepare(m, Paths(s))
  PROVE  Staged(r, e, s, in)
<1> DEFINE ps == ToSet(Paths(s))
           stale == Unprepared(m, Paths(s))
<1>1. /\ IsRunner(e)
      /\ DOMAIN e.files = DOMAIN m.files
      /\ \A p \in DOMAIN m.files :
           e.files[p] = IF p \in stale THEN [m.files[p] EXCEPT !.ready = TRUE] ELSE m.files[p]
      /\ DOMAIN e.prepared = DOMAIN m.prepared \cup stale
      /\ \A p \in stale : e.prepared[p] = <<p, e.files[p]>>
      /\ \A p \in DOMAIN m.prepared : p \notin stale => e.prepared[p] = m.prepared[p]
      /\ e.pool = m.pool /\ e.pending = m.pending /\ e.memo = m.memo
  BY PrepareFacts
<1>2. stale = {p \in ps : ~ (p \in DOMAIN m.prepared /\ m.prepared[p] = <<p, m.files[p]>>)}
  BY DEF Unprepared, ProgramKey
<1>3. Program(in) \in Prog /\ Program(in).operand = in
  BY DEF Program, Prog
<1> HIDE DEF ps, stale
<1>4. /\ DOMAIN m.files = DOMAIN r.files \cup ps
      /\ \A p \in ps : m.files[p] = Program(in)
      /\ \A p \in DOMAIN r.files : p \notin ps => m.files[p] = r.files[p]
  BY DEF Written, ps
<1>5. \A p \in DOMAIN m.files : m.files[p] \in Prog
  BY <1>3, <1>4 DEF FilesTyped
<1>6. \A p \in DOMAIN m.files : /\ e.files[p] \in Prog /\ e.files[p].operand = m.files[p].operand
                                /\ p \notin stale => e.files[p] = m.files[p]
  BY <1>1, <1>5 DEF Prog
<1>8. FilesTyped(e)
  BY <1>1, <1>6 DEF FilesTyped
<1>9. ASSUME NEW p \in ps
      PROVE  /\ p \in DOMAIN e.files /\ p \in DOMAIN e.prepared
             /\ e.files[p].operand = in /\ e.prepared[p] = <<p, e.files[p]>>
  <2>1. p \in DOMAIN m.files /\ p \in DOMAIN e.files /\ e.files[p].operand = in
    BY <1>1, <1>3, <1>4, <1>6
  <2>2. CASE p \in stale
    BY <1>1, <2>1, <2>2
  <2>3. CASE p \notin stale
    BY <1>1, <1>2, <1>6, <2>1, <2>3
  <2>4. QED
    BY <2>2, <2>3
<1>10. ASSUME NEW p, p \notin ps
       PROVE  /\ p \in DOMAIN r.files => p \in DOMAIN e.files /\ e.files[p] = r.files[p]
              /\ p \in DOMAIN r.prepared => p \in DOMAIN e.prepared
  BY <1>1, <1>2, <1>4, <1>6, <1>10
<1>11. QED
  BY <1>1, <1>8, <1>9, <1>10 DEF Staged, ps

\* So are those of a request, kept as evidence or not.
LEMMA AskStages ==
  ASSUME NEW r, IsRunner(r), FilesTyped(r), NEW s, NEW in \in SUBSET Dev
  PROVE  /\ Staged(r, Prepare(Emit(r, Paths(s), in), Paths(s)), s, in)
         /\ Staged(r, Prepare(Evidence(Emit(r, Paths(s), in), Paths(s)), Paths(s)), s, in)
<1> DEFINE m == Emit(r, Paths(s), in)
           n == Evidence(m, Paths(s))
<1>1. /\ IsRunner(m) /\ Written(r, m, Paths(s), in)
      /\ m.prepared = r.prepared /\ m.pool = r.pool /\ m.pending = r.pending /\ m.memo = r.memo
  BY EmitFacts
<1>2. /\ IsRunner(n) /\ n.files = m.files
      /\ n.prepared = m.prepared /\ n.pool = m.pool /\ n.pending = m.pending /\ n.memo = m.memo
  BY <1>1, EvidenceFacts
<1> HIDE DEF m, n
<1>w. Written(r, n, Paths(s), in)
  BY <1>1, <1>2 DEF Written
<1>3. Staged(r, Prepare(m, Paths(s)), s, in) /\ Staged(r, Prepare(n, Paths(s)), s, in)
  BY <1>1, <1>2, <1>w, PrepareStages
<1>4. QED
  BY <1>3 DEF m, n

-----------------------------------------------------------------------------
\* What a runner keeps while the programs of a further site are staged.
LEMMA StagedKeeps ==
  ASSUME NEW r, RunnerOk(r), NEW s \in SiteSet, NEW in, NEW e, Staged(r, e, s, in)
  PROVE  /\ RunnerOk(e)
         /\ \A q, done : QueueOk(r, q, done) /\ s \notin done => QueueOk(e, q, done)
<1>1. RunnerOk(e)
  BY DEF RunnerOk, Staged, PoolTrue, MemoTrue
<1>2. ASSUME NEW q, NEW done, QueueOk(r, q, done), s \notin done
      PROVE  QueueOk(e, q, done)
  <2>1. ASSUME NEW i \in DOMAIN q PROVE Fresh(e, q[i])
    <3>1. Fresh(r, q[i]) /\ q[i].path[1] # s
      BY <1>2, <2>1 DEF QueueOk
    <3>2. \A p \in ToSet(Paths(s)) : p[1] = s
      BY PathFacts
    <3>3. q[i].path \notin ToSet(Paths(s))
      BY <3>1, <3>2
    <3>4. QED
      BY <3>1, <3>3 DEF Staged, Fresh
  <2>2. QED
    BY <1>2, <2>1 DEF QueueOk
<1>3. QED
  BY <1>1, <1>2

\* Capture sets that all are the operand come to the operand.
LEMMA CapsAre ==
  ASSUME NEW caps, NEW in, DOMAIN caps # {}, \A i \in DOMAIN caps : caps[i] = in
  PROVE  UNION ToSet(caps) = in
  BY DEF ToSet

\* The pool's answer for staged programs is their operand.
LEMMA PoolCaps ==
  ASSUME NEW r, NEW s, NEW in, NEW e, Staged(r, e, s, in), PoolTrue(e), InHand(e, Paths(s))
  PROVE  UNION ToSet(FromPool(e, Paths(s))) = in
<1> DEFINE caps == FromPool(e, Paths(s))
<1>1. DOMAIN caps = 1 .. Len(Paths(s)) /\ Len(Paths(s)) \in {1, 2}
  BY PathFacts DEF FromPool
<1>2. ASSUME NEW i \in 1 .. Len(Paths(s)) PROVE caps[i] = in
  <2>1. Paths(s)[i] \in ToSet(Paths(s))
    BY PathFacts
  <2>2. caps[i] = e.pool[KeyOf(e, Paths(s)[i])]
    BY PathFacts DEF FromPool
  <2>3. KeyOf(e, Paths(s)[i]) \in DOMAIN e.pool
    BY <2>1 DEF InHand
  <2>4. KeyOf(e, Paths(s)[i]) = <<Paths(s)[i], e.files[Paths(s)[i]]>> /\ e.files[Paths(s)[i]].operand = in
    BY <2>1 DEF Staged, KeyOf
  <2>5. QED
    BY <2>2, <2>3, <2>4 DEF PoolTrue
<1> HIDE DEF caps
<1>3. QED
  BY <1>1, <1>2, CapsAre DEF caps

\* So is what they capture when they are run at once.
LEMMA RunCaps ==
  ASSUME NEW r, NEW s, NEW in, NEW e, Staged(r, e, s, in)
  PROVE  UNION ToSet(FromRun(e, Paths(s))) = in
<1> DEFINE caps == FromRun(e, Paths(s))
<1>1. DOMAIN caps = 1 .. Len(Paths(s)) /\ Len(Paths(s)) \in {1, 2}
  BY PathFacts DEF FromRun
<1>2. ASSUME NEW i \in 1 .. Len(Paths(s)) PROVE caps[i] = in
  <2>1. Paths(s)[i] \in ToSet(Paths(s)) /\ caps[i] = e.files[Paths(s)[i]].operand
    BY PathFacts DEF FromRun, Captured
  <2>2. QED
    BY <2>1 DEF Staged
<1> HIDE DEF caps
<1>3. QED
  BY <1>1, <1>2, CapsAre DEF caps

\* Running programs changes what the transport counts, nothing else.
LEMMA ExecuteKeeps ==
  ASSUME NEW r, RunnerOk(r), NEW paths, NEW e, e = Execute(r, paths)
  PROVE  /\ RunnerOk(e) /\ e.pending = r.pending /\ e.files = r.files /\ e.prepared = r.prepared
         /\ e.pool = r.pool /\ e.memo = r.memo /\ e.prunable = r.prunable
         /\ \A q, done : QueueOk(r, q, done) => QueueOk(e, q, done)
<1>1. /\ IsRunner(e) /\ e.pending = r.pending /\ e.files = r.files /\ e.prepared = r.prepared
      /\ e.pool = r.pool /\ e.memo = r.memo /\ e.prunable = r.prunable
  BY DEF RunnerOk, IsRunner, Execute
<1>2. QED
  BY <1>1 DEF RunnerOk, FilesTyped, PoolTrue, MemoTrue, QueueOk, Fresh

\* An answered operand is remembered with its programs.
LEMMA RememberKeeps ==
  ASSUME NEW r, RunnerOk(r), NEW e,
         \A p \in ToSet(Paths(Here)) : KeyOf(r, p)[2].operand = In(val, Here),
         e = Remember(r)
  PROVE  /\ RunnerOk(e) /\ e.pending = r.pending
         /\ \A q, done : QueueOk(r, q, done) => QueueOk(e, q, done)
<1> DEFINE m == IF env.prune THEN MarkPrunable(r, Paths(Here)) ELSE r
           fp == Fingerprint(Here)
           keys == [i \in DOMAIN Paths(Here) |-> KeyOf(m, Paths(Here)[i])]
<1>1. /\ IsRunner(m) /\ m.files = r.files /\ m.prepared = r.prepared /\ m.pool = r.pool
      /\ m.pending = r.pending /\ m.memo = r.memo
  <2>1. IsRunner(r)
    BY DEF RunnerOk
  <2>2. CASE env.prune
    BY <2>1, <2>2 DEF IsRunner, MarkPrunable
  <2>3. CASE ~env.prune
    BY <2>1, <2>3
  <2>4. QED
    BY <2>2, <2>3
<1>2. e = [m EXCEPT !.memo = Put(m.memo, fp, keys)]
  BY DEF Remember, MemoStore
<1>3. fp[2] = In(val, Here)
  BY DEF Fingerprint
<1> HIDE DEF m, fp
<1>4. DOMAIN keys # {} /\ \A i \in DOMAIN keys : keys[i][2].operand = fp[2]
  <2>1. /\ DOMAIN Paths(Here) # {}
        /\ \A i \in DOMAIN Paths(Here) : Paths(Here)[i] \in ToSet(Paths(Here))
    BY PathsNamed
  <2>2. DOMAIN keys = DOMAIN Paths(Here)
    OBVIOUS
  <2>3. ASSUME NEW i \in DOMAIN Paths(Here) PROVE keys[i][2].operand = fp[2]
    <3>1. keys[i] = KeyOf(r, Paths(Here)[i])
      BY <1>1 DEF KeyOf
    <3>2. QED
      BY <1>3, <2>1, <3>1
  <2> HIDE DEF keys
  <2>4. QED
    BY <2>1, <2>2, <2>3
<1> HIDE DEF keys
<1>5. \A f \in DOMAIN Put(m.memo, fp, keys) :
        \/ f = fp /\ Put(m.memo, fp, keys)[f] = keys
        \/ f \in DOMAIN m.memo /\ Put(m.memo, fp, keys)[f] = m.memo[f]
  BY DEF Put, Under
<1>6. /\ IsRunner(e) /\ e.files = m.files /\ e.prepared = m.prepared /\ e.pool = m.pool
      /\ e.pending = m.pending /\ e.memo = Put(m.memo, fp, keys)
  <2> DEFINE memo == Put(m.memo, fp, keys)
  <2>1. e = [m EXCEPT !.memo = memo]
    BY <1>2
  <2> HIDE DEF memo
  <2>2. /\ IsRunner(e) /\ e.files = m.files /\ e.prepared = m.prepared /\ e.pool = m.pool
        /\ e.pending = m.pending /\ e.memo = memo
    BY <1>1, <2>1 DEF IsRunner
  <2>3. QED
    BY <2>2 DEF memo
<1>7. MemoTrue(e)
  <2>1. MemoTrue(r)
    BY DEF RunnerOk
  <2>2. QED
    BY <1>1, <1>4, <1>5, <1>6, <2>1 DEF MemoTrue
<1>8. QED
  BY <1>1, <1>6, <1>7 DEF RunnerOk, FilesTyped, PoolTrue, QueueOk, Fresh

-----------------------------------------------------------------------------
\* One program joins the queue, unless it is answered or already there.
LEMMA EnlistKeeps ==
  ASSUME NEW r, FilesTyped(r), NEW q, NEW done, QueueOk(r, q, done),
         NEW p \in PathSet, p[1] \in done, p \in DOMAIN r.files, p \in DOMAIN r.prepared,
         r.prepared[p] = <<p, r.files[p]>>,
         \A i \in DOMAIN q : q[i].path # p,
         NEW w, w = Enlist(r, q, p)
  PROVE  /\ QueueOk(r, w, done)
         /\ \A i \in DOMAIN w : (\E j \in DOMAIN q : w[i].path = q[j].path) \/ w[i].path = p
         /\ q # << >> => w # << >>
         /\ q = << >> => (w = << >> <=> KeyOf(r, p) \in DOMAIN r.pool)
<1> DEFINE new == [key |-> KeyOf(r, p), path |-> p]
<1>1. new \in Entries /\ new.path = p /\ Fresh(r, new)
  BY DEF Entries, Keys, KeyOf, FilesTyped, Fresh
<1>2. q \in Seq(Entries)
  BY DEF QueueOk
<1>3. CASE KeyOf(r, p) \in DOMAIN r.pool \cup Queued(q)
  <2>1. w = q
    BY <1>3 DEF Enlist
  <2>2. q = << >> => KeyOf(r, p) \in DOMAIN r.pool
    BY <1>3 DEF Queued
  <2>3. QED
    BY <2>1, <2>2
<1>4. CASE KeyOf(r, p) \notin DOMAIN r.pool \cup Queued(q)
  <2>1. w = Append(q, new)
    BY <1>4 DEF Enlist
  <2> HIDE DEF new
  <2>2. /\ w \in Seq(Entries) /\ w # << >> /\ DOMAIN w = 1 .. Len(q) + 1 /\ DOMAIN q = 1 .. Len(q)
        /\ \A i \in DOMAIN q : w[i] = q[i]
        /\ w[Len(q) + 1] = new /\ Len(q) \in Nat
    BY <1>1, <1>2, <2>1
  <2>3. ASSUME NEW i \in DOMAIN w PROVE i \in DOMAIN q \/ (i = Len(q) + 1 /\ w[i] = new)
    BY <2>2
  <2>4. \A i \in DOMAIN w : Fresh(r, w[i]) /\ w[i].path[1] \in done
    BY <1>1, <2>2, <2>3 DEF QueueOk
  <2>5. \A i, j \in DOMAIN w : w[i].path = w[j].path => i = j
    BY <1>1, <2>2, <2>3 DEF QueueOk
  <2>6. QED
    BY <1>1, <1>4, <2>2, <2>3, <2>4, <2>5 DEF QueueOk
<1>5. QED
  BY <1>3, <1>4

\* The queue a request leaves, built program by program.
LEMMA EnqueueIs ==
  ASSUME NEW r, NEW s
  PROVE  LET one == Enlist(r, r.pending, <<s, 1>>)
             two == Enlist(r, one, <<s, 2>>)
         IN  Enqueue(r, Paths(s)) = [r EXCEPT !.pending = IF Len(Paths(s)) = 1 THEN one ELSE two]
<1> DEFINE ps == Paths(s)
           Queue(f) == [n \in 0 .. Len(ps) |-> IF n = 0 THEN r.pending ELSE Enlist(r, f[n - 1], ps[n])]
           one == Enlist(r, r.pending, <<s, 1>>)
           two == Enlist(r, one, <<s, 2>>)
           w == [n \in 0 .. Len(ps) |-> IF n = 0 THEN r.pending ELSE IF n = 1 THEN one ELSE two]
           queue == CHOOSE f : f = Queue(f)
<1>1. Len(ps) \in {1, 2} /\ \A i \in 1 .. Len(ps) : ps[i] = <<s, i>>
  BY PathFacts
<1>2. Enqueue(r, ps) = [r EXCEPT !.pending = queue[Len(ps)]]
  BY DEF Enqueue
<1> HIDE DEF ps
<1>3. w = Queue(w)
  <2>1. ASSUME NEW n \in 0 .. Len(ps)
        PROVE  w[n] = IF n = 0 THEN r.pending ELSE Enlist(r, w[n - 1], ps[n])
    <3>1. n = 0 \/ n = 1 \/ n = 2
      BY <1>1
    <3>2. CASE n = 0
      BY <3>2
    <3>3. CASE n = 1
      <4>1. w[0] = r.pending /\ w[1] = one /\ ps[1] = <<s, 1>>
        BY <1>1, <3>3
      <4>2. QED
        BY <3>3, <4>1
    <3>4. CASE n = 2
      <4>1. w[1] = one /\ w[2] = two /\ ps[2] = <<s, 2>>
        BY <1>1, <3>4
      <4>2. QED
        BY <3>4, <4>1
    <3>5. QED
      BY <3>1, <3>2, <3>3, <3>4
  <2>2. QED
    BY <2>1
<1>4. queue = Queue(queue)
  BY <1>3
<1> HIDE DEF queue, one, two
<1>5. queue[0] = r.pending
  BY <1>1, <1>4
<1>6. queue[1] = one
  <2>1. queue[1] = Enlist(r, queue[0], ps[1])
    BY <1>1, <1>4
  <2>2. QED
    BY <1>1, <1>5, <2>1 DEF one
<1>7. Len(ps) = 2 => queue[2] = two
  <2>1. Len(ps) = 2 => queue[2] = Enlist(r, queue[1], ps[2])
    BY <1>1, <1>4
  <2>2. QED
    BY <1>1, <1>6, <2>1 DEF two
<1>8. queue[Len(ps)] = IF Len(ps) = 1 THEN one ELSE two
  BY <1>1, <1>6, <1>7
<1>9. QED
  BY <1>2, <1>8 DEF ps, one, two

\* A request the pool cannot answer leaves a queue.
LEMMA EnqueueKeeps ==
  ASSUME NEW r, RunnerOk(r), NEW s \in SiteSet, NEW in, NEW e0, Staged(e0, r, s, in),
         NEW done, QueueOk(r, r.pending, done), s \notin done,
         ~InHand(r, Paths(s)), NEW e, e = Enqueue(r, Paths(s))
  PROVE  /\ RunnerOk(e) /\ QueueOk(e, e.pending, done \cup {s}) /\ e.pending # << >>
         /\ e.prepared = r.prepared
<1> DEFINE one == Enlist(r, r.pending, <<s, 1>>)
           two == Enlist(r, one, <<s, 2>>)
           last == IF Len(Paths(s)) = 1 THEN one ELSE two
           D == done \cup {s}
<1>1. e = [r EXCEPT !.pending = last]
  BY EnqueueIs
<1>2. /\ Len(Paths(s)) \in {1, 2} /\ ToSet(Paths(s)) = {Paths(s)[i] : i \in 1 .. Len(Paths(s))}
      /\ \A i \in 1 .. Len(Paths(s)) : Paths(s)[i] = <<s, i>>
  BY PathFacts
<1>3. \A i \in 1 .. Len(Paths(s)) :
        /\ <<s, i>> \in ToSet(Paths(s)) /\ <<s, i>> \in PathSet /\ <<s, i>>[1] \in D
        /\ <<s, i>> \in DOMAIN r.files /\ <<s, i>> \in DOMAIN r.prepared
        /\ r.prepared[<<s, i>>] = <<<<s, i>>, r.files[<<s, i>>]>>
  BY <1>2 DEF PathSet, Staged
<1>4. QueueOk(r, r.pending, D)
  BY DEF QueueOk
<1>5. \A i \in DOMAIN r.pending : r.pending[i].path # <<s, 1>> /\ r.pending[i].path # <<s, 2>>
  <2>1. ASSUME NEW i \in DOMAIN r.pending PROVE r.pending[i].path[1] # s
    BY <2>1 DEF QueueOk
  <2>2. <<s, 1>>[1] = s /\ <<s, 2>>[1] = s
    OBVIOUS
  <2>3. QED
    BY <2>1, <2>2
<1>6. FilesTyped(r)
  BY DEF RunnerOk
<1>7. /\ QueueOk(r, one, D)
      /\ \A i \in DOMAIN one : (\E j \in DOMAIN r.pending : one[i].path = r.pending[j].path)
                               \/ one[i].path = <<s, 1>>
      /\ r.pending # << >> => one # << >>
      /\ r.pending = << >> => (one = << >> <=> KeyOf(r, <<s, 1>>) \in DOMAIN r.pool)
  <2> DEFINE p == <<s, 1>>
  <2>1. /\ p \in PathSet /\ p[1] \in D /\ p \in DOMAIN r.files /\ p \in DOMAIN r.prepared
        /\ r.prepared[p] = <<p, r.files[p]>> /\ \A i \in DOMAIN r.pending : r.pending[i].path # p
    BY <1>2, <1>3, <1>5
  <2> HIDE DEF p
  <2>2. /\ QueueOk(r, Enlist(r, r.pending, p), D)
        /\ \A i \in DOMAIN Enlist(r, r.pending, p) :
             (\E j \in DOMAIN r.pending : Enlist(r, r.pending, p)[i].path = r.pending[j].path)
             \/ Enlist(r, r.pending, p)[i].path = p
        /\ r.pending # << >> => Enlist(r, r.pending, p) # << >>
        /\ r.pending = << >> => (Enlist(r, r.pending, p) = << >> <=> KeyOf(r, p) \in DOMAIN r.pool)
    BY <1>4, <1>6, <2>1, EnlistKeeps
  <2>3. QED
    BY <2>2 DEF p
<1> HIDE DEF one
<1>8. Len(Paths(s)) = 2 =>
      /\ QueueOk(r, two, D)
      /\ one # << >> => two # << >>
      /\ one = << >> => (two = << >> <=> KeyOf(r, <<s, 2>>) \in DOMAIN r.pool)
  <2> SUFFICES ASSUME Len(Paths(s)) = 2
               PROVE  /\ QueueOk(r, two, D)
                      /\ one # << >> => two # << >>
                      /\ one = << >> => (two = << >> <=> KeyOf(r, <<s, 2>>) \in DOMAIN r.pool)
    OBVIOUS
  <2> DEFINE p == <<s, 2>>
  <2>1. /\ p \in PathSet /\ p[1] \in D /\ p \in DOMAIN r.files /\ p \in DOMAIN r.prepared
        /\ r.prepared[p] = <<p, r.files[p]>> /\ \A i \in DOMAIN one : one[i].path # p
    BY <1>3, <1>5, <1>7
  <2> HIDE DEF p
  <2>2. /\ QueueOk(r, Enlist(r, one, p), D)
        /\ one # << >> => Enlist(r, one, p) # << >>
        /\ one = << >> => (Enlist(r, one, p) = << >> <=> KeyOf(r, p) \in DOMAIN r.pool)
    BY <1>6, <1>7, <2>1, EnlistKeeps
  <2>3. QED
    BY <2>2 DEF p
<1> HIDE DEF two
<1>9. QueueOk(r, last, D) /\ last # << >>
  <2>1. QueueOk(r, last, D)
    BY <1>2, <1>7, <1>8
  <2>2. PICK i \in 1 .. Len(Paths(s)) : KeyOf(r, <<s, i>>) \notin DOMAIN r.pool
    BY <1>2 DEF InHand
  <2>3. CASE Len(Paths(s)) = 1
    BY <1>7, <2>2, <2>3
  <2>4. CASE Len(Paths(s)) = 2
    <3>1. i = 1 \/ i = 2
      BY <2>4
    <3>2. QED
      BY <1>7, <1>8, <2>2, <2>4, <3>1
  <2>5. QED
    BY <1>2, <2>1, <2>3, <2>4
<1> HIDE DEF last
<1>10. /\ IsRunner(e) /\ e.files = r.files /\ e.prepared = r.prepared /\ e.pool = r.pool
       /\ e.pending = last /\ e.memo = r.memo
  BY <1>1 DEF RunnerOk, IsRunner
<1>11. QED
  BY <1>9, <1>10 DEF RunnerOk, FilesTyped, PoolTrue, MemoTrue, QueueOk, Fresh

-----------------------------------------------------------------------------
\* Here is a site not yet computed, and its operands are.
LEMMA HereFacts ==
  ASSUME Shape, at # 14
  PROVE  /\ at \in 1 .. 13 /\ at <= Len(Sites) /\ Here \in SiteSet /\ Here \notin Done
         /\ \A s \in Done \cup {Here} : \A d \in Operands(s) : d \in Done
         /\ \A s \in Done \cup {Here} : s \notin Operands(s)
         /\ Done \subseteq SiteSet
         /\ at' = at + 1 => Done' = Done \cup {Here}
<1>1. at \in 1 .. 13
  BY DEF Shape
<1>2. Here = Sites[at] /\ Len(Sites) = 13 /\ SiteSet = {Sites[i] : i \in 1 .. 13}
  BY SiteFacts DEF Here
<1>3. Here \notin Done /\ Done \subseteq SiteSet
  BY <1>1, <1>2, SiteFacts DEF Done
<1>4. ASSUME NEW s \in Done \cup {Here}, NEW d \in Operands(s)
      PROVE  d \in Done /\ d # s
  <2>1. PICK i \in 1 .. at : Sites[i] = s /\ i \in 1 .. 13
    BY <1>1, <1>2, <1>4 DEF Done
  <2>2. PICK j \in 1 .. i - 1 : Sites[j] = d
    BY <2>1, OperandsEarlier
  <2>3. QED
    BY <1>1, <2>1, <2>2, SiteFacts DEF Done
<1>5. at' = at + 1 => Done' = Done \cup {Here}
  BY <1>1, <1>2 DEF Done
<1>6. QED
  BY <1>1, <1>2, <1>3, <1>4, <1>5

\* Values are sets of deviations.
LEMMA ValueTyped ==
  ASSUME NEW s \in SiteSet, NEW in \in SUBSET Dev, NEW e, NEW a
  PROVE  /\ GoldenValue(s, in) \in SUBSET Dev /\ GoldenValue(s, in) \subseteq in
         /\ TileValue(e, a, s, in) \in SUBSET Dev
         /\ \A m \in TileValue(e, a, s, in) : m \in in \/ (m[2] = "wrong" => s \in e.wrong)
<1>1. Absorb(s, in) \subseteq in
  BY DEF Absorb
<1>2. Deviations(e, a, s) \in SUBSET Dev
  BY DEF Deviations, Dev
<1>3. \A m \in Deviations(e, a, s) : m[2] = "wrong" => s \in e.wrong
  BY DEF Deviations
<1>4. QED
  BY <1>1, <1>2, <1>3 DEF GoldenValue, TileValue

\* So is what comes into a site.
LEMMA InTyped ==
  ASSUME Shape, at # 14
  PROVE  In(val, Here) \in SUBSET Dev
  BY HereFacts DEF Shape, In

\* A value depends on those of its operands only.
LEMMA ValueLocal ==
  ASSUME NEW v, NEW w, NEW s, \A d \in Operands(s) : v[d] = w[d], NEW e, NEW a, NEW tried
  PROVE  Value(e, a, v, s, tried) = Value(e, a, w, s, tried)
<1>1. In(v, s) = In(w, s)
  BY DEF In
<1>2. QED
  BY <1>1 DEF Value

\* One more site, whether the tile's value or golden's.
LEMMA AdvanceKeeps ==
  ASSUME IInv, pc = "op", at # 14, NEW value \in SUBSET Dev, NEW rec, NEW r, Advance(value, rec, r),
         RunnerOk(r), QueueOk(r, r.pending, Done \cup {Here}),
         \A q \in rec : /\ q.site = Here /\ q.equal = (Here \notin env.wrong)
                        /\ Op(Here) \in env.scope,
         \A m \in value : m[2] = "wrong" =>
            (\E d \in Done : m \in val[d]) \/ (\E q \in rec : ~q.equal),
         r.pending = << >> =>
            /\ runner.pending = << >>
            /\ rec # {} <=> Here \in TriedOf(env)
            /\ value = Value(env, arm, val, Here, TriedOf(env))
  PROVE  IInv'
<1>1. /\ val' = Put(val, Here, value) /\ recs' = recs \cup rec /\ runner' = r /\ at' = at + 1
      /\ env' = env /\ pc' = pc /\ arm' = arm /\ todo' = todo /\ verdict' = verdict
  BY DEF Advance
<1>2. /\ at \in 1 .. 13 /\ Here \notin Done
      /\ \A s \in Done \cup {Here} : \A d \in Operands(s) : d \in Done
      /\ Done' = Done \cup {Here}
  BY <1>1, HereFacts DEF IInv
<1>3. val = [s \in Done |-> val[s]] /\ \A s \in Done : val[s] \in SUBSET Dev
  BY DEF IInv, Shape
<1>4. /\ DOMAIN val' = Done \cup {Here} /\ val' = [s \in Done \cup {Here} |-> val'[s]]
      /\ val'[Here] = value /\ \A s \in Done : val'[s] = val[s]
  <2>1. DOMAIN val = Done
    BY <1>3
  <2>2. val' = [s \in Done \cup {Here} |-> IF s \in {Here} THEN value ELSE val[s]]
    BY <1>1, <2>1 DEF Put, Under
  <2>3. QED
    BY <1>2, <2>2
<1>5. Shape'
  BY <1>1, <1>2, <1>3, <1>4 DEF IInv, Shape
<1>6. RunnerOk(runner')
  BY <1>1
<1>7. QueueInv'
  BY <1>1, <1>2 DEF QueueInv
<1>8. RecsInv'
  BY <1>1, <1>2 DEF IInv, RecsInv
<1>9. WrongInv'
  <2>1. ASSUME NEW s \in Done', NEW m \in val'[s], m[2] = "wrong"
        PROVE  \E q \in recs' : ~q.equal
    <3>1. CASE s \in Done
      BY <1>1, <1>4, <2>1, <3>1 DEF IInv, WrongInv
    <3>2. CASE s = Here
      <4>1. (\E d \in Done : m \in val[d]) \/ (\E q \in rec : ~q.equal)
        BY <1>4, <2>1, <3>2
      <4>2. QED
        BY <1>1, <2>1, <4>1 DEF IInv, WrongInv
    <3>3. QED
      BY <1>2, <2>1, <3>1, <3>2
  <2>2. QED
    BY <2>1 DEF WrongInv
<1>10. PassInv'
  <2>1. SUFFICES ASSUME r.pending = << >>, NEW s \in Done'
                 PROVE  /\ s \in Served' <=> s \in TriedOf(env)
                        /\ val'[s] = Value(env, arm, val', s, TriedOf(env))
    BY <1>1 DEF PassInv, TriedOf, Offered
  <2>2. Served' = Served \cup {q.site : q \in rec} /\ Here \notin Served
    BY <1>1, <1>2 DEF Served, IInv, RecsInv
  <2>3. \A q \in rec : q.site = Here
    OBVIOUS
  <2>4. Value(env, arm, val', s, TriedOf(env)) = Value(env, arm, val, s, TriedOf(env))
    <3>1. \A d \in Operands(s) : val'[d] = val[d]
      BY <1>2, <1>4, <2>1
    <3>2. \A v, w : (\A d \in Operands(s) : v[d] = w[d]) =>
             Value(env, arm, v, s, TriedOf(env)) = Value(env, arm, w, s, TriedOf(env))
      BY ValueLocal
    <3>3. QED
      BY <3>1, <3>2
  <2>5. CASE s = Here
    BY <1>4, <2>1, <2>2, <2>3, <2>4, <2>5
  <2>6. CASE s \in Done
    <3>1. /\ s \in Served <=> s \in TriedOf(env)
          /\ val[s] = Value(env, arm, val, s, TriedOf(env))
      BY <2>1, <2>6 DEF IInv, PassInv
    <3>2. QED
      BY <1>2, <1>4, <2>2, <2>3, <2>4, <2>6, <3>1
  <2>7. QED
    BY <1>2, <2>1, <2>5, <2>6
<1>11. VerdictInv'
  BY <1>1 DEF IInv, VerdictInv, VerdictEarned, Solves, TriedOf, Offered
<1>12. QED
  BY <1>5, <1>6, <1>7, <1>8, <1>9, <1>10, <1>11 DEF IInv

\* The tile's value in golden's place.
LEMMA SubstituteKeeps ==
  ASSUME IInv, pc = "op", at # 14, Tried(env, Here, Served), NEW caps,
         UNION ToSet(caps) = In(val, Here), NEW r, RunnerOk(r),
         QueueOk(r, r.pending, Done \cup {Here}), r.pending = runner.pending,
         Substitute(caps, r)
  PROVE  IInv'
<1> DEFINE value == TileValue(env, arm, Here, In(val, Here))
           rec == {[site |-> Here, equal |-> Here \notin env.wrong]}
<1>1. Advance(value, rec, r)
  BY DEF Substitute
<1>2. Shape /\ Here \in SiteSet /\ In(val, Here) \in SUBSET Dev
  BY HereFacts, InTyped DEF IInv
<1>3. /\ value \in SUBSET Dev
      /\ \A m \in value : m \in In(val, Here) \/ (m[2] = "wrong" => Here \in env.wrong)
  BY <1>2, ValueTyped
<1>4. \A q \in rec : /\ q.site = Here /\ q.equal = (Here \notin env.wrong) /\ Op(Here) \in env.scope
  BY DEF Tried, Serving
<1>5. \A m \in In(val, Here) : \E d \in Done : m \in val[d]
  BY <1>2, HereFacts DEF In
<1>6. \A m \in value : m[2] = "wrong" => (\E d \in Done : m \in val[d]) \/ (\E q \in rec : ~q.equal)
  <2>1. Here \in env.wrong => \E q \in rec : ~q.equal
    OBVIOUS
  <2> HIDE DEF value, rec
  <2>2. QED
    BY <1>3, <1>5, <2>1
<1>7. r.pending = << >> => Here \in TriedOf(env)
  <2>1. SUFFICES ASSUME runner.pending = << >> PROVE Here \in TriedOf(env)
    OBVIOUS
  <2>2. \A s \in Done : s \in Served <=> s \in TriedOf(env)
    BY <2>1 DEF IInv, PassInv
  <2>3. "r1" \in Served => "r1" \in Done
    BY DEF Served, IInv, RecsInv
  <2>4. "r1" \in Served => "r1" \in Offered(env)
    BY <2>2, <2>3 DEF TriedOf, Tried, Offered
  <2>5. QED
    BY <1>2, <2>4 DEF Tried, TriedOf
<1>8. rec # {} /\ (Here \in TriedOf(env) => value = Value(env, arm, val, Here, TriedOf(env)))
  BY DEF Value
<1> HIDE DEF value, rec
<1>9. QED
  BY <1>1, <1>3, <1>4, <1>6, <1>7, <1>8, AdvanceKeeps

\* Golden's value stays, for good if the site is not offered, for this pass if
\* its programs are queued.
LEMMA GoldenKeeps ==
  ASSUME IInv, pc = "op", at # 14, NEW r, RunnerOk(r), QueueOk(r, r.pending, Done \cup {Here}),
         \/ r.pending # << >>
         \/ r.pending = runner.pending /\ ~Tried(env, Here, Served),
         KeepGolden(r)
  PROVE  IInv'
<1> DEFINE value == GoldenValue(Here, In(val, Here))
           rec == {}
<1>1. Advance(value, rec, r)
  BY DEF KeepGolden
<1>2. Shape /\ Here \in SiteSet /\ In(val, Here) \in SUBSET Dev
  BY HereFacts, InTyped DEF IInv
<1>3. value \in SUBSET Dev /\ value \subseteq In(val, Here)
  BY <1>2, ValueTyped
<1>4. \A m \in In(val, Here) : \E d \in Done : m \in val[d]
  BY <1>2, HereFacts DEF In
<1>5. r.pending = << >> => Here \notin TriedOf(env)
  <2>1. SUFFICES ASSUME r.pending = << >>, Here \in TriedOf(env) PROVE FALSE
    OBVIOUS
  <2>2. runner.pending = << >> /\ ~Tried(env, Here, Served)
    BY <2>1
  <2>3. Here = "r2" /\ "r1" \notin Served /\ "r1" \in Offered(env)
    BY <2>1, <2>2 DEF TriedOf, Tried
  <2>4. "r1" \in Done
    BY <1>2, <2>3, HereFacts DEF Operands
  <2>5. "r1" \in TriedOf(env)
    BY <2>3 DEF TriedOf, Tried, Offered
  <2>6. QED
    BY <2>2, <2>3, <2>4, <2>5 DEF IInv, PassInv
<1>6. Here \notin TriedOf(env) => value = Value(env, arm, val, Here, TriedOf(env))
  BY DEF Value
<1> HIDE DEF value
<1>7. \A m \in value : m[2] = "wrong" => \E d \in Done : m \in val[d]
  BY <1>3, <1>4
<1>8. /\ r.pending = << >> => runner.pending = << >>
      /\ \A q \in rec : q.site = Here /\ q.equal = (Here \notin env.wrong) /\ Op(Here) \in env.scope
      /\ rec = {}
  OBVIOUS
<1> HIDE DEF rec
<1>9. \A m \in value : m[2] = "wrong" =>
        (\E d \in Done : m \in val[d]) \/ (\E q \in rec : ~q.equal)
  BY <1>7
<1>10. r.pending = << >> =>
         /\ runner.pending = << >>
         /\ rec # {} <=> Here \in TriedOf(env)
         /\ value = Value(env, arm, val, Here, TriedOf(env))
  BY <1>5, <1>6, <1>8
<1>11. value \in SUBSET Dev
  BY <1>3
<1>12. \A q \in rec : /\ q.site = Here /\ q.equal = (Here \notin env.wrong)
                      /\ Op(Here) \in env.scope
  BY <1>8
<1>13. QED
  BY <1>1, <1>9, <1>10, <1>11, <1>12, AdvanceKeeps

\* A queue that was good is good with one more site computed.
LEMMA QueueMore ==
  ASSUME NEW r, NEW q, NEW done, NEW s, QueueOk(r, q, done)
  PROVE  QueueOk(r, q, done \cup {s})
  BY DEF QueueOk

\* The programs of a site asked for, whatever answers.
LEMMA AskKeeps ==
  ASSUME IInv, pc = "op", at # 14, Tried(env, Here, Served), Ask
  PROVE  IInv'
<1> DEFINE in == In(val, Here)
           r == Prepare(Emit(runner, Paths(Here), in), Paths(Here))
<1>1. Shape /\ RunnerOk(runner) /\ QueueOk(runner, runner.pending, Done)
  BY DEF IInv, QueueInv
<1>2. Here \in SiteSet /\ Here \notin Done /\ in \in SUBSET Dev
  BY <1>1, HereFacts, InTyped
<1>3. Staged(runner, r, Here, in)
  BY <1>1, <1>2, AskStages DEF RunnerOk
<1>4. \/ ~env.collapse /\ Substitute(FromRun(r, Paths(Here)), Execute(r, Paths(Here)))
      \/ env.collapse /\ InHand(r, Paths(Here)) /\ Substitute(FromPool(r, Paths(Here)), r)
      \/ env.collapse /\ ~InHand(r, Paths(Here)) /\ KeepGolden(Acquire(r, Paths(Here)))
  BY DEF Ask
<1> HIDE DEF r, in
<1>5. /\ RunnerOk(r) /\ r.pending = runner.pending /\ QueueOk(r, r.pending, Done)
      /\ QueueOk(r, r.pending, Done \cup {Here})
  <2>1. RunnerOk(r) /\ r.pending = runner.pending /\ QueueOk(r, r.pending, Done)
    BY <1>1, <1>2, <1>3, StagedKeeps DEF Staged
  <2>2. QED
    BY <2>1, QueueMore
<1>6. CASE Substitute(FromRun(r, Paths(Here)), Execute(r, Paths(Here)))
  <2>1. UNION ToSet(FromRun(r, Paths(Here))) = In(val, Here)
    BY <1>3, RunCaps DEF in
  <2> DEFINE x == Execute(r, Paths(Here))
  <2>2. RunnerOk(x) /\ x.pending = runner.pending /\ QueueOk(x, x.pending, Done \cup {Here})
    BY <1>5, ExecuteKeeps
  <2>3. Substitute(FromRun(r, Paths(Here)), x)
    BY <1>6
  <2> HIDE DEF x
  <2>4. QED
    BY <2>1, <2>2, <2>3, SubstituteKeeps
<1>7. CASE InHand(r, Paths(Here)) /\ Substitute(FromPool(r, Paths(Here)), r)
  <2>1. UNION ToSet(FromPool(r, Paths(Here))) = In(val, Here)
    BY <1>3, <1>5, <1>7, PoolCaps DEF in, RunnerOk
  <2>2. QED
    BY <1>5, <1>7, <2>1, SubstituteKeeps
<1>8. CASE ~InHand(r, Paths(Here)) /\ KeepGolden(Acquire(r, Paths(Here)))
  <2> DEFINE x == Enqueue(r, Paths(Here))
  <2>1. KeepGolden(x)
    BY <1>8 DEF Acquire
  <2>2. RunnerOk(x) /\ QueueOk(x, x.pending, Done \cup {Here}) /\ x.pending # << >>
    BY <1>2, <1>3, <1>5, <1>8, EnqueueKeeps
  <2> HIDE DEF x
  <2>3. QED
    BY <2>1, <2>2, GoldenKeeps
<1>9. QED
  BY <1>4, <1>6, <1>7, <1>8

\* A projection whose operand was not met before.
LEMMA AskProjectionKeeps ==
  ASSUME IInv, pc = "op", at # 14, Tried(env, Here, Served), AskProjection
  PROVE  IInv'
<1> DEFINE in == In(val, Here)
           r == Prepare(Evidence(Emit(runner, Paths(Here), in), Paths(Here)), Paths(Here))
<1>1. Shape /\ RunnerOk(runner) /\ QueueOk(runner, runner.pending, Done)
  BY DEF IInv, QueueInv
<1>2. Here \in SiteSet /\ Here \notin Done /\ in \in SUBSET Dev
  BY <1>1, HereFacts, InTyped
<1>3. Staged(runner, r, Here, in)
  BY <1>1, <1>2, AskStages DEF RunnerOk
<1>4. \/ InHand(r, Paths(Here)) /\ Substitute(FromPool(r, Paths(Here)), Remember(r))
      \/ ~InHand(r, Paths(Here)) /\ KeepGolden(Remember(Acquire(r, Paths(Here))))
  BY DEF AskProjection
<1> HIDE DEF r
<1>5. /\ RunnerOk(r) /\ r.pending = runner.pending /\ QueueOk(r, r.pending, Done)
      /\ QueueOk(r, r.pending, Done \cup {Here})
  <2>1. RunnerOk(r) /\ r.pending = runner.pending /\ QueueOk(r, r.pending, Done)
    BY <1>1, <1>2, <1>3, StagedKeeps DEF Staged
  <2>2. QED
    BY <2>1, QueueMore
<1>6. \A p \in ToSet(Paths(Here)) : r.prepared[p][2].operand = In(val, Here)
  BY <1>3 DEF Staged
<1> HIDE DEF in
<1>7. CASE InHand(r, Paths(Here)) /\ Substitute(FromPool(r, Paths(Here)), Remember(r))
  <2>1. UNION ToSet(FromPool(r, Paths(Here))) = In(val, Here)
    BY <1>3, <1>5, <1>7, PoolCaps DEF in, RunnerOk
  <2> DEFINE x == Remember(r)
  <2>2. \A p \in ToSet(Paths(Here)) : KeyOf(r, p)[2].operand = In(val, Here)
    BY <1>6 DEF KeyOf
  <2>3. RunnerOk(x) /\ x.pending = runner.pending /\ QueueOk(x, x.pending, Done \cup {Here})
    BY <1>5, <2>2, RememberKeeps
  <2>4. Substitute(FromPool(r, Paths(Here)), x)
    BY <1>7
  <2> HIDE DEF x
  <2>5. QED
    BY <2>1, <2>3, <2>4, SubstituteKeeps
<1>8. CASE ~InHand(r, Paths(Here)) /\ KeepGolden(Remember(Acquire(r, Paths(Here))))
  <2> DEFINE y == Enqueue(r, Paths(Here))
             x == Remember(y)
  <2>1. KeepGolden(x)
    BY <1>8 DEF Acquire
  <2>2. /\ RunnerOk(y) /\ QueueOk(y, y.pending, Done \cup {Here}) /\ y.pending # << >>
        /\ y.prepared = r.prepared
    BY <1>2, <1>3, <1>5, <1>8, EnqueueKeeps
  <2> HIDE DEF y
  <2>3. \A p \in ToSet(Paths(Here)) : KeyOf(y, p)[2].operand = In(val, Here)
    BY <1>6, <2>2 DEF KeyOf
  <2>4. RunnerOk(x) /\ x.pending = y.pending /\ QueueOk(x, x.pending, Done \cup {Here})
    BY <2>2, <2>3, RememberKeeps
  <2> HIDE DEF x
  <2>5. QED
    BY <2>1, <2>2, <2>4, GoldenKeeps
<1>9. QED
  BY <1>4, <1>7, <1>8

\* An operation the tile is not asked for.
LEMMA NotOfferedKeeps ==
  ASSUME IInv, pc = "op", at # 14, ~Tried(env, Here, Served), KeepGolden(runner)
  PROVE  IInv'
<1>1. RunnerOk(runner) /\ QueueOk(runner, runner.pending, Done)
  BY DEF IInv, QueueInv
<1>2. QueueOk(runner, runner.pending, Done \cup {Here})
  BY <1>1, QueueMore
<1>3. QED
  BY <1>1, <1>2, GoldenKeeps

\* A projection whose operand was answered before.
LEMMA MemoKeeps ==
  ASSUME IInv, pc = "op", at # 14, Tried(env, Here, Served),
         MemoHit(runner, Fingerprint(Here)),
         Substitute(FromMemo(runner, Fingerprint(Here)), runner)
  PROVE  IInv'
<1> DEFINE fp == Fingerprint(Here)
           keys == runner.memo[fp]
           caps == FromMemo(runner, fp)
<1>1. RunnerOk(runner) /\ QueueOk(runner, runner.pending, Done)
  BY DEF IInv, QueueInv
<1>2. fp \in DOMAIN runner.memo /\ ToSet(keys) \subseteq DOMAIN runner.pool
  BY DEF MemoHit
<1>3. fp[2] = In(val, Here)
  BY DEF Fingerprint
<1>4. DOMAIN caps = DOMAIN keys /\ \A i \in DOMAIN keys : caps[i] = runner.pool[keys[i]]
  BY DEF FromMemo
<1>5. Substitute(caps, runner)
  OBVIOUS
<1> HIDE DEF fp, caps
<1>6. /\ DOMAIN keys # {}
      /\ \A i \in DOMAIN keys : keys[i][2].operand = In(val, Here)
  BY <1>1, <1>2, <1>3 DEF RunnerOk, MemoTrue
<1>7. \A i \in DOMAIN keys : keys[i] \in DOMAIN runner.pool
  BY <1>2 DEF ToSet
<1> HIDE DEF keys
<1>8. \A i \in DOMAIN caps : caps[i] = In(val, Here)
  BY <1>1, <1>4, <1>6, <1>7 DEF RunnerOk, PoolTrue
<1>9. UNION ToSet(caps) = In(val, Here)
  BY <1>4, <1>6, <1>8, CapsAre
<1>10. QueueOk(runner, runner.pending, Done \cup {Here})
  BY <1>1, QueueMore
<1>11. QED
  BY <1>1, <1>5, <1>9, <1>10, SubstituteKeeps

\* One operation of golden's layer.
LEMMA OperationKeeps ==
  ASSUME IInv, Operation
  PROVE  IInv'
<1>1. Len(Sites) = 13
  BY SiteFacts
<1>2. Op("r2") = "resid"
  BY DEF Op
<1>3. Op(Here) # "resid" => (Tried(env, Here, Served) <=> Serving(env, Here))
  BY <1>2 DEF Tried
<1>4. \A op \in OpTypes : At(op) => pc = "op" /\ at # 14 /\ Op(Here) = op
  <2>1. at \in 1 .. 14
    BY DEF IInv, Shape
  <2>2. QED
    BY <1>1, <2>1 DEF At
<1>5. CASE Gemm
  <2>1. pc = "op" /\ at # 14 /\ Op(Here) = "proj"
    BY <1>4, <1>5 DEF Gemm, OpTypes
  <2>2. CASE ~Serving(env, Here)
    BY <1>3, <1>5, <2>1, <2>2, NotOfferedKeeps DEF Gemm
  <2>3. CASE Serving(env, Here)
    <3>1. \/ Ask \/ AskProjection
          \/ /\ MemoHit(runner, Fingerprint(Here))
             /\ Substitute(FromMemo(runner, Fingerprint(Here)), runner)
      BY <1>5, <2>3 DEF Gemm
    <3>2. QED
      BY <1>3, <2>1, <2>3, <3>1, AskKeeps, AskProjectionKeeps, MemoKeeps
  <2>4. QED
    BY <2>2, <2>3
<1>6. CASE Rope
  <2>1. pc = "op" /\ at # 14 /\ Op(Here) = "rope"
    BY <1>4, <1>6 DEF Rope, OpTypes
  <2>2. QED
    BY <1>3, <1>6, <2>1, NotOfferedKeeps, AskKeeps DEF Rope
<1>7. CASE Attn
  <2>1. pc = "op" /\ at # 14 /\ Op(Here) = "attn"
    BY <1>4, <1>7 DEF Attn, OpTypes
  <2>2. QED
    BY <1>3, <1>7, <2>1, NotOfferedKeeps, AskKeeps DEF Attn
<1>8. CASE Norm
  <2>1. pc = "op" /\ at # 14 /\ Op(Here) = "norm"
    BY <1>4, <1>8 DEF Norm, OpTypes
  <2>2. QED
    BY <1>3, <1>8, <2>1, NotOfferedKeeps, AskKeeps DEF Norm
<1>9. CASE SwiGlu
  <2>1. pc = "op" /\ at # 14 /\ Op(Here) = "swiglu"
    BY <1>4, <1>9 DEF SwiGlu, OpTypes
  <2>2. QED
    BY <1>3, <1>9, <2>1, NotOfferedKeeps, AskKeeps DEF SwiGlu
<1>10. CASE Residual
  <2>1. pc = "op" /\ at # 14
    BY <1>4, <1>10 DEF Residual, OpTypes
  <2>2. QED
    BY <1>10, <2>1, NotOfferedKeeps, AskKeeps DEF Residual
<1>11. QED
  BY <1>5, <1>6, <1>7, <1>8, <1>9, <1>10 DEF Operation, F16

-----------------------------------------------------------------------------
\* A nonempty set of naturals has a least member.
LEMMA LeastExists ==
  ASSUME NEW T \in SUBSET Nat, T # {}
  PROVE  \E m \in T : \A n \in T : m <= n
<1>1. PICK m \in T : \A n \in T : ~(<<n, m>> \in OpToRel(<, Nat))
  BY NatLessThanWellFounded, WFMin, Zenon
<1>2. \A n \in T : ~(n < m)
  <2> SUFFICES ASSUME NEW n \in T, n < m PROVE <<n, m>> \in OpToRel(<, Nat)
    BY <1>1
  <2> QED
    BY DEF OpToRel
<1>3. QED
  BY <1>2

\* A nonempty set of naturals up to a bound has a largest member.
LEMMA LargestExists ==
  ASSUME NEW n \in Nat, NEW S \in SUBSET (1 .. n), S # {}
  PROVE  Max(S) \in S
<1> DEFINE T == {n - x : x \in S}
<1>1. T \in SUBSET Nat /\ T # {}
  <2>1. \A x \in S : n - x \in Nat
    OBVIOUS
  <2>2. PICK x \in S : TRUE
    OBVIOUS
  <2>3. n - x \in T
    OBVIOUS
  <2>4. \A u \in T : u \in Nat
    BY <2>1
  <2>5. QED
    BY <2>3, <2>4
<1> HIDE DEF T
<1>2. PICK t \in T : \A u \in T : t <= u
  BY <1>1, LeastExists
<1>3. PICK m \in S : t = n - m
  BY <1>2 DEF T
<1>4. ASSUME NEW y \in S PROVE m >= y
  <2>1. n - y \in T
    BY DEF T
  <2>2. n - m <= n - y
    BY <1>2, <1>3, <2>1
  <2>3. QED
    BY <2>2
<1>5. QED
  BY <1>4 DEF Max

\* A batch is a nonempty prefix of the queue.
LEMMA BatchIsPrefix ==
  ASSUME NEW queue \in Seq(Entries), queue # << >>, NEW limit
  PROVE  BatchLen(queue, limit) \in 1 .. Len(queue)
<1> DEFINE S == {1} \cup {n \in 1 .. Len(queue) : Total(queue, n) <= limit}
<1>1. Len(queue) \in Nat /\ Len(queue) # 0
  OBVIOUS
<1>2. S \in SUBSET (1 .. Len(queue)) /\ S # {}
  BY <1>1
<1>3. BatchLen(queue, limit) = Max(S)
  BY DEF BatchLen
<1> HIDE DEF S
<1>4. Max(S) \in S
  BY <1>1, <1>2, LargestExists
<1>5. QED
  BY <1>2, <1>3, <1>4

\* One call of the executor: what it captures is pooled under the keys of the
\* programs it ran, which are on disk as they were when they were queued; what
\* it deletes is of the batch, and no other queued program is of that name.
LEMMA RunBatchKeeps ==
  ASSUME NEW r, RunnerOk(r), NEW q, NEW done, QueueOk(r, q, done),
         NEW n \in 1 .. Len(q), NEW e, e = RunBatch(r, SubSeq(q, 1, n))
  PROVE  /\ RunnerOk(e) /\ QueueOk(e, SubSeq(q, n + 1, Len(q)), done)
         /\ ToSet(PathsOf(SubSeq(q, 1, n))) \subseteq DOMAIN r.files
         /\ Prepared(r, PathsOf(SubSeq(q, 1, n)))
<1> DEFINE batch == SubSeq(q, 1, n)
           rest == SubSeq(q, n + 1, Len(q))
           ran == Execute(r, PathsOf(batch))
           pooled == PooledBatch(r, batch)
           gone == r.prunable \cap ToSet(PathsOf(batch))
<1>1. q \in Seq(Entries) /\ Len(q) \in Nat /\ DOMAIN q = 1 .. Len(q)
  BY DEF QueueOk
<1>2. /\ DOMAIN batch = 1 .. n /\ \A i \in 1 .. n : batch[i] = q[i] /\ i \in DOMAIN q
      /\ rest \in Seq(Entries) /\ DOMAIN rest = 1 .. Len(q) - n
      /\ \A i \in 1 .. Len(q) - n : rest[i] = q[i + n] /\ i + n \in DOMAIN q
  BY <1>1
<1>3. e = Reclaim([ran EXCEPT !.pool = Under(ran.pool, pooled)], gone)
  BY DEF RunBatch
<1>4. DOMAIN PathsOf(batch) = 1 .. n /\ \A i \in 1 .. n : PathsOf(batch)[i] = q[i].path
  BY <1>2 DEF PathsOf
<1>5. ToSet(PathsOf(batch)) = {q[i].path : i \in 1 .. n}
  BY <1>4 DEF ToSet
<1>6. \A i \in 1 .. n : Fresh(r, q[i])
  BY <1>2 DEF QueueOk
<1>7. ToSet(PathsOf(batch)) \subseteq DOMAIN r.files /\ Prepared(r, PathsOf(batch))
  BY <1>5, <1>6 DEF Fresh, Prepared
<1>8. \A k \in DOMAIN pooled : pooled[k] = k[2].operand
  <2>1. SUFFICES ASSUME NEW k \in {batch[i].key : i \in DOMAIN batch}
                 PROVE  pooled[k] = k[2].operand
    BY DEF PooledBatch
  <2> DEFINE o == CHOOSE i \in DOMAIN batch : batch[i].key = k
  <2>2. o \in DOMAIN batch /\ batch[o].key = k
    BY <2>1
  <2>3. pooled[k] = r.files[batch[o].path].operand
    BY <2>1 DEF PooledBatch, Captured
  <2> HIDE DEF o
  <2>4. k = <<q[o].path, r.files[q[o].path]>> /\ batch[o] = q[o]
    BY <1>2, <1>6, <2>2 DEF Fresh
  <2>5. QED
    BY <2>3, <2>4
<1> HIDE DEF ran, pooled, gone, batch
<1>9. /\ RunnerOk(ran) /\ ran.files = r.files /\ ran.prepared = r.prepared /\ ran.pool = r.pool
      /\ ran.memo = r.memo
  BY ExecuteKeeps DEF ran
<1> DEFINE pool == Under(ran.pool, pooled)
           files == [p \in DOMAIN ran.files \ gone |-> ran.files[p]]
<1>10. \A k \in DOMAIN pool : pool[k] = k[2].operand
  BY <1>8, <1>9 DEF RunnerOk, PoolTrue, Under
<1>11. \A p \in DOMAIN files : p \in DOMAIN r.files \ gone /\ files[p] = r.files[p]
  BY <1>9
<1>12. \A p \in DOMAIN r.files : p \notin gone => p \in DOMAIN files
  BY <1>9
<1> DEFINE m == [ran EXCEPT !.pool = pool]
<1>13. m.files = ran.files
  BY <1>9 DEF RunnerOk, IsRunner
<1>14. e = [m EXCEPT !.files = files, !.prunable = m.prunable \ gone]
  BY <1>3, <1>13 DEF Reclaim
<1> HIDE DEF pool, files
<1>15. /\ IsRunner(m) /\ m.pool = pool /\ m.prepared = ran.prepared /\ m.memo = ran.memo
  BY <1>9 DEF RunnerOk, IsRunner
<1> HIDE DEF m
<1>16. /\ IsRunner(e) /\ e.files = files /\ e.prepared = r.prepared /\ e.pool = pool
       /\ e.memo = r.memo
  BY <1>9, <1>14, <1>15 DEF IsRunner
<1>17. RunnerOk(e)
  BY <1>10, <1>11, <1>16 DEF RunnerOk, FilesTyped, PoolTrue, MemoTrue
<1>18. \A i \in DOMAIN rest : Fresh(e, rest[i]) /\ rest[i].path[1] \in done
  <2>1. SUFFICES ASSUME NEW i \in 1 .. Len(q) - n
                 PROVE  Fresh(e, rest[i]) /\ rest[i].path[1] \in done
    BY <1>2
  <2>2. rest[i] = q[i + n] /\ i + n \in DOMAIN q /\ i + n \notin 1 .. n
    BY <1>2, <2>1
  <2>3. rest[i].path \notin gone
    <3>1. \A j \in 1 .. n : q[j].path # q[i + n].path
      BY <1>2, <2>2 DEF QueueOk
    <3>2. QED
      BY <1>5, <2>2, <3>1 DEF gone
  <2>4. Fresh(r, rest[i]) /\ rest[i].path[1] \in done
    BY <2>2 DEF QueueOk
  <2>5. QED
    BY <1>11, <1>12, <1>16, <2>3, <2>4 DEF Fresh
<1>19. \A i, j \in DOMAIN rest : rest[i].path = rest[j].path => i = j
  <2>1. SUFFICES ASSUME NEW i \in 1 .. Len(q) - n, NEW j \in 1 .. Len(q) - n,
                        rest[i].path = rest[j].path
                 PROVE  i = j
    BY <1>2
  <2>2. i + n = j + n
    BY <1>2, <2>1 DEF QueueOk
  <2>3. QED
    BY <2>2
<1>20. QueueOk(e, rest, done)
  BY <1>2, <1>18, <1>19 DEF QueueOk
<1>21. QED
  BY <1>7, <1>17, <1>20 DEF batch

-----------------------------------------------------------------------------
\* The end of a pass that queued something.
LEMMA BeginFlushKeeps ==
  ASSUME IInv, BeginFlush
  PROVE  IInv'
<1>1. /\ pc = "op" /\ pc' = "flush" /\ todo' = runner.pending
      /\ env' = env /\ runner' = runner /\ arm' = arm /\ at' = at /\ val' = val /\ recs' = recs
      /\ verdict' = verdict
  BY DEF BeginFlush, EndOfPass
<1>2. Done' = Done
  BY <1>1 DEF Done
<1>3. Shape' /\ RunnerOk(runner') /\ RecsInv' /\ WrongInv' /\ PassInv'
  BY <1>1, <1>2 DEF IInv, Shape, RecsInv, WrongInv, PassInv
<1>4. QueueInv'
  BY <1>1, <1>2 DEF IInv, QueueInv
<1>5. VerdictInv'
  BY <1>1 DEF IInv, VerdictInv, VerdictEarned, Solves, TriedOf, Offered
<1>6. QED
  BY <1>1, <1>3, <1>4, <1>5 DEF IInv

\* One batch of the flush, and the replay after the last.
LEMMA FlushKeeps ==
  ASSUME IInv, Flush
  PROVE  IInv'
<1> DEFINE n == BatchLen(todo, env.limit)
           batch == SubSeq(todo, 1, n)
<1>1. /\ pc = "flush" /\ todo # << >>
      /\ IF ToSet(PathsOf(batch)) \subseteq DOMAIN runner.files /\ Prepared(runner, PathsOf(batch))
         THEN runner' = RunBatch(runner, batch) /\ pc' = "flush"
         ELSE pc' = "lost" /\ UNCHANGED runner
      /\ todo' = SubSeq(todo, n + 1, Len(todo))
      /\ env' = env /\ arm' = arm /\ at' = at /\ val' = val /\ recs' = recs /\ verdict' = verdict
  BY DEF Flush
<1>2. RunnerOk(runner) /\ QueueOk(runner, todo, Done)
  BY <1>1 DEF IInv, QueueInv
<1>3. n \in 1 .. Len(todo)
  BY <1>1, <1>2, BatchIsPrefix DEF QueueOk
<1> HIDE DEF n
<1> DEFINE r == RunBatch(runner, batch)
           rest == SubSeq(todo, n + 1, Len(todo))
<1>4. /\ RunnerOk(r) /\ QueueOk(r, rest, Done)
      /\ ToSet(PathsOf(batch)) \subseteq DOMAIN runner.files /\ Prepared(runner, PathsOf(batch))
  BY <1>2, <1>3, RunBatchKeeps
<1>5. runner' = r /\ pc' = "flush" /\ todo' = rest
  BY <1>1, <1>4
<1> HIDE DEF batch, r, rest
<1>6. Done' = Done
  BY <1>1 DEF Done
<1>7. Shape' /\ RunnerOk(runner') /\ RecsInv' /\ WrongInv' /\ PassInv'
  BY <1>1, <1>4, <1>5, <1>6 DEF IInv, Shape, RecsInv, WrongInv, PassInv
<1>8. QueueInv'
  BY <1>4, <1>5, <1>6 DEF QueueInv
<1>9. VerdictInv'
  BY <1>1, <1>5 DEF IInv, VerdictInv, VerdictEarned, Solves, TriedOf, Offered
<1>10. QED
  BY <1>7, <1>8, <1>9 DEF IInv

\* A call of the executor that fails ends the run.
LEMMA ExecutorFailsKeeps ==
  ASSUME IInv, ExecutorFails
  PROVE  IInv'
<1>1. /\ pc' = "failed" /\ runner' = runner /\ env' = env /\ arm' = arm /\ at' = at
      /\ val' = val /\ recs' = recs /\ verdict' = verdict
  BY DEF ExecutorFails
<1>2. Done' = Done
  BY <1>1 DEF Done
<1>3. Shape' /\ RunnerOk(runner') /\ RecsInv' /\ WrongInv' /\ PassInv' /\ QueueInv'
  BY <1>1, <1>2 DEF IInv, Shape, RecsInv, WrongInv, PassInv, QueueInv
<1>4. VerdictInv'
  BY <1>1 DEF IInv, VerdictInv, VerdictEarned, Solves, TriedOf, Offered
<1>5. QED
  BY <1>3, <1>4 DEF IInv

\* A pass, and a run, starts with no site computed.
LEMMA NothingDone ==
  /\ at' = 1 => Done' = {}
  /\ at = 1 => Done = {}
  /\ \A v : v = << >> => v = [s \in {} |-> v[s]]
<1>1. (at' = 1 => Done' = {}) /\ (at = 1 => Done = {})
  BY DEF Done
<1>2. \A v : v = << >> => v = [s \in {} |-> v[s]]
  OBVIOUS
<1>3. QED
  BY <1>1, <1>2

\* The start of a pass.
LEMMA PassBeginKeeps ==
  ASSUME IInv, PassBegin
  PROVE  IInv'
<1>1. /\ pc = "flush" /\ runner' = EndFlush(runner)
      /\ \/ pc' = "op" /\ at' = 1 /\ val' = << >> /\ recs' = {}
         \/ pc' = "refused" /\ at' = at /\ val' = val /\ recs' = recs
      /\ env' = env /\ arm' = arm /\ todo' = todo /\ verdict' = verdict
  BY DEF PassBegin
<1>2. /\ RunnerOk(runner') /\ runner'.pending = << >>
  <2> DEFINE r == EndFlush(runner)
  <2>1. RunnerOk(runner)
    BY DEF IInv
  <2>2. /\ IsRunner(r) /\ r.files = runner.files /\ r.prepared = runner.prepared
        /\ r.pool = runner.pool /\ r.memo = runner.memo /\ r.pending = << >>
    BY <2>1 DEF EndFlush, RunnerOk, IsRunner
  <2>3. RunnerOk(r)
    BY <2>1, <2>2 DEF RunnerOk, FilesTyped, PoolTrue, MemoTrue
  <2> HIDE DEF r
  <2>4. runner' = r
    BY <1>1 DEF r
  <2>5. QED
    BY <2>2, <2>3, <2>4
<1>3. VerdictInv'
  BY <1>1 DEF IInv, VerdictInv, VerdictEarned, Solves, TriedOf, Offered
<1>4. CASE pc' = "op" /\ at' = 1 /\ val' = << >> /\ recs' = {}
  <2>1. Done' = {}
    BY <1>4, NothingDone
  <2>2. Shape'
    BY <1>1, <1>4, <2>1, NothingDone DEF IInv, Shape
  <2>3. RecsInv' /\ WrongInv' /\ PassInv'
    BY <1>4, <2>1 DEF RecsInv, WrongInv, PassInv
  <2>4. QueueOk(runner', << >>, Done')
    BY DEF QueueOk
  <2>5. QueueInv'
    BY <1>2, <1>4, <2>4 DEF QueueInv
  <2>6. QED
    BY <1>2, <1>3, <2>2, <2>3, <2>5 DEF IInv
<1>5. CASE pc' = "refused" /\ at' = at /\ val' = val /\ recs' = recs
  <2>1. Done' = Done
    BY <1>5 DEF Done
  <2>2. Shape' /\ RecsInv' /\ WrongInv' /\ PassInv' /\ QueueInv'
    BY <1>1, <1>5, <2>1 DEF IInv, Shape, RecsInv, WrongInv, PassInv, QueueInv
  <2>3. QED
    BY <1>2, <1>3, <2>2 DEF IInv
<1>6. QED
  BY <1>1, <1>4, <1>5

\* A pass with no queue left: every site has its value.
LEMMA StableKeeps ==
  ASSUME IInv, Stable
  PROVE  IInv'
<1>1. /\ pc = "op" /\ at > Len(Sites) /\ runner.pending = << >>
      /\ \/ arm = "on" /\ pc' = "op" /\ arm' = "poison" /\ at' = 1 /\ val' = << >> /\ recs' = {}
         \/ pc' = "done" /\ arm' = arm /\ at' = at /\ val' = val /\ recs' = recs
      /\ env' = env /\ runner' = runner
  BY DEF Stable, EndOfPass, Start
<1>2. at = 14 /\ Done = SiteSet
  <2>1. at \in 1 .. 14 /\ Len(Sites) = 13
    BY SiteFacts DEF IInv, Shape
  <2>2. at = 14
    BY <1>1, <2>1
  <2>3. QED
    BY <2>2, SiteFacts DEF Done
<1>3. Solves(env, arm, val)
  <2>1. \A s \in SiteSet : val[s] = Value(env, arm, val, s, TriedOf(env))
    BY <1>1, <1>2 DEF IInv, PassInv
  <2>2. val = [s \in SiteSet |-> val[s]]
    BY <1>2 DEF IInv, Shape
  <2>3. QED
    BY <2>1, <2>2 DEF Solves
<1>4. /\ verdict' = [given |-> verdict'.given, pass |-> verdict'.pass, val |-> verdict'.val]
      /\ verdict'.given = TRUE /\ Solves(env, "on", verdict'.val) /\ VerdictEarned'
  <2>1. CASE arm = "on"
    <3>1. PICK identical : verdict' = [given |-> TRUE, pass |-> Pass(identical), val |-> val]
      BY <2>1 DEF Stable
    <3>2. Pass(identical) => recs # {} /\ \A r \in recs : r.equal
      BY DEF Pass
    <3> DEFINE p == Pass(identical)
    <3>3. verdict' = [given |-> TRUE, pass |-> p, val |-> val]
      BY <3>1
    <3>4. p => recs # {} /\ \A r \in recs : r.equal
      BY <3>2
    <3> HIDE DEF p
    <3>5. recs # {} => env.scope # {}
      BY DEF IInv, RecsInv
    <3>6. DOMAIN val = Done
      BY DEF IInv, Shape
    <3>7. (\A r \in recs : r.equal) => \A s \in Done : \A m \in val[s] : m[2] # "wrong"
      BY DEF IInv, WrongInv
    <3>8. VerdictEarned'
      BY <1>1, <3>3, <3>4, <3>5, <3>6, <3>7 DEF VerdictEarned
    <3>9. QED
      BY <1>3, <2>1, <3>3, <3>8
  <2>2. CASE arm # "on"
    <3>1. verdict' = verdict /\ arm = "poison"
      BY <2>2 DEF Stable, IInv, Shape
    <3>2. QED
      BY <1>1, <3>1 DEF IInv, VerdictInv, VerdictEarned, Shape
  <2>3. QED
    BY <2>1, <2>2
<1>5. RunnerOk(runner')
  BY <1>1 DEF IInv
<1>6. QueueOk(runner', << >>, {})
  BY DEF QueueOk
<1>7. Solves(env', "on", verdict'.val)
  BY <1>1, <1>4
<1>8. CASE pc' = "op" /\ arm' = "poison" /\ at' = 1 /\ val' = << >> /\ recs' = {}
  <2>1. Done' = {}
    BY <1>8, NothingDone
  <2>2. Shape'
    BY <1>4, <1>8, <2>1, NothingDone DEF Shape
  <2>3. RecsInv' /\ WrongInv' /\ PassInv'
    BY <1>8, <2>1 DEF RecsInv, WrongInv, PassInv
  <2>4. QueueInv'
    BY <1>1, <1>6, <1>8, <2>1 DEF QueueInv
  <2>5. VerdictInv'
    BY <1>4, <1>7, <1>8 DEF VerdictInv
  <2>6. QED
    BY <1>5, <2>2, <2>3, <2>4, <2>5 DEF IInv
<1>9. CASE pc' = "done" /\ arm' = arm /\ at' = at /\ val' = val /\ recs' = recs
  <2>1. Done' = Done
    BY <1>9 DEF Done
  <2>2. Shape'
    BY <1>4, <1>9, <2>1 DEF IInv, Shape
  <2>3. RecsInv' /\ WrongInv' /\ PassInv' /\ QueueInv'
    BY <1>1, <1>9, <2>1 DEF IInv, RecsInv, WrongInv, PassInv, QueueInv, Served, TriedOf, Offered
  <2>4. VerdictInv'
    BY <1>1, <1>2, <1>4, <1>7, <1>9 DEF VerdictInv
  <2>5. QED
    BY <1>5, <2>2, <2>3, <2>4 DEF IInv
<1>10. QED
  BY <1>1, <1>8, <1>9

\* Initially the invariant holds.
LEMMA InitInv == Init => IInv
<1> SUFFICES ASSUME Init PROVE IInv
  OBVIOUS
<1>1. /\ runner = EmptyRunner /\ pc = "op" /\ arm = "on" /\ at = 1 /\ val = << >> /\ recs = {}
      /\ verdict = NoVerdict
  BY DEF Init
<1>2. Done = {}
  BY <1>1, NothingDone
<1>3. RunnerOk(EmptyRunner) /\ EmptyRunner.pending = << >>
  BY DEF RunnerOk, IsRunner, FilesTyped, PoolTrue, MemoTrue, EmptyRunner
<1>4. Shape
  BY <1>1, <1>2, NothingDone DEF Shape, NoVerdict
<1>5. QueueOk(runner, << >>, Done)
  BY DEF QueueOk
<1>6. QueueInv /\ RecsInv /\ WrongInv /\ PassInv
  BY <1>1, <1>2, <1>3, <1>5 DEF QueueInv, RecsInv, WrongInv, PassInv
<1>7. VerdictInv
  BY <1>1 DEF VerdictInv, VerdictEarned, NoVerdict
<1>8. QED
  BY <1>1, <1>3, <1>4, <1>6, <1>7 DEF IInv

\* Every step preserves the invariant.
LEMMA NextInv == IInv /\ [Next]_vars => IInv'
<1> SUFFICES ASSUME IInv, [Next]_vars PROVE IInv'
  OBVIOUS
<1>1. CASE UNCHANGED vars
  <2>1. /\ env' = env /\ pc' = pc /\ arm' = arm /\ at' = at /\ val' = val
        /\ recs' = recs /\ runner' = runner /\ todo' = todo /\ verdict' = verdict
    BY <1>1 DEF vars
  <2>2. Done' = Done /\ Served' = Served
    BY <2>1 DEF Done, Served
  <2>3. Shape' /\ RunnerOk(runner)'
    BY <2>1, <2>2 DEF IInv, Shape
  <2>4. QueueInv'
    BY <2>1, <2>2 DEF IInv, QueueInv
  <2>5. RecsInv' /\ WrongInv'
    BY <2>1, <2>2 DEF IInv, RecsInv, WrongInv
  <2>6. PassInv'
    BY <2>1, <2>2 DEF IInv, PassInv
  <2>7. VerdictInv'
    BY <2>1 DEF IInv, VerdictInv, VerdictEarned
  <2>8. QED
    BY <2>3, <2>4, <2>5, <2>6, <2>7 DEF IInv
<1>2. CASE Ended
  BY <1>1, <1>2 DEF Ended
<1>3. CASE Operation \/ BeginFlush \/ Flush \/ ExecutorFails \/ PassBegin \/ Stable
  BY <1>3, OperationKeeps, BeginFlushKeeps, FlushKeeps, ExecutorFailsKeeps, PassBeginKeeps,
     StableKeeps
<1>4. QED
  BY <1>1, <1>2, <1>3 DEF Next
-----------------------------------------------------------------------------
\* The invariant of every reachable state of a replayed layer.
THEOREM Invariance == Spec => []IInv
  BY InitInv, NextInv, PTL DEF Spec

\* Two valuations of the sites that solve the same equations are equal: an
\* operand is always of an earlier site.
LEMMA SolutionUnique ==
  ASSUME NEW e, NEW a, NEW v, NEW w, Solves(e, a, v), Solves(e, a, w)
  PROVE  v = w
<1> DEFINE Agree(n) == \A i \in 1 .. n : v[Sites[i]] = w[Sites[i]]
<1>1. /\ DOMAIN v = SiteSet /\ DOMAIN w = SiteSet
      /\ \A s \in SiteSet : /\ v[s] = Value(e, a, v, s, TriedOf(e))
                            /\ w[s] = Value(e, a, w, s, TriedOf(e))
  BY DEF Solves
<1>2. SiteSet = {Sites[i] : i \in 1 .. 13}
  BY SiteFacts
<1>3. ASSUME NEW n \in 0 .. 12, Agree(n) PROVE Agree(n + 1)
  <2> DEFINE s == Sites[n + 1]
  <2>1. s \in SiteSet /\ \A d \in Operands(s) : v[d] = w[d]
    <3>1. \A d \in Operands(s) : \E j \in 1 .. n : Sites[j] = d
      BY OperandsEarlier
    <3>2. QED
      BY <1>2, <1>3, <3>1
  <2> HIDE DEF s
  <2>2. Value(e, a, v, s, TriedOf(e)) = Value(e, a, w, s, TriedOf(e))
    BY <2>1, ValueLocal
  <2>3. v[s] = w[s]
    BY <1>1, <2>1, <2>2
  <2>4. \A i \in 1 .. n + 1 : i \in 1 .. n \/ i = n + 1
    OBVIOUS
  <2>5. QED
    BY <1>3, <2>3, <2>4 DEF s
<1>4. Agree(0)
  OBVIOUS
<1> HIDE DEF Agree
<1>5. Agree(1) /\ Agree(2) /\ Agree(3) /\ Agree(4)
  BY <1>3, <1>4
<1>6. Agree(5) /\ Agree(6) /\ Agree(7) /\ Agree(8)
  BY <1>3, <1>5
<1>7. Agree(9) /\ Agree(10) /\ Agree(11) /\ Agree(12) /\ Agree(13)
  BY <1>3, <1>6
<1>8. \A s \in SiteSet : v[s] = w[s]
  BY <1>2, <1>7 DEF Agree
<1>9. v = [s \in SiteSet |-> v[s]] /\ w = [s \in SiteSet |-> w[s]]
  BY DEF Solves
<1>10. QED
  BY <1>8, <1>9

\* So a solution is what the transport without the collapse computes.
LEMMA SolutionIsDirect ==
  ASSUME NEW e, NEW a, NEW v, Solves(e, a, v)
  PROVE  v = Direct(e, a)
<1> DEFINE offered == {s \in ToSet(Sites) : Serving(e, s)}
           F(f) == [s \in ToSet(Sites) |->
                      IF Tried(e, s, offered) THEN TileValue(e, a, s, UNION {f[d] : d \in Operands(s)})
                      ELSE GoldenValue(s, UNION {f[d] : d \in Operands(s)})]
           value == CHOOSE f : f = F(f)
<1>1. Direct(e, a) = value
  BY DEF Direct
<1>2. ASSUME NEW f PROVE F(f) = [s \in SiteSet |-> Value(e, a, f, s, TriedOf(e))]
  <2>1. \A s \in SiteSet : s \in TriedOf(e) <=> Tried(e, s, offered)
    BY DEF TriedOf, Offered, SiteSet
  <2> HIDE DEF offered
  <2>2. QED
    BY <2>1 DEF Value, In, SiteSet
<1> HIDE DEF F
<1>3. v = F(v)
  BY <1>2 DEF Solves
<1>4. value = F(value)
  BY <1>3
<1>5. Solves(e, a, value)
  BY <1>2, <1>4 DEF Solves
<1>6. QED
  BY <1>1, <1>5, SolutionUnique

\* Replayed from the pool, a layer ends with the values it would have if every
\* program were run where it is needed.
THEOREM CollapseExactHolds == Spec => []CollapseExact
<1>1. IInv => CollapseExact
  <2> SUFFICES ASSUME IInv, pc = "done"
               PROVE  verdict.val = Direct(env, "on") /\ val = Direct(env, arm)
    BY DEF CollapseExact
  <2>1. Solves(env, "on", verdict.val) /\ at = 14 /\ runner.pending = << >>
    BY DEF IInv, VerdictInv
  <2>2. Done = SiteSet
    BY <2>1, SiteFacts DEF Done
  <2>3. \A s \in SiteSet : val[s] = Value(env, arm, val, s, TriedOf(env))
    BY <2>1, <2>2 DEF IInv, PassInv
  <2>4. val = [s \in SiteSet |-> val[s]]
    BY <2>2 DEF IInv, Shape
  <2>5. Solves(env, arm, val)
    BY <2>3, <2>4 DEF Solves
  <2>6. QED
    BY <2>1, <2>5, SolutionIsDirect
<1>2. QED
  BY <1>1, Invariance, PTL

\* What is pooled under the name and bytes of a program is what that program
\* captures.
THEOREM PoolIsTrueHolds == Spec => []PoolIsTrue
<1>1. IInv => PoolIsTrue
  BY DEF IInv, RunnerOk, PoolTrue, PoolIsTrue
<1>2. QED
  BY <1>1, Invariance, PTL

\* A queued program is on disk and prepared when its batch is run.
THEOREM NothingVanishesHolds == Spec => []NothingVanishes
<1>1. IInv => NothingVanishes
  BY DEF IInv, Shape, NothingVanishes
<1>2. QED
  BY <1>1, Invariance, PTL

\* A report that passes has served something, and no wrong value is in it.
THEOREM VerdictEarnedHolds == Spec => []VerdictEarned
<1>1. IInv => VerdictEarned
  BY DEF IInv, VerdictInv
<1>2. QED
  BY <1>1, Invariance, PTL
-----------------------------------------------------------------------------
(***************************************************************************)
(* The interactive session (PromptSession), for any prompts, whatever      *)
(* golden generates for them, any commands and any number of runs: the     *)
(* reference of a verdict is golden's own, and a PASS proves something.    *)
(***************************************************************************)
Running == {"on", "off", "bus", "verdict"}
BeforePrompts == {"image", "recipe", "verify", "exit"}

Words == Prompts \cup {"none"}
IdRecords == [prompt : Words, n : Nat, golden : BOOLEAN]

\* How many families a run may find captured.
CapCounts == {0} \cup {Cardinality(f) : f \in SUBSET Families}

ArgRecords ==
  [offload : {"attention", "layer"}, layer : Int, step : Int, tokens : Nat]

RunRecords ==
  [n : Nat, prompt : Words, limit : Nat, step : Int, offload : {"attention", "layer"},
   on : IdRecords, off : IdRecords, served : SUBSET Families, wrong : BOOLEAN,
   caps : CapCounts, result : {"none", "refused", "error", "pass", "fail"}]

Shapes ==
  /\ args \in ArgRecords
  /\ run \in RunRecords
  /\ stage \in Running => run.prompt \in Prompts

\* What was computed for a key is golden's answer to it.
CacheIsGolden == \A key \in DOMAIN cache : cache[key] = Golden(key[1], key[2])

\* Outside the offloaded decode, the layer function is golden's own.
Restored == stage # "on" => seam = "golden"

\* A run has no result before its verdict; what was offered to the tile is
\* what the mode claims.
RunInOrder ==
  /\ stage \in Running => run.result = "none"
  /\ stage \in {"bus", "verdict"} => run.off = Golden(run.prompt, run.limit)
  /\ stage \in {"off", "bus", "verdict"} /\ run.served # {} =>
       /\ run.offload = "attention" => run.served = {"attn"}
       /\ run.offload = "layer" => Reached(run.prompt, run.limit, run.step)

\* PASS carries its proof with it, and the exit status no prompt's failure away.
StatusTold ==
  /\ run.result = "pass" =>
       /\ run.served = IF run.offload = "layer" THEN Families ELSE {"attn"}
       /\ ~run.wrong
       /\ run.on.golden
       /\ run.offload = "layer" => Reached(run.prompt, run.limit, run.step)
  /\ worst = 0 => ~failed

ClockKept == mode = "hw" /\ stage \notin BeforePrompts => clock = "keyed"

SessionInv == Shapes /\ CacheIsGolden /\ Restored /\ RunInOrder /\ StatusTold /\ ClockKept
-----------------------------------------------------------------------------
\* Initially no prompt was run.
LEMMA InitSession == SessionInit => SessionInv
<1> SUFFICES ASSUME SessionInit PROVE SessionInv
  OBVIOUS
<1>1. Shapes
  BY DEF SessionInit, Shapes, Running, ArgRecords, RunRecords, IdRecords, Words, CapCounts, NoRun, NoIds, LastStep
<1>2. CacheIsGolden /\ Restored /\ ClockKept
  BY DEF SessionInit, CacheIsGolden, Restored, ClockKept, BeforePrompts
<1>3. RunInOrder /\ StatusTold
  BY DEF SessionInit, RunInOrder, StatusTold, Running, NoRun
<1> QED
  BY <1>1, <1>2, <1>3 DEF SessionInv

\* What neither runs a prompt nor ends one leaves the run as it is.
LEMMA IdleStep ==
  ASSUME SessionInv, UNCHANGED <<cache, run, failed>>, args' \in ArgRecords,
         worst' = worst \/ worst' \in {1, 130},
         stage' \notin Running, seam' = "golden",
         mode' = mode, mode = "hw" /\ stage' \notin BeforePrompts => clock' = "keyed"
  PROVE  SessionInv'
<1>1. Shapes' /\ CacheIsGolden' /\ Restored' /\ ClockKept'
  BY DEF SessionInv, Shapes, CacheIsGolden, Restored, ClockKept
<1>2. RunInOrder' /\ StatusTold'
  BY DEF SessionInv, RunInOrder, StatusTold, Running
<1> QED
  BY <1>1, <1>2 DEF SessionInv

\* The card is brought up, step by step.
LEMMA BringUpStep ==
  ASSUME SessionInv, LoadImage \/ Recipe \/ RecipeNoEffect \/ Verify
  PROVE  SessionInv'
<1>1. /\ UNCHANGED <<cache, run, failed, args, mode, seam>>
      /\ worst' = worst \/ worst' = 1
      /\ stage \in {"image", "recipe", "verify"}
      /\ stage' \in {"recipe", "verify", "exit"} \/ (stage' = "prompt" /\ clock' = "keyed")
  BY DEF LoadImage, Recipe, RecipeNoEffect, Verify, BringUp, Leave
<1>2. seam' = "golden" /\ args' \in ArgRecords
  BY <1>1 DEF SessionInv, Shapes, Restored
<1> QED
  BY <1>1, <1>2, IdleStep DEF Running, BeforePrompts

\* A command changes what the next prompt asks for.
LEMMA CommandStep ==
  ASSUME SessionInv, Command
  PROVE  SessionInv'
<1>1. stage = "prompt" /\ seam = "golden" /\ args \in ArgRecords
  BY DEF Command, Mode, Step, Target, Tokens, Set, Quit, SessionInv, Restored, Shapes
<1>2. args' \in ArgRecords
  <2>1. CASE Mode
    BY <1>1, <2>1 DEF Mode, Set, ArgRecords
  <2>2. CASE Step
    BY <1>1, <2>2, ChoicesAssumption DEF Step, Set, ArgRecords
  <2>3. CASE Target
    BY <1>1, <2>3, LayersAssumption DEF Target, Set, ArgRecords
  <2>4. CASE Tokens
    BY <1>1, <2>4, ChoicesAssumption DEF Tokens, Set, ArgRecords
  <2>5. CASE Quit
    BY <1>1, <2>5 DEF Quit, Leave
  <2> QED
    BY <2>1, <2>2, <2>3, <2>4, <2>5 DEF Command
<1>3. /\ UNCHANGED <<cache, run, failed, mode, seam, clock, worst>>
      /\ stage' \in {"prompt", "exit"}
  BY <1>1 DEF Command, Mode, Step, Target, Tokens, Set, Quit, Leave
<1> QED
  BY <1>1, <1>2, <1>3, IdleStep DEF Running, BeforePrompts, SessionInv, ClockKept

\* The run a prompt starts, field by field.
LEMMA EnterRun ==
  ASSUME SessionInv, NEW p \in Prompts, Enter(p)
  PROVE  /\ run' \in RunRecords
         /\ run'.prompt = p
         /\ run'.result = IF Refused(p) THEN "refused" ELSE "none"
<1> DEFINE result == IF Refused(p) THEN "refused" ELSE "none"
           step == TargetStep(p)
<1>1. args \in ArgRecords /\ run \in RunRecords
  BY DEF SessionInv, Shapes
<1>2. step \in Int
  BY <1>1, PromptsAssumption DEF TargetStep, Steps, ArgRecords
<1>3. run' = [NoRun EXCEPT !.n = run.n + 1, !.prompt = p, !.limit = args.tokens,
                           !.offload = args.offload, !.step = step, !.result = result]
  BY DEF Enter
<1>4. run' = [n |-> run.n + 1, prompt |-> p, limit |-> args.tokens, step |-> step,
              offload |-> args.offload, on |-> NoIds, off |-> NoIds, served |-> {},
              wrong |-> FALSE, caps |-> 0, result |-> result]
  <2> HIDE DEF step, result
  <2> QED
    BY <1>3 DEF NoRun
<1>5. result \in {"none", "refused"}
  OBVIOUS
<1>6. NoIds \in IdRecords /\ 0 \in CapCounts /\ p \in Words /\ {} \in SUBSET Families
  BY DEF NoIds, IdRecords, Words, CapCounts
<1>7. run.n + 1 \in Nat /\ args.tokens \in Nat /\ args.offload \in {"attention", "layer"}
  BY <1>1 DEF ArgRecords, RunRecords
<1> HIDE DEF step, result
<1>8. run' \in RunRecords
  BY <1>2, <1>4, <1>5, <1>6, <1>7 DEF RunRecords
<1>9. run'.prompt = p /\ run'.result = result
  BY <1>4
<1> QED
  BY <1>8, <1>9 DEF result

\* A prompt is entered, or refused.
LEMMA EnterStep ==
  ASSUME SessionInv, NEW p \in Prompts, Enter(p)
  PROVE  SessionInv'
<1>1. /\ stage = "prompt" /\ seam = "golden"
      /\ stage' = IF Refused(p) THEN stage ELSE "on"
      /\ Refused(p) => seam' = seam
      /\ UNCHANGED <<mode, clock, args, cache, worst, failed>>
  BY DEF Enter, SessionInv, Restored
<1>2. /\ run' \in RunRecords /\ run'.prompt = p
      /\ run'.result = IF Refused(p) THEN "refused" ELSE "none"
  BY EnterRun
<1> HIDE DEF Refused
<1>3. Shapes' /\ CacheIsGolden' /\ Restored' /\ ClockKept'
  BY <1>1, <1>2 DEF SessionInv, Shapes, CacheIsGolden, Restored, ClockKept, BeforePrompts, Running
<1>4. RunInOrder' /\ StatusTold'
  BY <1>1, <1>2 DEF SessionInv, RunInOrder, StatusTold, Running
<1> QED
  BY <1>3, <1>4 DEF SessionInv

\* Golden's answer, and one a tile or the bus moved.
LEMMA IdsShape ==
  ASSUME NEW p \in Prompts, NEW limit \in Nat
  PROVE  Golden(p, limit) \in IdRecords /\ Moved(p, limit) \in IdRecords
<1>1. Generated(p, limit) \in Nat
  BY PromptsAssumption DEF Generated, Min2
<1>2. Golden(p, limit) \in IdRecords
  BY <1>1 DEF Golden, IdRecords, Words
<1> QED
  BY <1>2 DEF Moved, IdRecords

\* The decode with the offloader armed; the layer function is put back.
LEMMA OffloadStep ==
  ASSUME SessionInv, OffloadOn
  PROVE  SessionInv'
<1>1. /\ stage = "on" /\ stage' = "off" /\ seam' = "golden"
      /\ UNCHANGED <<mode, clock, args, cache, worst, failed>>
  BY DEF OffloadOn, Restore
<1>2. run \in RunRecords /\ run.prompt \in Prompts
  BY <1>1 DEF SessionInv, Shapes, Running
<1>3. PICK served \in Offers, wrong \in BOOLEAN : \E ids \in OnIds(served, wrong) :
        run' = [run EXCEPT !.on = ids, !.served = served, !.wrong = wrong,
                           !.caps = IF mode = "golden" THEN 0 ELSE Cardinality(served)]
  BY DEF OffloadOn
<1>4. served \subseteq Families
  BY DEF Offers, Families
<1>5. OnIds(served, wrong) \subseteq IdRecords
  <2>1. run.limit \in Nat
    BY <1>2 DEF RunRecords
  <2> QED
    BY <1>2, <2>1, IdsShape DEF OnIds
<1>6. PICK ids \in IdRecords, caps \in CapCounts :
        run' = [run EXCEPT !.on = ids, !.served = served, !.wrong = wrong, !.caps = caps]
  <2>1. (IF mode = "golden" THEN 0 ELSE Cardinality(served)) \in CapCounts
    BY <1>4 DEF CapCounts
  <2> QED
    BY <1>3, <1>5, <2>1
<1>7. /\ run' \in RunRecords /\ run'.offload = run.offload /\ run'.prompt = run.prompt
      /\ run'.limit = run.limit /\ run'.step = run.step
      /\ run'.result = run.result /\ run'.served = served
  BY <1>2, <1>4, <1>5, <1>6 DEF RunRecords
<1>8. served # {} => /\ run.offload = "attention" => served = {"attn"}
                     /\ run.offload = "layer" => Reached(run.prompt, run.limit, run.step)
  BY DEF Offers
<1>9. Shapes' /\ CacheIsGolden' /\ Restored' /\ ClockKept'
  BY <1>1, <1>2, <1>7 DEF SessionInv, Shapes, CacheIsGolden, Restored, ClockKept, BeforePrompts
<1>10. RunInOrder' /\ StatusTold'
  BY <1>1, <1>7, <1>8 DEF SessionInv, RunInOrder, StatusTold, Running
<1> QED
  BY <1>9, <1>10 DEF SessionInv

\* The reference decode, or its answer looked up.
LEMMA ReferenceStep ==
  ASSUME SessionInv, Reference
  PROVE  SessionInv'
<1> DEFINE key == Key(run.prompt, run.limit)
           ids == Golden(run.prompt, run.limit)
<1>1. /\ stage = "off" /\ seam = "golden" /\ stage' \in {"bus", "verdict"}
      /\ UNCHANGED <<mode, clock, args, seam, worst, failed>>
      /\ run' = [run EXCEPT !.off = IF key \in DOMAIN cache THEN cache[key] ELSE ids]
      /\ cache' = [k \in DOMAIN cache \cup {key} |-> IF k \in DOMAIN cache THEN cache[k] ELSE ids]
  BY DEF Reference, SessionInv, Restored
<1>2. key[1] = run.prompt /\ key[2] = run.limit
  BY DEF Key
<1>3. key \in DOMAIN cache => cache[key] = ids
  BY <1>2 DEF SessionInv, CacheIsGolden
<1>4. run \in RunRecords /\ run.prompt \in Prompts
  BY <1>1 DEF SessionInv, Shapes, Running
<1>5. ids \in IdRecords
  <2>1. run.limit \in Nat
    BY <1>4 DEF RunRecords
  <2> QED
    BY <1>4, <2>1, IdsShape
<1> HIDE DEF key, ids
<1>6. run' = [run EXCEPT !.off = ids]
  BY <1>1, <1>3
<1>7. /\ run' \in RunRecords /\ run'.offload = run.offload /\ run'.prompt = run.prompt
      /\ run'.limit = run.limit /\ run'.step = run.step
      /\ run'.result = run.result /\ run'.served = run.served /\ run'.off = ids
  BY <1>4, <1>5, <1>6 DEF RunRecords
<1>8. CacheIsGolden'
  <2>1. ids = Golden(key[1], key[2])
    BY <1>2 DEF ids
  <2>2. \A k \in DOMAIN cache : cache[k] = Golden(k[1], k[2])
    BY DEF SessionInv, CacheIsGolden
  <2> QED
    BY <1>1, <2>1, <2>2 DEF CacheIsGolden
<1>9. Shapes' /\ Restored' /\ ClockKept'
  BY <1>1, <1>4, <1>7 DEF SessionInv, Shapes, Restored, ClockKept, BeforePrompts
<1>10. RunInOrder' /\ StatusTold'
  BY <1>1, <1>7 DEF SessionInv, RunInOrder, StatusTold, Running, ids
<1> QED
  BY <1>8, <1>9, <1>10 DEF SessionInv

\* The bus-composed decode changes nothing that is kept.
LEMMA BusStep ==
  ASSUME SessionInv, BusRun
  PROVE  SessionInv'
<1>1. Shapes' /\ CacheIsGolden' /\ Restored' /\ ClockKept'
  BY DEF BusRun, SessionInv, Shapes, CacheIsGolden, Restored, ClockKept, BeforePrompts, Running
<1>2. RunInOrder' /\ StatusTold'
  BY DEF BusRun, SessionInv, RunInOrder, StatusTold, Running
<1> QED
  BY <1>1, <1>2 DEF SessionInv

\* The verdict on a prompt.
LEMMA VerdictStep ==
  ASSUME SessionInv, Verdict
  PROVE  SessionInv'
<1>1. /\ stage = "verdict" /\ stage' = "prompt" /\ seam = "golden"
      /\ run' = [run EXCEPT !.result = IF Earned THEN "pass" ELSE "fail"]
      /\ worst' = (IF Earned THEN worst ELSE 1)
      /\ failed' = (failed \/ ~Earned)
      /\ UNCHANGED <<mode, clock, args, cache, seam>>
  BY DEF Verdict, SessionInv, Restored
<1>2. /\ run' \in RunRecords /\ run'.offload = run.offload /\ run'.prompt = run.prompt
      /\ run'.limit = run.limit /\ run'.step = run.step /\ run'.served = run.served
      /\ run'.wrong = run.wrong /\ run'.on = run.on
      /\ run'.result = IF Earned THEN "pass" ELSE "fail"
  <2> HIDE DEF Earned
  <2> QED
    BY <1>1 DEF SessionInv, Shapes, RunRecords
<1>3. Shapes' /\ CacheIsGolden' /\ Restored' /\ ClockKept'
  BY <1>1, <1>2 DEF SessionInv, Shapes, CacheIsGolden, Restored, ClockKept, BeforePrompts, Running
<1>4. ASSUME Earned
      PROVE  /\ run.served = IF run.offload = "layer" THEN Families ELSE {"attn"}
             /\ ~run.wrong /\ run.on.golden
             /\ run.offload = "layer" => Reached(run.prompt, run.limit, run.step)
  <2>1. run.offload \in {"attention", "layer"}
    BY DEF SessionInv, Shapes, RunRecords
  <2>2. run.on = Golden(run.prompt, run.limit)
    BY <1>1, <1>4 DEF SessionInv, RunInOrder, Earned
  <2>3. run.on.golden
    BY <2>2 DEF Golden
  <2> QED
    BY <1>1, <1>4, <2>1, <2>3 DEF SessionInv, RunInOrder, Earned
<1>5. RunInOrder'
  BY <1>1, <1>2 DEF RunInOrder, Running
<1>6. StatusTold'
  <2> HIDE DEF Earned
  <2>1. worst' = 0 => ~failed'
    <3>1. CASE Earned
      BY <1>1, <3>1 DEF SessionInv, StatusTold
    <3>2. CASE ~Earned
      BY <1>1, <3>2
    <3> QED
      BY <3>1, <3>2
  <2>2. run'.result = "pass" => Earned
    BY <1>2
  <2> QED
    BY <1>2, <1>4, <2>1, <2>2 DEF StatusTold
<1> QED
  BY <1>3, <1>5, <1>6 DEF SessionInv

\* An executor that dies, and an interrupt.
LEMMA EndStep ==
  ASSUME SessionInv, DecodeFails \/ Interrupt
  PROVE  SessionInv'
<1>1. CASE DecodeFails
  <2>1. /\ stage = "on" /\ stage' = "prompt" /\ seam' = "golden" /\ worst' = 1
        /\ run' = [run EXCEPT !.result = "error"]
        /\ UNCHANGED <<mode, clock, args, cache>>
    BY <1>1 DEF DecodeFails, Fail, Restore
  <2>2. run' \in RunRecords /\ run'.offload = run.offload /\ run'.result = "error"
    BY <2>1 DEF SessionInv, Shapes, RunRecords
  <2>3. Shapes' /\ CacheIsGolden' /\ Restored' /\ ClockKept'
    BY <2>1, <2>2 DEF SessionInv, Shapes, CacheIsGolden, Restored, ClockKept, BeforePrompts, Running
  <2>4. RunInOrder' /\ StatusTold'
    BY <2>1, <2>2 DEF SessionInv, RunInOrder, StatusTold, Running
  <2> QED
    BY <2>3, <2>4 DEF SessionInv
<1>2. CASE Interrupt
  <2>1. /\ stage' = "exit" /\ seam' = "golden" /\ worst' = 130
        /\ UNCHANGED <<mode, args, cache, run, failed>>
    BY <1>2 DEF Interrupt, Leave, Restore
  <2>2. args' \in ArgRecords
    BY <2>1 DEF SessionInv, Shapes
  <2> QED
    BY <2>1, <2>2, IdleStep DEF Running, BeforePrompts
<1> QED
  BY <1>1, <1>2

\* Every step of the session keeps the invariant.
LEMMA SessionStep == SessionInv /\ [SessionNext]_session => SessionInv'
<1> SUFFICES ASSUME SessionInv, [SessionNext]_session PROVE SessionInv'
  OBVIOUS
<1>1. CASE UNCHANGED session
  <2>1. Shapes' /\ CacheIsGolden' /\ Restored' /\ ClockKept'
    BY <1>1 DEF session, SessionInv, Shapes, CacheIsGolden, Restored, ClockKept
  <2>2. RunInOrder' /\ StatusTold'
    BY <1>1 DEF session, SessionInv, RunInOrder, StatusTold
  <2> QED
    BY <2>1, <2>2 DEF SessionInv
<1>2. CASE SessionNext
  BY <1>2, BringUpStep, CommandStep, EnterStep, OffloadStep, ReferenceStep, BusStep, VerdictStep,
     EndStep DEF SessionNext, Work
<1> QED
  BY <1>1, <1>2

\* The reference a verdict compares with is golden's own answer for this
\* prompt under this token limit (apex_repl.py: off_cache, the rebinds).
THEOREM ReferenceHolds == SessionSpec => []ReferenceIsGolden
<1>1. SessionInv => ReferenceIsGolden
  BY DEF SessionInv, RunInOrder, ReferenceIsGolden
<1> QED
  BY <1>1, InitSession, SessionStep, PTL DEF SessionSpec

\* PASS and exit status 0 are earned: every family claimed was served and
\* right, the tokens are golden's, the clock was the image's own, and no
\* prompt's failure is lost (build_verdict, bringup_hw, main).
THEOREM PassHolds == SessionSpec => []PassIsProof
<1>1. SessionInv => PassIsProof
  BY DEF SessionInv, StatusTold, ClockKept, BeforePrompts, PassIsProof
<1> QED
  BY <1>1, InitSession, SessionStep, PTL DEF SessionSpec
=============================================================================
