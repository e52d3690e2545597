----------------------------- MODULE TokenProofs -----------------------------
(***************************************************************************)
(* Proofs about TokenLoop, for any runs, any number of layers and any pool *)
(* of processes: a patched program is the one a full build would be; PASS  *)
(* and every engine counter are backed by what the tile has flown; and no  *)
(* token is sampled over a window that was walked wrongly.                 *)
(***************************************************************************)
EXTENDS TokenLoop, FiniteSetTheorems, SequenceTheorems, WellFoundedInduction, TLAPS

\* A process's copies, and the files, are templates.
IsEntry(e) == e = [run |-> e.run, made |-> e.made, ops |-> e.ops]
Templates(f) == \A l \in DOMAIN f : IsEntry(f[l])

\* What was emitted in this step is this step's.
FreshPrograms == \A l \in DOMAIN programs : programs[l] = FullProgram(l, Tag)

\* A layer that was built is on disk, and was built once.
BuiltOnce ==
  CacheMode # "off" =>
    /\ \A e \in emitted : e.mode # "patched" => e.layer \in DOMAIN disk
    /\ \A e, f \in emitted : e.mode # "patched" /\ f.mode # "patched" /\ e.layer = f.layer => e = f

EmitInv ==
  /\ memory = [w \in Workers \cup {Main} |-> memory[w]]
  /\ Templates(disk) /\ \A w \in Workers \cup {Main} : Templates(memory[w])
  /\ FreshPrograms /\ BuiltOnce

-----------------------------------------------------------------------------
\* Initially nothing was emitted.
LEMMA InitInv == Init => EmitInv
<1> SUFFICES ASSUME Init PROVE EmitInv
  OBVIOUS
<1>1. /\ disk = << >> /\ memory = [w \in Workers \cup {Main} |-> << >>]
      /\ programs = << >> /\ emitted = {}
  BY DEF Init
<1>2. DOMAIN << >> = {}
  OBVIOUS
<1>3. Templates(disk) /\ \A w \in Workers \cup {Main} : Templates(memory[w])
  BY <1>1, <1>2 DEF Templates
<1>4. FreshPrograms /\ BuiltOnce
  BY <1>1, <1>2 DEF FreshPrograms, BuiltOnce
<1>5. QED
  BY <1>1, <1>3, <1>4 DEF EmitInv

\* What an emission that is not refused makes and leaves behind.
LEMMA EmissionFacts ==
  ASSUME NEW cache, NEW disk0, NEW mem, NEW l, NEW t, Templates(disk0), Templates(mem),
         NEW em, em = Emission(cache, disk0, mem, l, t)
  PROVE  /\ em.program = FullProgram(l, t)
         /\ Templates(em.disk) /\ Templates(em.memory)
         /\ DOMAIN disk0 \subseteq DOMAIN em.disk
         /\ cache.mode # "off" /\ em.mode # "patched" => l \notin DOMAIN disk0 /\ l \in DOMAIN em.disk
<1>1. CASE cache.mode = "off"
  <2>1. em = [program |-> FullProgram(l, t), disk |-> disk0, memory |-> mem,
              mode |-> "full", refused |-> FALSE]
    BY <1>1 DEF Emission
  <2>2. QED
    BY <1>1, <2>1
<1>2. CASE cache.mode # "off" /\ Loaded(disk0, mem, l) = {}
  <2> DEFINE new == Template(cache.run, l, t)
  <2>1. /\ em.program = FullProgram(l, t) /\ em.disk = Put(disk0, l, new)
        /\ em.memory = Put(mem, l, new) /\ em.mode = "template"
    BY <1>2 DEF Emission
  <2>2. IsEntry(new)
    BY DEF IsEntry, Template
  <2>3. l \notin DOMAIN disk0
    BY <1>2 DEF Loaded
  <2> HIDE DEF new
  <2>4. QED
    BY <2>1, <2>2, <2>3 DEF Templates, Put
<1>3. CASE cache.mode # "off" /\ Loaded(disk0, mem, l) # {}
  <2> DEFINE entry == CHOOSE e \in Loaded(disk0, mem, l) : TRUE
             done == PatchProgram(entry, l, t)
  <2>1. /\ em.program = done.ops /\ em.disk = disk0
        /\ em.memory = Put(mem, l, done) /\ em.mode = "patched"
    BY <1>3 DEF Emission
  <2>2. entry \in Loaded(disk0, mem, l)
    BY <1>3
  <2>3. IsEntry(entry)
    BY <2>2 DEF Loaded, Templates
  <2> HIDE DEF entry
  <2>4. IsEntry(done) /\ done.ops = FullProgram(l, t)
    BY <2>3 DEF PatchProgram, IsEntry
  <2> HIDE DEF done
  <2>5. QED
    BY <2>1, <2>4 DEF Templates, Put
<1>4. QED
  BY <1>1, <1>2, <1>3

\* One emission, in any process, at any layer.
LEMMA EmitKeeps ==
  ASSUME EmitInv, NEW w \in Workers \cup {Main}, NEW l,
         NEW em, em = Emission(Cache, disk, memory[w], l, Tag),
         programs' = Put(programs, l, em.program), disk' = em.disk,
         memory' = [memory EXCEPT ![w] = em.memory],
         Tally(l, em.mode), args' = args, tokens' = tokens
  PROVE  EmitInv'
<1>1. Templates(disk) /\ Templates(memory[w])
  BY DEF EmitInv
<1>2. /\ em.program = FullProgram(l, Tag)
      /\ Templates(em.disk) /\ Templates(em.memory)
      /\ DOMAIN disk \subseteq DOMAIN em.disk
      /\ Cache.mode # "off" /\ em.mode # "patched" => l \notin DOMAIN disk /\ l \in DOMAIN em.disk
  BY <1>1, EmissionFacts
<1>3. Cache.mode = CacheMode
  BY DEF Cache
<1>4. Tag' = Tag /\ CacheMode' = CacheMode
  BY DEF Tag, Step, StepOf, Index, CacheMode
<1>5. FreshPrograms'
  BY <1>2, <1>4 DEF EmitInv, FreshPrograms, Put
<1>6. PICK new : new.layer = l /\ new.mode = em.mode /\ emitted' = emitted \cup {new}
  BY DEF Tally
<1>7. BuiltOnce'
  BY <1>2, <1>3, <1>4, <1>6 DEF EmitInv, BuiltOnce
<1>8. memory' = [v \in Workers \cup {Main} |-> memory'[v]]
      /\ \A v \in Workers \cup {Main} : Templates(memory'[v])
  BY <1>2 DEF EmitInv
<1>9. Templates(disk')
  BY <1>2
<1>10. QED
  BY <1>5, <1>7, <1>8, <1>9 DEF EmitInv, Templates

\* A step that emits nothing, and ends no step of the decode.
LEMMA OthersKeep ==
  ASSUME EmitInv, UNCHANGED emit, args' = args, tokens' = tokens
  PROVE  EmitInv'
<1>1. programs' = programs /\ disk' = disk /\ memory' = memory /\ emitted' = emitted
  BY DEF emit
<1>2. Tag' = Tag /\ CacheMode' = CacheMode
  BY DEF Tag, Step, StepOf, Index, CacheMode
<1>3. FreshPrograms' /\ BuiltOnce'
  BY <1>1, <1>2 DEF EmitInv, FreshPrograms, BuiltOnce
<1>4. QED
  BY <1>1, <1>3 DEF EmitInv, Templates

\* A token is sampled: the next step starts without programs.
LEMMA SampleKeeps ==
  ASSUME EmitInv, Sample
  PROVE  EmitInv'
<1>1. CASE UNCHANGED emit /\ args' = args /\ tokens' = tokens
  BY <1>1, OthersKeep
<1>2. CASE programs' = << >> /\ disk' = disk /\ memory' = memory /\ emitted' = emitted /\ args' = args
  <2>1. FreshPrograms'
    BY <1>2 DEF FreshPrograms
  <2>2. CacheMode' = CacheMode
    BY <1>2 DEF CacheMode
  <2>3. BuiltOnce'
    BY <1>2, <2>2 DEF EmitInv, BuiltOnce
  <2>4. QED
    BY <1>2, <2>1, <2>3 DEF EmitInv, Templates
<1>3. QED
  BY <1>1, <1>2 DEF Sample, Refuse, run, decode

\* Every step of a run preserves the invariant.
LEMMA NextInv == EmitInv /\ [Next]_vars => EmitInv'
<1> SUFFICES ASSUME EmitInv, [Next]_vars PROVE EmitInv'
  OBVIOUS
<1> DEFINE Quiet == UNCHANGED emit /\ args' = args /\ tokens' = tokens
<1>1. Quiet => EmitInv'
  BY OthersKeep
<1>2. Refuse => Quiet
  BY DEF Refuse, run, decode
<1> HIDE DEF Quiet
<1>3. CASE Gate \/ Reference \/ Start \/ HostLayer \/ QueueLayer
  BY <1>1, <1>2, <1>3 DEF Quiet, Gate, Reference, Start, HostLayer, QueueLayer, run, decode
<1>4. CASE WalkLayer \/ LayersDone \/ FlyBatch \/ GradeBatch \/ Window
  BY <1>1, <1>2, <1>4 DEF Quiet, WalkLayer, LayersDone, FlyBatch, GradeBatch, Window, run, decode
<1>5. CASE Report \/ Ended \/ UNCHANGED vars
  BY <1>1, <1>2, <1>5 DEF Quiet, Report, Ended, vars, run, decode
<1>6. CASE Sample
  BY <1>6, SampleKeeps
<1>7. CASE EmitLayer
  <2>1. CASE Refuse
    BY <1>1, <1>2, <2>1
  <2>2. CASE ~Refuse
    <3>1. PICK em : /\ em = Emission(Cache, disk, memory[Main], li, Tag)
                    /\ programs' = Put(programs, li, em.program) /\ disk' = em.disk
                    /\ memory' = [memory EXCEPT ![Main] = em.memory]
                    /\ Tally(li, em.mode) /\ UNCHANGED <<run, decode>>
      BY <1>7, <2>2 DEF EmitLayer
    <3>2. args' = args /\ tokens' = tokens
      BY <3>1 DEF run, decode
    <3>3. QED
      BY <3>1, <3>2, EmitKeeps
  <2>3. QED
    BY <2>1, <2>2
<1>8. ASSUME NEW w \in Workers, PoolEmit(w) PROVE EmitInv'
  <2>1. CASE Refuse
    BY <1>1, <1>2, <2>1
  <2>2. CASE ~Refuse
    <3>1. PICK k, em :
                    /\ k \in 1 .. Len(pend)
                    /\ em = Emission(Cache, disk, memory[w], pend[k], Tag)
                    /\ programs' = Put(programs, pend[k], em.program) /\ disk' = em.disk
                    /\ memory' = [memory EXCEPT ![w] = em.memory]
                    /\ Tally(pend[k], em.mode) /\ UNCHANGED <<run, decode>>
      BY <1>8, <2>2 DEF PoolEmit
    <3>2. args' = args /\ tokens' = tokens
      BY <3>1 DEF run, decode
    <3>3. QED
      BY <3>1, <3>2, EmitKeeps
  <2>3. QED
    BY <2>1, <2>2
<1>9. QED
  BY <1>3, <1>4, <1>5, <1>6, <1>7, <1>8 DEF Next

\* The invariant of every reachable state of a run.
THEOREM Invariance == Spec => []EmitInv
  BY InitInv, NextInv, PTL DEF Spec

\* Whichever process patched it, a program is the one a full build of this
\* step would be, and with the cache on a layer is built in full once.
THEOREM PatchedIsFullHolds == Spec => []PatchedIsFull
<1>1. EmitInv => PatchedIsFull
  <2> SUFFICES ASSUME EmitInv, CacheMode # "off", NEW l \in Layers
               PROVE  Cardinality({e \in emitted : e.layer = l /\ e.mode # "patched"}) <= 1
    BY DEF EmitInv, FreshPrograms, PatchedIsFull
  <2> DEFINE built == {e \in emitted : e.layer = l /\ e.mode # "patched"}
  <2>1. built = {} \/ \E e : built = {e}
    BY DEF EmitInv, BuiltOnce
  <2> HIDE DEF built
  <2>2. Cardinality(built) = 0 \/ Cardinality(built) = 1
    BY <2>1, FS_EmptySet, FS_Singleton
  <2>3. QED
    BY <2>2 DEF built
<1>2. QED
  BY <1>1, Invariance, PTL
-----------------------------------------------------------------------------
\* A nonempty set of naturals has a least member.
LEMMA LeastExists ==
  ASSUME NEW T \in SUBSET Nat, T # {}
  PROVE  \E m \in T : \A n \in T : m <= n
<1>1. PICK m \in T : \A n \in T : ~(<<n, m>> \in OpToRel(<, Nat))
  BY NatLessThanWellFounded, WFMin, Zenon
<1>2. \A n \in T : ~(n < m)
  <2> SUFFICES ASSUME NEW n \in T, n < m PROVE <<n, m>> \in OpToRel(<, Nat)
    BY <1>1
  <2> QED
    BY DEF OpToRel
<1>3. QED
  BY <1>2

\* Concatenating sequences one after the other, as FlattenSeq does.
Joined(ss, g, m) ==
  /\ DOMAIN g = 1 .. m
  /\ \A i \in 1 .. m : g[i] = IF i = 1 THEN ss[i] ELSE g[i - 1] \o ss[i]

\* The partial concatenations of a sequence of sequences exist at any length.
LEMMA JoinedExists ==
  ASSUME NEW ss, NEW n \in Nat
  PROVE  \A m \in 1 .. n : \E g : Joined(ss, g, m)
<1> DEFINE Bad == {m \in 1 .. n : ~ \E g : Joined(ss, g, m)}
<1>1. SUFFICES ASSUME Bad # {} PROVE FALSE
  OBVIOUS
<1>2. Bad \in SUBSET Nat
  OBVIOUS
<1>3. PICK m \in Bad : \A k \in Bad : m <= k
  BY <1>1, <1>2, LeastExists
<1>4. CASE m = 1
  <2> DEFINE one == [i \in 1 .. 1 |-> ss[1]]
  <2>1. DOMAIN one = 1 .. 1 /\ \A i \in 1 .. 1 : i = 1 /\ one[i] = ss[i]
    OBVIOUS
  <2> HIDE DEF one
  <2>3. Joined(ss, one, 1)
    BY <2>1 DEF Joined
  <2>2. QED
    BY <1>3, <1>4, <2>3
<1>5. CASE m # 1
  <2>1. m - 1 \in 1 .. n /\ m - 1 \notin Bad
    BY <1>3, <1>5
  <2>2. PICK g : Joined(ss, g, m - 1)
    BY <2>1
  <2> DEFINE h == [i \in 1 .. m |-> IF i = m THEN g[m - 1] \o ss[m] ELSE g[i]]
  <2>3. Joined(ss, h, m)
    <3>1. DOMAIN h = 1 .. m
      OBVIOUS
    <3>2. ASSUME NEW i \in 1 .. m PROVE h[i] = IF i = 1 THEN ss[i] ELSE h[i - 1] \o ss[i]
      <4>1. CASE i = m
        <5>1. h[m] = g[m - 1] \o ss[m] /\ h[m - 1] = g[m - 1]
          <6>1. m \in 1 .. m /\ m - 1 \in 1 .. m /\ m - 1 # m
            BY <2>1
          <6>2. QED
            BY <6>1
        <5>2. QED
          BY <1>5, <4>1, <5>1
      <4>2. CASE i # m
        <5>1. i \in 1 .. m - 1 /\ h[i] = g[i]
          BY <4>2
        <5>2. CASE i = 1
          BY <2>2, <5>1, <5>2 DEF Joined
        <5>3. CASE i # 1
          <6>1. h[i - 1] = g[i - 1]
            BY <5>1, <5>3
          <6> HIDE DEF h
          <6>2. QED
            BY <2>2, <5>1, <5>3, <6>1 DEF Joined
        <5>4. QED
          BY <5>2, <5>3
      <4>3. QED
        BY <4>1, <4>2
    <3> HIDE DEF h
    <3>3. QED
      BY <3>1, <3>2 DEF Joined
  <2>4. QED
    BY <1>3, <2>3
<1>6. QED
  BY <1>4, <1>5

\* FlattenSeq is the last of them.
LEMMA FlattenIs ==
  ASSUME NEW S, NEW ss \in Seq(Seq(S)), Len(ss) # 0
  PROVE  \E g : Joined(ss, g, Len(ss)) /\ FlattenSeq(ss) = g[Len(ss)]
<1> DEFINE F(g) == [i \in 1 .. Len(ss) |-> IF i = 1 THEN ss[i] ELSE g[i - 1] \o ss[i]]
           flat == CHOOSE g : g = F(g)
<1>1. FlattenSeq(ss) = flat[Len(ss)]
  BY DEF FlattenSeq
<1>2. PICK g : Joined(ss, g, Len(ss))
  <2>1. Len(ss) \in Nat /\ Len(ss) \in 1 .. Len(ss)
    OBVIOUS
  <2>2. QED
    BY <2>1, JoinedExists
<1> DEFINE h == [i \in 1 .. Len(ss) |-> g[i]]
<1>3. h = F(h)
  <2>1. ASSUME NEW i \in 1 .. Len(ss) PROVE h[i] = IF i = 1 THEN ss[i] ELSE h[i - 1] \o ss[i]
    <3>1. CASE i = 1
      BY <1>2, <3>1 DEF Joined
    <3>2. CASE i # 1
      <4>1. i - 1 \in 1 .. Len(ss)
        BY <3>2
      <4>2. h[i] = g[i] /\ h[i - 1] = g[i - 1]
        BY <4>1
      <4> HIDE DEF h
      <4>3. QED
        BY <1>2, <3>2, <4>2 DEF Joined
    <3>3. QED
      BY <3>1, <3>2
  <2>2. h = [i \in 1 .. Len(ss) |-> IF i = 1 THEN ss[i] ELSE h[i - 1] \o ss[i]]
    <3> DEFINE E(i) == IF i = 1 THEN ss[i] ELSE h[i - 1] \o ss[i]
    <3>1. \A i \in 1 .. Len(ss) : h[i] = E(i)
      BY <2>1
    <3>2. h = [i \in 1 .. Len(ss) |-> h[i]]
      OBVIOUS
    <3> HIDE DEF h, E
    <3>3. h = [i \in 1 .. Len(ss) |-> E(i)]
      BY <3>1, <3>2
    <3>4. QED
      BY <3>3 DEF E
  <2>3. QED
    BY <2>2
<1> HIDE DEF F, h
<1>4. flat = F(flat)
  BY <1>3
<1>5. Joined(ss, flat, Len(ss))
  BY <1>4 DEF F, Joined
<1>6. QED
  BY <1>1, <1>5

\* What is in a concatenation is in one of its parts.
LEMMA FlattenParts ==
  ASSUME NEW S, NEW ss \in Seq(Seq(S))
  PROVE  /\ FlattenSeq(ss) \in Seq(S)
         /\ \A i \in DOMAIN FlattenSeq(ss) :
              \E k \in 1 .. Len(ss) : \E j \in DOMAIN ss[k] : FlattenSeq(ss)[i] = ss[k][j]
<1>1. CASE Len(ss) = 0
  <2>1. FlattenSeq(ss) = ss /\ ss = << >>
    BY <1>1, EmptySeq DEF FlattenSeq
  <2>2. QED
    BY <2>1
<1>2. CASE Len(ss) # 0
  <2>1. PICK g : Joined(ss, g, Len(ss)) /\ FlattenSeq(ss) = g[Len(ss)]
    BY <1>2, FlattenIs
  <2> DEFINE Good(m) == /\ g[m] \in Seq(S)
                        /\ \A i \in DOMAIN g[m] :
                             \E k \in 1 .. Len(ss) : \E j \in DOMAIN ss[k] : g[m][i] = ss[k][j]
             Bad == {m \in 1 .. Len(ss) : ~Good(m)}
  <2>8. Len(ss) \in 1 .. Len(ss)
    BY <1>2
  <2>2. SUFFICES ASSUME Bad # {} PROVE FALSE
    <3> HIDE DEF Good
    <3>1. CASE Bad = {}
      <4>1. Good(Len(ss))
        BY <2>8, <3>1
      <4>2. QED
        BY <2>1, <4>1 DEF Good
    <3>2. QED
      BY <3>1
  <2>3. PICK m \in Bad : \A k \in Bad : m <= k
    <3>1. Bad \in SUBSET Nat
      OBVIOUS
    <3>2. QED
      BY <2>2, <3>1, LeastExists
  <2>4. ss[m] \in Seq(S)
    OBVIOUS
  <2>5. CASE m = 1
    <3>1. g[m] = ss[m]
      BY <2>1, <2>3, <2>5 DEF Joined
    <3>2. Good(m)
      BY <2>4, <3>1
    <3>3. QED
      BY <2>3, <3>2
  <2>6. CASE m # 1
    <3>1. m - 1 \in 1 .. Len(ss) /\ Good(m - 1)
      <4> HIDE DEF Good
      <4>1. m \in 1 .. Len(ss)
        OBVIOUS
      <4>2. m - 1 \in 1 .. Len(ss)
        BY <2>6, <4>1
      <4>3. QED
        BY <2>3, <4>1, <4>2
    <3>2. g[m] = g[m - 1] \o ss[m]
      BY <2>1, <2>6 DEF Joined
    <3>3. g[m - 1] \in Seq(S) /\ g[m] \in Seq(S)
      <4>1. g[m - 1] \in Seq(S)
        BY <3>1
      <4> DEFINE a == g[m - 1]
                 b == ss[m]
      <4> HIDE DEF a, b
      <4>2. a \in Seq(S) /\ b \in Seq(S) => a \o b \in Seq(S)
        OBVIOUS
      <4>3. QED
        BY <2>4, <3>2, <4>1, <4>2 DEF a, b
    <3>4. ASSUME NEW i \in DOMAIN g[m]
          PROVE  \E k \in 1 .. Len(ss) : \E j \in DOMAIN ss[k] : g[m][i] = ss[k][j]
      <4>1. \/ i \in DOMAIN g[m - 1] /\ g[m][i] = g[m - 1][i]
            \/ /\ i - Len(g[m - 1]) \in DOMAIN ss[m]
               /\ g[m][i] = ss[m][i - Len(g[m - 1])]
        <5> DEFINE a == g[m - 1]
                   b == ss[m]
        <5> HIDE DEF a, b
        <5>1. ASSUME a \in Seq(S), b \in Seq(S), NEW k \in DOMAIN (a \o b)
              PROVE  \/ k \in DOMAIN a /\ (a \o b)[k] = a[k]
                     \/ k - Len(a) \in DOMAIN b /\ (a \o b)[k] = b[k - Len(a)]
          BY <5>1
        <5>2. QED
          BY <2>4, <3>2, <3>3, <5>1 DEF a, b
      <4>2. QED
        <5>1. CASE i \in DOMAIN g[m - 1] /\ g[m][i] = g[m - 1][i]
          <6>1. \A h \in DOMAIN g[m - 1] : \E k \in 1 .. Len(ss) : \E j \in DOMAIN ss[k] :
                  g[m - 1][h] = ss[k][j]
            BY <3>1
          <6> HIDE DEF Good
          <6> QED
            BY <5>1, <6>1
        <5>2. CASE i - Len(g[m - 1]) \in DOMAIN ss[m] /\ g[m][i] = ss[m][i - Len(g[m - 1])]
          <6>1. m \in 1 .. Len(ss)
            OBVIOUS
          <6> QED
            BY <5>2, <6>1
        <5>3. QED
          BY <4>1, <5>1, <5>2
    <3>5. QED
      BY <2>3, <3>3, <3>4
  <2>7. QED
    BY <2>5, <2>6
<1>3. QED
  BY <1>1, <1>2
-----------------------------------------------------------------------------
CapWord == Layers \X {"att", "qkv"} \X Nat \X Nat

\* The words of layer l, none of its projections this step's unless its chain
\* was walked rightly.
OwnWords(l, ws) ==
  /\ ws \in Seq(CapWord)
  /\ \A i \in DOMAIN ws : /\ ws[i][1] = l
                          /\ ws[i][2] = "qkv" /\ ws[i][4] # Wrong => ChainRight(l)

\* The captures of one file name their layer and file; a word of this step
\* is there only if the chain was walked rightly.
LEMMA FileWordsOwn ==
  ASSUME NEW l \in Layers, NEW f \in {"att", "qkv"}, Tag \in Nat
  PROVE  OwnWords(l, FileWords(l, f))
<1> DEFINE right == (f = "qkv") => (programs[l] = FullProgram(l, Tag) /\ ~Hits("chain", l))
           value == IF right THEN Tag ELSE Wrong
           words == [k \in 1 .. FileCaps |-> <<l, f, k, value>>]
<1>1. value \in Nat
  BY DEF Wrong
<1>2. f = "qkv" /\ value # Wrong => ChainRight(l)
  BY DEF ChainRight
<1>3. FileWords(l, f) = IF f = "qkv" /\ Hits("short", l) THEN Front(words)
                        ELSE IF f = "qkv" /\ Hits("extra", l) THEN Append(words, Last(words)) ELSE words
  BY DEF FileWords
<1> HIDE DEF value
<1>4. /\ words \in Seq(CapWord) /\ Len(words) = 2
      /\ \A i \in 1 .. 2 : words[i] = <<l, f, i, value>>
  BY <1>1 DEF CapWord, FileCaps
<1>5. OwnWords(l, words)
  BY <1>2, <1>4 DEF OwnWords
<1> HIDE DEF words
<1>6. OwnWords(l, Front(words))
  <2>1. Front(words) = SubSeq(words, 1, 1)
    BY <1>4 DEF Front
  <2>2. SubSeq(words, 1, 1) \in Seq(CapWord) /\ Len(SubSeq(words, 1, 1)) = 1
        /\ SubSeq(words, 1, 1)[1] = words[1]
    <3>1. \A i \in 1 .. 1 : words[i] \in CapWord
      BY <1>4
    <3>2. /\ SubSeq(words, 1, 1) \in Seq(CapWord)
          /\ Len(SubSeq(words, 1, 1)) = 1 - 1 + 1
          /\ \A i \in 1 .. 1 - 1 + 1 : SubSeq(words, 1, 1)[i] = words[1 + i - 1]
      BY <3>1, SubSeqProperties
    <3>3. QED
      BY <3>2
  <2>3. QED
    BY <1>2, <1>4, <2>1, <2>2 DEF OwnWords
<1>7. OwnWords(l, Append(words, Last(words)))
  <2>1. Last(words) = words[2] /\ words[2] \in CapWord
    BY <1>4 DEF Last
  <2>2. /\ Append(words, words[2]) \in Seq(CapWord) /\ Len(Append(words, words[2])) = 3
        /\ \A i \in 1 .. 3 : Append(words, words[2])[i] = IF i = 3 THEN words[2] ELSE words[i]
    <3> DEFINE last == words[2]
               longer == Append(words, last)
    <3>1. last \in CapWord /\ words \in Seq(CapWord)
      BY <1>4, <2>1
    <3> HIDE DEF last
    <3>2. /\ longer \in Seq(CapWord) /\ Len(longer) = Len(words) + 1
          /\ \A i \in 1 .. Len(words) : longer[i] = words[i]
          /\ longer[Len(words) + 1] = last
      BY <3>1
    <3> HIDE DEF longer
    <3>3. \A i \in 1 .. 3 : longer[i] = IF i = 3 THEN last ELSE words[i]
      BY <1>4, <3>2
    <3>4. longer \in Seq(CapWord) /\ Len(longer) = 3
      BY <1>4, <3>2
    <3>5. longer = Append(words, words[2])
      BY DEF longer, last
    <3>6. QED
      BY <3>3, <3>4, <3>5 DEF last
  <2>3. QED
    BY <1>2, <1>4, <2>1, <2>2 DEF OwnWords
<1>8. QED
  BY <1>3, <1>5, <1>6, <1>7

\* So are the captures of the whole chain.
LEMMA WordsOwn ==
  ASSUME NEW l \in Layers, Tag \in Nat
  PROVE  OwnWords(l, Words(l))
<1>1. OwnWords(l, FileWords(l, "att")) /\ OwnWords(l, FileWords(l, "qkv"))
  BY FileWordsOwn
<1>2. ASSUME NEW a, NEW b, OwnWords(l, a), OwnWords(l, b) PROVE OwnWords(l, a \o b)
  <2>1. a \in Seq(CapWord) /\ b \in Seq(CapWord)
    BY <1>2 DEF OwnWords
  <2>2. a \o b \in Seq(CapWord)
    BY <2>1
  <2>3. ASSUME NEW i \in DOMAIN (a \o b)
        PROVE  \/ i \in DOMAIN a /\ (a \o b)[i] = a[i]
               \/ i - Len(a) \in DOMAIN b /\ (a \o b)[i] = b[i - Len(a)]
    BY <2>1
  <2>4. QED
    BY <1>2, <2>2, <2>3 DEF OwnWords
<1>3. QED
  BY <1>1, <1>2 DEF Words

\* Golden's words of a layer hold a word of its projections.
LEMMA ExpectedHolds ==
  ASSUME NEW l
  PROVE  \E i \in DOMAIN Expected(l) : Expected(l)[i] = <<l, "qkv", 1, Tag>>
<1>1. GoldenWords(l, "qkv") \in Seq({<<l, "qkv", k, Tag>> : k \in 1 .. 2})
      /\ Len(GoldenWords(l, "qkv")) = 2 /\ GoldenWords(l, "qkv")[1] = <<l, "qkv", 1, Tag>>
  BY DEF GoldenWords, FileCaps
<1>2. GoldenWords(l, "att") \in Seq({<<l, "att", k, Tag>> : k \in 1 .. 2})
      /\ Len(GoldenWords(l, "att")) = 2
  BY DEF GoldenWords, FileCaps
<1> DEFINE a == GoldenWords(l, "att")
           b == GoldenWords(l, "qkv")
<1> HIDE DEF a, b
<1>3. ASSUME NEW S, NEW T, a \in Seq(S), b \in Seq(T), Len(a) = 2, Len(b) = 2
      PROVE  3 \in DOMAIN (a \o b) /\ (a \o b)[3] = b[1]
  <2>1. a \in Seq(S \cup T) /\ b \in Seq(S \cup T)
    BY <1>3
  <2>2. /\ a \o b \in Seq(S \cup T) /\ Len(a \o b) = Len(a) + Len(b)
        /\ \A i \in 1 .. Len(a) + Len(b) :
             (a \o b)[i] = IF i <= Len(a) THEN a[i] ELSE b[i - Len(a)]
    BY <2>1, ConcatProperties
  <2>3. Len(a \o b) = 4 /\ (a \o b)[3] = b[1]
    BY <1>3, <2>2
  <2>4. QED
    BY <2>2, <2>3
<1>4. QED
  BY <1>1, <1>2, <1>3 DEF Expected, a, b

\* A chain of this step graded exact was walked rightly.
LEMMA GradeEarns ==
  ASSUME NEW l \in Layers, Tag \in Nat, Tag # Wrong, GradedExact(l, Words(l)), ~Ungraded
  PROVE  ChainRight(l)
<1>1. Words(l) = Expected(l)
  BY DEF GradedExact
<1>2. PICK i \in DOMAIN Expected(l) : Expected(l)[i] = <<l, "qkv", 1, Tag>>
  BY ExpectedHolds
<1>3. OwnWords(l, Words(l))
  BY WordsOwn
<1>4. QED
  BY <1>1, <1>2, <1>3 DEF OwnWords
-----------------------------------------------------------------------------
\* What the record of a slot tells.
Rec == [walk : {"none", "exact", "ungraded"}, macs : Nat, refused : BOOLEAN,
        skipped : BOOLEAN, ffn : {"none", "exact", "refused"}]

Measures == {"walked", "ungraded", "refused", "skipped", "windows"}
Is(c) ==
  {r \in Rec : CASE c = "walked" -> r.walk = "exact"
                 [] c = "ungraded" -> r.walk = "ungraded"
                 [] c = "refused" -> r.refused
                 [] c = "skipped" -> r.skipped
                 [] c = "windows" -> r.ffn = "exact"}

\* Layer l of token t, recorded as r, is what the tile did of it.
SlotTrue(t, l, r) ==
  /\ r.walk = IF Flew(t, l, "chain") = {} THEN "none" ELSE IF Graded(t) THEN "exact" ELSE "ungraded"
  /\ Graded(t) => \A f \in Flew(t, l, "chain") : f.right
  /\ r.ffn = "exact" <=> Flew(t, l, "ffn") # {}
  /\ \A f \in Flew(t, l, "ffn") : f.right
  /\ r.macs = (IF r.walk = "exact" THEN ChainMacs ELSE 0) + (IF r.ffn = "exact" THEN 1 ELSE 0)
  /\ ~(r.refused /\ r.skipped)
  /\ r.refused \/ r.skipped => r.walk = "none"
  /\ Walked /\ r.walk = "none" => r.refused \/ r.skipped
  /\ Asked(t, l) /\ SubjectKept(t, l) => Flew(t, l, "chain") # {}

Pending == ToSet(pend)

Types ==
  /\ args \in Runs /\ tokens \in Seq(Seq(Rec)) /\ recs \in Seq(Rec) /\ pend \in Seq(Layers)
  /\ li \in 1 .. NLayers + 1 /\ Len(recs) = li - 1
  /\ \A t \in DOMAIN tokens : Len(tokens[t]) = NLayers
  /\ \A i \in DOMAIN pend : pend[i] < li
  /\ \A i, j \in DOMAIN pend : pend[i] = pend[j] => i = j

InOrder ==
  /\ phase \in {"gate", "reference", "start"} => tokens = << >>
  /\ phase \in {"gate", "reference", "start", "report", "done"} => li = 1 /\ pend = << >>
  /\ phase = "walk" => li <= NLayers /\ ~Batched
  /\ phase \in {"flush", "slices", "windows", "head"} => li = NLayers + 1
  /\ phase = "head" => pend = << >>
  /\ pend # << >> => Batched
  /\ phase \notin {"gate", "refused"} => FastGate

\* No slot is flown before its turn.
FlownBefore == \A f \in flown : f.tok \in 1 .. Index /\ f.layer \in Layers /\ (f.tok = Index => f.layer < li)

\* What waits in a batch, at each stage of it.
Queued ==
  phase \in {"layers", "flush"} =>
    \A l \in Pending : /\ recs[l] = NoRec
                       /\ Flew(Index, l, "chain") = {} /\ Flew(Index, l, "ffn") = {}
InFlight ==
  phase = "slices" =>
    /\ \A l \in Pending : /\ recs[l] = NoRec /\ Flew(Index, l, "chain") = {ChainFlown(l)}
                          /\ Flew(Index, l, "ffn") = {}
    /\ caps \in Seq(CapWord)
    /\ \A i \in DOMAIN caps : caps[i][2] = "qkv" /\ caps[i][4] # Wrong => ChainRight(caps[i][1])
InWindows ==
  phase = "windows" =>
    \A l \in Pending : SlotTrue(Index, l, recs[l]) /\ recs[l].ffn = "none"

StepTrue == \A l \in 1 .. li - 1 : l \notin Pending => SlotTrue(Index, l, recs[l])
TokensTrue == \A t \in DOMAIN tokens : \A l \in Layers : SlotTrue(t, l, tokens[t][l])

\* The records of every slot reached, and those that count as c.
Table == Append(tokens, recs)
OfIn(tab, c) == {p \in (1 .. Len(tab)) \X Layers : p[2] \in DOMAIN tab[p[1]] /\ tab[p[1]][p[2]] \in Is(c)}
CountsTrue ==
  /\ DOMAIN counts = Measures
  /\ \A c \in Measures : counts[c] = Cardinality(OfIn(Table, c))

Referred == args.fast = 0 /\ phase \notin {"gate", "reference", "refused"} => ref = GoldenIds

PassSays ==
  /\ args.fast = 0 => gen = GoldenIds
  /\ \A s \in args.probes : \E t \in 1 .. Len(tokens) : StepOf(t) = s
  /\ FfnGreen
Reported ==
  /\ phase # "done" => verdict = "none"
  /\ verdict = "pass" => PassSays
  /\ phase = "done" => LedgerTrue

LoopInv ==
  /\ Types /\ InOrder /\ FlownBefore /\ Queued /\ InFlight /\ InWindows
  /\ StepTrue /\ TokensTrue /\ CountsTrue /\ Referred /\ Reported
-----------------------------------------------------------------------------
\* The value that marks this step's words, and the token it is for.
LEMMA TagIs ==
  ASSUME Types
  PROVE  Tag \in Nat /\ Tag # Wrong /\ Index = Len(tokens) + 1 /\ Len(tokens) \in Nat
<1>1. args.ids \in Nat \ {0} /\ Len(tokens) \in Nat
  BY RunsAssumption DEF Types
<1>2. QED
  BY <1>1 DEF Tag, Step, StepOf, Index, Wrong

\* The record of a layer nobody walked counts as nothing.
LEMMA NoRecIs == NoRec \in Rec /\ \A c \in Measures : NoRec \notin Is(c)
  BY DEF NoRec, Rec, Is, Measures

\* What is said of a slot lasts while the tile flies nothing more there.
LEMMA SlotKept ==
  ASSUME NEW t, NEW l, NEW r, SlotTrue(t, l, r), UNCHANGED run,
         Flew(t, l, "chain")' = Flew(t, l, "chain"), Flew(t, l, "ffn")' = Flew(t, l, "ffn")
  PROVE  SlotTrue(t, l, r)'
<1>1. args' = args /\ world' = world
  BY DEF run
<1>2. /\ Graded(t)' = Graded(t) /\ ChainMacs' = ChainMacs /\ Walked' = Walked
      /\ Asked(t, l)' = Asked(t, l) /\ SubjectKept(t, l)' = SubjectKept(t, l)
  BY <1>1 DEF Graded, ChainMacs, Walked, Asked, Probing, StepOf, SubjectKept
<1>3. QED
  BY <1>2 DEF SlotTrue

\* A step that flies and records nothing.
LEMMA StillKeeps ==
  ASSUME LoopInv, UNCHANGED <<run, li, recs, pend, tokens, flown, counts, gen, verdict>>,
         InOrder', Referred', phase' \notin {"slices", "windows", "done"}, phase # "done",
         phase' \in {"layers", "flush"} => phase \in {"layers", "flush"} \/ pend = << >>
  PROVE  LoopInv'
<1>1. args' = args /\ world' = world
  BY DEF run
<1>2. \A t, l, win : Flew(t, l, win)' = Flew(t, l, win)
  BY DEF Flew
<1>3. Index' = Index /\ Pending' = Pending /\ Table' = Table
  BY DEF Index, Pending, Table
<1>4. Types' /\ FlownBefore'
  BY <1>1, <1>3 DEF LoopInv, Types, FlownBefore
<1>5. Queued' /\ InFlight' /\ InWindows'
  <2>1. pend = << >> => Pending = {}
    BY DEF Pending, ToSet
  <2>2. Queued'
    BY <1>2, <1>3, <2>1 DEF LoopInv, Queued
  <2>3. QED
    BY <2>2 DEF InFlight, InWindows
<1>6. StepTrue' /\ TokensTrue'
  <2>1. \A t, l, r : SlotTrue(t, l, r) => SlotTrue(t, l, r)'
    BY <1>2, SlotKept
  <2>2. ASSUME NEW l \in 1 .. li - 1, l \notin Pending PROVE SlotTrue(Index, l, recs[l])'
    <3>1. PICK t, r : t = Index /\ r = recs[l]
      OBVIOUS
    <3>2. SlotTrue(t, l, r)
      BY <2>2, <3>1 DEF LoopInv, StepTrue
    <3>3. t = Index' /\ r = recs'[l]
      BY <1>3, <3>1
    <3>4. QED
      BY <2>1, <3>2, <3>3
  <2>3. ASSUME NEW t \in DOMAIN tokens, NEW l \in Layers PROVE SlotTrue(t, l, tokens[t][l])'
    <3>1. SlotTrue(t, l, tokens[t][l])
      BY DEF LoopInv, TokensTrue
    <3>2. PICK r : r = tokens[t][l]
      OBVIOUS
    <3>3. SlotTrue(t, l, r)'
      BY <2>1, <3>1, <3>2
    <3>4. r = tokens'[t][l]
      BY <3>2
    <3>5. QED
      BY <3>3, <3>4
  <2>4. StepTrue'
    BY <1>3, <2>2 DEF StepTrue
  <2>5. TokensTrue'
    BY <2>3 DEF TokensTrue
  <2>6. QED
    BY <2>4, <2>5
<1>7. CountsTrue'
  BY <1>3 DEF LoopInv, CountsTrue
<1>8. Reported'
  BY DEF LoopInv, Reported
<1>9. QED
  BY <1>4, <1>5, <1>6, <1>7, <1>8 DEF LoopInv

\* A refusal before the end leaves everything as it was.
LEMMA RefuseKeeps ==
  ASSUME LoopInv, Refuse, phase # "done"
  PROVE  LoopInv'
<1>1. phase' = "refused" /\ UNCHANGED <<run, li, recs, pend, tokens, flown, counts, gen, verdict>>
  BY DEF Refuse, decode, step
<1>2. InOrder'
  BY <1>1 DEF LoopInv, InOrder, Batched, run
<1>3. Referred'
  BY <1>1 DEF Referred
<1>4. QED
  BY <1>1, <1>2, <1>3, StillKeeps

\* Initially no slot was reached.
LEMMA InitLoop == Init => LoopInv
<1> SUFFICES ASSUME Init PROVE LoopInv
  OBVIOUS
<1>1. /\ args \in Runs /\ phase = "gate" /\ li = 1 /\ recs = << >> /\ pend = << >> /\ tokens = << >>
      /\ flown = {} /\ verdict = "none"
      /\ counts = [walked |-> 0, ungraded |-> 0, refused |-> 0, skipped |-> 0, windows |-> 0]
  BY DEF Init
<1>2. Types
  BY <1>1, RunsAssumption DEF Types
<1>3. InOrder
  BY <1>1 DEF InOrder
<1>4. FlownBefore /\ Queued /\ InFlight /\ InWindows /\ TokensTrue /\ Referred /\ Reported
  BY <1>1 DEF FlownBefore, Queued, InFlight, InWindows, TokensTrue, Referred, Reported
<1>5. StepTrue
  BY <1>1 DEF StepTrue
<1>6. CountsTrue
  <2>2. ASSUME NEW c PROVE OfIn(Table, c) = {}
    <3>1. Len(Table) = 1 /\ Table[1] = << >>
      BY <1>1 DEF Table
    <3>2. DOMAIN << >> = {}
      OBVIOUS
    <3>3. QED
      BY <3>1, <3>2 DEF OfIn
  <2>3. \A c \in Measures : counts[c] = 0
    BY <1>1 DEF Measures
  <2>4. DOMAIN counts = Measures
    BY <1>1 DEF Measures
  <2>5. QED
    BY <2>2, <2>3, <2>4, FS_EmptySet DEF CountsTrue
<1>7. QED
  BY <1>2, <1>3, <1>4, <1>5, <1>6 DEF LoopInv

\* The gates, pass 1, the start of an engine, and the end of a step's layers.
LEMMA GatesKeep ==
  ASSUME LoopInv, Gate \/ Reference \/ Start \/ LayersDone
  PROVE  LoopInv'
<1>1. CASE Refuse /\ phase # "done"
  BY <1>1, RefuseKeeps
<1>2. CASE Gate /\ ~Refuse
  <2>1. /\ phase = "gate" /\ phase' \in {"reference", "start"} /\ Admitted
        /\ phase' = "start" => args.fast # 0
        /\ UNCHANGED <<run, decode, step, emit, flown>>
    BY <1>2 DEF Gate
  <2>2. /\ UNCHANGED <<run, li, recs, pend, tokens, flown, counts, gen, verdict>>
        /\ args' = args /\ world' = world /\ ref' = ref
    BY <2>1 DEF decode, step, run
  <2>3. InOrder'
    BY <2>1, <2>2 DEF LoopInv, InOrder, Batched, FastGate, Admitted, Walked, Probing
  <2>4. Referred'
    BY <2>1, <2>2 DEF Referred
  <2>5. QED
    BY <2>1, <2>2, <2>3, <2>4, StillKeeps
<1>3. CASE Reference
  <2>1. /\ phase = "reference" /\ phase' = "start" /\ ref' = GoldenIds
        /\ UNCHANGED <<run, li, recs, pend, tokens, flown, counts, gen, verdict>>
        /\ args' = args /\ world' = world
    BY <1>3 DEF Reference, step, run
  <2>2. InOrder'
    BY <2>1 DEF LoopInv, InOrder, Batched, FastGate, Walked, Probing
  <2>3. Referred'
    BY <2>1 DEF Referred, GoldenIds
  <2>4. QED
    BY <2>1, <2>2, <2>3, StillKeeps
<1>4. CASE (Start \/ LayersDone) /\ ~Refuse
  <2>1. /\ phase \in {"start", "layers"}
        /\ phase = "start" => phase' = "layers"
        /\ phase = "layers" => /\ li > NLayers
                               /\ phase' = IF pend = << >> THEN "head" ELSE "flush"
        /\ UNCHANGED <<run, decode, step, emit, flown>>
    BY <1>4 DEF Start, LayersDone
  <2>2. /\ UNCHANGED <<run, li, recs, pend, tokens, flown, counts, gen, verdict>>
        /\ args' = args /\ world' = world /\ ref' = ref
    BY <2>1 DEF decode, step, run
  <2>3. li > NLayers => li = NLayers + 1
    BY RunsAssumption DEF LoopInv, Types
  <2>4. InOrder'
    BY <2>1, <2>2, <2>3 DEF LoopInv, InOrder, Batched, FastGate, Walked, Probing
  <2>5. Referred'
    BY <2>1, <2>2 DEF LoopInv, Referred, GoldenIds
  <2>6. phase' \in {"layers", "flush"} => phase \in {"layers", "flush"} \/ pend = << >>
    BY <2>1 DEF LoopInv, InOrder
  <2>7. QED
    BY <2>1, <2>2, <2>4, <2>5, <2>6, StillKeeps
<1>5. QED
  BY <1>1, <1>2, <1>3, <1>4 DEF Gate, Reference, Start, LayersDone

\* The program of a layer is emitted, in the loop or in the pool.
LEMMA EmissionKeeps ==
  ASSUME LoopInv, EmitLayer \/ \E w \in Workers : PoolEmit(w)
  PROVE  LoopInv'
<1>1. CASE Refuse
  BY <1>1, RefuseKeeps DEF EmitLayer, PoolEmit
<1>2. CASE ~Refuse
  <2>1. /\ \/ phase = "layers" /\ phase' = "walk" /\ li <= NLayers /\ ~Batched
           \/ phase = "flush" /\ phase' = "flush"
        /\ UNCHANGED <<run, decode, li, recs, pend, counts, flown>>
    BY <1>2 DEF EmitLayer, PoolEmit, step
  <2>2. /\ UNCHANGED <<run, li, recs, pend, tokens, flown, counts, gen, verdict>>
        /\ args' = args /\ world' = world /\ ref' = ref
    BY <2>1 DEF decode, run
  <2>3. InOrder'
    BY <2>1, <2>2 DEF LoopInv, InOrder, Batched, FastGate, Walked, Probing
  <2>4. Referred'
    BY <2>1, <2>2 DEF LoopInv, Referred, GoldenIds
  <2>5. QED
    BY <2>1, <2>2, <2>3, <2>4, StillKeeps
<1>3. QED
  BY <1>1, <1>2

-----------------------------------------------------------------------------
(* Counting the records of a table of layers.                              *)

\* The members of an appended sequence.
LEMMA Appended ==
  ASSUME NEW S, NEW s \in Seq(S), NEW x \in S
  PROVE  /\ Append(s, x) \in Seq(S) /\ Len(Append(s, x)) = Len(s) + 1
         /\ DOMAIN Append(s, x) = 1 .. Len(s) + 1
         /\ \A i \in 1 .. Len(s) + 1 : Append(s, x)[i] = IF i = Len(s) + 1 THEN x ELSE s[i]
  OBVIOUS

\* Finitely many records count as any one thing.
LEMMA OfInFinite ==
  ASSUME NEW tab \in Seq(Seq(Rec)), NEW c
  PROVE  IsFiniteSet(OfIn(tab, c)) /\ Cardinality(OfIn(tab, c)) \in Nat
<1>1. IsFiniteSet(1 .. Len(tab)) /\ IsFiniteSet(Layers)
  BY FS_Interval, RunsAssumption DEF Layers
<1>2. IsFiniteSet((1 .. Len(tab)) \X Layers)
  BY <1>1, FS_Product
<1>3. OfIn(tab, c) \subseteq (1 .. Len(tab)) \X Layers
  BY DEF OfIn
<1>4. IsFiniteSet(OfIn(tab, c))
  BY <1>2, <1>3, FS_Subset
<1>5. QED
  BY <1>4, FS_CardinalityType

\* One layer more is one record more of what it counts as.
LEMMA CountAppend ==
  ASSUME NEW toks \in Seq(Seq(Rec)), NEW rs \in Seq(Rec), Len(rs) < NLayers, NEW r \in Rec, NEW c
  PROVE  Cardinality(OfIn(Append(toks, Append(rs, r)), c)) =
           Cardinality(OfIn(Append(toks, rs), c)) + (IF r \in Is(c) THEN 1 ELSE 0)
<1> DEFINE n == Len(toks) + 1
           m == Len(rs) + 1
           rs2 == Append(rs, r)
           a == Append(toks, rs)
           b == Append(toks, rs2)
           new == <<n, m>>
<1>1. /\ rs2 \in Seq(Rec) /\ Len(rs2) = m /\ DOMAIN rs2 = 1 .. m
      /\ \A i \in 1 .. m : rs2[i] = IF i = m THEN r ELSE rs[i]
  BY Appended
<1>2. /\ a \in Seq(Seq(Rec)) /\ Len(a) = n
      /\ \A t \in 1 .. n : a[t] = IF t = n THEN rs ELSE toks[t]
  BY Appended
<1> HIDE DEF rs2
<1>3. /\ b \in Seq(Seq(Rec)) /\ Len(b) = n
      /\ \A t \in 1 .. n : b[t] = IF t = n THEN rs2 ELSE toks[t]
  BY <1>1, Appended
<1>4. n \in Nat /\ m \in Nat /\ n >= 1 /\ m \in Layers /\ DOMAIN rs = 1 .. m - 1
  BY RunsAssumption DEF Layers
<1> HIDE DEF a, b, n, m
<1>5. new \notin OfIn(a, c)
  BY <1>2, <1>4 DEF OfIn
<1>6. OfIn(b, c) = IF r \in Is(c) THEN OfIn(a, c) \cup {new} ELSE OfIn(a, c)
  <2>1. ASSUME NEW t \in 1 .. n, NEW l \in Layers, t # n
        PROVE  <<t, l>> \in OfIn(b, c) <=> <<t, l>> \in OfIn(a, c)
    BY <1>2, <1>3, <2>1 DEF OfIn
  <2>2. ASSUME NEW l \in Layers, l # m
        PROVE  <<n, l>> \in OfIn(b, c) <=> <<n, l>> \in OfIn(a, c)
    <3>1. l \in 1 .. m <=> l \in 1 .. m - 1
      BY <1>4, <2>2 DEF Layers
    <3>2. n \in 1 .. n
      BY <1>4
    <3>3. l \in 1 .. m => rs2[l] = rs[l]
      BY <1>1, <2>2
    <3>4. QED
      BY <1>1, <1>2, <1>3, <1>4, <3>1, <3>2, <3>3 DEF OfIn
  <2>3. new \in OfIn(b, c) <=> r \in Is(c)
    <3>1. n \in 1 .. n /\ m \in 1 .. m
      BY <1>4 DEF Layers
    <3>2. QED
      BY <1>1, <1>3, <1>4, <3>1 DEF OfIn
  <2>4. OfIn(b, c) \subseteq (1 .. n) \X Layers /\ OfIn(a, c) \subseteq (1 .. n) \X Layers
    BY <1>2, <1>3 DEF OfIn
  <2>5. ASSUME NEW p \in (1 .. n) \X Layers, p # new
        PROVE  p \in OfIn(b, c) <=> p \in OfIn(a, c)
    <3>1. PICK t \in 1 .. n, l \in Layers : p = <<t, l>>
      OBVIOUS
    <3>2. t # n \/ l # m
      BY <2>5, <3>1
    <3>3. QED
      BY <2>1, <2>2, <3>1, <3>2
  <2>6. new \in (1 .. n) \X Layers
    BY <1>4
  <2> DEFINE A == OfIn(a, c)
             B == OfIn(b, c)
             U == (1 .. n) \X Layers
  <2> HIDE DEF A, B, U
  <2>7. /\ B \subseteq U /\ A \subseteq U /\ new \notin A
        /\ \A p \in U : p # new => (p \in B <=> p \in A)
        /\ new \in B <=> r \in Is(c)
    BY <1>5, <2>3, <2>4, <2>5 DEF A, B, U
  <2>8. CASE r \in Is(c)
    <3>1. B = A \cup {new}
      BY <2>6, <2>7, <2>8
    <3>2. QED
      BY <2>8, <3>1 DEF A, B
  <2>9. CASE r \notin Is(c)
    <3>1. ASSUME NEW p PROVE p \in B <=> p \in A
      <4>1. CASE p = new
        BY <2>7, <2>9, <4>1
      <4>2. CASE p # new
        BY <2>7, <4>2
      <4>3. QED
        BY <4>1, <4>2
    <3>3. B = A
      BY <3>1
    <3>2. QED
      BY <2>9, <3>3 DEF A, B
  <2>10. QED
    BY <2>8, <2>9
<1>7. IsFiniteSet(OfIn(a, c)) /\ Cardinality(OfIn(a, c)) \in Nat
  BY <1>2, OfInFinite
<1>8. Cardinality(OfIn(b, c)) = Cardinality(OfIn(a, c)) + (IF r \in Is(c) THEN 1 ELSE 0)
  <2>1. CASE r \in Is(c)
    <3>1. Cardinality(OfIn(a, c) \cup {new}) = Cardinality(OfIn(a, c)) + 1
      BY <1>5, <1>7, FS_AddElement
    <3>2. QED
      BY <1>6, <2>1, <3>1
  <2>2. CASE r \notin Is(c)
    BY <1>6, <1>7, <2>2
  <2>3. QED
    BY <2>1, <2>2
<1>9. QED
  BY <1>8 DEF a, b, rs2

\* A layer more of the step: what changes by itself.
LEMMA LayerAdded ==
  ASSUME Types, li <= NLayers, NEW r \in Rec, NextLayer(r), UNCHANGED <<run, tokens>>,
         pend' = pend \/ pend' = Append(pend, li)
  PROVE  /\ Types' /\ Index' = Index /\ li \in Layers
         /\ \A l \in 1 .. li : recs'[l] = IF l = li THEN r ELSE recs[l]
         /\ Pending' = IF pend' = pend THEN Pending ELSE Pending \cup {li}
         /\ \A c : Cardinality(OfIn(Table', c)) =
                     Cardinality(OfIn(Table, c)) + (IF r \in Is(c) THEN 1 ELSE 0)
<1>1. recs' = Append(recs, r) /\ li' = li + 1 /\ args' = args /\ tokens' = tokens
  BY DEF NextLayer, run
<1>2. /\ args \in Runs /\ tokens \in Seq(Seq(Rec)) /\ recs \in Seq(Rec) /\ pend \in Seq(Layers)
      /\ li \in 1 .. NLayers + 1 /\ Len(recs) = li - 1
  BY DEF Types
<1>3. li \in Layers /\ li \in Nat
  BY <1>2, RunsAssumption DEF Layers
<1>4. /\ recs' \in Seq(Rec) /\ Len(recs') = Len(recs) + 1
      /\ \A l \in 1 .. Len(recs) + 1 : recs'[l] = IF l = Len(recs) + 1 THEN r ELSE recs[l]
  BY <1>1, <1>2, Appended
<1>5. Len(recs) + 1 = li
  BY <1>2
<1>6. /\ pend' \in Seq(Layers)
      /\ \A i \in DOMAIN pend' : pend'[i] < li'
      /\ \A i, j \in DOMAIN pend' : pend'[i] = pend'[j] => i = j
      /\ Pending' = IF pend' = pend THEN Pending ELSE Pending \cup {li}
  <2>1. /\ \A i \in DOMAIN pend : pend[i] < li
        /\ \A i, j \in DOMAIN pend : pend[i] = pend[j] => i = j
        /\ \A i \in DOMAIN pend : pend[i] \in Nat
    <3>1. \A i \in DOMAIN pend : pend[i] \in Layers
      BY <1>2
    <3>2. QED
      BY <3>1 DEF Types, Layers
  <2>2. CASE pend' = pend
    BY <1>1, <1>2, <1>3, <2>1, <2>2 DEF Pending
  <2>3. CASE pend' = Append(pend, li)
    <3> DEFINE n == Len(pend) + 1
    <3>1. /\ pend' \in Seq(Layers) /\ Len(pend') = n
          /\ DOMAIN pend' = 1 .. n
          /\ \A i \in 1 .. n : pend'[i] = IF i = n THEN li ELSE pend[i]
      BY <1>2, <1>3, <2>3, Appended
    <3>2. n \in Nat /\ n \in 1 .. n /\ DOMAIN pend = 1 .. n - 1
      BY <1>2
    <3> HIDE DEF n
    <3>3. \A i \in 1 .. n : i = n \/ i \in 1 .. n - 1
      BY <3>2
    <3>4. \A i \in DOMAIN pend' : pend'[i] < li'
      BY <1>1, <1>3, <2>1, <3>1, <3>2, <3>3
    <3>5. \A i, j \in DOMAIN pend' : pend'[i] = pend'[j] => i = j
      BY <1>3, <2>1, <3>1, <3>2, <3>3
    <3>6. Pending' = Pending \cup {li}
      BY <3>1, <3>2, <3>3 DEF Pending, ToSet
    <3>7. pend' # pend
      <4>1. CASE pend' = pend
        BY <3>1, <3>2, <4>1
      <4>2. QED
        BY <4>1
    <3>8. QED
      BY <3>1, <3>4, <3>5, <3>6, <3>7
  <2>4. QED
    BY <2>2, <2>3
<1>7. Types'
  <2>1. li' \in 1 .. NLayers + 1 /\ Len(recs') = li' - 1
    BY <1>1, <1>2, <1>3, <1>4, <1>5, RunsAssumption
  <2>2. \A t \in DOMAIN tokens' : Len(tokens'[t]) = NLayers
    BY <1>1 DEF Types
  <2>3. QED
    BY <1>1, <1>2, <1>4, <1>6, <2>1, <2>2 DEF Types
<1>8. ASSUME NEW c
      PROVE  Cardinality(OfIn(Table', c)) =
               Cardinality(OfIn(Table, c)) + (IF r \in Is(c) THEN 1 ELSE 0)
  <2>1. Table' = Append(tokens, Append(recs, r))
    BY <1>1 DEF Table
  <2>2. Len(recs) < NLayers
    BY <1>2, RunsAssumption
  <2>3. QED
    BY <1>2, <2>1, <2>2, CountAppend DEF Table
<1>9. Index' = Index
  BY <1>1 DEF Index
<1>10. QED
  BY <1>3, <1>4, <1>5, <1>6, <1>7, <1>8, <1>9

\* What was true of the other slots stays true.
LEMMA SlotsAdded ==
  ASSUME Types, StepTrue, TokensTrue, UNCHANGED <<run, tokens>>,
         NEW i, i = li, NEW t0, t0 = Index, NEW r, li' = li + 1,
         \A t, l, win : t # t0 \/ l # i => Flew(t, l, win)' = Flew(t, l, win),
         \A l \in 1 .. li : recs'[l] = IF l = li THEN r ELSE recs[l],
         Pending \subseteq Pending', i \notin Pending' => SlotTrue(t0, i, r)'
  PROVE  StepTrue' /\ TokensTrue'
<1>1. Index' = Index /\ tokens' = tokens
  BY DEF Index
<1>2. li \in Nat /\ li > 0 /\ Len(tokens) \in Nat /\ Index = Len(tokens) + 1
  BY RunsAssumption, TagIs DEF Types
<1>3. ASSUME NEW l \in 1 .. li' - 1, l \notin Pending' PROVE SlotTrue(Index, l, recs[l])'
  <2>1. CASE l = i
    <3>1. recs'[l] = r
      BY <1>2, <2>1
    <3>2. SlotTrue(t0, i, r)'
      BY <1>3, <2>1
    <3>3. QED
      BY <1>1, <2>1, <3>1, <3>2
  <2>2. CASE l # i
    <3>1. l \in 1 .. li - 1 /\ l \notin Pending
      BY <1>2, <1>3, <2>2
    <3>2. PICK s : s = recs[l]
      OBVIOUS
    <3>3. SlotTrue(t0, l, s)
      BY <3>1, <3>2 DEF StepTrue
    <3>4. SlotTrue(t0, l, s)'
      BY <2>2, <3>3, SlotKept
    <3>5. recs'[l] = s
      BY <1>2, <3>1, <3>2
    <3>6. QED
      BY <1>1, <3>4, <3>5
  <2>3. QED
    BY <2>1, <2>2
<1>4. ASSUME NEW t \in DOMAIN tokens, NEW l \in Layers PROVE SlotTrue(t, l, tokens[t][l])'
  <2>1. t # t0
    BY <1>2 DEF Types
  <2>2. PICK s : s = tokens[t][l]
    OBVIOUS
  <2>3. SlotTrue(t, l, s)
    BY <2>2 DEF TokensTrue
  <2>4. SlotTrue(t, l, s)'
    BY <2>1, <2>3, SlotKept
  <2>5. s = tokens'[t][l]
    BY <1>1, <2>2
  <2>6. QED
    BY <2>4, <2>5
<1>5. QED
  BY <1>1, <1>3, <1>4 DEF StepTrue, TokensTrue

\* A layer whose turn has not come has not flown.
LEMMA Unflown ==
  ASSUME LoopInv, NEW win
  PROVE  Flew(Index, li, win) = {}
<1>1. li \in Nat
  BY RunsAssumption DEF LoopInv, Types
<1>2. QED
  BY <1>1 DEF LoopInv, FlownBefore, Flew

\* The turn of a layer moves on, and nothing flew elsewhere.
LEMMA FlownLater ==
  ASSUME Types, FlownBefore, li <= NLayers, li' = li + 1, Index' = Index,
         \A f \in flown' \ flown : f.tok = Index /\ f.layer = li
  PROVE  FlownBefore'
<1>1. li \in Nat /\ li \in Layers /\ Index \in 1 .. Index
  BY RunsAssumption, TagIs DEF Types, Layers
<1>2. Layers \subseteq Nat
  BY DEF Layers
<1>3. ASSUME NEW f \in flown'
      PROVE  f.tok \in 1 .. Index /\ f.layer \in Layers /\ (f.tok = Index => f.layer < li + 1)
  <2>1. CASE f \in flown
    <3>1. f.tok \in 1 .. Index /\ f.layer \in Layers /\ (f.tok = Index => f.layer < li)
      BY <2>1 DEF FlownBefore
    <3>2. f.layer \in Nat
      BY <1>2, <3>1
    <3>3. f.layer < li => f.layer < li + 1
      BY <1>1, <3>2
    <3>4. QED
      BY <3>1, <3>3
  <2>2. CASE f \notin flown
    BY <1>1, <1>2, <2>2
  <2>3. QED
    BY <2>1, <2>2
<1>4. QED
  BY <1>3 DEF FlownBefore

\* A layer golden keeps for itself.
SkipRec == [NoRec EXCEPT !.skipped = TRUE]
RefRec == [NoRec EXCEPT !.refused = TRUE]

\* The records the host alone makes, field by field.
LEMMA HostRecIs ==
  ASSUME NEW r \in {NoRec, SkipRec, RefRec}
  PROVE  /\ r \in Rec /\ r.walk = "none" /\ r.ffn = "none" /\ r.macs = 0
         /\ r.refused = TRUE <=> r = RefRec
         /\ r.skipped = TRUE <=> r = SkipRec
         /\ r.refused = FALSE \/ r.skipped = FALSE
         /\ \A c \in Measures : r \in Is(c) <=> (r = SkipRec /\ c = "skipped") \/ (r = RefRec /\ c = "refused")
<1>1. /\ NoRec = [walk |-> "none", macs |-> 0, refused |-> FALSE, skipped |-> FALSE, ffn |-> "none"]
      /\ SkipRec = [walk |-> "none", macs |-> 0, refused |-> FALSE, skipped |-> TRUE, ffn |-> "none"]
      /\ RefRec = [walk |-> "none", macs |-> 0, refused |-> TRUE, skipped |-> FALSE, ffn |-> "none"]
  <2>1. NoRec = [walk |-> "none", macs |-> 0, refused |-> FALSE, skipped |-> FALSE, ffn |-> "none"]
    BY DEF NoRec
  <2>2. SkipRec = [NoRec EXCEPT !.skipped = TRUE] /\ RefRec = [NoRec EXCEPT !.refused = TRUE]
    BY DEF SkipRec, RefRec
  <2>3. SkipRec = [walk |-> "none", macs |-> 0, refused |-> FALSE, skipped |-> TRUE, ffn |-> "none"]
    BY <2>1, <2>2
  <2>4. RefRec = [walk |-> "none", macs |-> 0, refused |-> TRUE, skipped |-> FALSE, ffn |-> "none"]
    BY <2>1, <2>2
  <2>5. QED
    BY <2>1, <2>3, <2>4
<1>2. NoRec # SkipRec /\ NoRec # RefRec /\ SkipRec # RefRec
  <2>1. NoRec.skipped = FALSE /\ SkipRec.skipped = TRUE /\ NoRec.refused = FALSE /\ RefRec.refused = TRUE
        /\ RefRec.skipped = FALSE
    BY <1>1
  <2>2. QED
    BY <2>1
<1>3. /\ r \in Rec /\ r.walk = "none" /\ r.ffn = "none" /\ r.macs = 0
  <2>1. CASE r = NoRec
    BY <1>1, <2>1 DEF Rec
  <2>2. CASE r = SkipRec
    BY <1>1, <2>2 DEF Rec
  <2>3. CASE r = RefRec
    BY <1>1, <2>3 DEF Rec
  <2>4. QED
    BY <2>1, <2>2, <2>3
<1>4. /\ r = NoRec => r.refused = FALSE /\ r.skipped = FALSE
      /\ r = SkipRec => r.refused = FALSE /\ r.skipped = TRUE
      /\ r = RefRec => r.refused = TRUE /\ r.skipped = FALSE
  BY <1>1
<1>5. ASSUME NEW c \in Measures
      PROVE  r \in Is(c) <=> (r = SkipRec /\ c = "skipped") \/ (r = RefRec /\ c = "refused")
  <2>1. CASE c = "skipped"
    BY <1>2, <1>3, <1>4, <2>1 DEF Is
  <2>2. CASE c = "refused"
    BY <1>2, <1>3, <1>4, <2>2 DEF Is
  <2>3. CASE c \in {"walked", "ungraded", "windows"}
    BY <1>3, <2>3 DEF Is
  <2>4. QED
    BY <2>1, <2>2, <2>3 DEF Measures
<1>6. QED
  BY <1>2, <1>3, <1>4, <1>5

\* What waits for the flush was reached.
LEMMA PendingBelow ==
  ASSUME Types
  PROVE  \A l \in Pending : l \in 1 .. li - 1 /\ l \in Layers
<1> SUFFICES ASSUME NEW i \in DOMAIN pend
             PROVE  pend[i] \in 1 .. li - 1 /\ pend[i] \in Layers
  BY DEF Pending, ToSet
<1>1. pend[i] \in Layers
  BY DEF Types
<1>2. pend[i] < li /\ li \in Nat
  BY RunsAssumption DEF Types
<1>3. QED
  BY <1>1, <1>2, RunsAssumption DEF Layers

\* A layer the tile does not walk: not asked for, skipped, or refused by golden.
LEMMA HostKeeps ==
  ASSUME LoopInv, HostLayer
  PROVE  LoopInv'
<1>1. /\ phase = "layers" /\ phase' = "layers" /\ li <= NLayers
      /\ args' = args /\ world' = world /\ tokens' = tokens /\ pend' = pend /\ caps' = caps
      /\ flown' = flown /\ verdict' = verdict /\ ref' = ref /\ gen' = gen
      /\ UNCHANGED run
  BY DEF HostLayer, run, decode
<1>2. PICK r : /\ NextLayer(r)
               /\ \/ r = NoRec /\ ~Walked /\ counts' = counts
                  \/ r = SkipRec /\ Walked /\ ProbeSkips(li) /\ Count("skipped", 1)
                  \/ r = RefRec /\ Walked /\ SubjectRefused(li) /\ Count("refused", 1)
  BY DEF HostLayer, SkipRec, RefRec
<1>3. /\ r \in Rec /\ r.walk = "none" /\ r.ffn = "none" /\ r.macs = 0
      /\ ~(r.refused /\ r.skipped) /\ (Walked => r.refused \/ r.skipped)
  BY <1>2, HostRecIs
<1>4. /\ Types' /\ Index' = Index /\ li \in Layers /\ li' = li + 1
      /\ \A l \in 1 .. li : recs'[l] = IF l = li THEN r ELSE recs[l]
      /\ Pending' = Pending
      /\ \A c : Cardinality(OfIn(Table', c)) =
                  Cardinality(OfIn(Table, c)) + (IF r \in Is(c) THEN 1 ELSE 0)
  BY <1>1, <1>2, <1>3, LayerAdded DEF LoopInv, NextLayer
<1>5. \A t, l, win : Flew(t, l, win)' = Flew(t, l, win)
  BY <1>1 DEF Flew
<1>6. SlotTrue(Index, li, r)
  <2>1. Asked(Index, li) /\ SubjectKept(Index, li) => r = NoRec /\ ~Walked
    BY <1>2 DEF Asked, SubjectKept, ProbeSkips, SubjectRefused, Hits, Step
  <2>2. ~(Asked(Index, li) /\ SubjectKept(Index, li))
    BY <2>1 DEF Asked
  <2>3. QED
    BY <1>3, <2>2, Unflown DEF SlotTrue
<1>7. StepTrue' /\ TokensTrue'
  <2>1. PICK i, t0 : i = li /\ t0 = Index
    OBVIOUS
  <2>2. SlotTrue(t0, i, r)'
    BY <1>1, <1>5, <1>6, <2>1, SlotKept
  <2>3. QED
    BY <1>1, <1>4, <1>5, <2>1, <2>2, SlotsAdded DEF LoopInv
<1>8. FlownBefore'
  BY <1>1, <1>4, FlownLater DEF LoopInv
<1>9. Queued' /\ InFlight' /\ InWindows'
  <2>1. \A l \in Pending : l \in 1 .. li - 1
    BY PendingBelow DEF LoopInv
  <2>2. \A l \in Pending : recs'[l] = recs[l]
    BY <1>4, <2>1 DEF Layers
  <2>3. Queued'
    BY <1>1, <1>4, <1>5, <2>2 DEF LoopInv, Queued
  <2>4. QED
    BY <1>1, <2>3 DEF InFlight, InWindows
<1>10. InOrder'
  BY <1>1 DEF LoopInv, InOrder, Batched, FastGate, Walked, Probing
<1>11. CountsTrue'
  <2>1. \A c \in Measures : r \in Is(c) <=> (r = SkipRec /\ c = "skipped") \/ (r = RefRec /\ c = "refused")
    BY <1>2, HostRecIs
  <2>2. DOMAIN counts = Measures /\ \A c \in Measures : counts[c] = Cardinality(OfIn(Table, c))
    BY DEF LoopInv, CountsTrue
  <2>3. \A c \in Measures : Cardinality(OfIn(Table, c)) \in Nat
    <3>1. Table \in Seq(Seq(Rec))
      BY Appended DEF LoopInv, Types, Table
    <3>2. QED
      BY <3>1, OfInFinite
  <2>4. DOMAIN counts' = Measures
        /\ \A c \in Measures : counts'[c] = counts[c] + (IF r \in Is(c) THEN 1 ELSE 0)
    <3>1. NoRec # SkipRec /\ NoRec # RefRec /\ SkipRec # RefRec
      <4>1. SkipRec.skipped = TRUE /\ NoRec.skipped = FALSE /\ RefRec.refused = TRUE /\ NoRec.refused = FALSE
            /\ SkipRec.refused = FALSE
        BY DEF NoRec, SkipRec, RefRec
      <4>2. QED
        BY <4>1
    <3>2. CASE r = NoRec /\ counts' = counts
      BY <2>1, <2>2, <2>3, <3>1, <3>2
    <3>3. CASE r = SkipRec /\ Count("skipped", 1)
      <4>1. counts' = [counts EXCEPT !["skipped"] = @ + 1] /\ r = SkipRec
        BY <3>3 DEF Count
      <4>2. DOMAIN counts' = Measures
            /\ \A c \in Measures : counts'[c] = IF c = "skipped" THEN counts[c] + 1 ELSE counts[c]
        BY <2>2, <4>1
      <4>3. \A c \in Measures : counts[c] \in Nat /\ (r \in Is(c) <=> c = "skipped")
        BY <2>1, <2>2, <2>3, <3>1, <4>1
      <4>4. QED
        BY <4>2, <4>3
    <3>4. CASE r = RefRec /\ Count("refused", 1)
      <4>1. counts' = [counts EXCEPT !["refused"] = @ + 1] /\ r = RefRec
        BY <3>4 DEF Count
      <4>2. DOMAIN counts' = Measures
            /\ \A c \in Measures : counts'[c] = IF c = "refused" THEN counts[c] + 1 ELSE counts[c]
        BY <2>2, <4>1
      <4>3. \A c \in Measures : counts[c] \in Nat /\ (r \in Is(c) <=> c = "refused")
        BY <2>1, <2>2, <2>3, <3>1, <4>1
      <4>4. QED
        BY <4>2, <4>3
    <3>5. QED
      BY <1>2, <3>2, <3>3, <3>4
  <2>5. QED
    BY <1>4, <2>2, <2>4 DEF CountsTrue
<1>12. Referred' /\ Reported'
  BY <1>1 DEF LoopInv, Referred, Reported, GoldenIds
<1>13. QED
  BY <1>4, <1>7, <1>8, <1>9, <1>10, <1>11, <1>12 DEF LoopInv

\* A layer that joins the batch of the step.
LEMMA QueueKeeps ==
  ASSUME LoopInv, QueueLayer
  PROVE  LoopInv'
<1>1. CASE Refuse
  BY <1>1, RefuseKeeps DEF QueueLayer
<1>2. CASE ~Refuse
  <2>1. /\ phase = "layers" /\ phase' = "layers" /\ li <= NLayers /\ Batched
        /\ NextLayer(NoRec) /\ pend' = Append(pend, li)
        /\ args' = args /\ world' = world /\ tokens' = tokens /\ counts' = counts
        /\ flown' = flown /\ verdict' = verdict /\ ref' = ref /\ gen' = gen
        /\ UNCHANGED run
    BY <1>2 DEF QueueLayer, run, decode
  <2>2. pend' # pend
    <3>1. pend \in Seq(Layers) /\ li \in Layers
      BY <2>1, RunsAssumption DEF LoopInv, Types, Layers
    <3>2. Len(pend') = Len(pend) + 1 /\ Len(pend) \in Nat
      BY <2>1, <3>1, Appended
    <3>3. QED
      BY <3>2
  <2>3. /\ Types' /\ Index' = Index /\ li \in Layers /\ li' = li + 1
        /\ \A l \in 1 .. li : recs'[l] = IF l = li THEN NoRec ELSE recs[l]
        /\ Pending' = Pending \cup {li}
        /\ \A c : Cardinality(OfIn(Table', c)) =
                    Cardinality(OfIn(Table, c)) + (IF NoRec \in Is(c) THEN 1 ELSE 0)
    BY <2>1, <2>2, NoRecIs, LayerAdded DEF LoopInv, NextLayer
  <2>4. \A t, l, win : Flew(t, l, win)' = Flew(t, l, win)
    BY <2>1 DEF Flew
  <2>5. StepTrue' /\ TokensTrue'
    <3>1. PICK i, t0 : i = li /\ t0 = Index
      OBVIOUS
    <3>2. i \in Pending' /\ Pending \subseteq Pending'
      BY <2>3, <3>1
    <3>3. QED
      BY <2>1, <2>3, <2>4, <3>1, <3>2, SlotsAdded DEF LoopInv
  <2>6. FlownBefore'
    BY <2>1, <2>3, FlownLater DEF LoopInv
  <2>7. Queued' /\ InFlight' /\ InWindows'
    <3>1. \A l \in Pending : l \in 1 .. li - 1 /\ l \in 1 .. li /\ l # li
      <4>1. li \in Nat /\ \A l \in Pending : l \in 1 .. li - 1
        BY PendingBelow, RunsAssumption DEF LoopInv, Types
      <4>2. QED
        BY <4>1
    <3>2. \A l \in Pending : recs'[l] = recs[l]
      BY <2>3, <3>1
    <3>3. recs'[li] = NoRec
      BY <2>3 DEF Layers
    <3>4. Flew(Index, li, "chain") = {} /\ Flew(Index, li, "ffn") = {}
      BY Unflown
    <3>5. Queued'
      BY <2>1, <2>3, <2>4, <3>2, <3>3, <3>4 DEF LoopInv, Queued
    <3>6. QED
      BY <2>1, <3>5 DEF InFlight, InWindows
  <2>8. InOrder'
    BY <2>1 DEF LoopInv, InOrder, Batched, FastGate, Walked, Probing
  <2>9. CountsTrue'
    <3>1. DOMAIN counts = Measures /\ \A c \in Measures : counts[c] = Cardinality(OfIn(Table, c))
      BY DEF LoopInv, CountsTrue
    <3>2. \A c \in Measures : Cardinality(OfIn(Table, c)) \in Nat
      <4>1. Table \in Seq(Seq(Rec))
        BY Appended DEF LoopInv, Types, Table
      <4>2. QED
        BY <4>1, OfInFinite
    <3>3. \A c \in Measures : Cardinality(OfIn(Table', c)) = Cardinality(OfIn(Table, c))
      BY <2>3, <3>2, NoRecIs
    <3>4. QED
      BY <2>1, <3>1, <3>3 DEF CountsTrue
  <2>10. Referred' /\ Reported'
    BY <2>1 DEF LoopInv, Referred, Reported, GoldenIds
  <2>11. QED
    BY <2>3, <2>5, <2>6, <2>7, <2>8, <2>9, <2>10 DEF LoopInv
<1>3. QED
  BY <1>1, <1>2

\* What a chain's record says.
LEMMA RecordIs ==
  /\ Record \in Rec /\ Record.walk = (IF Ungraded THEN "ungraded" ELSE "exact") /\ Record.ffn = "none"
  /\ Record.macs = (IF Record.walk = "exact" THEN ChainMacs ELSE 0)
  /\ Record.refused = FALSE /\ Record.skipped = FALSE
  /\ \A c \in Measures : Record \in Is(c) <=> c = (IF Ungraded THEN "ungraded" ELSE "walked")
<1>1. ChainMacs \in Nat
  BY DEF ChainMacs
<1>2. NoRec = [walk |-> "none", macs |-> 0, refused |-> FALSE, skipped |-> FALSE, ffn |-> "none"]
  BY DEF NoRec
<1>3. CASE Ungraded
  <2>1. Record = [walk |-> "ungraded", macs |-> 0, refused |-> FALSE, skipped |-> FALSE, ffn |-> "none"]
    BY <1>2, <1>3 DEF Record, UngradedRecord
  <2>2. /\ Record \in Rec /\ Record.walk = "ungraded" /\ Record.ffn = "none" /\ Record.macs = 0
        /\ Record.refused = FALSE /\ Record.skipped = FALSE
    BY <2>1 DEF Rec
  <2>3. \A c \in Measures : Record \in Is(c) <=> c = "ungraded"
    BY <2>2 DEF Is, Measures
  <2>4. QED
    BY <1>3, <2>2, <2>3
<1>4. CASE ~Ungraded
  <2>1. Record = [walk |-> "exact", macs |-> ChainMacs, refused |-> FALSE, skipped |-> FALSE, ffn |-> "none"]
    BY <1>2, <1>4 DEF Record, GradedRecord
  <2>2. /\ Record \in Rec /\ Record.walk = "exact" /\ Record.ffn = "none" /\ Record.macs = ChainMacs
        /\ Record.refused = FALSE /\ Record.skipped = FALSE
    BY <1>1, <2>1 DEF Rec
  <2>3. \A c \in Measures : Record \in Is(c) <=> c = "walked"
    BY <2>2 DEF Is, Measures
  <2>4. QED
    BY <1>4, <2>2, <2>3
<1>5. QED
  BY <1>3, <1>4

\* What the record of a chain says once its FFN window was run.
LEMMA WithFfnIs ==
  ASSUME NEW x \in Rec, x.ffn = "none", NEW l, NEW r, r = WithFfn(x, l)
  PROVE  /\ r \in Rec /\ r.walk = x.walk /\ r.refused = x.refused /\ r.skipped = x.skipped
         /\ r.ffn = "exact" <=> args.ffn /\ ~FfnRefused(l)
         /\ r.macs = x.macs + (IF r.ffn = "exact" THEN 1 ELSE 0)
         /\ \A c \in Measures : r \in Is(c) <=> x \in Is(c) \/ (c = "windows" /\ r.ffn = "exact")
<1>1. CASE ~args.ffn
  <2>1. r = x
    BY <1>1 DEF WithFfn
  <2>2. x.macs \in Nat
    BY DEF Rec
  <2>3. QED
    BY <1>1, <2>1, <2>2
<1>2. CASE args.ffn /\ FfnRefused(l)
  <2>1. r = [x EXCEPT !.ffn = "refused"]
    BY <1>2 DEF WithFfn
  <2>2. /\ r \in Rec /\ r.walk = x.walk /\ r.refused = x.refused /\ r.skipped = x.skipped
        /\ r.ffn = "refused" /\ r.macs = x.macs /\ x.macs \in Nat
    BY <2>1 DEF Rec
  <2>3. \A c \in Measures : r \in Is(c) <=> x \in Is(c)
    BY <2>2 DEF Is, Measures
  <2>4. QED
    BY <1>2, <2>2, <2>3
<1>3. CASE args.ffn /\ ~FfnRefused(l)
  <2>1. r = [x EXCEPT !.ffn = "exact", !.macs = @ + 1]
    BY <1>3 DEF WithFfn
  <2>2. /\ r \in Rec /\ r.walk = x.walk /\ r.refused = x.refused /\ r.skipped = x.skipped
        /\ r.ffn = "exact" /\ r.macs = x.macs + 1 /\ x.macs \in Nat
    <3>1. /\ x = [walk |-> x.walk, macs |-> x.macs, refused |-> x.refused, skipped |-> x.skipped, ffn |-> x.ffn]
          /\ x.walk \in {"none", "exact", "ungraded"} /\ x.macs \in Nat /\ x.refused \in BOOLEAN /\ x.skipped \in BOOLEAN
      BY DEF Rec
    <3>2. r = [walk |-> x.walk, macs |-> x.macs + 1, refused |-> x.refused, skipped |-> x.skipped, ffn |-> "exact"]
      BY <2>1, <3>1
    <3>3. QED
      BY <3>1, <3>2 DEF Rec
  <2>3. \A c \in Measures : r \in Is(c) <=> x \in Is(c) \/ c = "windows"
    BY <2>2 DEF Is, Measures
  <2>4. QED
    BY <1>3, <2>2, <2>3
<1>4. QED
  BY <1>1, <1>2, <1>3

\* The window of a layer, where it has one and it does not fail.
LEMMA FfnFlownIs ==
  ASSUME NEW l, ~FfnFails(l)
  PROVE  /\ FfnFlown(l) # {} <=> args.ffn /\ ~FfnRefused(l)
         /\ \A f \in FfnFlown(l) : f.tok = Index /\ f.layer = l /\ f.win = "ffn" /\ f.right = TRUE
         /\ Cardinality(FfnFlown(l)) = IF args.ffn /\ ~FfnRefused(l) THEN 1 ELSE 0
<1>1. CASE args.ffn /\ ~FfnRefused(l)
  <2>1. PICK f : f = [tok |-> Index, layer |-> l, win |-> "ffn", right |-> ~Hits("ffn", l)]
    OBVIOUS
  <2>2. FfnFlown(l) = {f}
    BY <1>1, <2>1 DEF FfnFlown
  <2>3. ~Hits("ffn", l)
    BY <1>1 DEF FfnFails
  <2>4. f.tok = Index /\ f.layer = l /\ f.win = "ffn" /\ f.right = TRUE
    BY <2>1, <2>3
  <2>5. QED
    BY <1>1, <2>2, <2>4, FS_Singleton
<1>2. CASE ~(args.ffn /\ ~FfnRefused(l))
  BY <1>2, FS_EmptySet DEF FfnFlown
<1>3. QED
  BY <1>1, <1>2

\* A flight of a chain, field by field.
LEMMA ChainFlownIs ==
  ASSUME NEW l
  PROVE  ChainFlown(l).tok = Index /\ ChainFlown(l).layer = l /\ ChainFlown(l).win = "chain"
         /\ ChainFlown(l).right = ChainRight(l)
  BY DEF ChainFlown

\* The counters are numbers, of the table's records.
LEMMA CountsAre ==
  ASSUME LoopInv
  PROVE  /\ DOMAIN counts = Measures /\ Table \in Seq(Seq(Rec))
         /\ \A c \in Measures : counts[c] = Cardinality(OfIn(Table, c)) /\ counts[c] \in Nat
<1>1. Table \in Seq(Seq(Rec))
  BY Appended DEF LoopInv, Types, Table
<1>2. QED
  BY <1>1, OfInFinite DEF LoopInv, CountsTrue

\* A layer is walked on its own, its window behind it.
LEMMA WalkKeeps ==
  ASSUME LoopInv, WalkLayer
  PROVE  LoopInv'
<1>1. CASE Refuse
  BY <1>1, RefuseKeeps DEF WalkLayer
<1>2. CASE ~Refuse
  <2>1. PICK i, t0, r, ch, ff :
          /\ i = li /\ t0 = Index /\ r = WithFfn(Record, li)
          /\ ch = ChainFlown(li) /\ ff = FfnFlown(li)
    OBVIOUS
  <2>2. /\ phase = "walk" /\ phase' = "layers" /\ li <= NLayers /\ ~Batched /\ pend = << >>
        /\ GradedExact(i, Words(i)) /\ ~FfnFails(i)
        /\ NextLayer(r) /\ CountChains(1, Cardinality(ff))
        /\ flown' = flown \cup {ch} \cup ff
        /\ args' = args /\ world' = world /\ tokens' = tokens /\ pend' = pend
        /\ verdict' = verdict /\ ref' = ref /\ gen' = gen
        /\ UNCHANGED run
    BY <1>2, <2>1 DEF WalkLayer, run, decode, LoopInv, InOrder
  <2>3. /\ Record \in Rec /\ Record.walk = (IF Ungraded THEN "ungraded" ELSE "exact") /\ Record.ffn = "none"
        /\ Record.macs = (IF Record.walk = "exact" THEN ChainMacs ELSE 0)
        /\ Record.refused = FALSE /\ Record.skipped = FALSE
        /\ \A c \in Measures : Record \in Is(c) <=> c = (IF Ungraded THEN "ungraded" ELSE "walked")
    BY RecordIs
  <2>4. /\ r \in Rec /\ r.walk = (IF Ungraded THEN "ungraded" ELSE "exact")
        /\ r.refused = FALSE /\ r.skipped = FALSE
        /\ r.ffn = "exact" <=> args.ffn /\ ~FfnRefused(i)
        /\ r.macs = (IF r.walk = "exact" THEN ChainMacs ELSE 0) + (IF r.ffn = "exact" THEN 1 ELSE 0)
        /\ \A c \in Measures : r \in Is(c) <=> \/ c = (IF Ungraded THEN "ungraded" ELSE "walked")
                                               \/ c = "windows" /\ r.ffn = "exact"
    BY <2>1, <2>3, WithFfnIs
  <2>5. /\ Types' /\ Index' = Index /\ li \in Layers /\ li' = li + 1
        /\ \A l \in 1 .. li : recs'[l] = IF l = li THEN r ELSE recs[l]
        /\ Pending' = Pending
        /\ \A c : Cardinality(OfIn(Table', c)) =
                    Cardinality(OfIn(Table, c)) + (IF r \in Is(c) THEN 1 ELSE 0)
    BY <2>2, <2>4, LayerAdded DEF LoopInv, NextLayer
  <2>6. Pending = {} /\ Tag \in Nat /\ Tag # Wrong
    BY <2>2, TagIs DEF LoopInv, Pending, ToSet
  <2>7. /\ ch.tok = t0 /\ ch.layer = i /\ ch.win = "chain"
        /\ ~Ungraded => ch.right
        /\ \A f \in ff : f.tok = t0 /\ f.layer = i /\ f.win = "ffn" /\ f.right
        /\ ff # {} <=> r.ffn = "exact"
        /\ Cardinality(ff) = IF r.ffn = "exact" THEN 1 ELSE 0
    <3>1. ~Ungraded => ChainRight(i)
      BY <2>1, <2>2, <2>5, <2>6, GradeEarns
    <3>2. ch.tok = t0 /\ ch.layer = i /\ ch.win = "chain" /\ ch.right = ChainRight(i)
      BY <2>1, ChainFlownIs
    <3>3. /\ FfnFlown(i) # {} <=> args.ffn /\ ~FfnRefused(i)
          /\ \A f \in FfnFlown(i) : f.tok = Index /\ f.layer = i /\ f.win = "ffn" /\ f.right = TRUE
          /\ Cardinality(FfnFlown(i)) = IF args.ffn /\ ~FfnRefused(i) THEN 1 ELSE 0
      BY <2>2, FfnFlownIs
    <3>4. ff = FfnFlown(i)
      BY <2>1
    <3>5. /\ ff # {} <=> r.ffn = "exact"
          /\ Cardinality(ff) = IF r.ffn = "exact" THEN 1 ELSE 0
      BY <2>4, <3>3, <3>4
    <3>6. \A f \in ff : f.tok = t0 /\ f.layer = i /\ f.win = "ffn" /\ f.right
      BY <2>1, <3>3, <3>4
    <3>7. QED
      BY <3>1, <3>2, <3>5, <3>6
  <2>8. Flew(t0, i, "chain") = {} /\ Flew(t0, i, "ffn") = {}
    BY <2>1, Unflown
  <2>9. /\ \A t, l, win : t # t0 \/ l # i => Flew(t, l, win)' = Flew(t, l, win)
        /\ Flew(t0, i, "chain")' = {ch} /\ Flew(t0, i, "ffn")' = ff
    <3>1. \A t, l, win : Flew(t, l, win)' = {f \in flown \cup {ch} \cup ff : f.tok = t /\ f.layer = l /\ f.win = win}
      BY <2>2 DEF Flew
    <3>2. ASSUME NEW t, NEW l, NEW win, t # t0 \/ l # i PROVE Flew(t, l, win)' = Flew(t, l, win)
      BY <2>7, <3>1, <3>2 DEF Flew
    <3>3. Flew(t0, i, "chain")' = {ch}
      BY <2>7, <2>8, <3>1 DEF Flew
    <3>4. Flew(t0, i, "ffn")' = ff
      BY <2>7, <2>8, <3>1 DEF Flew
    <3>5. QED
      BY <3>2, <3>3, <3>4
  <2>10. SlotTrue(t0, i, r)'
    <3>1. /\ Graded(t0)' <=> ~Ungraded
          /\ ChainMacs' = ChainMacs
      BY <2>1, <2>2 DEF Graded, Ungraded, ChainMacs
    <3>2. /\ r.walk = IF Flew(t0, i, "chain")' = {} THEN "none" ELSE IF Graded(t0)' THEN "exact" ELSE "ungraded"
          /\ Graded(t0)' => \A f \in Flew(t0, i, "chain")' : f.right
      BY <2>4, <2>7, <2>9, <3>1
    <3>3. /\ r.ffn = "exact" <=> Flew(t0, i, "ffn")' # {}
          /\ \A f \in Flew(t0, i, "ffn")' : f.right
      BY <2>7, <2>9
    <3>4. Flew(t0, i, "chain")' # {}
      BY <2>9
    <3>5. r.walk # "none"
      BY <2>4
    <3>6. QED
      BY <2>4, <3>1, <3>2, <3>3, <3>4, <3>5 DEF SlotTrue
  <2>11. StepTrue' /\ TokensTrue'
    BY <2>1, <2>2, <2>5, <2>9, <2>10, SlotsAdded DEF LoopInv
  <2>12. FlownBefore'
    <3>1. \A f \in flown' \ flown : f.tok = Index /\ f.layer = li
      BY <2>1, <2>2, <2>7
    <3>2. QED
      BY <2>2, <2>5, <3>1, FlownLater DEF LoopInv
  <2>13. Queued' /\ InFlight' /\ InWindows'
    BY <2>2, <2>5, <2>6 DEF Queued, InFlight, InWindows
  <2>14. InOrder' /\ FastGate
    BY <2>2 DEF LoopInv, InOrder, Batched, FastGate, Walked, Probing
  <2>15. CountsTrue'
    <3>1. /\ DOMAIN counts = Measures
          /\ \A c \in Measures : counts[c] = Cardinality(OfIn(Table, c)) /\ counts[c] \in Nat
      BY CountsAre
    <3>2. DOMAIN counts' = Measures
          /\ \A c \in Measures : counts'[c] = counts[c] + (IF r \in Is(c) THEN 1 ELSE 0)
      <4>1. CASE Ungraded
        <5>1. r.ffn # "exact"
          BY <2>4, <2>14, <4>1 DEF FastGate, Ungraded
        <5>2. \A c \in Measures : r \in Is(c) <=> c = "ungraded"
          BY <2>4, <4>1, <5>1
        <5>3. counts' = [counts EXCEPT !.ungraded = @ + 1]
          BY <2>2, <4>1 DEF CountChains
        <5>4. DOMAIN counts' = Measures
              /\ \A c \in Measures : counts'[c] = IF c = "ungraded" THEN counts[c] + 1 ELSE counts[c]
          BY <3>1, <5>3
        <5>5. QED
          BY <3>1, <5>2, <5>4
      <4>2. CASE ~Ungraded
        <5>1. \A c \in Measures : r \in Is(c) <=> c = "walked" \/ (c = "windows" /\ r.ffn = "exact")
          BY <2>4, <4>2
        <5>2. counts' = [counts EXCEPT !.walked = @ + 1, !.windows = @ + Cardinality(ff)]
          BY <2>2, <4>2 DEF CountChains
        <5>3. DOMAIN counts' = Measures
              /\ \A c \in Measures : counts'[c] = IF c = "walked" THEN counts[c] + 1
                                                  ELSE IF c = "windows" THEN counts[c] + Cardinality(ff)
                                                  ELSE counts[c]
          BY <3>1, <5>2
        <5>4. QED
          BY <2>7, <3>1, <5>1, <5>3
      <4>3. QED
        BY <4>1, <4>2
    <3>3. QED
      BY <2>5, <3>1, <3>2 DEF CountsTrue
  <2>16. Referred' /\ Reported'
    BY <2>2 DEF LoopInv, Referred, Reported, GoldenIds
  <2>17. QED
    BY <2>5, <2>11, <2>12, <2>13, <2>14, <2>15, <2>16 DEF LoopInv
<1>3. QED
  BY <1>1, <1>2

\* A batch flies: one job over the words of every layer that waits.
LEMMA FlyKeeps ==
  ASSUME LoopInv, FlyBatch
  PROVE  LoopInv'
<1>1. CASE Refuse
  BY <1>1, RefuseKeeps DEF FlyBatch
<1>2. CASE ~Refuse
  <2>1. PICK t0, new, P : t0 = Index /\ P = Pending /\ new = {ChainFlown(l) : l \in P}
    OBVIOUS
  <2>2. /\ phase = "flush" /\ phase' = "slices"
        /\ caps' = FlattenSeq([k \in 1 .. Len(pend) |-> Words(pend[k])])
        /\ flown' = flown \cup new
        /\ args' = args /\ world' = world /\ tokens' = tokens /\ pend' = pend /\ recs' = recs /\ li' = li
        /\ counts' = counts /\ verdict' = verdict /\ ref' = ref /\ gen' = gen /\ programs' = programs
        /\ UNCHANGED run
    BY <1>2, <2>1 DEF FlyBatch, run, decode, emit, Pending
  <2>3. Types' /\ Index' = Index /\ Pending' = P /\ Table' = Table /\ P \subseteq 1 .. li - 1 /\ P \subseteq Layers
    BY <2>1, <2>2, PendingBelow DEF LoopInv, Types, Index, Pending, Table
  <2>4. Tag \in Nat /\ Tag # Wrong /\ t0 = Len(tokens) + 1 /\ Len(tokens) \in Nat
    BY <2>1, TagIs DEF LoopInv
  <2>5. \A f \in new : f.tok = t0 /\ f.layer \in P /\ f.win = "chain"
    BY <2>1, ChainFlownIs
  <2>6. \A t, l, win : Flew(t, l, win)' = {f \in flown \cup new : f.tok = t /\ f.layer = l /\ f.win = win}
    BY <2>2 DEF Flew
  <2>7. ASSUME NEW t, NEW l, NEW win, t # t0 \/ l \notin P \/ win # "chain"
        PROVE  Flew(t, l, win)' = Flew(t, l, win)
    <3>1. \A f \in new : ~(f.tok = t /\ f.layer = l /\ f.win = win)
      BY <2>5, <2>7
    <3>2. QED
      BY <2>6, <3>1 DEF Flew
  <2>8. ASSUME NEW l \in P
        PROVE  Flew(t0, l, "chain")' = {ChainFlown(l)} /\ Flew(t0, l, "ffn")' = {}
    <3>1. Flew(t0, l, "chain") = {} /\ Flew(t0, l, "ffn") = {}
      BY <2>1, <2>2 DEF LoopInv, Queued
    <3>2. ChainFlown(l) \in new /\ ChainFlown(l).tok = t0 /\ ChainFlown(l).layer = l /\ ChainFlown(l).win = "chain"
      BY <2>1, ChainFlownIs
    <3>3. \A f \in new : f.layer = l => f = ChainFlown(l)
      BY <2>1, ChainFlownIs
    <3>4. Flew(t0, l, "chain")' = {ChainFlown(l)}
      BY <2>6, <3>1, <3>2, <3>3 DEF Flew
    <3>5. Flew(t0, l, "ffn")' = {}
      BY <2>7, <3>1
    <3>6. QED
      BY <3>4, <3>5
  <2>9. \A l : ChainRight(l)' = ChainRight(l) /\ ChainFlown(l)' = ChainFlown(l)
    <3>1. \A l : ChainRight(l)' = ChainRight(l)
      BY <2>2, <2>3 DEF ChainRight, Hits, Tag, Step, StepOf
    <3>2. QED
      BY <2>3, <3>1 DEF ChainFlown
  <2>10. /\ caps' \in Seq(CapWord)
         /\ \A i \in DOMAIN caps' : caps'[i][2] = "qkv" /\ caps'[i][4] # Wrong => ChainRight(caps'[i][1])
    <3> DEFINE ss == [k \in 1 .. Len(pend) |-> Words(pend[k])]
    <3>1. pend \in Seq(Layers)
      BY DEF LoopInv, Types
    <3>2. /\ DOMAIN ss = 1 .. Len(pend) /\ Len(pend) \in Nat
          /\ \A k \in 1 .. Len(pend) : ss[k] = Words(pend[k]) /\ pend[k] \in Layers
      BY <3>1
    <3>3. \A k \in 1 .. Len(pend) : OwnWords(pend[k], ss[k])
      BY <2>4, <3>2, WordsOwn
    <3>4. ss \in Seq(Seq(CapWord)) /\ Len(ss) = Len(pend)
      <4>1. \A k \in 1 .. Len(pend) : Words(pend[k]) \in Seq(CapWord)
        BY <3>2, <3>3 DEF OwnWords
      <4>2. QED
        BY <3>2, <4>1
    <3>5. caps' = FlattenSeq(ss)
      BY <2>2
    <3> HIDE DEF ss
    <3>6. /\ caps' \in Seq(CapWord)
          /\ \A i \in DOMAIN caps' : \E k \in 1 .. Len(pend) : \E j \in DOMAIN ss[k] : caps'[i] = ss[k][j]
      BY <3>4, <3>5, FlattenParts
    <3>7. QED
      BY <3>3, <3>6 DEF OwnWords
  <2>11. StepTrue' /\ TokensTrue'
    <3>1. ASSUME NEW l \in 1 .. li' - 1, l \notin Pending' PROVE SlotTrue(Index, l, recs[l])'
      <4>1. PICK s : s = recs[l]
        OBVIOUS
      <4>2. SlotTrue(t0, l, s)
        BY <2>1, <2>2, <2>3, <3>1, <4>1 DEF LoopInv, StepTrue
      <4>3. SlotTrue(t0, l, s)'
        BY <2>2, <2>3, <2>7, <3>1, <4>2, SlotKept
      <4>4. QED
        BY <2>1, <2>2, <2>3, <4>1, <4>3
    <3>2. ASSUME NEW t \in DOMAIN tokens, NEW l \in Layers PROVE SlotTrue(t, l, tokens[t][l])'
      <4>1. PICK s : s = tokens[t][l]
        OBVIOUS
      <4>2. SlotTrue(t, l, s)
        BY <4>1 DEF LoopInv, TokensTrue
      <4>3. t # t0
        BY <2>4 DEF LoopInv, Types
      <4>4. SlotTrue(t, l, s)'
        BY <2>2, <2>7, <4>2, <4>3, SlotKept
      <4>5. s = tokens'[t][l]
        BY <2>2, <4>1
      <4>6. QED
        BY <4>4, <4>5
    <3>3. QED
      BY <2>2, <3>1, <3>2 DEF StepTrue, TokensTrue
  <2>12. FlownBefore'
    <3>1. ASSUME NEW f \in flown \cup new
          PROVE  f.tok \in 1 .. Index /\ f.layer \in Layers /\ (f.tok = Index => f.layer < li)
      <4>1. CASE f \in flown
        BY <4>1 DEF LoopInv, FlownBefore
      <4>2. CASE f \in new
        <5>1. Index \in 1 .. Index /\ li \in Nat
          BY <2>1, <2>4, RunsAssumption DEF LoopInv, Types
        <5>2. f.tok = t0 /\ f.layer \in 1 .. li - 1 /\ f.layer \in Layers
          BY <2>3, <2>5, <4>2
        <5>3. f.layer < li
          BY <5>1, <5>2
        <5>4. QED
          BY <2>1, <5>1, <5>2, <5>3
      <4>3. QED
        BY <4>1, <4>2
    <3>2. QED
      BY <2>2, <2>3, <3>1 DEF FlownBefore
  <2>13. InFlight'
    <3>1. \A l \in P : recs[l] = NoRec
      BY <2>1, <2>2 DEF LoopInv, Queued
    <3>2. QED
      BY <2>1, <2>2, <2>3, <2>8, <2>9, <2>10, <3>1 DEF InFlight
  <2>14. Queued' /\ InWindows' /\ CountsTrue' /\ Referred' /\ Reported'
    BY <2>2, <2>3 DEF LoopInv, Queued, InWindows, CountsTrue, Referred, Reported, GoldenIds
  <2>15. InOrder'
    BY <2>2 DEF LoopInv, InOrder, Batched, FastGate, Walked, Probing
  <2>16. QED
    BY <2>3, <2>11, <2>12, <2>13, <2>14, <2>15 DEF LoopInv
<1>3. QED
  BY <1>1, <1>2

-----------------------------------------------------------------------------
\* As many layers wait as entries.
LEMMA PendingCount ==
  ASSUME Types
  PROVE  IsFiniteSet(Pending) /\ Cardinality(Pending) = Len(pend) /\ Len(pend) \in Nat
<1>1. pend \in Seq(Layers) /\ Len(pend) \in Nat /\ DOMAIN pend = 1 .. Len(pend)
  BY DEF Types
<1>2. IsFiniteSet(Pending)
  <2>1. IsFiniteSet(Layers)
    BY FS_Interval, RunsAssumption DEF Layers
  <2>2. Pending \subseteq Layers
    BY PendingBelow
  <2>3. QED
    BY <2>1, <2>2, FS_Subset
<1>3. pend \in [1 .. Len(pend) -> Pending]
  BY <1>1 DEF Pending, ToSet
<1>4. \A a, b \in 1 .. Len(pend) : pend[a] = pend[b] => a = b
  BY <1>1 DEF Types
<1>5. pend \in Injection(1 .. Len(pend), Pending)
  BY <1>1, <1>3, <1>4 DEF Injection, IsInjective
<1>6. pend \in Surjection(1 .. Len(pend), Pending)
  BY <1>1, <1>3 DEF Surjection, Pending, ToSet
<1>7. Cardinality(1 .. Len(pend)) = Cardinality(Pending)
  BY <1>2, <1>5, <1>6, FS_Injection
<1>8. Cardinality(1 .. Len(pend)) = Len(pend)
  <2>1. Cardinality(1 .. Len(pend)) = IF 1 > Len(pend) THEN 0 ELSE Len(pend) - 1 + 1
    BY <1>1, FS_Interval
  <2>2. QED
    BY <1>1, <2>1
<1>9. QED
  BY <1>1, <1>2, <1>7, <1>8

\* Records of a step written again: as many more as became ones that count.
LEMMA CountRewrite ==
  ASSUME NEW toks \in Seq(Seq(Rec)), NEW rs \in Seq(Rec), NEW rs2 \in Seq(Rec),
         Len(rs2) = Len(rs), Len(rs) <= NLayers, NEW c, NEW Q \in SUBSET (1 .. Len(rs)),
         \A l \in Q : rs[l] \notin Is(c),
         \A l \in 1 .. Len(rs) : rs2[l] \in Is(c) <=> rs[l] \in Is(c) \/ l \in Q
  PROVE  Cardinality(OfIn(Append(toks, rs2), c)) =
           Cardinality(OfIn(Append(toks, rs), c)) + Cardinality(Q)
<1> DEFINE n == Len(toks) + 1
           a == Append(toks, rs)
           b == Append(toks, rs2)
           N == {n} \X Q
<1>1. /\ a \in Seq(Seq(Rec)) /\ Len(a) = n
      /\ \A t \in 1 .. n : a[t] = IF t = n THEN rs ELSE toks[t]
  BY Appended
<1>2. /\ b \in Seq(Seq(Rec)) /\ Len(b) = n
      /\ \A t \in 1 .. n : b[t] = IF t = n THEN rs2 ELSE toks[t]
  BY Appended
<1>3. n \in Nat /\ n >= 1 /\ DOMAIN rs = 1 .. Len(rs) /\ DOMAIN rs2 = 1 .. Len(rs) /\ Len(rs) \in Nat
  OBVIOUS
<1> HIDE DEF a, b, n
<1>4. Q \subseteq Layers
  BY <1>3, RunsAssumption DEF Layers
<1>5. n \in 1 .. n
  BY <1>3
<1>6. N \subseteq (1 .. n) \X Layers /\ \A p \in N : p \notin OfIn(a, c) /\ p \in OfIn(b, c)
  BY <1>1, <1>2, <1>3, <1>4, <1>5 DEF OfIn
<1>7. ASSUME NEW p, p \notin N PROVE p \in OfIn(b, c) <=> p \in OfIn(a, c)
  <2>1. CASE p \in (1 .. n) \X Layers
    <3>1. PICK t \in 1 .. n, l \in Layers : p = <<t, l>>
      BY <2>1
    <3>2. CASE t = n
      <4>1. l \notin Q
        BY <1>7, <3>1, <3>2
      <4>2. l \in 1 .. Len(rs) => (rs2[l] \in Is(c) <=> rs[l] \in Is(c))
        BY <4>1
      <4>3. QED
        BY <1>1, <1>2, <1>3, <1>5, <3>1, <3>2, <4>2 DEF OfIn
    <3>3. CASE t # n
      <4>1. b[t] = a[t]
        BY <1>1, <1>2, <3>3
      <4>2. QED
        BY <1>1, <1>2, <3>1, <4>1 DEF OfIn
    <3>4. QED
      BY <3>2, <3>3
  <2>2. CASE p \notin (1 .. n) \X Layers
    BY <1>1, <1>2, <2>2 DEF OfIn
  <2>3. QED
    BY <2>1, <2>2
<1>8. IsFiniteSet(OfIn(a, c)) /\ Cardinality(OfIn(a, c)) \in Nat
  BY <1>1, OfInFinite
<1>9. IsFiniteSet(Q) /\ Cardinality(Q) \in Nat
  <2>1. IsFiniteSet(1 .. Len(rs))
    BY <1>3, FS_Interval
  <2>2. IsFiniteSet(Q)
    BY <2>1, FS_Subset
  <2>3. QED
    BY <2>2, FS_CardinalityType
<1>10. IsFiniteSet(N) /\ Cardinality(N) = Cardinality(Q)
  <2>1. IsFiniteSet({n}) /\ Cardinality({n}) = 1
    BY FS_Singleton
  <2>2. IsFiniteSet(N) /\ Cardinality(N) = Cardinality({n}) * Cardinality(Q)
    BY <1>9, <2>1, FS_Product
  <2>3. QED
    BY <1>9, <2>1, <2>2
<1>11. OfIn(b, c) = OfIn(a, c) \cup N /\ OfIn(a, c) \cap N = {}
  <2> DEFINE A == OfIn(a, c)
             B == OfIn(b, c)
  <2> HIDE DEF A, B, N
  <2>1. \A p \in N : p \notin A /\ p \in B
    BY <1>6 DEF A, B
  <2>2. \A p : p \notin N => (p \in B <=> p \in A)
    BY <1>7 DEF A, B
  <2>3. B = A \cup N /\ A \cap N = {}
    BY <2>1, <2>2
  <2>4. QED
    BY <2>3 DEF A, B
<1>12. Cardinality(OfIn(a, c) \cup N) =
         Cardinality(OfIn(a, c)) + Cardinality(N) - Cardinality(OfIn(a, c) \cap N)
  BY <1>8, <1>10, FS_Union
<1>13. Cardinality(OfIn(b, c)) = Cardinality(OfIn(a, c)) + Cardinality(Q)
  <2>1. Cardinality(OfIn(a, c) \cap N) = 0
    BY <1>11, FS_EmptySet
  <2> DEFINE A == OfIn(a, c)
  <2> HIDE DEF A, N
  <2>2. Cardinality(A \cup N) = Cardinality(A) + Cardinality(Q) - 0
    BY <1>10, <1>12, <2>1 DEF A
  <2>3. Cardinality(A) \in Nat /\ Cardinality(Q) \in Nat
    BY <1>8, <1>9 DEF A
  <2>4. Cardinality(A \cup N) = Cardinality(A) + Cardinality(Q)
    BY <2>2, <2>3
  <2>5. QED
    BY <1>11, <2>4 DEF A
<1>14. QED
  BY <1>13 DEF a, b

\* A slice of the batch graded exact: its chain was walked rightly.
LEMMA SliceEarns ==
  ASSUME LoopInv, phase = "slices", SlicesFit, NEW k \in 1 .. Len(pend),
         GradedExact(pend[k], Slice(k)), ~Ungraded
  PROVE  ChainRight(pend[k])
<1>1. /\ caps \in Seq(CapWord) /\ Tag # Wrong
      /\ \A i \in DOMAIN caps : caps[i][2] = "qkv" /\ caps[i][4] # Wrong => ChainRight(caps[i][1])
  BY TagIs DEF LoopInv, InFlight
<1>2. Slice(k) = Expected(pend[k])
  BY DEF GradedExact
<1>3. PICK j \in DOMAIN Slice(k) : Slice(k)[j] = <<pend[k], "qkv", 1, Tag>>
  BY <1>2, ExpectedHolds
<1> DEFINE n == NCaps
           lo == (k - 1) * n + 1
           hi == IF k * n < Len(caps) THEN k * n ELSE Len(caps)
<1>4. /\ n \in {2, 4} /\ Len(caps) = Len(pend) * n
      /\ Slice(k) = SubSeq(caps, lo, hi)
  BY DEF NCaps, FileCaps, SlicesFit, Slice
<1>5. k \in Nat /\ k >= 1 /\ Len(pend) \in Nat /\ k <= Len(pend) /\ Len(caps) \in Nat
  BY <1>1 DEF LoopInv, Types
<1> HIDE DEF n
<1>6. lo \in Int /\ hi \in Int /\ lo >= 1 /\ hi <= Len(caps)
  <2>1. CASE n = 2
    BY <1>5, <2>1
  <2>2. CASE n = 4
    BY <1>5, <2>2
  <2>3. QED
    BY <1>4, <2>1, <2>2
<1> HIDE DEF lo, hi
<1>7. \A i \in lo .. hi : i \in DOMAIN caps /\ caps[i] \in CapWord
  BY <1>1, <1>5, <1>6
<1>8. /\ SubSeq(caps, lo, hi) \in Seq(CapWord)
      /\ Len(SubSeq(caps, lo, hi)) = IF lo <= hi THEN hi - lo + 1 ELSE 0
      /\ \A i \in 1 .. hi - lo + 1 : SubSeq(caps, lo, hi)[i] = caps[lo + i - 1]
  BY <1>6, <1>7, SubSeqProperties
<1>9. j \in 1 .. hi - lo + 1
  <2> DEFINE s == SubSeq(caps, lo, hi)
  <2> HIDE DEF s
  <2>1. s \in Seq(CapWord) /\ Len(s) = (IF lo <= hi THEN hi - lo + 1 ELSE 0) /\ j \in DOMAIN s
    BY <1>3, <1>4, <1>8 DEF s
  <2>2. QED
    BY <1>6, <2>1
<1>10. lo + j - 1 \in lo .. hi
  BY <1>6, <1>9
<1>11. caps[lo + j - 1] = <<pend[k], "qkv", 1, Tag>> /\ lo + j - 1 \in DOMAIN caps
  BY <1>3, <1>4, <1>7, <1>8, <1>9, <1>10
<1>12. QED
  BY <1>1, <1>11

\* The rows of a step written again, in a step that flies nothing: the other
\* facts of the invariant.
LEMMA RowsRewritten ==
  ASSUME LoopInv, UNCHANGED run, tokens' = tokens, li' = li, verdict' = verdict, gen' = gen,
         recs' \in Seq(Rec), Len(recs') = Len(recs),
         pend' \in Seq(Layers), \A i \in DOMAIN pend' : pend'[i] < li,
         \A i, j \in DOMAIN pend' : pend'[i] = pend'[j] => i = j,
         \A f \in flown' \ flown : f.tok = Index /\ f.layer \in 1 .. li - 1 /\ f.layer \in Layers
  PROVE  Types' /\ FlownBefore' /\ Index' = Index
<1>1. args' = args /\ Index' = Index
  BY DEF run, Index
<1>2. Types'
  BY <1>1 DEF LoopInv, Types
<1>3. ASSUME NEW f \in flown'
      PROVE  f.tok \in 1 .. Index /\ f.layer \in Layers /\ (f.tok = Index => f.layer < li)
  <2>1. li \in Nat /\ Index \in 1 .. Index
    BY TagIs, RunsAssumption DEF LoopInv, Types
  <2>2. CASE f \in flown
    BY <2>2 DEF LoopInv, FlownBefore
  <2>3. CASE f \notin flown
    <3>1. f.tok = Index /\ f.layer \in 1 .. li - 1 /\ f.layer \in Layers
      BY <2>3
    <3>2. f.layer < li
      BY <2>1, <3>1
    <3>3. QED
      BY <2>1, <3>1, <3>2
  <2>4. QED
    BY <2>2, <2>3
<1>4. QED
  BY <1>1, <1>2, <1>3 DEF FlownBefore

\* The batch is graded, slice by slice.
LEMMA GradeKeeps ==
  ASSUME LoopInv, GradeBatch
  PROVE  LoopInv'
<1>1. CASE Refuse
  BY <1>1, RefuseKeeps DEF GradeBatch
<1>2. CASE ~Refuse
  <2>1. PICK t0, P, r : t0 = Index /\ P = Pending /\ r = Record
    OBVIOUS
  <2>2. /\ phase = "slices" /\ SlicesFit /\ \A k \in 1 .. Len(pend) : GradedExact(pend[k], Slice(k))
        /\ phase' = (IF args.ffn THEN "windows" ELSE "head")
        /\ recs' = [l \in DOMAIN recs |-> IF l \in P THEN r ELSE recs[l]]
        /\ pend' = (IF args.ffn THEN pend ELSE << >>)
        /\ CountChains(Len(pend), 0)
        /\ flown' = flown
        /\ args' = args /\ world' = world /\ tokens' = tokens /\ li' = li
        /\ verdict' = verdict /\ ref' = ref /\ gen' = gen
        /\ UNCHANGED run
    BY <1>2, <2>1 DEF GradeBatch, run, decode, Pending
  <2>3. /\ r \in Rec /\ r.walk = (IF Ungraded THEN "ungraded" ELSE "exact") /\ r.ffn = "none"
        /\ r.macs = (IF r.walk = "exact" THEN ChainMacs ELSE 0)
        /\ r.refused = FALSE /\ r.skipped = FALSE
        /\ \A c \in Measures : r \in Is(c) <=> c = (IF Ungraded THEN "ungraded" ELSE "walked")
    BY <2>1, RecordIs
  <2>4. /\ P \subseteq 1 .. li - 1 /\ P \subseteq Layers /\ \A l \in P : recs[l] = NoRec
        /\ recs \in Seq(Rec) /\ Len(recs) = li - 1 /\ li = NLayers + 1 /\ li \in Nat
        /\ tokens \in Seq(Seq(Rec))
    BY <2>1, <2>2, PendingBelow, RunsAssumption DEF LoopInv, Types, InFlight, InOrder
  <2>5. DOMAIN recs = 1 .. li - 1 /\ Len(recs) \in Nat
    BY <2>4
  <2>6. /\ recs' \in Seq(Rec) /\ Len(recs') = Len(recs)
        /\ \A l \in 1 .. li - 1 : recs'[l] = IF l \in P THEN r ELSE recs[l]
    <3> DEFINE n == Len(recs)
               row == [l \in 1 .. n |-> IF l \in P THEN r ELSE recs[l]]
    <3>1. recs' = row /\ n \in Nat /\ n = li - 1
      BY <2>2, <2>4, <2>5
    <3>2. \A l \in 1 .. n : recs[l] \in Rec
      BY <2>4
    <3> HIDE DEF n
    <3>3. row \in Seq(Rec) /\ Len(row) = n /\ \A l \in 1 .. n : row[l] = IF l \in P THEN r ELSE recs[l]
      BY <2>3, <3>1, <3>2
    <3> HIDE DEF row
    <3>4. QED
      BY <3>1, <3>3 DEF n
  <2>7. /\ pend' \in Seq(Layers) /\ \A i \in DOMAIN pend' : pend'[i] < li
        /\ \A i, j \in DOMAIN pend' : pend'[i] = pend'[j] => i = j
        /\ Pending' = IF args.ffn THEN P ELSE {}
    BY <2>1, <2>2 DEF LoopInv, Types, Pending, ToSet
  <2>8. Types' /\ FlownBefore' /\ Index' = Index
    BY <2>2, <2>6, <2>7, RowsRewritten
  <2>9. \A t, l, win : Flew(t, l, win)' = Flew(t, l, win)
    BY <2>2 DEF Flew
  <2>10. ASSUME NEW l \in P PROVE SlotTrue(t0, l, r)
    <3>1. PICK k \in 1 .. Len(pend) : l = pend[k]
      BY <2>1 DEF LoopInv, Types, Pending, ToSet
    <3>2. ~Ungraded => ChainRight(l)
      BY <2>2, <3>1, SliceEarns
    <3>3. Flew(t0, l, "chain") = {ChainFlown(l)} /\ Flew(t0, l, "ffn") = {}
      BY <2>1, <2>2 DEF LoopInv, InFlight
    <3>4. Graded(t0) <=> ~Ungraded
      BY <2>1 DEF Graded, Ungraded
    <3>5. ChainFlown(l).right = ChainRight(l)
      BY ChainFlownIs
    <3>6. /\ r.walk = IF Flew(t0, l, "chain") = {} THEN "none" ELSE IF Graded(t0) THEN "exact" ELSE "ungraded"
          /\ Graded(t0) => \A f \in Flew(t0, l, "chain") : f.right
          /\ r.ffn = "exact" <=> Flew(t0, l, "ffn") # {}
          /\ \A f \in Flew(t0, l, "ffn") : f.right
      BY <2>3, <3>2, <3>3, <3>4, <3>5
    <3>7. r.macs = (IF r.walk = "exact" THEN ChainMacs ELSE 0) + (IF r.ffn = "exact" THEN 1 ELSE 0)
      <4>1. ChainMacs \in Nat
        BY DEF ChainMacs
      <4>2. QED
        BY <2>3, <4>1
    <3>8. r.walk # "none"
      BY <2>3
    <3>9. QED
      BY <2>3, <3>3, <3>6, <3>7, <3>8 DEF SlotTrue
  <2>11. ASSUME NEW l \in 1 .. li - 1 PROVE SlotTrue(Index, l, recs[l])'
    <3>1. PICK s : s = recs'[l]
      OBVIOUS
    <3>2. SlotTrue(t0, l, s)
      <4>1. CASE l \in P
        BY <2>6, <2>10, <3>1, <4>1
      <4>2. CASE l \notin P
        BY <2>1, <2>6, <3>1, <4>2 DEF LoopInv, StepTrue
      <4>3. QED
        BY <4>1, <4>2
    <3>3. SlotTrue(t0, l, s)'
      BY <2>2, <2>9, <3>2, SlotKept
    <3>4. QED
      BY <2>1, <2>8, <3>1, <3>3
  <2>12. ASSUME NEW t \in DOMAIN tokens, NEW l \in Layers PROVE SlotTrue(t, l, tokens[t][l])'
    <3>1. PICK s : s = tokens[t][l]
      OBVIOUS
    <3>2. SlotTrue(t, l, s)
      BY <3>1 DEF LoopInv, TokensTrue
    <3>3. SlotTrue(t, l, s)'
      BY <2>2, <2>9, <3>2, SlotKept
    <3>4. s = tokens'[t][l]
      BY <2>2, <3>1
    <3>5. QED
      BY <3>3, <3>4
  <2>13. StepTrue' /\ TokensTrue'
    BY <2>2, <2>11, <2>12 DEF StepTrue, TokensTrue
  <2>14. InWindows'
    <3>1. \A l \in P : recs'[l] = r
      BY <2>4, <2>6
    <3>2. ASSUME NEW l \in Pending' PROVE SlotTrue(Index, l, recs[l])' /\ recs'[l].ffn = "none"
      <4>1. l \in P
        BY <2>7, <3>2
      <4>2. l \in 1 .. li - 1
        BY <2>4, <4>1
      <4>3. QED
        BY <2>3, <2>11, <3>1, <4>1, <4>2
    <3>3. QED
      BY <3>2 DEF InWindows
  <2>15. InOrder'
    BY <2>2, <2>4 DEF LoopInv, InOrder, Batched, FastGate, Walked, Probing
  <2>16. Queued' /\ InFlight' /\ Referred' /\ Reported'
    BY <2>2 DEF LoopInv, Queued, InFlight, Referred, Reported, GoldenIds
  <2>17. CountsTrue'
    <3>1. /\ DOMAIN counts = Measures
          /\ \A c \in Measures : counts[c] = Cardinality(OfIn(Table, c)) /\ counts[c] \in Nat
      BY CountsAre
    <3>2. Cardinality(P) = Len(pend) /\ Len(pend) \in Nat /\ Cardinality({}) = 0
      BY <2>1, PendingCount, FS_EmptySet DEF LoopInv
    <3>3. ASSUME NEW c \in Measures
          PROVE  Cardinality(OfIn(Table', c)) = Cardinality(OfIn(Table, c)) + (IF r \in Is(c) THEN Len(pend) ELSE 0)
      <4>1. PICK Q : Q = IF r \in Is(c) THEN P ELSE {}
        OBVIOUS
      <4>2. PICK rs2 : rs2 = recs'
        OBVIOUS
      <4>3. Q \in SUBSET (1 .. Len(recs)) /\ Len(recs) <= NLayers
        BY <2>4, <4>1, RunsAssumption
      <4>4. \A l \in Q : recs[l] \notin Is(c)
        BY <2>4, <4>1, NoRecIs
      <4>5. \A l \in 1 .. Len(recs) : rs2[l] \in Is(c) <=> recs[l] \in Is(c) \/ l \in Q
        BY <2>4, <2>6, <4>1, <4>2, NoRecIs
      <4>6. Cardinality(OfIn(Append(tokens, rs2), c)) = Cardinality(OfIn(Append(tokens, recs), c)) + Cardinality(Q)
        <5>1. tokens \in Seq(Seq(Rec)) /\ recs \in Seq(Rec) /\ rs2 \in Seq(Rec) /\ Len(rs2) = Len(recs)
          BY <2>4, <2>6, <4>2
        <5>2. QED
          BY <4>3, <4>4, <4>5, <5>1, CountRewrite
      <4>7. Table' = Append(tokens, rs2) /\ Table = Append(tokens, recs)
        BY <2>2, <4>2 DEF Table
      <4>8. QED
        BY <3>2, <4>1, <4>6, <4>7
    <3>4. DOMAIN counts' = Measures
          /\ \A c \in Measures : counts'[c] = counts[c] + (IF r \in Is(c) THEN Len(pend) ELSE 0)
      <4>1. CASE Ungraded
        <5>1. counts' = [counts EXCEPT !.ungraded = @ + Len(pend)]
          BY <2>2, <4>1 DEF CountChains
        <5>2. DOMAIN counts' = Measures
              /\ \A c \in Measures : counts'[c] = IF c = "ungraded" THEN counts[c] + Len(pend) ELSE counts[c]
          BY <3>1, <5>1
        <5>3. QED
          BY <2>3, <3>1, <4>1, <5>2
      <4>2. CASE ~Ungraded
        <5>1. counts' = [counts EXCEPT !.walked = @ + Len(pend), !.windows = @ + 0]
          BY <2>2, <4>2 DEF CountChains
        <5>2. DOMAIN counts' = Measures
              /\ \A c \in Measures : counts'[c] = IF c = "walked" THEN counts[c] + Len(pend)
                                                  ELSE IF c = "windows" THEN counts[c] + 0 ELSE counts[c]
          BY <3>1, <5>1
        <5>3. QED
          BY <2>3, <3>1, <4>2, <5>2
      <4>3. QED
        BY <4>1, <4>2
    <3>5. QED
      BY <3>1, <3>3, <3>4 DEF CountsTrue
  <2>18. QED
    BY <2>8, <2>13, <2>14, <2>15, <2>16, <2>17 DEF LoopInv
<1>3. QED
  BY <1>1, <1>2

\* The FFN windows of a step, one entry after the other.
LEMMA WindowKeeps ==
  ASSUME LoopInv, Window
  PROVE  LoopInv'
<1>1. /\ phase = "windows" /\ li = NLayers + 1
      /\ args' = args /\ world' = world /\ tokens' = tokens /\ li' = li
      /\ verdict' = verdict /\ ref' = ref /\ gen' = gen
      /\ UNCHANGED run
  BY DEF Window, run, decode, LoopInv, InOrder
<1>2. CASE pend = << >> \/ FfnFails(Head(pend))
  <2>1. /\ phase' \in {"head", "refused"} /\ (pend # << >> => phase' = "refused")
        /\ UNCHANGED <<recs, pend, counts, flown>>
    BY <1>2 DEF Window
  <2>2. InOrder'
    BY <1>1, <2>1 DEF LoopInv, InOrder, Batched, FastGate, Walked, Probing
  <2>3. Referred'
    BY <1>1, <2>1 DEF LoopInv, Referred, GoldenIds
  <2>4. QED
    BY <1>1, <2>1, <2>2, <2>3, StillKeeps
<1>3. CASE pend # << >> /\ ~FfnFails(Head(pend))
  <2>1. PICK t0, P, h, x, r, ff : /\ t0 = Index /\ P = Pending /\ h = Head(pend) /\ x = recs[h]
                                  /\ r = WithFfn(x, h) /\ ff = FfnFlown(h)
    OBVIOUS
  <2>2. /\ recs' = [recs EXCEPT ![h] = r] /\ flown' = flown \cup ff
        /\ Count("windows", Cardinality(ff))
        /\ pend' = Tail(pend) /\ phase' = "windows"
    BY <1>1, <1>3, <2>1 DEF Window
  <2>3. /\ pend \in Seq(Layers) /\ recs \in Seq(Rec) /\ Len(recs) = li - 1 /\ li \in Nat
        /\ tokens \in Seq(Seq(Rec)) /\ P \subseteq 1 .. li - 1 /\ P \subseteq Layers
    BY <2>1, PendingBelow, RunsAssumption DEF LoopInv, Types
  <2>4. DOMAIN recs = 1 .. li - 1 /\ Len(recs) \in Nat
    BY <2>3
  <2>5. /\ pend' \in Seq(Layers) /\ Len(pend) \in Nat /\ Len(pend) >= 1 /\ Len(pend') = Len(pend) - 1
        /\ h = pend[1] /\ \A i \in 1 .. Len(pend') : pend'[i] = pend[i + 1]
    BY <1>3, <2>1, <2>2, <2>3
  <2>6. DOMAIN pend = 1 .. Len(pend) /\ DOMAIN pend' = 1 .. Len(pend) - 1
    BY <2>3, <2>5
  <2>7. /\ \A i \in DOMAIN pend' : pend'[i] < li /\ pend'[i] # h /\ pend'[i] \in P
        /\ \A i, j \in DOMAIN pend' : pend'[i] = pend'[j] => i = j
        /\ \A l \in P : l # h => \E i \in DOMAIN pend' : pend'[i] = l
        /\ h \in P
    <3>1. /\ \A i \in 1 .. Len(pend) : pend[i] < li
          /\ \A i, j \in 1 .. Len(pend) : pend[i] = pend[j] => i = j
          /\ P = {pend[i] : i \in 1 .. Len(pend)}
      BY <2>1, <2>6 DEF LoopInv, Types, Pending, ToSet
    <3>2. \A i \in 1 .. Len(pend) - 1 : i + 1 \in 1 .. Len(pend) /\ i + 1 # 1 /\ pend'[i] = pend[i + 1]
      BY <2>5
    <3>3. 1 \in 1 .. Len(pend)
      BY <2>5
    <3>4. \A i \in DOMAIN pend' : pend'[i] < li /\ pend'[i] # h /\ pend'[i] \in P
      BY <2>5, <2>6, <3>1, <3>2, <3>3
    <3>5. ASSUME NEW i \in DOMAIN pend', NEW j \in DOMAIN pend', pend'[i] = pend'[j] PROVE i = j
      <4>1. i + 1 = j + 1
        BY <2>6, <3>1, <3>2, <3>5
      <4>2. QED
        BY <2>5, <2>6, <4>1
    <3>6. ASSUME NEW l \in P, l # h PROVE \E i \in DOMAIN pend' : pend'[i] = l
      <4>1. PICK k \in 1 .. Len(pend) : pend[k] = l
        BY <3>1
      <4>2. k # 1 /\ k - 1 \in 1 .. Len(pend) - 1 /\ (k - 1) + 1 = k
        BY <2>5, <3>6, <4>1
      <4>3. QED
        BY <2>6, <3>2, <4>1, <4>2
    <3>7. h \in P
      BY <2>5, <3>1, <3>3
    <3>8. QED
      BY <3>4, <3>5, <3>6, <3>7
  <2>8. Pending' = P \ {h}
    <3>1. Pending' = {pend'[i] : i \in DOMAIN pend'}
      BY DEF Pending, ToSet
    <3>2. QED
      BY <2>7, <3>1
  <2>9. x \in Rec /\ x.ffn = "none" /\ SlotTrue(t0, h, x)
    <3>1. x \in Rec
      BY <2>1, <2>3, <2>4, <2>7
    <3>2. QED
      BY <1>1, <2>1, <2>7, <3>1 DEF LoopInv, InWindows
  <2>10. /\ r \in Rec /\ r.walk = x.walk /\ r.refused = x.refused /\ r.skipped = x.skipped
         /\ r.ffn = "exact" <=> args.ffn /\ ~FfnRefused(h)
         /\ r.macs = x.macs + (IF r.ffn = "exact" THEN 1 ELSE 0)
         /\ \A c \in Measures : r \in Is(c) <=> x \in Is(c) \/ (c = "windows" /\ r.ffn = "exact")
    BY <2>1, <2>9, WithFfnIs
  <2>11. /\ ff # {} <=> r.ffn = "exact"
         /\ Cardinality(ff) = IF r.ffn = "exact" THEN 1 ELSE 0
         /\ \A f \in ff : f.tok = t0 /\ f.layer = h /\ f.win = "ffn" /\ f.right = TRUE
    <3>1. /\ FfnFlown(h) # {} <=> args.ffn /\ ~FfnRefused(h)
          /\ \A f \in FfnFlown(h) : f.tok = Index /\ f.layer = h /\ f.win = "ffn" /\ f.right = TRUE
          /\ Cardinality(FfnFlown(h)) = IF args.ffn /\ ~FfnRefused(h) THEN 1 ELSE 0
      BY <1>3, <2>1, FfnFlownIs
    <3>2. ff = FfnFlown(h)
      BY <2>1
    <3>3. /\ ff # {} <=> r.ffn = "exact"
          /\ Cardinality(ff) = IF r.ffn = "exact" THEN 1 ELSE 0
      BY <2>10, <3>1, <3>2
    <3>4. \A f \in ff : f.tok = t0 /\ f.layer = h /\ f.win = "ffn" /\ f.right = TRUE
      BY <2>1, <3>1, <3>2
    <3>5. QED
      BY <3>3, <3>4
  <2>12. /\ recs' \in Seq(Rec) /\ Len(recs') = Len(recs)
         /\ \A l \in 1 .. li - 1 : recs'[l] = IF l = h THEN r ELSE recs[l]
    BY <2>2, <2>3, <2>4, <2>7, <2>10
  <2>13. Types' /\ FlownBefore' /\ Index' = Index
    <3>1. \A i \in DOMAIN pend' : pend'[i] < li
      BY <2>7
    <3>2. \A f \in flown' \ flown : f.tok = Index /\ f.layer \in 1 .. li - 1 /\ f.layer \in Layers
      BY <2>1, <2>2, <2>3, <2>7, <2>11
    <3>3. QED
      BY <1>1, <2>5, <2>7, <2>12, <3>1, <3>2, RowsRewritten
  <2>14. /\ \A t, l, win : t # t0 \/ l # h \/ win # "ffn" => Flew(t, l, win)' = Flew(t, l, win)
         /\ Flew(t0, h, "ffn")' = ff
    <3>1. \A t, l, win : Flew(t, l, win)' = {f \in flown \cup ff : f.tok = t /\ f.layer = l /\ f.win = win}
      BY <2>2 DEF Flew
    <3>2. ASSUME NEW t, NEW l, NEW win, t # t0 \/ l # h \/ win # "ffn" PROVE Flew(t, l, win)' = Flew(t, l, win)
      <4>1. \A f \in ff : ~(f.tok = t /\ f.layer = l /\ f.win = win)
        BY <2>11, <3>2
      <4>2. QED
        BY <3>1, <4>1 DEF Flew
    <3>3. Flew(t0, h, "ffn") = {}
      BY <2>9 DEF SlotTrue
    <3>4. Flew(t0, h, "ffn")' = ff
      BY <2>11, <3>1, <3>3 DEF Flew
    <3>5. QED
      BY <3>2, <3>4
  <2>15. SlotTrue(t0, h, r)'
    <3>1. /\ Graded(t0)' = Graded(t0) /\ ChainMacs' = ChainMacs /\ Walked' = Walked
          /\ Asked(t0, h)' = Asked(t0, h) /\ SubjectKept(t0, h)' = SubjectKept(t0, h)
      BY <1>1 DEF Graded, ChainMacs, Walked, Asked, Probing, StepOf, SubjectKept
    <3>2. Flew(t0, h, "chain")' = Flew(t0, h, "chain") /\ Flew(t0, h, "ffn")' = ff
      BY <2>14
    <3>3. r.macs = (IF r.walk = "exact" THEN ChainMacs ELSE 0) + (IF r.ffn = "exact" THEN 1 ELSE 0)
      <4>1. ChainMacs \in Nat
        BY DEF ChainMacs
      <4>2. x.macs = IF x.walk = "exact" THEN ChainMacs ELSE 0
        BY <2>9, <4>1 DEF SlotTrue
      <4>3. QED
        BY <2>10, <4>2
    <3>4. /\ r.walk = IF Flew(t0, h, "chain") = {} THEN "none" ELSE IF Graded(t0) THEN "exact" ELSE "ungraded"
          /\ Graded(t0) => \A f \in Flew(t0, h, "chain") : f.right
          /\ ~(r.refused /\ r.skipped)
          /\ r.refused \/ r.skipped => r.walk = "none"
          /\ Walked /\ r.walk = "none" => r.refused \/ r.skipped
          /\ Asked(t0, h) /\ SubjectKept(t0, h) => Flew(t0, h, "chain") # {}
      BY <2>9, <2>10 DEF SlotTrue
    <3>5. QED
      BY <2>11, <3>1, <3>2, <3>3, <3>4 DEF SlotTrue
  <2>16. ASSUME NEW l \in 1 .. li - 1, l # h, SlotTrue(Index, l, recs[l])
         PROVE  SlotTrue(Index, l, recs[l])'
    <3>1. PICK s : s = recs[l]
      OBVIOUS
    <3>2. SlotTrue(t0, l, s)'
      BY <1>1, <2>1, <2>14, <2>16, <3>1, SlotKept
    <3>3. s = recs'[l]
      BY <2>12, <2>16, <3>1
    <3>4. QED
      BY <2>1, <2>13, <3>2, <3>3
  <2>18. StepTrue'
    <3>1. ASSUME NEW l \in 1 .. li - 1, l \notin Pending' PROVE SlotTrue(Index, l, recs[l])'
      <4>1. CASE l = h
        <5>1. recs'[l] = r
          BY <2>12, <4>1
        <5>2. QED
          BY <2>1, <2>13, <2>15, <4>1, <5>1
      <4>2. CASE l # h
        <5>1. SlotTrue(Index, l, recs[l])
          BY <2>1, <2>8, <3>1, <4>2 DEF LoopInv, StepTrue
        <5>2. QED
          BY <2>16, <4>2, <5>1
      <4>3. QED
        BY <4>1, <4>2
    <3>2. QED
      BY <1>1, <3>1 DEF StepTrue
  <2>19. TokensTrue'
    <3>1. ASSUME NEW t \in DOMAIN tokens, NEW l \in Layers PROVE SlotTrue(t, l, tokens[t][l])'
      <4>1. PICK s : s = tokens[t][l]
        OBVIOUS
      <4>2. SlotTrue(t, l, s)
        BY <4>1 DEF LoopInv, TokensTrue
      <4>3. t # t0
        BY <2>1, <2>3, TagIs DEF LoopInv
      <4>4. SlotTrue(t, l, s)'
        BY <1>1, <2>14, <4>2, <4>3, SlotKept
      <4>5. s = tokens'[t][l]
        BY <1>1, <4>1
      <4>6. QED
        BY <4>4, <4>5
    <3>2. QED
      BY <1>1, <3>1 DEF TokensTrue
  <2>20. InWindows'
    <3>1. ASSUME NEW l \in Pending' PROVE SlotTrue(Index, l, recs[l])' /\ recs'[l].ffn = "none"
      <4>1. l \in P /\ l # h /\ l \in 1 .. li - 1
        BY <2>3, <2>8, <3>1
      <4>2. SlotTrue(Index, l, recs[l]) /\ recs[l].ffn = "none"
        BY <1>1, <2>1, <4>1 DEF LoopInv, InWindows
      <4>3. recs'[l] = recs[l]
        BY <2>12, <4>1
      <4>4. QED
        BY <2>16, <4>1, <4>2, <4>3
    <3>2. QED
      BY <3>1 DEF InWindows
  <2>21. InOrder'
    BY <1>1, <1>3, <2>2 DEF LoopInv, InOrder, Batched, FastGate, Walked, Probing
  <2>22. Queued' /\ InFlight' /\ Referred' /\ Reported'
    BY <1>1, <2>2 DEF LoopInv, Queued, InFlight, Referred, Reported, GoldenIds
  <2>23. CountsTrue'
    <3>1. /\ DOMAIN counts = Measures
          /\ \A c \in Measures : counts[c] = Cardinality(OfIn(Table, c)) /\ counts[c] \in Nat
      BY CountsAre
    <3>2. ASSUME NEW c \in Measures
          PROVE  Cardinality(OfIn(Table', c)) = Cardinality(OfIn(Table, c)) + (IF c = "windows" THEN Cardinality(ff) ELSE 0)
      <4>1. PICK Q, rs2 : rs2 = recs' /\ Q = IF c = "windows" /\ r.ffn = "exact" THEN {h} ELSE {}
        OBVIOUS
      <4>2. Cardinality(Q) = IF c = "windows" THEN Cardinality(ff) ELSE 0
        BY <2>11, <4>1, FS_Singleton, FS_EmptySet
      <4>3. Q \in SUBSET (1 .. Len(recs)) /\ Len(recs) <= NLayers
        BY <1>1, <2>3, <2>7, <4>1, RunsAssumption
      <4>4. \A l \in Q : recs[l] \notin Is(c)
        BY <2>1, <2>9, <4>1 DEF Is
      <4>5. \A l \in 1 .. Len(recs) : rs2[l] \in Is(c) <=> recs[l] \in Is(c) \/ l \in Q
        BY <2>1, <2>3, <2>10, <2>12, <4>1
      <4>6. tokens \in Seq(Seq(Rec)) /\ recs \in Seq(Rec) /\ rs2 \in Seq(Rec) /\ Len(rs2) = Len(recs)
        BY <2>3, <2>12, <4>1
      <4>7. Cardinality(OfIn(Append(tokens, rs2), c)) = Cardinality(OfIn(Append(tokens, recs), c)) + Cardinality(Q)
        BY <4>3, <4>4, <4>5, <4>6, CountRewrite
      <4>8. Table' = Append(tokens, rs2) /\ Table = Append(tokens, recs)
        BY <1>1, <4>1 DEF Table
      <4>9. QED
        BY <4>2, <4>7, <4>8
    <3>3. counts' = [counts EXCEPT !["windows"] = @ + Cardinality(ff)]
      BY <2>2 DEF Count
    <3>4. DOMAIN counts' = Measures
          /\ \A c \in Measures : counts'[c] = IF c = "windows" THEN counts[c] + Cardinality(ff) ELSE counts[c]
      BY <3>1, <3>3
    <3>5. QED
      BY <3>1, <3>2, <3>4 DEF CountsTrue
  <2>24. QED
    BY <2>13, <2>18, <2>19, <2>20, <2>21, <2>22, <2>23 DEF LoopInv
<1>4. QED
  BY <1>2, <1>3

-----------------------------------------------------------------------------
\* A token's layers become its record: nothing is counted twice, nothing lost.
LEMMA CountClose ==
  ASSUME NEW tab \in Seq(Seq(Rec)), NEW c
  PROVE  OfIn(Append(tab, << >>), c) = OfIn(tab, c)
<1>1. << >> \in Seq(Rec) /\ DOMAIN << >> = {}
  OBVIOUS
<1> DEFINE none == << >>
           n == Len(tab)
           b == Append(tab, none)
<1>2. none \in Seq(Rec) /\ DOMAIN none = {}
  BY <1>1
<1> HIDE DEF none
<1>3. /\ n \in Nat /\ Len(b) = n + 1
      /\ \A i \in 1 .. n + 1 : b[i] = IF i = n + 1 THEN none ELSE tab[i]
  BY <1>2, Appended
<1> HIDE DEF b, n
<1>4. ASSUME NEW t \in 1 .. n + 1, NEW l \in Layers
      PROVE  <<t, l>> \in OfIn(b, c) <=> <<t, l>> \in OfIn(tab, c)
  <2>1. CASE t = n + 1
    <3>1. b[t] = none /\ t \notin 1 .. n
      BY <1>3, <2>1
    <3>2. QED
      BY <1>2, <3>1 DEF OfIn, n
  <2>2. CASE t # n + 1
    <3>1. b[t] = tab[t] /\ t \in 1 .. n
      BY <1>3, <2>2
    <3>2. QED
      BY <1>3, <3>1 DEF OfIn, n
  <2>3. QED
    BY <2>1, <2>2
<1>5. OfIn(b, c) \subseteq (1 .. n + 1) \X Layers /\ OfIn(tab, c) \subseteq (1 .. n + 1) \X Layers
  <2>1. 1 .. n \subseteq 1 .. n + 1
    BY <1>3
  <2>2. QED
    BY <1>3, <2>1 DEF OfIn, n
<1>6. OfIn(b, c) = OfIn(tab, c)
  <2> DEFINE A == OfIn(tab, c)
             B == OfIn(b, c)
             U == (1 .. n + 1) \X Layers
  <2>1. ASSUME NEW p \in U PROVE p \in B <=> p \in A
    <3>1. PICK t \in 1 .. n + 1, l \in Layers : p = <<t, l>>
      OBVIOUS
    <3>2. QED
      BY <1>4, <3>1
  <2>2. A \subseteq U /\ B \subseteq U
    BY <1>5
  <2> HIDE DEF A, B, U
  <2>3. A = B
    BY <2>1, <2>2
  <2>4. QED
    BY <2>3 DEF A, B
<1>7. QED
  BY <1>6 DEF b, none

\* A token is sampled.
LEMMA TokenKeeps ==
  ASSUME LoopInv, Sample
  PROVE  LoopInv'
<1>1. CASE Refuse
  BY <1>1, RefuseKeeps DEF Sample
<1>2. CASE ~Refuse
  <2>1. /\ phase = "head" /\ phase' \in {"report", "layers"}
        /\ tokens' = Append(tokens, recs) /\ li' = 1 /\ recs' = << >>
        /\ pend' = pend /\ counts' = counts /\ flown' = flown /\ verdict' = verdict /\ ref' = ref
        /\ args' = args /\ world' = world /\ UNCHANGED run
    BY <1>2 DEF Sample, run
  <2>2. /\ pend = << >> /\ li = NLayers + 1 /\ NLayers \in Nat /\ Pending = {}
        /\ args \in Runs /\ tokens \in Seq(Seq(Rec)) /\ recs \in Seq(Rec) /\ Len(recs) = NLayers
    BY <2>1, RunsAssumption DEF LoopInv, InOrder, Types, Pending, ToSet
  <2>3. PICK n, rs : n = Len(tokens) + 1 /\ rs = recs
    OBVIOUS
  <2>4. /\ tokens' \in Seq(Seq(Rec)) /\ Len(tokens') = n /\ DOMAIN tokens' = 1 .. n /\ n \in Nat /\ n >= 1
        /\ \A t \in 1 .. n : tokens'[t] = IF t = n THEN rs ELSE tokens[t]
    BY <2>1, <2>2, <2>3, Appended
  <2>5. Index = n /\ Index' = n + 1
    BY <2>3, <2>4 DEF Index
  <2>6. DOMAIN tokens = 1 .. n - 1
    BY <2>2, <2>3
  <2>7. Types'
    <3>1. \A t \in DOMAIN tokens' : Len(tokens'[t]) = NLayers
      <4>1. \A t \in 1 .. n - 1 : Len(tokens[t]) = NLayers
        BY <2>6 DEF LoopInv, Types
      <4>2. \A t \in 1 .. n : t = n \/ t \in 1 .. n - 1
        BY <2>4
      <4>3. QED
        BY <2>2, <2>3, <2>4, <4>1, <4>2
    <3>2. << >> \in Seq(Rec) /\ Len(<< >>) = 0 /\ << >> \in Seq(Layers) /\ DOMAIN << >> = {}
      OBVIOUS
    <3>3. li' \in 1 .. NLayers + 1 /\ Len(recs') = li' - 1
      BY <2>1, <2>2, <3>2
    <3>4. QED
      BY <2>1, <2>2, <2>4, <3>1, <3>2, <3>3 DEF Types
  <2>8. FlownBefore'
    <3>1. ASSUME NEW f \in flown
          PROVE  f.tok \in 1 .. n + 1 /\ f.layer \in Layers /\ (f.tok = n + 1 => f.layer < 1)
      <4>1. f.tok \in 1 .. n /\ f.layer \in Layers
        BY <2>5 DEF LoopInv, FlownBefore
      <4>2. f.tok \in 1 .. n + 1 /\ f.tok # n + 1
        BY <2>4, <4>1
      <4>3. QED
        BY <4>1, <4>2
    <3>2. QED
      BY <2>1, <2>5, <3>1 DEF FlownBefore
  <2>9. Pending' = {}
    BY <2>1, <2>2 DEF Pending
  <2>10. Queued' /\ InFlight' /\ InWindows' /\ StepTrue'
    <3>1. StepTrue'
      BY <2>1 DEF StepTrue
    <3>2. QED
      BY <2>1, <2>9, <3>1 DEF Queued, InFlight, InWindows
  <2>11. TokensTrue'
    <3>1. \A t, l, win : Flew(t, l, win)' = Flew(t, l, win)
      BY <2>1 DEF Flew
    <3>2. ASSUME NEW t \in 1 .. n, NEW l \in Layers PROVE SlotTrue(t, l, tokens[t][l])'
      <4>1. PICK s : s = tokens'[t][l]
        OBVIOUS
      <4>2. SlotTrue(t, l, s)
        <5>1. CASE t = n
          <6>1. l \in 1 .. li - 1
            BY <2>2 DEF Layers
          <6>2. SlotTrue(Index, l, recs[l])
            BY <2>2, <6>1 DEF LoopInv, StepTrue
          <6>3. s = recs[l]
            BY <2>3, <2>4, <4>1, <5>1
          <6>4. QED
            BY <2>5, <5>1, <6>2, <6>3
        <5>2. CASE t # n
          <6>1. t \in DOMAIN tokens
            BY <2>4, <2>6, <5>2
          <6>2. s = tokens[t][l]
            BY <2>4, <4>1, <5>2
          <6>3. QED
            BY <6>1, <6>2 DEF LoopInv, TokensTrue
        <5>3. QED
          BY <5>1, <5>2
      <4>3. SlotTrue(t, l, s)'
        BY <2>1, <3>1, <4>2, SlotKept
      <4>4. QED
        BY <4>1, <4>3
    <3>3. QED
      BY <2>4, <3>2 DEF TokensTrue
  <2>12. CountsTrue'
    <3>1. /\ DOMAIN counts = Measures /\ Table \in Seq(Seq(Rec))
          /\ \A c \in Measures : counts[c] = Cardinality(OfIn(Table, c)) /\ counts[c] \in Nat
      BY CountsAre
    <3>2. Table' = Append(Table, << >>)
      BY <2>1 DEF Table
    <3>3. \A c : OfIn(Table', c) = OfIn(Table, c)
      BY <3>1, <3>2, CountClose
    <3>4. QED
      BY <2>1, <3>1, <3>3 DEF CountsTrue
  <2>13. InOrder'
    BY <2>1, <2>2 DEF LoopInv, InOrder, Batched, FastGate, Walked, Probing
  <2>14. Referred' /\ Reported'
    BY <2>1 DEF LoopInv, Referred, Reported, GoldenIds
  <2>15. QED
    BY <2>7, <2>8, <2>10, <2>11, <2>12, <2>13, <2>14 DEF LoopInv
<1>3. QED
  BY <1>1, <1>2

\* Two sets without a common member are counted one after the other.
LEMMA Apart ==
  ASSUME NEW A, NEW B, IsFiniteSet(A), IsFiniteSet(B), A \cap B = {}
  PROVE  IsFiniteSet(A \cup B) /\ Cardinality(A \cup B) = Cardinality(A) + Cardinality(B)
<1>1. IsFiniteSet(A \cup B) /\ Cardinality(A \cup B) = Cardinality(A) + Cardinality(B) - Cardinality(A \cap B)
  BY FS_Union
<1>2. Cardinality(A \cap B) = 0
  BY FS_EmptySet
<1>3. Cardinality(A) \in Nat /\ Cardinality(B) \in Nat
  BY FS_CardinalityType
<1>4. QED
  BY <1>1, <1>2, <1>3

\* The record of every slot is what the tile did there.
LEMMA RecordsTrue ==
  ASSUME Types, TokensTrue
  PROVE  /\ AllRecs = (1 .. Len(tokens)) \X Layers /\ IsFiniteSet(AllRecs)
         /\ \A p \in AllRecs : RecAt(p) \in Rec /\ SlotTrue(p[1], p[2], RecAt(p))
<1>1. AllRecs = (1 .. Len(tokens)) \X Layers
  BY DEF AllRecs
<1>2. tokens \in Seq(Seq(Rec)) /\ Len(tokens) \in Nat /\ DOMAIN tokens = 1 .. Len(tokens)
  BY DEF Types
<1>3. IsFiniteSet(1 .. Len(tokens)) /\ IsFiniteSet(Layers)
  BY <1>2, FS_Interval, RunsAssumption DEF Layers
<1>4. IsFiniteSet(AllRecs)
  BY <1>1, <1>3, FS_Product
<1>5. ASSUME NEW p \in AllRecs PROVE RecAt(p) \in Rec /\ SlotTrue(p[1], p[2], RecAt(p))
  <2>1. p[1] \in DOMAIN tokens /\ p[2] \in Layers
    BY <1>1, <1>2
  <2>2. tokens[p[1]] \in Seq(Rec) /\ Len(tokens[p[1]]) = NLayers
    BY <1>2, <2>1 DEF Types
  <2>3. tokens[p[1]][p[2]] \in Rec
    BY <2>1, <2>2 DEF Layers
  <2>4. SlotTrue(p[1], p[2], tokens[p[1]][p[2]])
    BY <2>1 DEF TokensTrue
  <2>5. QED
    BY <2>3, <2>4 DEF RecAt
<1>6. QED
  BY <1>1, <1>4, <1>5

Slots(c) == {p \in AllRecs : RecAt(p) \in Is(c)}

\* Between tokens every slot reached is a token's.
LEMMA SlotsCounted ==
  ASSUME LoopInv, recs = << >>, NEW c
  PROVE  OfIn(Table, c) = Slots(c)
<1>1. tokens \in Seq(Seq(Rec)) /\ \A t \in 1 .. Len(tokens) : Len(tokens[t]) = NLayers /\ tokens[t] \in Seq(Rec)
  BY DEF LoopInv, Types
<1>2. OfIn(Table, c) = OfIn(tokens, c)
  BY <1>1, CountClose DEF Table
<1>3. \A t \in 1 .. Len(tokens) : DOMAIN tokens[t] = Layers
  BY <1>1 DEF Layers
<1>4. AllRecs = (1 .. Len(tokens)) \X Layers
  BY DEF AllRecs
<1>5. OfIn(tokens, c) = Slots(c)
  BY <1>3, <1>4 DEF OfIn, Slots, RecAt
<1>6. QED
  BY <1>2, <1>5

\* The sets the report counts, and the sets the tile's flights make.
LEMMA ReportSets ==
  ASSUME LoopInv
  PROVE  /\ RecsWith("walk", "exact") = FlewSlots("chain") \cap GradedSlots
         /\ RecsWith("walk", "ungraded") = FlewSlots("chain") \ GradedSlots
         /\ RecsWith("ffn", "exact") = FlewSlots("ffn")
         /\ AllRecs \ RecsWith("walk", "none") = FlewSlots("chain")
         /\ RecsWith("walk", "exact") = Slots("walked")
         /\ RecsWith("walk", "ungraded") = Slots("ungraded")
         /\ RecsWith("ffn", "exact") = Slots("windows")
<1>1. \A p \in AllRecs : RecAt(p) \in Rec /\ SlotTrue(p[1], p[2], RecAt(p))
  BY RecordsTrue DEF LoopInv
<1>2. ASSUME NEW p \in AllRecs
      PROVE  /\ RecAt(p).walk = "exact" <=> p \in FlewSlots("chain") /\ p \in GradedSlots
             /\ RecAt(p).walk = "ungraded" <=> p \in FlewSlots("chain") /\ p \notin GradedSlots
             /\ RecAt(p).walk = "none" <=> p \notin FlewSlots("chain")
             /\ RecAt(p).ffn = "exact" <=> p \in FlewSlots("ffn")
             /\ RecAt(p) \in Is("walked") <=> RecAt(p).walk = "exact"
             /\ RecAt(p) \in Is("ungraded") <=> RecAt(p).walk = "ungraded"
             /\ RecAt(p) \in Is("windows") <=> RecAt(p).ffn = "exact"
  <2>1. PICK r : r = RecAt(p)
    OBVIOUS
  <2>2. r \in Rec /\ SlotTrue(p[1], p[2], r)
    BY <1>1, <2>1
  <2>3. /\ r.walk = "exact" <=> p \in FlewSlots("chain") /\ p \in GradedSlots
        /\ r.walk = "ungraded" <=> p \in FlewSlots("chain") /\ p \notin GradedSlots
        /\ r.walk = "none" <=> p \notin FlewSlots("chain")
        /\ r.ffn = "exact" <=> p \in FlewSlots("ffn")
    BY <2>2 DEF SlotTrue, FlewSlots, GradedSlots
  <2>4. /\ r \in Is("walked") <=> r.walk = "exact"
        /\ r \in Is("ungraded") <=> r.walk = "ungraded"
        /\ r \in Is("windows") <=> r.ffn = "exact"
    BY <2>2 DEF Is
  <2>5. QED
    BY <2>1, <2>3, <2>4
<1>3. FlewSlots("chain") \subseteq AllRecs /\ FlewSlots("ffn") \subseteq AllRecs /\ GradedSlots \subseteq AllRecs
  BY DEF FlewSlots, GradedSlots
<1>4. \A kind, value : RecsWith(kind, value) = {p \in AllRecs : RecAt(p)[kind] = value}
  BY DEF RecsWith
<1>5. \A c : Slots(c) = {p \in AllRecs : RecAt(p) \in Is(c)}
  BY DEF Slots
<1>6. QED
  BY <1>2, <1>3, <1>4, <1>5

\* No slot is counted twice, and none is lost.
LEMMA SlotsPartition ==
  ASSUME LoopInv, NEW c1 \in Nat, NEW c2 \in Nat, NEW c3 \in Nat, NEW c4 \in Nat,
         c1 = Cardinality(Slots("walked")), c2 = Cardinality(Slots("ungraded")),
         c3 = Cardinality(Slots("skipped")), c4 = Cardinality(Slots("refused")), Walked
  PROVE  c1 + c2 + c3 + c4 = Cardinality(AllRecs)
<1>1. IsFiniteSet(AllRecs) /\ \A p \in AllRecs : RecAt(p) \in Rec /\ SlotTrue(p[1], p[2], RecAt(p))
  BY RecordsTrue DEF LoopInv
<1> DEFINE A == Slots("walked")
           B == Slots("ungraded")
           C == Slots("skipped")
           D == Slots("refused")
<1>2. ASSUME NEW p \in AllRecs
      PROVE  /\ p \in A \/ p \in B \/ p \in C \/ p \in D
             /\ ~(p \in A /\ p \in B) /\ ~((p \in A \/ p \in B) /\ (p \in C \/ p \in D)) /\ ~(p \in C /\ p \in D)
  <2>1. PICK r : r = RecAt(p)
    OBVIOUS
  <2>2. r \in Rec /\ SlotTrue(p[1], p[2], r)
    BY <1>1, <2>1
  <2>3. /\ r \in Is("walked") <=> r.walk = "exact"
        /\ r \in Is("ungraded") <=> r.walk = "ungraded"
        /\ r \in Is("skipped") <=> r.skipped
        /\ r \in Is("refused") <=> r.refused
    BY <2>2 DEF Is
  <2>4. /\ r.walk \in {"none", "exact", "ungraded"} /\ ~(r.refused /\ r.skipped)
        /\ r.refused \/ r.skipped => r.walk = "none"
        /\ r.walk = "none" => r.refused \/ r.skipped
    BY <2>2 DEF SlotTrue, Rec
  <2>5. QED
    BY <2>1, <2>3, <2>4 DEF Slots
<1>3. A \subseteq AllRecs /\ B \subseteq AllRecs /\ C \subseteq AllRecs /\ D \subseteq AllRecs
  BY DEF Slots
<1> HIDE DEF A, B, C, D
<1>4. IsFiniteSet(A) /\ IsFiniteSet(B) /\ IsFiniteSet(C) /\ IsFiniteSet(D)
  BY <1>1, <1>3, FS_Subset
<1>5. A \cap B = {} /\ (A \cup B) \cap C = {} /\ (A \cup B \cup C) \cap D = {}
  BY <1>2, <1>3
<1>6. AllRecs = A \cup B \cup C \cup D
  BY <1>2, <1>3
<1>7. IsFiniteSet(A \cup B) /\ Cardinality(A \cup B) = Cardinality(A) + Cardinality(B)
  BY <1>4, <1>5, Apart
<1>8. IsFiniteSet(A \cup B \cup C) /\ Cardinality(A \cup B \cup C) = Cardinality(A \cup B) + Cardinality(C)
  BY <1>4, <1>5, <1>7, Apart
<1>9. Cardinality(A \cup B \cup C \cup D) = Cardinality(A \cup B \cup C) + Cardinality(D)
  BY <1>4, <1>5, <1>8, Apart
<1>10. QED
  BY <1>6, <1>7, <1>8, <1>9 DEF A, B, C, D

\* Every window was graded exact, or refused, or is missing.
LEMMA WindowsPartition ==
  ASSUME LoopInv
  PROVE  FfnStats.exact + FfnStats.refused + FfnStats.missing = FfnStats.windows
<1>1. IsFiniteSet(AllRecs) /\ \A p \in AllRecs : RecAt(p) \in Rec
  BY RecordsTrue DEF LoopInv
<1> DEFINE A == RecsWith("ffn", "exact")
           B == RecsWith("ffn", "refused")
           C == RecsWith("ffn", "none")
<1>2. \A p \in AllRecs : RecAt(p).ffn \in {"none", "exact", "refused"}
  BY <1>1 DEF Rec
<1>3. /\ A = {p \in AllRecs : RecAt(p).ffn = "exact"}
      /\ B = {p \in AllRecs : RecAt(p).ffn = "refused"}
      /\ C = {p \in AllRecs : RecAt(p).ffn = "none"}
  BY DEF RecsWith
<1>4. /\ FfnStats.windows = Cardinality(AllRecs) /\ FfnStats.exact = Cardinality(A)
      /\ FfnStats.refused = Cardinality(B) /\ FfnStats.missing = Cardinality(C)
  BY DEF FfnStats
<1> HIDE DEF A, B, C
<1>5. IsFiniteSet(A) /\ IsFiniteSet(B) /\ IsFiniteSet(C)
  BY <1>1, <1>3, FS_Subset
<1>6. A \cap B = {} /\ (A \cup B) \cap C = {} /\ AllRecs = A \cup B \cup C
  BY <1>2, <1>3
<1>7. IsFiniteSet(A \cup B) /\ Cardinality(A \cup B) = Cardinality(A) + Cardinality(B)
  BY <1>5, <1>6, Apart
<1>8. Cardinality(A \cup B \cup C) = Cardinality(A \cup B) + Cardinality(C)
  BY <1>5, <1>6, <1>7, Apart
<1>9. QED
  BY <1>4, <1>6, <1>7, <1>8

\* The report writes down what happened.
LEMMA LedgerWritten ==
  ASSUME LoopInv, recs = << >>, record' = Ledger,
         args' = args, world' = world, tokens' = tokens, flown' = flown
  PROVE  LedgerTrue'
<1> DEFINE R == record'
           c == counts
<1>1. /\ AllRecs' = AllRecs /\ GradedSlots' = GradedSlots /\ Walked' = Walked /\ Probing' = Probing
      /\ FlewSlots("chain")' = FlewSlots("chain") /\ FlewSlots("ffn")' = FlewSlots("ffn")
      /\ \A t : StepOf(t)' = StepOf(t)
  BY DEF AllRecs, GradedSlots, Graded, Walked, Probing, FlewSlots, Flew, StepOf
<1>2. /\ R.chains = Cardinality(RecsWith("walk", "exact"))
      /\ R.unclaimed = Cardinality(RecsWith("walk", "ungraded"))
      /\ R.engine.counts = c
      /\ R.ffn = IF args.ffn THEN FfnStats ELSE << >>
      /\ R.walked_at = IF Probing THEN WalkedAtT ELSE {}
      /\ R.splits = [t \in 1 .. Len(tokens) |-> Split(t)]
  BY DEF Ledger, Finish
<1>3. /\ RecsWith("walk", "exact") = FlewSlots("chain") \cap GradedSlots
      /\ RecsWith("walk", "ungraded") = FlewSlots("chain") \ GradedSlots
      /\ RecsWith("ffn", "exact") = FlewSlots("ffn")
      /\ AllRecs \ RecsWith("walk", "none") = FlewSlots("chain")
      /\ RecsWith("walk", "exact") = Slots("walked")
      /\ RecsWith("walk", "ungraded") = Slots("ungraded")
      /\ RecsWith("ffn", "exact") = Slots("windows")
  BY ReportSets
<1>4. \A m \in Measures : c[m] = Cardinality(Slots(m)) /\ c[m] \in Nat
  BY CountsAre, SlotsCounted
<1>5. /\ c.walked = Cardinality(Slots("walked")) /\ c.walked \in Nat
      /\ c.ungraded = Cardinality(Slots("ungraded")) /\ c.ungraded \in Nat
      /\ c.refused = Cardinality(Slots("refused")) /\ c.refused \in Nat
      /\ c.skipped = Cardinality(Slots("skipped")) /\ c.skipped \in Nat
      /\ c.windows = Cardinality(Slots("windows"))
  BY <1>4 DEF Measures
<1>6. /\ R.chains = Cardinality(FlewSlots("chain") \cap GradedSlots)
      /\ R.unclaimed = Cardinality(FlewSlots("chain") \ GradedSlots)
      /\ R.engine.counts.walked = R.chains /\ R.engine.counts.ungraded = R.unclaimed
  BY <1>2, <1>3, <1>5
<1>7. Walked => c.walked + c.ungraded + c.skipped + c.refused = Cardinality(AllRecs)
  BY <1>5, SlotsPartition
<1>8. args.ffn => /\ R.ffn.exact = Cardinality(FlewSlots("ffn"))
                  /\ R.ffn.exact + R.ffn.refused + R.ffn.missing = R.ffn.windows
                  /\ R.engine.counts.windows = R.ffn.exact
  <2> SUFFICES ASSUME args.ffn
               PROVE  /\ R.ffn.exact = Cardinality(FlewSlots("ffn"))
                      /\ R.ffn.exact + R.ffn.refused + R.ffn.missing = R.ffn.windows
                      /\ R.engine.counts.windows = R.ffn.exact
    OBVIOUS
  <2>1. R.ffn = FfnStats
    BY <1>2
  <2>2. FfnStats.exact = Cardinality(RecsWith("ffn", "exact"))
    BY DEF FfnStats
  <2>3. QED
    BY <1>2, <1>3, <1>5, <2>1, <2>2, WindowsPartition
<1>9. Cardinality({p \in AllRecs : p[2] \in R.splits[p[1]].refused}) = R.engine.counts.refused
  <2>1. AllRecs = (1 .. Len(tokens)) \X Layers /\ \A p \in AllRecs : RecAt(p) \in Rec
    BY RecordsTrue DEF LoopInv
  <2>2. ASSUME NEW p \in AllRecs
        PROVE  p[2] \in R.splits[p[1]].refused <=> RecAt(p) \in Is("refused")
    <3>1. p[1] \in 1 .. Len(tokens) /\ p[2] \in Layers
      BY <2>1
    <3>2. R.splits[p[1]].refused = {l \in Layers : tokens[p[1]][l].refused}
      BY <1>2, <3>1 DEF Split
    <3>3. RecAt(p) = tokens[p[1]][p[2]]
      BY DEF RecAt
    <3>4. RecAt(p) \in Is("refused") <=> RecAt(p).refused
      BY <2>1 DEF Is
    <3>5. QED
      BY <3>1, <3>2, <3>3, <3>4
  <2>3. {p \in AllRecs : p[2] \in R.splits[p[1]].refused} = Slots("refused")
    BY <2>2 DEF Slots
  <2>4. QED
    BY <1>2, <1>5, <2>3
<1>10. Probing => R.walked_at = {StepOf(p[1]) + 1 : p \in FlewSlots("chain")}
  BY <1>2, <1>3 DEF WalkedAtT
<1> HIDE DEF c
<1>11. Cardinality({p \in AllRecs : p[2] \in record.splits[p[1]].refused})' = R.engine.counts.refused
  BY <1>1, <1>9
<1>12. Probing => R.walked_at = {StepOf(p[1]) + 1 : p \in FlewSlots("chain")}'
  BY <1>1, <1>10
<1>13. Walked => LET k == R.engine.counts
                 IN  k.walked + k.ungraded + k.skipped + k.refused = Cardinality(AllRecs)
  BY <1>2, <1>7
<1>14. QED
  BY <1>1, <1>6, <1>8, <1>11, <1>12, <1>13 DEF LedgerTrue

\* The report.
LEMMA ReportKeeps ==
  ASSUME LoopInv, Report
  PROVE  LoopInv'
<1>1. CASE Refuse
  BY <1>1, RefuseKeeps DEF Report
<1>2. CASE ~Refuse
  <2>1. /\ phase = "report" /\ phase' = "done" /\ record' = Ledger
        /\ args.fast = 0 => gen = ref /\ bits
        /\ MissedProbes = {}
        /\ verdict' = (IF IdentOk /\ WalkGreen /\ FfnGreen THEN "pass" ELSE "fail")
        /\ tokens' = tokens /\ li' = li /\ recs' = recs /\ gen' = gen
        /\ pend' = pend /\ counts' = counts /\ flown' = flown /\ ref' = ref
        /\ args' = args /\ world' = world /\ UNCHANGED run
    BY <1>2 DEF Report, run, step
  <2>2. recs = << >>
    BY <2>1 DEF LoopInv, InOrder, Types
  <2>3. LedgerTrue'
    BY <2>1, <2>2, LedgerWritten
  <2>4. verdict' = "pass" => PassSays'
    <3> SUFFICES ASSUME verdict' = "pass" PROVE PassSays'
      OBVIOUS
    <3>1. FfnGreen
      BY <2>1
    <3>2. args.fast = 0 => gen = GoldenIds
      BY <2>1 DEF LoopInv, Referred
    <3>3. \A s \in args.probes : \E t \in 1 .. Len(tokens) : StepOf(t) = s
      BY <2>1 DEF MissedProbes
    <3>4. FfnGreen'
      BY <2>1, <3>1 DEF FfnGreen, AllRecs, RecAt
    <3>5. QED
      BY <2>1, <3>2, <3>3, <3>4 DEF PassSays, GoldenIds, StepOf
  <2>5. Reported'
    BY <2>1, <2>3, <2>4 DEF Reported
  <2>6. \A t, l, win : Flew(t, l, win)' = Flew(t, l, win)
    BY <2>1 DEF Flew
  <2>7. Index' = Index /\ Pending' = Pending /\ Table' = Table /\ li = 1 /\ Pending = {}
    BY <2>1 DEF Index, Pending, Table, LoopInv, InOrder, ToSet
  <2>8. Types' /\ FlownBefore' /\ CountsTrue'
    BY <2>1, <2>7 DEF LoopInv, Types, FlownBefore, CountsTrue
  <2>9. TokensTrue'
    <3>1. ASSUME NEW t \in DOMAIN tokens, NEW l \in Layers PROVE SlotTrue(t, l, tokens[t][l])'
      <4>1. PICK s : s = tokens[t][l]
        OBVIOUS
      <4>2. SlotTrue(t, l, s)
        BY <4>1 DEF LoopInv, TokensTrue
      <4>3. SlotTrue(t, l, s)'
        BY <2>1, <2>6, <4>2, SlotKept
      <4>4. s = tokens'[t][l]
        BY <2>1, <4>1
      <4>5. QED
        BY <4>3, <4>4
    <3>2. QED
      BY <2>1, <3>1 DEF TokensTrue
  <2>10. StepTrue'
    BY <2>1, <2>7 DEF StepTrue
  <2>11. InOrder' /\ Referred'
    BY <2>1 DEF LoopInv, InOrder, Batched, FastGate, Walked, Probing, Referred, GoldenIds
  <2>12. Queued' /\ InFlight' /\ InWindows'
    BY <2>1 DEF Queued, InFlight, InWindows
  <2>13. QED
    BY <2>5, <2>8, <2>9, <2>10, <2>11, <2>12 DEF LoopInv
<1>3. QED
  BY <1>1, <1>2

\* A step that changes nothing.
LEMMA StutterKeeps ==
  ASSUME LoopInv, UNCHANGED vars
  PROVE  LoopInv'
<1>1. /\ args' = args /\ world' = world /\ phase' = phase /\ ref' = ref /\ gen' = gen /\ li' = li
      /\ recs' = recs /\ pend' = pend /\ programs' = programs /\ caps' = caps /\ tokens' = tokens
      /\ counts' = counts /\ flown' = flown /\ verdict' = verdict /\ record' = record
      /\ UNCHANGED run
  BY DEF vars, run, decode, step, emit
<1>2. \A t, l, win : Flew(t, l, win)' = Flew(t, l, win)
  BY <1>1 DEF Flew
<1>3. /\ Index' = Index /\ Pending' = Pending /\ Table' = Table /\ Tag' = Tag
      /\ \A l : ChainRight(l)' = ChainRight(l) /\ ChainFlown(l)' = ChainFlown(l)
  BY <1>1 DEF Index, Pending, Table, Tag, Step, StepOf, ChainRight, ChainFlown, Hits
<1>4. \A t, l, r : SlotTrue(t, l, r) => SlotTrue(t, l, r)'
  BY <1>1, <1>2, SlotKept
<1>5. ASSUME NEW l, SlotTrue(Index, l, recs[l]) PROVE SlotTrue(Index, l, recs[l])'
  <2>1. PICK t, s : t = Index /\ s = recs[l]
    OBVIOUS
  <2>2. SlotTrue(t, l, s)'
    BY <1>4, <1>5, <2>1
  <2>3. QED
    BY <1>1, <1>3, <2>1, <2>2
<1>6. ASSUME NEW t \in DOMAIN tokens, NEW l \in Layers PROVE SlotTrue(t, l, tokens[t][l])'
  <2>1. PICK s : s = tokens[t][l]
    OBVIOUS
  <2>2. SlotTrue(t, l, s)
    BY <2>1 DEF LoopInv, TokensTrue
  <2>3. SlotTrue(t, l, s)' /\ s = tokens'[t][l]
    BY <1>1, <1>4, <2>1, <2>2
  <2>4. QED
    BY <2>3
<1>7. TokensTrue'
  BY <1>1, <1>6 DEF TokensTrue
<1>8. StepTrue' /\ InWindows'
  BY <1>1, <1>3, <1>5 DEF LoopInv, StepTrue, InWindows
<1>9. Types' /\ FlownBefore' /\ CountsTrue'
  BY <1>1, <1>3 DEF LoopInv, Types, FlownBefore, CountsTrue
<1>10. InOrder' /\ Referred'
  BY <1>1 DEF LoopInv, InOrder, Batched, FastGate, Walked, Probing, Referred, GoldenIds
<1>11. Queued' /\ InFlight'
  BY <1>1, <1>2, <1>3 DEF LoopInv, Queued, InFlight
<1>12. LedgerTrue => LedgerTrue'
  BY <1>1 DEF LedgerTrue, AllRecs, GradedSlots, Graded, Walked, Probing, FlewSlots, Flew, StepOf
<1>13. PassSays => PassSays'
  BY <1>1 DEF PassSays, GoldenIds, StepOf, FfnGreen, AllRecs, RecAt
<1>14. Reported'
  BY <1>1, <1>12, <1>13 DEF LoopInv, Reported
<1>15. QED
  BY <1>7, <1>8, <1>9, <1>10, <1>11, <1>14 DEF LoopInv

\* Every step of a run preserves the invariant.
LEMMA NextLoop == LoopInv /\ [Next]_vars => LoopInv'
<1> SUFFICES ASSUME LoopInv, [Next]_vars PROVE LoopInv'
  OBVIOUS
<1>1. CASE Gate \/ Reference \/ Start \/ LayersDone
  BY <1>1, GatesKeep
<1>2. CASE EmitLayer \/ \E w \in Workers : PoolEmit(w)
  BY <1>2, EmissionKeeps
<1>3. CASE HostLayer \/ QueueLayer \/ WalkLayer
  BY <1>3, HostKeeps, QueueKeeps, WalkKeeps
<1>4. CASE FlyBatch \/ GradeBatch \/ Window
  BY <1>4, FlyKeeps, GradeKeeps, WindowKeeps
<1>5. CASE Sample \/ Report
  BY <1>5, TokenKeeps, ReportKeeps
<1>6. CASE Ended \/ UNCHANGED vars
  BY <1>6, StutterKeeps DEF Ended
<1>7. QED
  BY <1>1, <1>2, <1>3, <1>4, <1>5, <1>6 DEF Next

\* The invariant of every reachable state of a run.
THEOREM LoopInvariance == Spec => []LoopInv
  BY InitLoop, NextLoop, PTL DEF Spec

\* A PASS proves what the report prints, the walked share of a token counts
\* the windows graded right, and the record of a run is true.
THEOREM GateEarnedHolds == Spec => []GateEarned
<1>1. LoopInv => GateEarned
  <2> SUFFICES ASSUME LoopInv PROVE GateEarned
    OBVIOUS
  <2>1. \A p \in AllRecs : RecAt(p) \in Rec /\ SlotTrue(p[1], p[2], RecAt(p))
    BY RecordsTrue DEF LoopInv
  <2>2. ASSUME NEW p \in AllRecs
        PROVE  /\ (Asked(p[1], p[2]) /\ Graded(p[1]) /\ SubjectKept(p[1], p[2])) => FlewRight(p[1], p[2], "chain")
               /\ RecAt(p).ffn = "exact" => FlewRight(p[1], p[2], "ffn")
               /\ RecAt(p).macs =
                    (IF Graded(p[1]) /\ FlewRight(p[1], p[2], "chain") THEN ChainMacs ELSE 0)
                      + (IF FlewRight(p[1], p[2], "ffn") THEN 1 ELSE 0)
    <3>1. PICK r : r = RecAt(p)
      OBVIOUS
    <3>2. r \in Rec /\ SlotTrue(p[1], p[2], r)
      BY <2>1, <3>1
    <3>3. r.walk = "exact" <=> Graded(p[1]) /\ FlewRight(p[1], p[2], "chain")
      BY <3>2 DEF SlotTrue, FlewRight
    <3>4. r.ffn = "exact" <=> FlewRight(p[1], p[2], "ffn")
      BY <3>2 DEF SlotTrue, FlewRight
    <3>5. (Asked(p[1], p[2]) /\ Graded(p[1]) /\ SubjectKept(p[1], p[2])) => FlewRight(p[1], p[2], "chain")
      BY <3>2 DEF SlotTrue, FlewRight
    <3>6. r.macs = (IF r.walk = "exact" THEN ChainMacs ELSE 0) + (IF r.ffn = "exact" THEN 1 ELSE 0)
      BY <3>2 DEF SlotTrue
    <3>7. QED
      BY <3>1, <3>3, <3>4, <3>5, <3>6
  <2>3. verdict = "pass" => /\ args.fast = 0 => gen = GoldenIds
                            /\ \A s \in args.probes : \E t \in 1 .. Len(tokens) : StepOf(t) = s
                            /\ \A p \in AllRecs : args.ffn => RecAt(p).ffn = "exact"
    BY DEF LoopInv, Reported, PassSays, FfnGreen
  <2>4. phase = "done" => LedgerTrue
    BY DEF LoopInv, Reported
  <2>5. QED
    BY <2>2, <2>3, <2>4 DEF GateEarned
<1>2. QED
  BY <1>1, LoopInvariance, PTL

\* No token is sampled before the chains of its step flew, and were right
\* where their grade was due.
THEOREM SampledAfterGradeHolds == Spec => SampledAfterGrade
<1> DEFINE Flown == \A l \in Layers :
             (Asked(Index, l) /\ SubjectKept(Index, l)) =>
               /\ Flew(Index, l, "chain") # {}
               /\ Graded(Index) => FlewRight(Index, l, "chain")
<1>1. LoopInv /\ [Next]_vars => [gen' # gen => Flown]_vars
  <2> SUFFICES ASSUME LoopInv, Next, gen' # gen PROVE Flown
    OBVIOUS
  <2>1. Sample
    <3>1. Gate \/ Reference \/ Start \/ LayersDone => gen' = gen
      BY DEF Gate, Reference, Start, LayersDone, Refuse, decode
    <3>2. EmitLayer \/ (\E w \in Workers : PoolEmit(w)) => gen' = gen
      BY DEF EmitLayer, PoolEmit, Refuse, decode
    <3>3. HostLayer \/ QueueLayer \/ WalkLayer => gen' = gen
      BY DEF HostLayer, QueueLayer, WalkLayer, Refuse, decode
    <3>4. FlyBatch \/ GradeBatch \/ Window => gen' = gen
      BY DEF FlyBatch, GradeBatch, Window, Refuse, decode
    <3>5. Report \/ Ended => gen' = gen
      BY DEF Report, Ended, Refuse, decode, vars
    <3>6. QED
      BY <3>1, <3>2, <3>3, <3>4, <3>5 DEF Next
  <2>2. phase = "head" /\ pend = << >> /\ li = NLayers + 1 /\ Pending = {}
    BY <2>1 DEF Sample, LoopInv, InOrder, Pending, ToSet
  <2>3. ASSUME NEW l \in Layers PROVE SlotTrue(Index, l, recs[l])
    <3>1. l \in 1 .. li - 1
      BY <2>2, RunsAssumption DEF Layers
    <3>2. QED
      BY <2>2, <3>1 DEF LoopInv, StepTrue
  <2>4. QED
    BY <2>3 DEF SlotTrue, FlewRight
<1>2. QED
  BY <1>1, LoopInvariance, PTL DEF Spec, SampledAfterGrade

=============================================================================
