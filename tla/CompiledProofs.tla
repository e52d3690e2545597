--------------------------- MODULE CompiledProofs ---------------------------
(***************************************************************************)
(* Proofs about CompiledExec, for every set of files the emitters may      *)
(* write, every FIFO and every budget: a prepaid push always finds room,   *)
(* and the node walk does what the line-by-line interpreter does.          *)
(***************************************************************************)
EXTENDS CompiledExec, Integers, TLAPS, WellFoundedInduction, SequenceTheorems

Line == [op : Ops, a : Nat, gap : BOOLEAN, e : BOOLEAN]
Notes(p, from, to) == \A k \in from .. to : p[k].op = "note"

\* n is the last line before line c that is not a note, or no line.
LastBefore(p, n, c) ==
  n \in 0 .. c - 1 /\ (n > 0 => p[n].op # "note") /\ Notes(p, n + 1, c - 1)

\* The walk stands at a line of a node, or past the end; the dword it writes
\* next is that line's.
WalkInv ==
  /\ prog \in Programs /\ nodes = Nodes(prog)
  /\ off \in Nat
  /\ node \in DOMAIN nodes \/ (node = Len(prog) + 1 /\ off = 0)
  /\ node \in DOMAIN nodes => /\ node + off <= Node.upto
                              /\ Node.code = "w" => prog[node + off].a = Node.a + off
  /\ off = 0 => \E n \in 0 .. node - 1 : LastBefore(prog, n, node)

\* The budget promises more room than the FIFO has only inside a burst that
\* will cancel it.
BudgetInv ==
  /\ occ \in 0 .. FifoCap /\ budget \in Nat
  /\ budget > 0 => \E k \in DOMAIN prog : prog[k].op = "pw"
  /\ budget <= FifoCap - occ \/ (On("w") /\ Node.inval /\ off > 0)

ExecInv == WalkInv /\ BudgetInv
-----------------------------------------------------------------------------
\* A set of naturals that has a member has a least one.
LEMMA LeastNumber ==
  ASSUME NEW T, T \subseteq Nat, T # {}
  PROVE  \E m \in T : \A n \in T : m <= n
<1>1. PICK m \in T : \A n \in T : ~(<<n, m>> \in OpToRel(<, Nat))
  BY NatLessThanWellFounded, WFMin, Zenon
<1>2. \A n \in T : ~(n < m)
  <2> SUFFICES ASSUME NEW n \in T, n < m PROVE <<n, m>> \in OpToRel(<, Nat)
    BY <1>1
  <2> QED
    BY DEF OpToRel
<1> QED
  BY <1>2

\* The first line from one on that is in a set, or the line past the end.
LEMMA FirstFrom ==
  ASSUME NEW S, NEW len \in Nat, NEW from \in 1 .. len + 1
  PROVE  \E i \in from .. len + 1 : /\ i <= len => i \in S
                                    /\ \A k \in from .. i - 1 : k \notin S
<1> DEFINE T == {i \in from .. len + 1 : i <= len => i \in S}
<1>1. T \subseteq Nat /\ len + 1 \in T
  OBVIOUS
<1>2. PICK m \in T : \A n \in T : m <= n
  BY <1>1, LeastNumber, Zenon
<1>3. m \in from .. len + 1 /\ (m <= len => m \in S)
  OBVIOUS
<1>4. ASSUME NEW k \in from .. m - 1 PROVE k \notin S
  <2>1. k \in from .. len + 1 /\ ~(m <= k)
    BY <1>3
  <2> QED
    BY <1>2, <2>1
<1> QED
  BY <1>3, <1>4

\* A line that joins has the op of the line before, a burst's or a capture's,
\* and a burst's address is the next one.
LEMMA JoinsRules ==
  ASSUME NEW p, NEW i, Joins(p, i)
  PROVE  /\ i > 1 /\ p[i].op = p[i - 1].op /\ p[i].op \in {"w", "cap"}
         /\ p[i].op = "w" => p[i].a = p[i - 1].a + 1
BY DEF Joins

\* RunEnd is the last line of the run that begins at a line.
LEMMA RunEndRules ==
  ASSUME NEW p, Len(p) \in Nat, NEW i \in 1 .. Len(p)
  PROVE  /\ RunEnd(p, i) \in i .. Len(p)
         /\ \A k \in i + 1 .. RunEnd(p, i) : Joins(p, k)
         /\ RunEnd(p, i) < Len(p) => ~Joins(p, RunEnd(p, i) + 1)
<1> DEFINE Ends(j) == /\ \A k \in i + 1 .. j : Joins(p, k)
                      /\ j < Len(p) => ~Joins(p, j + 1)
<1>1. \E j \in i .. Len(p) : Ends(j)
  <2> DEFINE S == {k \in Nat : ~Joins(p, k)}
  <2>1. i + 1 \in 1 .. Len(p) + 1
    OBVIOUS
  <2>2. PICK m \in i + 1 .. Len(p) + 1 : /\ m <= Len(p) => m \in S
                                         /\ \A k \in i + 1 .. m - 1 : k \notin S
    BY <2>1, FirstFrom, Zenon
  <2>3. m - 1 \in i .. Len(p) /\ (m - 1) + 1 = m /\ (m - 1 < Len(p) => m <= Len(p))
    OBVIOUS
  <2>4. \A k \in i + 1 .. m - 1 : k \in Nat
    OBVIOUS
  <2>5. Ends(m - 1)
    BY <2>2, <2>3, <2>4
  <2> QED
    BY <2>3, <2>5
<1>2. RunEnd(p, i) = CHOOSE j \in i .. Len(p) : Ends(j)
  BY DEF RunEnd
<1> HIDE DEF Ends
<1>3. RunEnd(p, i) \in i .. Len(p) /\ Ends(RunEnd(p, i))
  BY <1>1, <1>2, Zenon
<1> QED
  BY <1>3 DEF Ends

\* A node of a file: it begins at its key, and its lines are the run there.
LEMMA NodeRules ==
  ASSUME NEW p, Len(p) \in Nat, DOMAIN p = 1 .. Len(p), NEW i \in Starts(p)
  PROVE  /\ DOMAIN Nodes(p) = Starts(p) /\ i \in 1 .. Len(p) /\ p[i].op # "note"
         /\ Nodes(p)[i].code = p[i].op /\ Nodes(p)[i].a = p[i].a
         /\ Nodes(p)[i].upto \in i .. Len(p)
         /\ \A k \in i + 1 .. Nodes(p)[i].upto : Joins(p, k) /\ k \notin Starts(p)
         /\ Nodes(p)[i].upto < Len(p) => ~Joins(p, Nodes(p)[i].upto + 1)
         /\ Nodes(p)[i].inval <=> Invalidates(p, i, Nodes(p)[i].upto)
<1>1. i \in 1 .. Len(p) /\ p[i].op # "note"
  BY DEF Starts
<1>2. Nodes(p)[i] = [code |-> p[i].op, upto |-> RunEnd(p, i), a |-> p[i].a,
                     inval |-> Invalidates(p, i, RunEnd(p, i))]
  BY DEF Nodes
<1>3. /\ Nodes(p)[i].code = p[i].op /\ Nodes(p)[i].a = p[i].a
      /\ Nodes(p)[i].upto = RunEnd(p, i)
      /\ Nodes(p)[i].inval <=> Invalidates(p, i, RunEnd(p, i))
  BY <1>2
<1>4. \A k : Joins(p, k) => k \notin Starts(p)
  BY DEF Starts
<1>5. DOMAIN Nodes(p) = Starts(p)
  BY DEF Nodes
<1> QED
  BY <1>1, <1>3, <1>4, <1>5, RunEndRules

\* Between a line and the next node, none of which joins the line, are notes.
LEMMA GapIsNotes ==
  ASSUME NEW p, Len(p) \in Nat, DOMAIN p = 1 .. Len(p), NEW n \in 0 .. Len(p),
         NEW c \in n + 1 .. Len(p) + 1, \A k \in n + 1 .. c - 1 : k \notin Starts(p),
         n < Len(p) => ~Joins(p, n + 1)
  PROVE  Notes(p, n + 1, c - 1)
<1> DEFINE T == {k \in n + 1 .. c - 1 : p[k].op # "note"}
<1> SUFFICES ASSUME T # {} PROVE FALSE
  BY DEF Notes
<1>1. T \subseteq Nat
  OBVIOUS
<1>2. PICK m \in T : \A k \in T : m <= k
  BY <1>1, LeastNumber, Zenon
<1>3. m \in n + 1 .. c - 1 /\ p[m].op # "note" /\ m \in DOMAIN p
  OBVIOUS
<1>4. Joins(p, m)
  BY <1>3 DEF Starts
<1>5. m # n + 1 /\ m - 1 \in n + 1 .. c - 1
  BY <1>3, <1>4
<1>6. p[m - 1].op = "note"
  BY <1>2, <1>3, <1>5
<1> QED
  BY <1>3, <1>4, <1>6, JoinsRules

\* What the emitters write is a sequence of lines.
LEMMA FileRules ==
  ASSUME NEW p \in Programs
  PROVE  /\ Len(p) \in Nat /\ DOMAIN p = 1 .. Len(p)
         /\ \A i \in DOMAIN p :
              /\ p[i].op \in Ops /\ p[i].a \in Nat
              /\ p[i].op = "pw" => p[i].a = FifoAddr
              /\ p[i].op = "jf" => p[i].a # FifoAddr
<1>1. p \in Seq(Line) /\ \A i \in DOMAIN p : p[i].op \in {"pw", "jf"} => (p[i].a = FifoAddr <=> p[i].op = "pw")
  BY ProgramsAssumption DEF Line
<1>2. Len(p) \in Nat /\ DOMAIN p = 1 .. Len(p) /\ \A i \in DOMAIN p : p[i] \in Line
  BY <1>1
<1> QED
  BY <1>1, <1>2 DEF Line

\* The walk to the node after a line skips no node.
LEMMA NodeAfterRules ==
  ASSUME Len(prog) \in Nat, NEW n \in 0 .. Len(prog)
  PROVE  /\ NodeAfter(n) \in n + 1 .. Len(prog) + 1
         /\ NodeAfter(n) <= Len(prog) => NodeAfter(n) \in DOMAIN nodes
         /\ \A k \in n + 1 .. NodeAfter(n) - 1 : k \notin DOMAIN nodes
<1> DEFINE Is(i) == /\ i <= Len(prog) => i \in DOMAIN nodes
                    /\ \A k \in n + 1 .. i - 1 : k \notin DOMAIN nodes
<1>1. n + 1 \in 1 .. Len(prog) + 1
  OBVIOUS
<1>2. \E i \in n + 1 .. Len(prog) + 1 : Is(i)
  BY <1>1, FirstFrom, Zenon
<1>3. NodeAfter(n) = CHOOSE i \in n + 1 .. Len(prog) + 1 : Is(i)
  BY DEF NodeAfter
<1> HIDE DEF Is
<1>4. NodeAfter(n) \in n + 1 .. Len(prog) + 1 /\ Is(NodeAfter(n))
  BY <1>2, <1>3, Zenon
<1> QED
  BY <1>4 DEF Is

\* Nothing but notes comes before the first node.
LEMMA FirstNode ==
  ASSUME prog \in Programs, nodes = Nodes(prog)
  PROVE  LastBefore(prog, 0, NodeAfter(0))
<1>1. Len(prog) \in Nat /\ DOMAIN prog = 1 .. Len(prog)
  BY FileRules
<1>2. /\ NodeAfter(0) \in 1 .. Len(prog) + 1
      /\ \A k \in 1 .. NodeAfter(0) - 1 : k \notin DOMAIN nodes
  BY <1>1, NodeAfterRules
<1>3. DOMAIN nodes = Starts(prog)
  BY DEF Nodes
<1>4. ~Joins(prog, 1)
  BY JoinsRules
<1>5. Notes(prog, 1, NodeAfter(0) - 1)
  BY <1>1, <1>2, <1>3, <1>4, GapIsNotes
<1> QED
  BY <1>2, <1>5 DEF LastBefore

\* Nor between the end of a node and the next one.
LEMMA NextNode ==
  ASSUME prog \in Programs, nodes = Nodes(prog), node \in DOMAIN nodes
  PROVE  /\ NodeAfter(node) \in node + 1 .. Len(prog) + 1
         /\ NodeAfter(node) <= Len(prog) => NodeAfter(node) \in DOMAIN nodes
         /\ LastBefore(prog, Node.upto, NodeAfter(node))
<1>1. Len(prog) \in Nat /\ DOMAIN prog = 1 .. Len(prog) /\ node \in Starts(prog)
  BY FileRules DEF Nodes
<1>2. /\ DOMAIN nodes = Starts(prog) /\ node \in 1 .. Len(prog)
      /\ prog[node].op # "note" /\ Node.upto \in node .. Len(prog)
      /\ \A k \in node + 1 .. Node.upto : Joins(prog, k) /\ k \notin Starts(prog)
      /\ Node.upto < Len(prog) => ~Joins(prog, Node.upto + 1)
  BY <1>1, NodeRules DEF Node
<1>3. /\ NodeAfter(node) \in node + 1 .. Len(prog) + 1
      /\ NodeAfter(node) <= Len(prog) => NodeAfter(node) \in DOMAIN nodes
      /\ \A k \in node + 1 .. NodeAfter(node) - 1 : k \notin DOMAIN nodes
  BY <1>1, <1>2, NodeAfterRules
<1>4. NodeAfter(node) \in Node.upto + 1 .. Len(prog) + 1
  BY <1>1, <1>2, <1>3
<1>5. \A k \in Node.upto + 1 .. NodeAfter(node) - 1 : k \notin Starts(prog)
  BY <1>1, <1>2, <1>3
<1>6. Notes(prog, Node.upto + 1, NodeAfter(node) - 1)
  <2>1. Node.upto \in 0 .. Len(prog)
    BY <1>1, <1>2
  <2> QED
    BY <1>1, <1>2, <1>4, <1>5, <2>1, GapIsNotes, Zenon
<1>7. prog[Node.upto].op # "note"
  <2>1. CASE Node.upto = node
    BY <1>2, <2>1
  <2>2. CASE Node.upto # node
    <3>1. Node.upto \in node + 1 .. Node.upto
      BY <1>2, <2>2
    <3> QED
      BY <1>2, <3>1, JoinsRules
  <2> QED
    BY <2>1, <2>2
<1> QED
  BY <1>1, <1>2, <1>3, <1>4, <1>6, <1>7 DEF LastBefore

\* A line has one last line before it.
LEMMA LastIsOne ==
  ASSUME NEW p, NEW c \in Nat, NEW n \in Nat, NEW m \in Nat, LastBefore(p, n, c), LastBefore(p, m, c)
  PROVE  n = m
<1>1. \A x, y \in Nat : LastBefore(p, x, c) /\ LastBefore(p, y, c) => ~(x < y)
  <2> SUFFICES ASSUME NEW x \in Nat, NEW y \in Nat, LastBefore(p, x, c), LastBefore(p, y, c), x < y
               PROVE  FALSE
    OBVIOUS
  <2>1. y \in x + 1 .. c - 1 /\ p[y].op # "note"
    BY DEF LastBefore
  <2> QED
    BY <2>1 DEF LastBefore, Notes
<1> QED
  BY <1>1

\* The interpreter's place in the file, and the line it executes next.
LEMMA PlaceRules ==
  ASSUME WalkInv
  PROVE  /\ off > 0 => LinePos = node + off - 1
         /\ off = 0 => LastBefore(prog, LinePos, node)
         /\ Len(prog) \in Nat /\ node \in 1 .. Len(prog) + 1 /\ LinePos \in 0 .. Len(prog)
         /\ node \in DOMAIN nodes => node + off \in DOMAIN prog /\ prog[node + off].op = Node.code
         /\ node \in DOMAIN nodes <=> node <= Len(prog)
         /\ Lines!Cur = node + off
<1>1. Len(prog) \in Nat /\ DOMAIN prog = 1 .. Len(prog) /\ DOMAIN nodes = Starts(prog)
  BY FileRules DEF WalkInv, Nodes
<1>2. node \in 1 .. Len(prog) + 1 /\ (node \in DOMAIN nodes <=> node <= Len(prog)) /\ off \in Nat
  BY <1>1 DEF WalkInv, Starts
<1>3. off > 0 => LinePos = node + off - 1
  BY DEF LinePos
<1>4. off = 0 => LastBefore(prog, LinePos, node)
  <2> SUFFICES ASSUME off = 0 PROVE LastBefore(prog, LinePos, node)
    OBVIOUS
  <2> DEFINE Is(n) == /\ n > 0 => prog[n].op # "note"
                      /\ \A k \in n + 1 .. node - 1 : prog[k].op = "note"
  <2>1. LinePos = CHOOSE n \in 0 .. node - 1 : Is(n)
    BY DEF LinePos
  <2>2. \E n \in 0 .. node - 1 : Is(n)
    BY DEF WalkInv, LastBefore, Notes
  <2> HIDE DEF Is
  <2>3. LinePos \in 0 .. node - 1 /\ Is(LinePos)
    BY <2>1, <2>2, Zenon
  <2> QED
    BY <2>3 DEF Is, LastBefore, Notes
<1>5. node \in DOMAIN nodes => node + off \in DOMAIN prog /\ prog[node + off].op = Node.code
  <2> SUFFICES ASSUME node \in DOMAIN nodes
               PROVE  node + off \in DOMAIN prog /\ prog[node + off].op = Node.code
    OBVIOUS
  <2>1. /\ Node.code = prog[node].op /\ Node.upto \in node .. Len(prog)
        /\ \A k \in node + 1 .. Node.upto : Joins(prog, k)
    BY <1>1, NodeRules DEF Node, WalkInv
  <2>2. node + off <= Node.upto
    BY DEF WalkInv
  <2>3. node + off \in DOMAIN prog
    BY <1>1, <1>2, <2>1, <2>2
  <2>4. \A k \in node .. Node.upto : prog[k].op = prog[node].op
    <3> DEFINE T == {k \in node .. Node.upto : prog[k].op # prog[node].op}
    <3> SUFFICES ASSUME T # {} PROVE FALSE
      OBVIOUS
    <3>1. T \subseteq Nat
      BY <1>1, <1>2
    <3>2. PICK m \in T : \A k \in T : m <= k
      BY <3>1, LeastNumber, Zenon
    <3>3. m \in node + 1 .. Node.upto /\ m - 1 \in node .. Node.upto
      BY <1>1, <1>2, <2>1
    <3>4. prog[m].op = prog[m - 1].op
      BY <2>1, <3>3, JoinsRules
    <3>5. m - 1 \notin T
      BY <3>2, <3>3
    <3> QED
      BY <3>3, <3>4, <3>5
  <2> QED
    BY <1>1, <1>2, <2>1, <2>2, <2>3, <2>4
<1>6. LinePos \in 0 .. Len(prog)
  <2>1. CASE off = 0
    BY <1>1, <1>2, <1>4, <2>1 DEF LastBefore
  <2>2. CASE off > 0
    BY <1>1, <1>2, <1>3, <1>5, <2>2 DEF WalkInv
  <2> QED
    BY <1>2, <2>1, <2>2
<1>7. Lines!Cur = node + off
  <2> DEFINE Is(n) == /\ n <= Len(prog) => prog[n].op # "note"
                      /\ \A k \in LinePos + 1 .. n - 1 : prog[k].op = "note"
  <2>1. Lines!Cur = CHOOSE n \in LinePos + 1 .. Len(prog) + 1 : Is(n)
    BY DEF Lines!Cur
  <2>2. node + off \in LinePos + 1 .. Len(prog) + 1
    BY <1>1, <1>2, <1>3, <1>4, <1>5 DEF LastBefore, WalkInv
  <2>3. node \in DOMAIN nodes => Node.code # "note"
    BY <1>1, NodeRules DEF Node, WalkInv
  <2>4. Is(node + off)
    <3>1. node + off <= Len(prog) => prog[node + off].op # "note"
      BY <1>1, <1>2, <1>5, <2>3
    <3>2. \A k \in LinePos + 1 .. node + off - 1 : prog[k].op = "note"
      BY <1>1, <1>2, <1>3, <1>4 DEF LastBefore, Notes
    <3> QED
      BY <1>2, <3>1, <3>2 DEF Is
  <2>5. \A n \in LinePos + 1 .. Len(prog) + 1 : Is(n) => n = node + off
    <3> SUFFICES ASSUME NEW n \in LinePos + 1 .. Len(prog) + 1, Is(n), n # node + off PROVE FALSE
      OBVIOUS
    <3>1. n \in Nat /\ node + off \in Nat /\ LinePos \in Nat
      BY <1>1, <1>2, <1>6
    <3>2. CASE n < node + off
      BY <1>1, <2>2, <2>4, <3>1, <3>2
    <3>3. CASE n > node + off
      BY <1>1, <2>2, <2>4, <3>1, <3>3
    <3> QED
      BY <3>1, <3>2, <3>3
  <2> HIDE DEF Is
  <2> QED
    BY <2>1, <2>2, <2>4, <2>5, Zenon
<1> QED
  BY <1>1, <1>2, <1>3, <1>4, <1>5, <1>6, <1>7

\* The codes of a node, and which of them may have more than one line.
LEMMA NodeShape ==
  ASSUME WalkInv, node \in DOMAIN nodes
  PROVE  /\ Node.code = prog[node].op /\ Node.a = prog[node].a /\ Node.upto \in node .. Len(prog)
         /\ Node.code \notin {"w", "cap"} => off = 0 /\ Node.upto = node /\ LastOfNode
         /\ node + off < Node.upto => Joins(prog, node + off + 1)
         /\ Node.inval <=> Invalidates(prog, node, Node.upto)
<1>1. Len(prog) \in Nat /\ DOMAIN prog = 1 .. Len(prog) /\ DOMAIN nodes = Starts(prog)
  BY FileRules DEF WalkInv, Nodes
<1>2. /\ Node.code = prog[node].op /\ Node.a = prog[node].a /\ Node.upto \in node .. Len(prog)
      /\ \A k \in node + 1 .. Node.upto : Joins(prog, k)
      /\ Node.inval <=> Invalidates(prog, node, Node.upto)
  BY <1>1, NodeRules DEF Node, WalkInv
<1>3. node \in 1 .. Len(prog) /\ off \in Nat /\ node + off <= Node.upto
  BY <1>1 DEF WalkInv, Starts
<1>4. Node.code \notin {"w", "cap"} => off = 0 /\ Node.upto = node /\ LastOfNode
  <2> SUFFICES ASSUME Node.code \notin {"w", "cap"} PROVE Node.upto = node
    BY <1>1, <1>2, <1>3 DEF LastOfNode
  <2> SUFFICES ASSUME Node.upto # node PROVE FALSE
    OBVIOUS
  <2>1. node + 1 \in node + 1 .. Node.upto
    BY <1>1, <1>2, <1>3
  <2>2. Joins(prog, node + 1) /\ (node + 1) - 1 = node
    BY <1>2, <1>3, <2>1
  <2> QED
    BY <1>2, <2>2, JoinsRules
<1>5. node + off < Node.upto => Joins(prog, node + off + 1)
  BY <1>1, <1>2, <1>3
<1> QED
  BY <1>2, <1>4, <1>5

\* A step of the walk is the interpreter's step to its next line.
LEMMA StepRules ==
  ASSUME WalkInv, node \in DOMAIN nodes, Step, UNCHANGED <<prog, nodes>>
  PROVE  WalkInv' /\ Lines!Goes /\ (LastOfNode \/ (off' > 0 /\ node' = node))
<1>1. /\ Len(prog) \in Nat /\ DOMAIN prog = 1 .. Len(prog) /\ DOMAIN nodes = Starts(prog)
      /\ prog \in Programs /\ nodes = Nodes(prog) /\ off \in Nat /\ node + off <= Node.upto
      /\ node \in 1 .. Len(prog) /\ \A i \in DOMAIN prog : prog[i].a \in Nat
  <2>1. prog \in Programs /\ nodes = Nodes(prog) /\ off \in Nat /\ node + off <= Node.upto
    BY DEF WalkInv
  <2>2. /\ Len(prog) \in Nat /\ DOMAIN prog = 1 .. Len(prog)
        /\ \A i \in DOMAIN prog : prog[i].a \in Nat
    BY <2>1, FileRules
  <2>3. DOMAIN nodes = Starts(prog)
    BY <2>1 DEF Nodes
  <2> QED
    BY <2>1, <2>2, <2>3 DEF Starts
<1>2. Lines!Cur = node + off /\ UNCHANGED <<outcome, ops>>
  BY PlaceRules DEF Step
<1>3. CASE LastOfNode
  <2>1. node' = NodeAfter(node) /\ off' = 0 /\ Node.upto = node + off
    BY <1>3 DEF Step, LastOfNode
  <2>2. /\ node' \in node + 1 .. Len(prog) + 1
        /\ node' <= Len(prog) => node' \in DOMAIN nodes
        /\ LastBefore(prog, node + off, node')
    BY <1>1, <2>1, NextNode
  <2>3. node' \in DOMAIN nodes => nodes[node'].upto >= node' /\ nodes[node'].a = prog[node'].a
    BY <1>1, NodeRules
  <2>4. WalkInv'
    <3>1. node' \in DOMAIN nodes \/ (node' = Len(prog) + 1 /\ off' = 0)
      BY <1>1, <2>1, <2>2
    <3>2. node' \in DOMAIN nodes => /\ node' + off' <= nodes[node'].upto
                                    /\ prog[node' + off'].a = nodes[node'].a + off'
      <4> SUFFICES ASSUME node' \in DOMAIN nodes
                   PROVE  /\ node' + off' <= nodes[node'].upto
                          /\ prog[node' + off'].a = nodes[node'].a + off'
        OBVIOUS
      <4>1. prog[node'].a \in Nat /\ node' + off' = node' /\ node' \in Nat
        BY <1>1, <2>1, <2>2 DEF Starts
      <4> QED
        BY <2>1, <2>3, <4>1
    <3>3. \E n \in 0 .. node' - 1 : LastBefore(prog, n, node')
      BY <2>2 DEF LastBefore
    <3> QED
      BY <1>1, <2>1, <3>1, <3>2, <3>3 DEF WalkInv, Node
  <2>5. LastBefore(prog, LinePos', node')
    <3> DEFINE Is(n) == /\ n > 0 => prog[n].op # "note"
                        /\ \A k \in n + 1 .. node' - 1 : prog[k].op = "note"
    <3>1. LinePos' = CHOOSE n \in 0 .. node' - 1 : Is(n)
      BY <2>1 DEF LinePos
    <3>2. \E n \in 0 .. node' - 1 : Is(n)
      BY <2>2 DEF LastBefore, Notes
    <3> HIDE DEF Is
    <3>3. LinePos' \in 0 .. node' - 1 /\ Is(LinePos')
      BY <3>1, <3>2, Zenon
    <3> QED
      BY <3>3 DEF Is, LastBefore, Notes
  <2>6. LinePos' = node + off
    <3>1. LinePos' \in Nat /\ node' \in Nat /\ node + off \in Nat
      BY <1>1, <2>2, <2>5 DEF LastBefore
    <3> QED
      BY <2>2, <2>5, <3>1, LastIsOne
  <2> QED
    BY <1>2, <1>3, <2>4, <2>6 DEF Lines!Goes
<1>4. CASE ~LastOfNode
  <2>1. node' = node /\ off' = off + 1 /\ node + off < Node.upto
    BY <1>1, <1>4, NodeShape DEF Step, LastOfNode
  <2>2. Joins(prog, node + off + 1) /\ node + off + 1 = node + (off + 1)
    BY <1>1, <2>1, NodeShape
  <2>3. Node.code = "w" => prog[node + (off + 1)].a = Node.a + (off + 1)
    <3> SUFFICES ASSUME Node.code = "w" PROVE prog[node + (off + 1)].a = Node.a + (off + 1)
      OBVIOUS
    <3>1. prog[node + off].op = "w" /\ prog[node + off].a = Node.a + off
      BY PlaceRules DEF WalkInv
    <3>2. (node + off + 1) - 1 = node + off
      BY <1>1
    <3>3. prog[node + off + 1].a = prog[node + off].a + 1
      BY <2>2, <3>1, <3>2, JoinsRules
    <3>4. Node.a \in Nat
      BY <1>1, NodeShape
    <3> QED
      BY <1>1, <2>2, <3>1, <3>3, <3>4
  <2>4. node + (off + 1) <= Node.upto
    BY <1>1, <2>1, NodeShape
  <2>5. WalkInv'
    BY <1>1, <2>1, <2>3, <2>4 DEF WalkInv, Node
  <2>6. LinePos' = node + off
    BY <1>1, <2>1 DEF LinePos
  <2> QED
    BY <1>1, <1>2, <1>4, <2>1, <2>5, <2>6 DEF Lines!Goes
<1> QED
  BY <1>3, <1>4

\* The interpreter stops where the walk does.
LEMMA AbortRules ==
  ASSUME WalkInv, NEW count, AbortAt(count), count = node + off, UNCHANGED <<prog, nodes>>
  PROVE  WalkInv' /\ Lines!Aborts
<1>1. Lines!Cur = node + off
  BY PlaceRules
<1>2. UNCHANGED <<prog, nodes, node, off>> /\ outcome' = "aborted" /\ ops' = count
  BY DEF AbortAt
<1>3. LinePos' = LinePos
  BY <1>2 DEF LinePos
<1>4. WalkInv'
  BY <1>2 DEF WalkInv, Node
<1> QED
  BY <1>1, <1>2, <1>3, <1>4 DEF Lines!Aborts

\* A node that is executed is one of the file, and its next line is of its kind.
LEMMA OnRules ==
  ASSUME WalkInv, NEW code, On(code)
  PROVE  /\ node \in DOMAIN nodes /\ Lines!At(code) /\ Lines!Cur = node + off
         /\ outcome = "run" /\ Node.code = code /\ node + off \in DOMAIN prog
         /\ prog[node + off].op = code
<1>1. outcome = "run" /\ node <= Len(prog) /\ Node.code = code
  BY DEF On
<1>2. node \in DOMAIN nodes /\ node + off \in DOMAIN prog /\ prog[node + off].op = code
      /\ Lines!Cur = node + off
  BY <1>1, PlaceRules
<1>3. node + off <= Len(prog)
  BY <1>2, FileRules DEF WalkInv
<1> QED
  BY <1>1, <1>2, <1>3 DEF Lines!At

\* The dword of a node is the write of the interpreter's line.
LEMMA DwordRules ==
  ASSUME WalkInv, NEW code \in {"w", "pw", "jf"}, On(code), Dword
  PROVE  Lines!Put /\ occ' = Land(prog[node + off].a) /\ Node.a + off = prog[node + off].a
<1>1. node \in DOMAIN nodes /\ Lines!Cur = node + off /\ Node.code = code /\ node + off \in DOMAIN prog
  BY OnRules
<1>2. Node.a + off = prog[node + off].a
  <2>1. CASE code = "w"
    BY <1>1, <2>1 DEF WalkInv
  <2>2. CASE code # "w"
    <3>1. off = 0 /\ Node.a = prog[node].a
      BY <1>1, <2>2, NodeShape
    <3>2. node + off = node /\ prog[node].a \in Nat
      <4>1. node \in Nat
        BY <1>1, PlaceRules
      <4>2. node + off = node
        BY <3>1, <4>1
      <4> QED
        BY <1>1, <4>2, FileRules DEF WalkInv
    <3> QED
      BY <3>1, <3>2
  <2> QED
    BY <2>1, <2>2
<1>3. Lines!Land(prog[node + off].a) = Land(prog[node + off].a)
  BY DEF Lines!Land, Land
<1> QED
  BY <1>1, <1>2, <1>3 DEF Dword, Lines!Put

\* The budget covers what the FIFO has room for, but in a burst to be undone.
LEMMA BudgetRules ==
  ASSUME BudgetInv
  PROVE  /\ FifoCap \in Nat /\ occ \in Nat /\ occ <= FifoCap /\ budget \in Nat
         /\ \A a : Land(a) \in 0 .. FifoCap /\ (a # FifoAddr => Land(a) = occ)
                 /\ (occ < FifoCap => Land(FifoAddr) = occ + 1)
BY FifoCapAssumption DEF BudgetInv, Land

\* A dword of a burst: the budget survives it only when no line of the burst
\* writes the FIFO.
LEMMA BurstStep ==
  ASSUME ExecInv, Burst, UNCHANGED <<prog, stop, nodes>>
  PROVE  ExecInv' /\ Lines!Plain
<1>1. WalkInv /\ BudgetInv /\ On("w") /\ Dword /\ Step /\ UNCHANGED tally
  BY DEF ExecInv, Burst
<1>2. node \in DOMAIN nodes /\ Lines!At("w") /\ node + off \in DOMAIN prog /\ Node.code = "w"
      /\ outcome = "run"
  BY <1>1, OnRules
<1>3. WalkInv' /\ Lines!Goes /\ (LastOfNode \/ (off' > 0 /\ node' = node))
  BY <1>1, <1>2, StepRules
<1>4. Lines!Put /\ occ' = Land(prog[node + off].a)
  BY <1>1, DwordRules
<1>5. occ' \in 0 .. FifoCap /\ FifoCap \in Nat
  BY <1>1, <1>4, BudgetRules
<1>6. CASE LastOfNode /\ Node.inval
  <2>1. budget' = 0
    BY <1>6 DEF Burst
  <2> QED
    BY <1>1, <1>2, <1>3, <1>4, <1>5, <2>1 DEF ExecInv, BudgetInv, Lines!Plain
<1>7. CASE ~Node.inval
  <2>1. budget' = budget
    BY <1>7 DEF Burst
  <2>2. budget <= FifoCap - occ
    BY <1>1, <1>7 DEF BudgetInv
  <2>3. budget > 0 => occ' = occ
    <3> SUFFICES ASSUME budget > 0 PROVE occ' = occ
      OBVIOUS
    <3>1. \E k \in DOMAIN prog : prog[k].op = "pw"
      BY <1>1 DEF BudgetInv
    <3>2. prog[node].op = "w" /\ ~Invalidates(prog, node, Node.upto)
      BY <1>1, <1>2, <1>7, NodeShape
    <3>3. ~ \E k \in node .. Node.upto : prog[k].a = FifoAddr
      BY <3>1, <3>2 DEF Invalidates
    <3>4. node + off \in node .. Node.upto
      BY <1>1, <1>2, NodeShape, PlaceRules DEF WalkInv
    <3> QED
      BY <1>1, <1>4, <3>3, <3>4, BudgetRules
  <2>4. budget' <= FifoCap - occ'
    BY <1>1, <1>5, <2>1, <2>2, <2>3, BudgetRules
  <2>5. BudgetInv'
    BY <1>1, <1>5, <2>1, <2>4 DEF BudgetInv
  <2> QED
    BY <1>1, <1>2, <1>3, <1>4, <2>5 DEF ExecInv, Lines!Plain
<1>8. CASE ~LastOfNode /\ Node.inval
  <2>1. budget' = budget /\ off' > 0 /\ node' = node /\ outcome' = outcome
    BY <1>1, <1>3, <1>8 DEF Burst, Step
  <2>2. On("w")' /\ Node'.inval
    BY <1>1, <1>8, <2>1 DEF On, Node
  <2>3. BudgetInv'
    BY <1>1, <1>5, <2>1, <2>2 DEF BudgetInv
  <2> QED
    BY <1>1, <1>2, <1>3, <1>4, <2>3 DEF ExecInv, Lines!Plain
<1> QED
  BY <1>6, <1>7, <1>8

\* Outside a burst the budget is covered.
LEMMA Covered ==
  ASSUME BudgetInv, ~On("w")
  PROVE  budget <= FifoCap - occ
BY DEF BudgetInv

\* A node has one code.
LEMMA OneCode ==
  ASSUME NEW code, On(code), code # "w"
  PROVE  ~On("w")
BY DEF On

\* The read that prepays pushes is no step of the interpreter's, unless the
\* FIFO stays full.
LEMMA RefillStep ==
  ASSUME ExecInv, Refill, UNCHANGED <<prog, stop, nodes>>
  PROVE  ExecInv' /\ (Lines!Push \/ UNCHANGED Lines!vars)
<1>1. WalkInv /\ BudgetInv /\ On("pw") /\ UNCHANGED <<tally, writes, occ>>
  BY DEF ExecInv, Refill
<1>2. /\ node \in DOMAIN nodes /\ Lines!At("pw") /\ Node.code = "pw" /\ node + off \in DOMAIN prog
      /\ prog[node + off].op = "pw"
  BY <1>1, OnRules
<1>3. FifoCap \in Nat /\ occ \in Nat /\ occ <= FifoCap /\ budget \in Nat /\ BudgetCap \in Nat
  BY <1>1, BudgetRules, BudgetCapAssumption
<1>4. CASE Free > 0 /\ budget' = (IF Free < BudgetCap THEN Free ELSE BudgetCap)
           /\ UNCHANGED <<node, off, outcome, ops>>
  <2>1. LinePos' = LinePos
    BY <1>4 DEF LinePos
  <2>2. WalkInv'
    BY <1>1, <1>4 DEF WalkInv, Node
  <2>3. budget' \in Nat /\ budget' <= FifoCap - occ'
    BY <1>1, <1>3, <1>4 DEF Free
  <2>4. BudgetInv'
    BY <1>1, <1>2, <2>3 DEF BudgetInv
  <2> QED
    BY <1>1, <1>4, <2>1, <2>2, <2>4 DEF ExecInv, Lines!vars
<1>5. CASE Free = 0 /\ AbortAt(Node.upto) /\ UNCHANGED budget
  <2>1. Node.upto = node + off
    BY <1>1, <1>2, NodeShape, PlaceRules
  <2>2. WalkInv' /\ Lines!Aborts
    BY <1>1, <1>5, <2>1, AbortRules
  <2>3. budget <= FifoCap - occ
    BY <1>1, Covered, OneCode
  <2>4. BudgetInv'
    BY <1>1, <1>5, <2>3 DEF BudgetInv
  <2>5. occ = FifoCap
    BY <1>3, <1>5 DEF Free
  <2> QED
    BY <1>1, <1>2, <2>2, <2>4, <2>5 DEF ExecInv, Lines!Push
<1> QED
  BY <1>4, <1>5 DEF Refill

\* A prepaid push finds room, as the interpreter's own poll would.
LEMMA PrepaidStep ==
  ASSUME ExecInv, Prepaid, UNCHANGED <<prog, stop, nodes>>
  PROVE  ExecInv' /\ Lines!Push
<1>1. WalkInv /\ BudgetInv /\ On("pw") /\ Dword /\ Step /\ budget > 0 /\ budget' = budget - 1
      /\ UNCHANGED tally
  BY DEF ExecInv, Prepaid
<1>2. node \in DOMAIN nodes /\ Lines!At("pw") /\ node + off \in DOMAIN prog
      /\ prog[node + off].op = "pw"
  BY <1>1, OnRules
<1>3. WalkInv' /\ Lines!Goes
  BY <1>1, <1>2, StepRules
<1>4. Lines!Put /\ occ' = Land(FifoAddr)
  <2>1. prog[node + off].a = FifoAddr
    BY <1>1, <1>2, FileRules DEF WalkInv
  <2> QED
    BY <1>1, <2>1, DwordRules
<1>5. budget <= FifoCap - occ
  BY <1>1, Covered, OneCode
<1>6. occ < FifoCap /\ occ' = occ + 1 /\ budget' \in Nat /\ budget' <= FifoCap - occ'
      /\ occ' \in 0 .. FifoCap
  <2>1. occ < FifoCap
    BY <1>1, <1>5, BudgetRules
  <2>2. occ' = occ + 1
    BY <1>1, <1>4, <2>1, BudgetRules
  <2> QED
    BY <1>1, <1>5, <2>1, <2>2, BudgetRules
<1>7. BudgetInv'
  BY <1>1, <1>2, <1>6 DEF BudgetInv
<1> QED
  BY <1>1, <1>2, <1>3, <1>4, <1>6, <1>7 DEF ExecInv, Lines!Push

\* Outside a burst, a step that leaves FIFO and budget alone keeps them right.
LEMMA QuietKeeps ==
  ASSUME BudgetInv, ~On("w"), UNCHANGED <<prog, occ, budget>>
  PROVE  BudgetInv'
BY Covered DEF BudgetInv

\* What the nodes of one line share: they end where they begin.
LEMMA OneLineRules ==
  ASSUME WalkInv, NEW code, code \notin {"w", "cap"}, On(code), UNCHANGED <<prog, nodes>>
  PROVE  /\ ~On("w") /\ Lines!At(code) /\ node + off \in DOMAIN prog /\ prog[node + off].op = code
         /\ Step => WalkInv' /\ Lines!Goes
         /\ AbortAt(Node.upto) => WalkInv' /\ Lines!Aborts
<1>1. node \in DOMAIN nodes /\ Lines!At(code) /\ node + off \in DOMAIN prog /\ Node.code = code
      /\ prog[node + off].op = code
  BY OnRules
<1>2. Node.upto = node + off
  BY <1>1, NodeShape, PlaceRules
<1>3. AbortAt(Node.upto) => WalkInv' /\ Lines!Aborts
  BY <1>2, AbortRules
<1>4. Step => WalkInv' /\ Lines!Goes
  BY <1>1, StepRules
<1> QED
  BY <1>1, <1>3, <1>4, OneCode

\* A write that waits for a ready bit never goes to the FIFO.
LEMMA FlyStep ==
  ASSUME ExecInv, FlyNode, UNCHANGED <<prog, stop, nodes>>
  PROVE  ExecInv' /\ Lines!Fly
<1>1. WalkInv /\ BudgetInv /\ On("jf") /\ UNCHANGED <<tally, budget>>
  BY DEF ExecInv, FlyNode
<1>2. /\ ~On("w") /\ Lines!At("jf") /\ node + off \in DOMAIN prog /\ prog[node + off].op = "jf"
      /\ Step => WalkInv' /\ Lines!Goes
      /\ AbortAt(Node.upto) => WalkInv' /\ Lines!Aborts
  BY <1>1, OneLineRules
<1>3. CASE Dword /\ Step
  <2>1. Lines!Put /\ occ' = Land(prog[node + off].a)
    BY <1>1, <1>3, DwordRules
  <2>2. prog[node + off].a # FifoAddr
    BY <1>1, <1>2, FileRules DEF WalkInv
  <2>3. occ' = occ
    BY <1>1, <2>1, <2>2, BudgetRules
  <2> QED
    BY <1>1, <1>2, <1>3, <2>1, <2>3, QuietKeeps DEF ExecInv, Lines!Fly
<1>4. CASE AbortAt(Node.upto) /\ UNCHANGED <<writes, occ>>
  BY <1>1, <1>2, <1>4, QuietKeeps DEF ExecInv, Lines!Fly
<1> QED
  BY <1>3, <1>4 DEF FlyNode

\* A poll that stalls ends the file for both.
LEMMA PollStep ==
  ASSUME ExecInv, PollNode, UNCHANGED <<prog, stop, nodes>>
  PROVE  ExecInv' /\ Lines!Poll
<1>1. WalkInv /\ BudgetInv /\ On("poll") /\ UNCHANGED <<writes, occ, budget>>
  BY DEF ExecInv, PollNode
<1>2. /\ ~On("w") /\ Lines!At("poll")
      /\ Step => WalkInv' /\ Lines!Goes
      /\ AbortAt(Node.upto) => WalkInv' /\ Lines!Aborts
  BY <1>1, OneLineRules
<1>3. BudgetInv'
  BY <1>1, <1>2, QuietKeeps
<1>4. \/ Step /\ UNCHANGED tally
      \/ AbortAt(Node.upto) /\ tally' = [tally EXCEPT !.fails = @ + 1]
  BY DEF PollNode
<1> QED
  BY <1>1, <1>2, <1>3, <1>4 DEF ExecInv, Lines!Poll

\* A check counts every failure so far, for both.
LEMMA CheckStep ==
  ASSUME ExecInv, CheckNode, UNCHANGED <<prog, stop, nodes>>
  PROVE  ExecInv' /\ Lines!Check
<1>1. WalkInv /\ BudgetInv /\ On("r") /\ UNCHANGED <<writes, occ, budget>>
  BY DEF ExecInv, CheckNode
<1>2. /\ ~On("w") /\ Lines!At("r")
      /\ Step => WalkInv' /\ Lines!Goes
      /\ AbortAt(Node.upto) => WalkInv' /\ Lines!Aborts
  BY <1>1, OneLineRules
<1>3. BudgetInv'
  BY <1>1, <1>2, QuietKeeps
<1>4. PICK missed \in BOOLEAN :
        LET fails == tally.fails + (IF missed THEN 1 ELSE 0)
        IN  /\ tally' = [tally EXCEPT !.checks = @ + 1, !.fails = fails]
            /\ IF fails > 0 /\ stop THEN AbortAt(Node.upto) ELSE Step
  BY DEF CheckNode
<1> DEFINE fails == tally.fails + (IF missed THEN 1 ELSE 0)
           after == [tally EXCEPT !.checks = @ + 1, !.fails = fails]
<1>5. tally' = after /\ (IF fails > 0 /\ stop THEN AbortAt(Node.upto) ELSE Step)
  BY <1>4, Zenon
<1>6. WalkInv'
  <2> HIDE DEF fails
  <2> QED
    BY <1>2, <1>5
<1>7. IF fails > 0 /\ stop THEN Lines!Aborts ELSE Lines!Goes
  <2> HIDE DEF fails
  <2> QED
    BY <1>2, <1>5
<1>8. Lines!Check
  BY <1>1, <1>2, <1>5, <1>7, Zenon DEF Lines!Check
<1> QED
  BY <1>3, <1>6, <1>8 DEF ExecInv

\* A capture of a run is the interpreter's capture of that line.
LEMMA CapStep ==
  ASSUME ExecInv, CapNode, UNCHANGED <<prog, stop, nodes>>
  PROVE  ExecInv' /\ Lines!Capture
<1>1. WalkInv /\ BudgetInv /\ On("cap") /\ UNCHANGED <<writes, occ, budget>>
  BY DEF ExecInv, CapNode
<1>2. ~On("w") /\ Lines!At("cap") /\ node \in DOMAIN nodes /\ Lines!Cur = node + off
  BY <1>1, OneCode, OnRules
<1>3. BudgetInv'
  BY <1>1, <1>2, QuietKeeps
<1>4. Step => WalkInv' /\ Lines!Goes
  BY <1>1, <1>2, StepRules
<1>5. AbortAt(node + off) => WalkInv' /\ Lines!Aborts
  BY <1>1, AbortRules
<1> DEFINE After(at, missed) ==
             [tally EXCEPT !.egress = Append(@, at),
                           !.capChecked = IF prog[at].e THEN @ + 1 ELSE @,
                           !.capMismatch = IF missed THEN @ + 1 ELSE @,
                           !.fails = IF missed THEN @ + 1 ELSE @]
           Missing(at) == IF prog[at].e THEN BOOLEAN ELSE {FALSE}
<1>6. PICK missed \in Missing(node + off) :
        /\ tally' = After(node + off, missed)
        /\ IF missed /\ stop THEN AbortAt(node + off) ELSE Step
  BY Zenon DEF CapNode
<1>7. Lines!Captured(missed) = After(Lines!Cur, missed)
  BY Zenon DEF Lines!Captured
<1>8. Lines!Capture <=>
        /\ Lines!At("cap")
        /\ \E m \in Missing(Lines!Cur) :
             /\ tally' = Lines!Captured(m)
             /\ IF m /\ stop THEN Lines!Aborts ELSE Lines!Goes
        /\ UNCHANGED <<writes, occ>>
  BY Zenon DEF Lines!Capture
<1> HIDE DEF After, Missing
<1>9. tally' = Lines!Captured(missed) /\ missed \in Missing(Lines!Cur)
  BY <1>2, <1>6, <1>7, Zenon
<1>10. WalkInv' /\ (IF missed /\ stop THEN Lines!Aborts ELSE Lines!Goes)
  BY <1>4, <1>5, <1>6
<1> QED
  BY <1>1, <1>2, <1>3, <1>8, <1>9, <1>10 DEF ExecInv

\* An unknown op, or a capture without a tag, ends the file at its line.
LEMMA RefuseStep ==
  ASSUME ExecInv, RefuseNode, UNCHANGED <<prog, stop, nodes>>
  PROVE  ExecInv' /\ Lines!Refuse
<1>1. WalkInv /\ BudgetInv /\ AbortAt(Node.upto) /\ UNCHANGED <<tally, writes, occ, budget>>
  BY DEF ExecInv, RefuseNode
<1>2. CASE On("badcap")
  BY <1>1, <1>2, OneLineRules, QuietKeeps DEF ExecInv, Lines!Refuse
<1>3. CASE On("bad")
  BY <1>1, <1>3, OneLineRules, QuietKeeps DEF ExecInv, Lines!Refuse
<1> QED
  BY <1>2, <1>3 DEF RefuseNode

\* Past the last node the interpreter has no line left either.
LEMMA EndStep ==
  ASSUME ExecInv, EndOfNodes, UNCHANGED <<prog, stop, nodes>>
  PROVE  ExecInv' /\ Lines!Finish
<1>1. /\ WalkInv /\ BudgetInv /\ outcome = "run" /\ node > Len(prog) /\ outcome' = "done"
      /\ ops' = Len(prog) /\ UNCHANGED <<tally, writes, occ, node, off, budget>>
  BY DEF ExecInv, EndOfNodes
<1>2. Lines!Cur > Len(prog)
  <2>1. Lines!Cur = node + off /\ Len(prog) \in Nat /\ node \in Nat /\ off \in Nat
    BY <1>1, PlaceRules DEF WalkInv
  <2> QED
    BY <1>1, <2>1
<1>3. LinePos' = LinePos
  BY <1>1 DEF LinePos
<1>4. WalkInv'
  BY <1>1 DEF WalkInv, Node
<1>5. ~On("w")
  BY <1>1, PlaceRules DEF On
<1> QED
  BY <1>1, <1>2, <1>3, <1>4, <1>5, QuietKeeps DEF ExecInv, Lines!Finish

\* The tile consumes a record: the budget is covered all the better.
LEMMA ConsumeStep ==
  ASSUME ExecInv, Consume
  PROVE  ExecInv' /\ Lines!Drain
<1>1. /\ WalkInv /\ BudgetInv /\ outcome = "run" /\ occ > 0 /\ occ' = occ - 1
      /\ UNCHANGED <<prog, stop, pos, outcome, ops, tally, writes, nodes, node, off, budget>>
  BY DEF ExecInv, Consume, Drain
<1>2. LinePos' = LinePos
  BY <1>1 DEF LinePos
<1>3. WalkInv'
  BY <1>1 DEF WalkInv, Node
<1>4. occ' \in 0 .. FifoCap /\ (budget <= FifoCap - occ => budget' <= FifoCap - occ')
  BY <1>1, BudgetRules
<1>5. On("w") /\ Node.inval /\ off > 0 => (On("w") /\ Node.inval /\ off > 0)'
  BY <1>1 DEF On, Node
<1>6. BudgetInv'
  BY <1>1, <1>4, <1>5 DEF BudgetInv
<1> QED
  BY <1>1, <1>2, <1>3, <1>6 DEF ExecInv, Lines!Drain

-----------------------------------------------------------------------------
\* Both executors begin before the first line.
LEMMA InitStep ==
  ASSUME Init
  PROVE  ExecInv /\ Lines!InitExec
<1>1. /\ prog \in Programs /\ InitExec /\ nodes = Nodes(prog)
      /\ node = NodeAfter(0) /\ off = 0 /\ budget = 0
  BY DEF Init
<1>2. Len(prog) \in Nat /\ DOMAIN prog = 1 .. Len(prog) /\ DOMAIN nodes = Starts(prog)
  BY <1>1, FileRules DEF Nodes
<1>3. node \in 1 .. Len(prog) + 1 /\ (node <= Len(prog) => node \in DOMAIN nodes)
  BY <1>1, <1>2, NodeAfterRules
<1>4. LastBefore(prog, 0, node) /\ 0 \in 0 .. node - 1
  BY <1>1, <1>3, FirstNode
<1>5. node \in DOMAIN nodes =>
        /\ node + off <= Node.upto
        /\ Node.code = "w" => prog[node + off].a = Node.a + off
  <2> SUFFICES ASSUME node \in DOMAIN nodes
               PROVE  /\ node + off <= Node.upto
                      /\ prog[node + off].a = Node.a + off
    OBVIOUS
  <2>1. node \in 1 .. Len(prog) /\ Node.a = prog[node].a /\ Node.upto \in node .. Len(prog)
    BY <1>2, NodeRules, <1>1 DEF Node
  <2>2. prog[node].a \in Nat /\ node + off = node
    BY <1>1, <1>2, <2>1, FileRules
  <2> QED
    BY <1>1, <2>1, <2>2
<1>6. WalkInv
  BY <1>1, <1>2, <1>3, <1>4, <1>5 DEF WalkInv
<1>7. BudgetInv
  BY <1>1, FifoCapAssumption DEF BudgetInv, InitExec
<1>8. LinePos = 0
  BY <1>1, <1>3, <1>4, <1>6, PlaceRules, LastIsOne
<1> QED
  BY <1>1, <1>6, <1>7, <1>8 DEF ExecInv, InitExec, Lines!InitExec, NoTally, Lines!NoTally

\* Every step of the node walk is a step of the interpreter, or none.
LEMMA NextStep ==
  ASSUME ExecInv, [Next]_execVars
  PROVE  ExecInv' /\ [Lines!LineStep \/ Lines!Drain]_(Lines!vars)
<1>1. CASE Exec
  <2>1. UNCHANGED <<prog, stop, nodes>>
    BY <1>1 DEF Exec
  <2>2. CASE Burst
    BY <2>1, <2>2, BurstStep DEF Lines!LineStep
  <2>3. CASE Refill
    BY <2>1, <2>3, RefillStep DEF Lines!LineStep
  <2>4. CASE Prepaid
    BY <2>1, <2>4, PrepaidStep DEF Lines!LineStep
  <2>5. CASE FlyNode
    BY <2>1, <2>5, FlyStep DEF Lines!LineStep
  <2>6. CASE PollNode
    BY <2>1, <2>6, PollStep DEF Lines!LineStep
  <2>7. CASE CapNode
    BY <2>1, <2>7, CapStep DEF Lines!LineStep
  <2>8. CASE CheckNode
    BY <2>1, <2>8, CheckStep DEF Lines!LineStep
  <2>9. CASE RefuseNode
    BY <2>1, <2>9, RefuseStep DEF Lines!LineStep
  <2>10. CASE EndOfNodes
    BY <2>1, <2>10, EndStep DEF Lines!LineStep
  <2> QED
    BY <1>1, <2>2, <2>3, <2>4, <2>5, <2>6, <2>7, <2>8, <2>9, <2>10 DEF Exec
<1>2. CASE Consume
  BY <1>2, ConsumeStep
<1>3. CASE UNCHANGED execVars
  <2>1. UNCHANGED <<prog, stop, pos, outcome, ops, tally, occ, writes, nodes, node, off, budget>>
    BY <1>3 DEF execVars, vars
  <2>2. LinePos' = LinePos
    BY <2>1 DEF LinePos
  <2>3. WalkInv'
    BY <2>1 DEF ExecInv, WalkInv, Node
  <2>4. BudgetInv'
    BY <2>1 DEF ExecInv, BudgetInv, On, Node
  <2> QED
    BY <2>1, <2>2, <2>3, <2>4 DEF ExecInv, Lines!vars
<1> QED
  BY <1>1, <1>2, <1>3 DEF Next

\* Every reachable state of the compiled executor satisfies ExecInv.
THEOREM Invariance == Spec => []ExecInv
<1>1. Init => ExecInv
  BY InitStep
<1>2. ExecInv /\ [Next]_execVars => ExecInv'
  BY NextStep
<1> QED
  BY <1>1, <1>2, PTL DEF Spec

\* A prepaid push finds room: at a push the budget never promises more than
\* the FIFO has, for every file whose pushes go to the FIFO and whose waiting
\* writes do not.
THEOREM BudgetSafeHolds == Spec => []BudgetSafe
<1>1. ExecInv => BudgetSafe
  BY Covered, OneCode DEF ExecInv, BudgetSafe
<1> QED
  BY <1>1, Invariance, PTL

\* exec_compiled makes the writes, checks, captures and reports of
\* exec_interpreted, in its order, whatever the file and the card's answers.
THEOREM SameAsLinesHolds == Spec => SameAsLines
<1>1. Init => Lines!InitExec
  BY InitStep
<1>2. ExecInv /\ [Next]_execVars => [Lines!LineStep \/ Lines!Drain]_(Lines!vars)
  BY NextStep
<1> QED
  BY <1>1, <1>2, Invariance, PTL DEF Spec, SameAsLines, Lines!LineSpec
=============================================================================
