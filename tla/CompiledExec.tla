---------------------------- MODULE CompiledExec ----------------------------
(***************************************************************************)
(* The executor every job really runs on: compile_file turns the lines     *)
(* into nodes (runs of ascending writes and runs of captures become one    *)
(* node, notes become none), and exec_compiled walks the nodes, prepaying  *)
(* pushes from one read of the FIFO's free count.  It is shown to do what  *)
(* LineExec does.                                                          *)
(***************************************************************************)
EXTENDS LineExec

CONSTANTS BudgetCap,  \* --pw-budget: pushes one free-count read may prepay
          Programs    \* the files of the model

ASSUME BudgetCapAssumption == BudgetCap \in Nat \ {0}

\* What the emitters write: every push goes to the stream FIFO, and no jf does.
ASSUME ProgramsAssumption ==
  \A p \in Programs :
    /\ p \in Seq([op : Ops, a : Nat, gap : BOOLEAN, e : BOOLEAN])
    /\ \A i \in DOMAIN p : p[i].op \in {"pw", "jf"} => (p[i].a = FifoAddr <=> p[i].op = "pw")

VARIABLES nodes,   \* the compiled file, each node under its first line
          node,    \* the first line of the node being executed
          off,     \* lines of it already executed
          budget   \* prepaid pushes at FifoAddr

execVars == <<vars, nodes, node, off, budget>>

\* Two lines that compile into one node: consecutive in the file, and both
\* tagged captures, or both writes with the second one word further.
Joins(p, i) ==
  /\ i > 1 /\ ~p[i].gap
  /\ p[i].op = p[i - 1].op
  /\ \/ p[i].op = "cap"
     \/ p[i].op = "w" /\ p[i].a = p[i - 1].a + 1

RunEnd(p, i) == CHOOSE j \in i .. Len(p) :
                  /\ \A k \in i + 1 .. j : Joins(p, k)
                  /\ j < Len(p) => ~Joins(p, j + 1)

\* Mutant of Invalidates: a burst into the FIFO leaves its budget alone.
InvalidatesSingles(p, i, j) == i = j /\ p[i].op = "w" /\ p[i].a = FifoAddr

\* inval: the writes of the node that touch the pw FIFO.
Invalidates(p, i, j) ==
  /\ p[i].op = "w"
  /\ \E k \in DOMAIN p : p[k].op = "pw"
  /\ \E k \in i .. j : p[k].a = FifoAddr

Starts(p) == {i \in DOMAIN p : p[i].op # "note" /\ ~Joins(p, i)}

\* The node list, in file order; `upto' is the op count at the end of the node.
Nodes(p) ==
  [i \in Starts(p) |-> [code |-> p[i].op, upto |-> RunEnd(p, i), a |-> p[i].a,
                        inval |-> Invalidates(p, i, RunEnd(p, i))]]

\* The node after line n; past the end when there is none.
NodeAfter(n) ==
  CHOOSE i \in n + 1 .. Len(prog) + 1 :
    /\ i <= Len(prog) => i \in DOMAIN nodes
    /\ \A k \in n + 1 .. i - 1 : k \notin DOMAIN nodes

Node == nodes[node]
On(code) == outcome = "run" /\ node <= Len(prog) /\ Node.code = code

Init ==
  /\ prog \in Programs
  /\ InitExec
  /\ nodes = Nodes(prog)
  /\ node = NodeAfter(0) /\ off = 0 /\ budget = 0

LastOfNode == node + off = Node.upto

Step ==
  /\ IF LastOfNode THEN node' = NodeAfter(node) /\ off' = 0 ELSE node' = node /\ off' = off + 1
  /\ UNCHANGED <<outcome, ops>>

AbortAt(count) == outcome' = "aborted" /\ ops' = count /\ UNCHANGED <<node, off>>

\* One dword of a node: the burst's address is its base plus the offset.
Dword == writes' = Append(writes, <<Node.a + off, node + off>>) /\ occ' = Land(Node.a + off)

Burst ==
  /\ On("w")
  /\ Dword /\ Step
  /\ budget' = IF LastOfNode /\ Node.inval THEN 0 ELSE budget
  /\ UNCHANGED tally

Free == FifoCap - occ

\* The free-count read that prepays pushes; it repeats until there is room.
Refill ==
  /\ On("pw") /\ budget = 0
  /\ \/ /\ Free > 0
        /\ budget' = IF Free < BudgetCap THEN Free ELSE BudgetCap
        /\ UNCHANGED <<node, off, outcome, ops>>
     \/ Free = 0 /\ AbortAt(Node.upto) /\ UNCHANGED budget
  /\ UNCHANGED <<tally, writes, occ>>

Prepaid == On("pw") /\ budget > 0 /\ Dword /\ Step /\ budget' = budget - 1 /\ UNCHANGED tally

FlyNode ==
  /\ On("jf")
  /\ (Dword /\ Step) \/ (AbortAt(Node.upto) /\ UNCHANGED <<writes, occ>>)
  /\ UNCHANGED <<tally, budget>>

PollNode ==
  /\ On("poll")
  /\ \/ Step /\ UNCHANGED tally
     \/ AbortAt(Node.upto) /\ tally' = [tally EXCEPT !.fails = @ + 1]
  /\ UNCHANGED <<writes, occ, budget>>

\* Mutant of CapNode: an abort inside a run reports the whole run's ops.
CapNodeWhole ==
  /\ On("cap")
  /\ \E missed \in (IF prog[node + off].e THEN BOOLEAN ELSE {FALSE}) :
       /\ tally' = [tally EXCEPT !.egress = Append(@, node + off),
                                 !.capChecked = IF prog[node + off].e THEN @ + 1 ELSE @,
                                 !.capMismatch = IF missed THEN @ + 1 ELSE @,
                                 !.fails = IF missed THEN @ + 1 ELSE @]
       /\ IF missed /\ stop THEN AbortAt(Node.upto) ELSE Step
  /\ UNCHANGED <<writes, occ, budget>>

CapNode ==
  /\ On("cap")
  /\ \E missed \in (IF prog[node + off].e THEN BOOLEAN ELSE {FALSE}) :
       /\ tally' = [tally EXCEPT !.egress = Append(@, node + off),
                                 !.capChecked = IF prog[node + off].e THEN @ + 1 ELSE @,
                                 !.capMismatch = IF missed THEN @ + 1 ELSE @,
                                 !.fails = IF missed THEN @ + 1 ELSE @]
       /\ IF missed /\ stop THEN AbortAt(node + off) ELSE Step
  /\ UNCHANGED <<writes, occ, budget>>

CheckNode ==
  /\ On("r")
  /\ \E missed \in BOOLEAN :
       LET fails == tally.fails + (IF missed THEN 1 ELSE 0)
       IN  /\ tally' = [tally EXCEPT !.checks = @ + 1, !.fails = fails]
           /\ IF fails > 0 /\ stop THEN AbortAt(Node.upto) ELSE Step
  /\ UNCHANGED <<writes, occ, budget>>

RefuseNode ==
  /\ On("badcap") \/ On("bad")
  /\ AbortAt(Node.upto)
  /\ UNCHANGED <<tally, writes, occ, budget>>

EndOfNodes ==
  /\ outcome = "run" /\ node > Len(prog)
  /\ outcome' = "done" /\ ops' = Len(prog)
  /\ UNCHANGED <<tally, writes, occ, node, off, budget>>

\* Where exec_interpreted would be: after the last line of this node done,
\* or of the file before it.
LinePos ==
  IF off > 0 THEN node + off - 1
  ELSE CHOOSE n \in 0 .. node - 1 : /\ n > 0 => prog[n].op # "note"
                                    /\ \A k \in n + 1 .. node - 1 : prog[k].op = "note"

Exec ==
  /\ \/ Burst \/ Refill \/ Prepaid \/ FlyNode \/ PollNode \/ CapNode \/ CheckNode
     \/ RefuseNode \/ EndOfNodes
  /\ UNCHANGED <<prog, stop, pos, nodes>>

Consume == Drain /\ UNCHANGED <<nodes, node, off, budget>>

Next == Exec \/ Consume

Spec == Init /\ [][Next]_execVars

-----------------------------------------------------------------------------
\* The PW BUDGET claim of f2_host_run.py: between two free-count reads the
\* budget never promises more room than the FIFO has, whatever the tile
\* consumes and whatever other writes reach the FIFO, so a push needs no
\* poll of its own.
BudgetSafe == On("pw") => budget <= FifoCap - occ

Lines == INSTANCE LineExec WITH pos <- LinePos

\* "SEMANTICS ARE IDENTICAL": with the same answers from the card, the
\* compiled executor makes the same writes in the same order, the same
\* checks and captures, and reports the same op count and the same abort as
\* the line-by-line interpreter.
SameAsLines == Lines!LineSpec
=============================================================================
