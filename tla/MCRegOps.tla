------------------------------ MODULE MCRegOps ------------------------------
(* Every file of up to MaxLines lines over the kinds of line the emitters  *)
(* write.  Address 1 is the stream FIFO, 0 and 2 the words around it; a    *)
(* longer file is of stream pushes and bursts only.                        *)
EXTENDS CompiledExec

CONSTANT MaxLines

L(op, a, gap, e) == [op |-> op, a |-> a, gap |-> gap, e |-> e]

MCLines ==
  {L("w", a, FALSE, FALSE) : a \in 0 .. 2} \cup
  {L("w", 2, TRUE, FALSE), L("note", 0, FALSE, FALSE), L("pw", 1, FALSE, FALSE),
   L("jf", 0, FALSE, FALSE), L("poll", 0, FALSE, FALSE), L("cap", 0, FALSE, TRUE),
   L("cap", 0, TRUE, FALSE), L("badcap", 0, FALSE, FALSE), L("r", 0, FALSE, FALSE),
   L("bad", 0, FALSE, FALSE)}

MCStream == {l \in MCLines : l.op = "pw" \/ (l.op = "w" /\ l.a > 0 /\ ~l.gap)}

MCPrograms == UNION {[1 .. n -> MCLines] : n \in 1 .. MaxLines}
              \cup [1 .. MaxLines + 2 -> MCStream]
=============================================================================
