------------------------------ MODULE LineExec ------------------------------
(***************************************************************************)
(* What running one regops file means: exec_interpreted of f2_host_run.py, *)
(* a line at a time in file order.  The card is what MockIO models of it:  *)
(* one stream FIFO with a free count, and registers whose reads either     *)
(* meet the line's expectation or do not.  A blank line is the `gap' of    *)
(* the line after it; the datum of a write is the number of its line.      *)
(***************************************************************************)
EXTENDS Naturals, Sequences

CONSTANTS FifoCap,   \* records the stream FIFO holds
          FifoAddr   \* its address

ASSUME FifoCapAssumption == FifoCap \in Nat \ {0}

Ops == {"note", "w", "pw", "jf", "poll", "cap", "badcap", "r", "bad"}

VARIABLES prog,     \* the lines of the file
          stop,     \* stop_on_fail
          pos,      \* lines executed; notes count with the line after them
          outcome,  \* "run", "done" or "aborted"
          ops,      \* the op count reported at the end
          tally,    \* checks, fails, cap_checked, cap_mismatch and the egress
          occ,      \* records in the stream FIFO
          writes    \* every dword that reached the card, in order

vars == <<prog, stop, pos, outcome, ops, tally, occ, writes>>

NoTally == [checks |-> 0, fails |-> 0, capChecked |-> 0, capMismatch |-> 0, egress |-> << >>]

InitExec ==
  /\ stop \in BOOLEAN
  /\ pos = 0
  /\ outcome = "run"
  /\ ops = 0
  /\ tally = NoTally
  /\ occ \in 0 .. FifoCap
  /\ writes = << >>

\* The next line that is not a note; past the end when there is none.
Cur == CHOOSE n \in pos + 1 .. Len(prog) + 1 :
         /\ n <= Len(prog) => prog[n].op # "note"
         /\ \A k \in pos + 1 .. n - 1 : prog[k].op = "note"

At(kind) == outcome = "run" /\ Cur <= Len(prog) /\ prog[Cur].op = kind

Goes == pos' = Cur /\ UNCHANGED <<outcome, ops>>
Aborts == pos' = pos /\ outcome' = "aborted" /\ ops' = Cur

\* A record written to the stream FIFO; one that finds no room is lost.
Land(a) == IF a = FifoAddr /\ occ < FifoCap THEN occ + 1 ELSE occ

Put == writes' = Append(writes, <<prog[Cur].a, Cur>>) /\ occ' = Land(prog[Cur].a)

Plain == At("w") /\ Put /\ Goes /\ UNCHANGED tally

\* pw: polls the free count, then writes; a FIFO that stays full is a stall.
Push ==
  /\ At("pw")
  /\ \/ occ < FifoCap /\ Put /\ Goes
     \/ occ = FifoCap /\ Aborts /\ UNCHANGED <<writes, occ>>
  /\ UNCHANGED tally

\* jf: the same on a ready bit the card may never raise.
Fly ==
  /\ At("jf")
  /\ (Put /\ Goes) \/ (Aborts /\ UNCHANGED <<writes, occ>>)
  /\ UNCHANGED tally

\* Only a poll that stalls is itself counted as a failure.
Poll ==
  /\ At("poll")
  /\ \/ Goes /\ UNCHANGED tally
     \/ Aborts /\ tally' = [tally EXCEPT !.fails = @ + 1]
  /\ UNCHANGED <<writes, occ>>

Captured(missed) ==
  [tally EXCEPT !.egress = Append(@, Cur),
                !.capChecked = IF prog[Cur].e THEN @ + 1 ELSE @,
                !.capMismatch = IF missed THEN @ + 1 ELSE @,
                !.fails = IF missed THEN @ + 1 ELSE @]

\* A capture fails only against an expectation it carries (D-P1).
Capture ==
  /\ At("cap")
  /\ \E missed \in (IF prog[Cur].e THEN BOOLEAN ELSE {FALSE}) :
       /\ tally' = Captured(missed)
       /\ IF missed /\ stop THEN Aborts ELSE Goes
  /\ UNCHANGED <<writes, occ>>

\* r and rn: stop_on_fail looks at every failure so far, not at this one.
Check ==
  /\ At("r")
  /\ \E missed \in BOOLEAN :
       LET fails == tally.fails + (IF missed THEN 1 ELSE 0)
       IN  /\ tally' = [tally EXCEPT !.checks = @ + 1, !.fails = fails]
           /\ IF fails > 0 /\ stop THEN Aborts ELSE Goes
  /\ UNCHANGED <<writes, occ>>

Refuse ==
  /\ At("badcap") \/ At("bad")
  /\ Aborts
  /\ UNCHANGED <<tally, writes, occ>>

Finish ==
  /\ outcome = "run" /\ Cur > Len(prog)
  /\ outcome' = "done" /\ ops' = Len(prog)
  /\ UNCHANGED <<pos, tally, writes, occ>>

LineStep ==
  /\ Plain \/ Push \/ Fly \/ Poll \/ Capture \/ Check \/ Refuse \/ Finish
  /\ UNCHANGED <<prog, stop>>

\* The tile consumes a record at a time of its own choosing.
Drain ==
  /\ outcome = "run" /\ occ > 0
  /\ occ' = occ - 1
  /\ UNCHANGED <<prog, stop, pos, outcome, ops, tally, writes>>

LineSpec == InitExec /\ [][LineStep \/ Drain]_vars
=============================================================================
