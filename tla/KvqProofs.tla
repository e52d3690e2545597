----------------------------- MODULE KvqProofs -----------------------------
(***************************************************************************)
(* Proofs about KvqEngine, for every vector size, group size, scale bank   *)
(* and record store.  IInv ties the FSM to the key path and to what is     *)
(* still due to be stored: the idle flag and the stores follow.  ScaleInv, *)
(* MaskInv and ReadInv are built on it, each on those before: the rows the *)
(* records name, the mask they are laid out under, and what a read drives. *)
(***************************************************************************)
EXTENDS KvqEngine, TLAPS, FiniteSetTheorems, SequenceTheorems

States == {"IDLE", "COLLECT", "COMPRESS", "STORE", "KCOLLECT", "KFEED", "KACCEPT", "KEMIT",
           "RLOAD", "RWAIT", "OUTPUT", "OFLUSH"}

\* The tokens the key path holds once it has clocked in what the FSM hands it.
Fed == IF stb.kpIn.valid THEN Append(kp.toks, tokens) ELSE kp.toks

\* What is to be stored of a group, from its i-th token on.
Owed(toks, base, i) == {[tok |-> toks[j], addr |-> base + j - 1] : j \in i .. Len(toks)}

\* The key path follows the FSM: it works only in KEMIT, gathers what the FSM
\* has fed it, and is empty outside a group.
PathInv ==
  /\ kp \in KeyPathState
  /\ kp.tv => kp.st = "EMIT"
  /\ kp.st # "EMIT" => kp.ptr = 0
  /\ kp.st = "EMIT" => kp.ptr < Len(kp.toks)
  /\ kp.st # "COLL" => state = "KEMIT" /\ kp.toks # << >>
  /\ ~KeyOpen => kp.toks = << >>

\* What the FSM hands the key path, and when.
HandInv ==
  /\ stb.kpIn.valid \in BOOLEAN /\ stb.kpFlush \in BOOLEAN
  /\ stb.kpIn.start \in BOOLEAN /\ stb.kpIn.last \in BOOLEAN
  /\ stb.kpIn.valid => /\ state \in {"KACCEPT", "KEMIT"} /\ kp.st = "COLL" /\ ~stb.kpFlush
                       /\ stb.kpIn.last <=> state = "KEMIT"
                       /\ stb.kpIn.start <=> kp.toks = << >>
  /\ stb.kpFlush => state = "KEMIT" /\ kp.st = "COLL" /\ kp.toks # << >>
  /\ state = "KEMIT" /\ kp.st = "COLL" => stb.kpIn.valid \/ stb.kpFlush

\* How many tokens of the open group have been fed.
CountInv ==
  /\ tokens \in 0 .. MaxTokens /\ state \in States /\ ctrlReset \in BOOLEAN
  /\ KeyOpen => tokens \in Token
  /\ writeAddr \in Nat /\ grpBase \in Nat /\ grpTokCnt \in Nat
  /\ state \in {"KCOLLECT", "KFEED", "KACCEPT"} => Len(Fed) = grpTokCnt
  /\ state = "KACCEPT" => grpTokCnt > 0
  /\ state \notin {"KCOLLECT", "KFEED", "KACCEPT"} => grpTokCnt = 0

\* A strobe that writes is one that only the cycle after STORE or KEMIT has,
\* and the idle flag is up only in the idle state with no strobe in flight.
StrobeInv ==
  /\ idle \in BOOLEAN
  /\ state \notin {"IDLE", "KEMIT"} => stb.sramWr = None /\ stb.bankWr = None
  /\ stb.sramRd => state = "RWAIT"
  /\ idle => /\ state = "IDLE" /\ stb.sramWr = None /\ stb.bankWr = None
             /\ ~stb.kpIn.valid /\ ~stb.cqvIn /\ ~stb.sramRd
  /\ ~Bursting => out = None

\* What is still to be stored, phase by phase.
DueInv ==
  /\ state \in {"IDLE", "COLLECT", "RLOAD", "RWAIT", "OUTPUT", "OFLUSH"} => due = {}
  /\ state \in {"COMPRESS", "STORE"} => due = {[tok |-> tokens, addr |-> writeAddr]}
  /\ state \in {"KCOLLECT", "KACCEPT"} => due = Owed(Fed, grpBase, 1)
  /\ state = "KFEED" =>
       due = Owed(Fed, grpBase, 1) \cup {[tok |-> tokens, addr |-> grpBase + grpTokCnt]}
  /\ state = "KEMIT" => due = Owed(Fed, grpBase, kp.ptr + 1)

IInv == PathInv /\ HandInv /\ CountInv /\ StrobeInv /\ DueInv

Flagged(f) == f \in irq
RowRight(rec) == bank[rec.ssid] = rec.group
Writing == stb.sramWr # None
Committing == stb.bankWr # None

\* The record in flight to the store, and the set and row of its group.
InFlight ==
  /\ stb.sbOvwr \in BOOLEAN
  /\ Committing => /\ Writing /\ IsKey(stb.sramWr.rec) /\ stb.bankWr.set \in SetNo
                   /\ stb.sramWr.rec.ssid = stb.bankWr.set
                   /\ stb.sramWr.rec.group = kp.row
  /\ Writing /\ IsKey(stb.sramWr.rec) => stb.sramWr.rec.ssid \in setLive
  /\ state = "KEMIT" /\ kemitBanked => allocPtr \in setLive /\ kp.st = "EMIT"

\* Every record names a live set, and the set's row is that of the record's
\* own group; a row about to be overwritten is named by no record.
ScaleInv ==
  /\ DOMAIN mem = Addr /\ DOMAIN bank = SetNo
  /\ allocPtr \in SetNo /\ setLive \subseteq SetNo
  /\ \A a \in Addr : IsKey(mem[a]) => mem[a].ssid \in setLive
  /\ InFlight
  /\ ~Flagged("SB_OVWR") =>
       /\ \A a \in Addr : IsKey(mem[a]) =>
            RowRight(mem[a]) /\ (Committing => stb.sbOvwr \/ mem[a].ssid # stb.bankWr.set)
       /\ Writing /\ IsKey(stb.sramWr.rec) => Committing \/ RowRight(stb.sramWr.rec)
       /\ state = "KEMIT" /\ kemitBanked =>
            (Committing /\ stb.bankWr.set = allocPtr) \/ bank[allocPtr] = kp.row

\* Every record was laid out under the live mask.
MaskInv ==
  /\ mask \in LegalMask
  /\ ~Flagged("MASK_SWAP") =>
       /\ \A a \in Addr : IsKey(mem[a]) => mem[a].mask = mask
       /\ Writing /\ IsKey(stb.sramWr.rec) => stb.sramWr.rec.mask = mask

RecordRight(rec) ==
  IsKey(rec) => /\ Flagged("SB_OVWR") \/ RowRight(rec)
                /\ Flagged("MASK_SWAP") \/ rec.mask = mask

\* The lanes walked are the outliers before the next beat's channel; with a
\* single outlier lane a walk that a reset restarted is as good.
Before(m, i) == Cardinality({j \in m : j < i})
LanesWalked == olaneCnt = Before(mask, outCount) \/ (OutlierK <= 1 /\ olaneCnt = 0)

\* What is read is right from the acknowledgement to the last beat, and the
\* operands captured ahead are those of the next beat.
ReadInv ==
  /\ readAddr \in Addr /\ rdAddr \in Addr
  /\ rdValid => ~stb.sramRd /\ RecordRight(rdData)
  /\ bankPrimed => /\ state = "RWAIT" /\ ~rdValid /\ ~stb.sramRd
                   /\ IsKey(rdData) /\ outIsKey = TRUE /\ RecordRight(rdData)
                   /\ Flagged("SB_OVWR") \/ bankRow = rdData.group
  /\ state = "OUTPUT" =>
       /\ ~rdValid /\ ~stb.sramRd
       /\ RecordRight(rdData) /\ op.rec = rdData /\ op.idx = outCount /\ outCount \in Chan
       /\ outIsKey = IsKey(rdData)
       /\ outIsKey => /\ Flagged("SB_OVWR") \/ bankRow = rdData.group
                      /\ LanesWalked
                      /\ op.key = IF outCount \in mask THEN Lane(olaneCnt) ELSE BankRow(bankRow)
  /\ BurstExact

\* A soft reset in a burst restarts its walk: with several outlier lanes it
\* loses count (the KvqResetBurst run), with one there is nothing to lose.
NoLaneLost == Bursting /\ ctrlReset => OutlierK <= 1
-----------------------------------------------------------------------------
\* Past the last token of a group nothing is owed.
LEMMA OwedEmpty ==
  ASSUME NEW toks, NEW base, Len(toks) \in Nat
  PROVE  Owed(toks, base, Len(toks) + 1) = {}
BY DEF Owed

\* Storing the next token of a group takes it, and no other, off what is due.
LEMMA OwedNext ==
  ASSUME NEW toks \in Seq(Token), NEW base \in Nat, NEW i \in Nat, i < Len(toks)
  PROVE  Owed(toks, base, i + 1) \ {[tok |-> toks[i + 1], addr |-> base + i]}
           = Owed(toks, base, i + 2)
<1>1. Len(toks) \in Nat
  OBVIOUS
<1>2. \A j \in Nat : base + j - 1 = base + i <=> j = i + 1
  OBVIOUS
<1>3. \A j \in Nat : j \in i + 1 .. Len(toks) <=> j = i + 1 \/ j \in i + 2 .. Len(toks)
  BY <1>1
<1>4. i + 1 \notin i + 2 .. Len(toks)
  BY <1>1
<1>5. i + 1 .. Len(toks) \subseteq Nat /\ i + 2 .. Len(toks) \subseteq Nat
  BY <1>1
<1> DEFINE item(j) == [tok |-> toks[j], addr |-> base + j - 1]
           rest == i + 2 .. Len(toks)
           all == i + 1 .. Len(toks)
<1>6. item(i + 1) = [tok |-> toks[i + 1], addr |-> base + i]
  OBVIOUS
<1>7. \A j \in rest : item(j) # item(i + 1)
  <2> SUFFICES ASSUME NEW j \in rest PROVE item(j).addr # item(i + 1).addr
    OBVIOUS
  <2>1. item(j).addr = base + j - 1 /\ item(i + 1).addr = base + i
    BY <1>6
  <2> QED
    BY <2>1, <1>2, <1>4, <1>5
<1>8. Owed(toks, base, i + 1) = {item(j) : j \in all} /\ Owed(toks, base, i + 2) = {item(j) : j \in rest}
  BY Zenon DEF Owed
<1>9. all = rest \cup {i + 1}
  BY <1>3, <1>5
<1> HIDE DEF item, rest, all
<1>10. {item(j) : j \in all} \ {item(i + 1)} = {item(j) : j \in rest}
  BY <1>7, <1>9
<1> QED
  BY <1>6, <1>8, <1>10

\* A token fed is due as its group's next.
LEMMA OwedAppend ==
  ASSUME NEW toks \in Seq(Token), NEW t \in Token, NEW base \in Nat
  PROVE  Owed(Append(toks, t), base, 1)
           = Owed(toks, base, 1) \cup {[tok |-> t, addr |-> base + Len(toks)]}
<1>1. Len(toks) \in Nat /\ Len(Append(toks, t)) = Len(toks) + 1
  OBVIOUS
<1>2. /\ Append(toks, t)[Len(toks) + 1] = t
      /\ \A j \in 1 .. Len(toks) : Append(toks, t)[j] = toks[j]
  OBVIOUS
<1>3. 1 .. Len(toks) + 1 = 1 .. Len(toks) \cup {Len(toks) + 1}
  BY <1>1
<1>4. base + (Len(toks) + 1) - 1 = base + Len(toks)
  BY <1>1
<1> QED
  BY <1>1, <1>2, <1>3, <1>4 DEF Owed

\* The key path's clock, case by case.
StepIs(k, in, flush, clear) ==
  /\ clear => Step(k, in, flush, clear) = {Empty}
  /\ ~clear /\ k.st = "COLL" => Step(k, in, flush, clear) = {Collect(k, in, flush)}
  /\ ~clear /\ k.st = "WALK" =>
       Step(k, in, flush, clear) = {k, [k EXCEPT !.st = "EMIT", !.row = Head(k.toks)]}
  /\ ~clear /\ k.st = "EMIT" /\ k.tv => Step(k, in, flush, clear) = {Advance(k)}
  /\ ~clear /\ k.st = "EMIT" /\ ~k.tv => Step(k, in, flush, clear) = {k, [k EXCEPT !.tv = TRUE]}

\* Every case of the key path's clock is one of those.
LEMMA StepCases ==
  ASSUME NEW k, NEW in, NEW flush, NEW clear \in BOOLEAN, k.st \in {"COLL", "WALK", "EMIT"}, k.tv \in BOOLEAN
  PROVE  StepIs(k, in, flush, clear)
<1> DEFINE coll == k.st = "COLL"
           walk == k.st = "WALK"
           emit == k.st = "EMIT"
           x == {Collect(k, in, flush)}
           y == {k, [k EXCEPT !.st = "EMIT", !.row = Head(k.toks)]}
           z == {Advance(k)}
           w == {k, [k EXCEPT !.tv = TRUE]}
<1>1. Step(k, in, flush, clear) =
        CASE clear -> {Empty} [] ~clear /\ coll -> x [] ~clear /\ walk -> y
          [] ~clear /\ emit /\ k.tv -> z [] OTHER -> w
  BY Zenon DEF Step
<1>2. /\ coll => ~walk /\ ~emit
      /\ walk => ~coll /\ ~emit
      /\ emit => ~coll /\ ~walk
  OBVIOUS
<1> HIDE DEF coll, walk, emit, x, y, z, w
<1>3. clear => Step(k, in, flush, clear) = {Empty}
  BY <1>1, Zenon
<1>4. ~clear /\ coll => Step(k, in, flush, clear) = x
  BY <1>1, <1>2, Zenon
<1>5. ~clear /\ walk => Step(k, in, flush, clear) = y
  BY <1>1, <1>2, Zenon
<1>6. ~clear /\ emit /\ k.tv => Step(k, in, flush, clear) = z
  BY <1>1, <1>2, Zenon
<1>7. ~clear /\ emit /\ ~k.tv => Step(k, in, flush, clear) = w
  BY <1>1, <1>2, Zenon
<1> QED
  BY <1>3, <1>4, <1>5, <1>6, <1>7, Zenon DEF coll, walk, emit, x, y, z, w, StepIs

\* A clock of the key path under what the FSM hands it.
PathMoves ==
  \/ /\ ctrlReset
     /\ kp'.st = "COLL" /\ kp'.toks = << >> /\ kp'.ptr = 0 /\ kp'.tv = FALSE
  \/ /\ ~ctrlReset /\ kp.st = "COLL" /\ stb.kpIn.valid
     /\ kp'.st = (IF stb.kpIn.last THEN "WALK" ELSE "COLL")
     /\ kp'.toks = Append(kp.toks, tokens) /\ kp'.ptr = 0 /\ kp'.tv = FALSE /\ kp'.row = kp.row
  \/ /\ ~ctrlReset /\ kp.st = "COLL" /\ ~stb.kpIn.valid /\ stb.kpFlush
     /\ kp'.st = "WALK" /\ kp'.toks = kp.toks /\ kp'.ptr = 0 /\ kp'.tv = FALSE /\ kp'.row = kp.row
  \/ /\ ~ctrlReset /\ kp.st = "COLL" /\ ~stb.kpIn.valid /\ ~stb.kpFlush
     /\ kp' = kp
  \/ /\ ~ctrlReset /\ kp.st = "WALK" /\ ~kp.tv
     /\ kp' = kp
  \/ /\ ~ctrlReset /\ kp.st = "WALK"
     /\ kp'.st = "EMIT" /\ kp'.toks = kp.toks /\ kp'.ptr = kp.ptr /\ kp'.tv = FALSE
  \/ /\ ~ctrlReset /\ kp.st = "EMIT" /\ kp.tv /\ kp.ptr + 1 = Len(kp.toks)
     /\ kp'.st = "COLL" /\ kp'.toks = << >> /\ kp'.ptr = 0 /\ kp'.tv = FALSE /\ kp'.row = kp.row
  \/ /\ ~ctrlReset /\ kp.st = "EMIT" /\ kp.tv /\ kp.ptr + 1 # Len(kp.toks)
     /\ kp'.st = "EMIT" /\ kp'.toks = kp.toks /\ kp'.ptr = kp.ptr + 1 /\ kp'.tv = FALSE
     /\ kp'.row = kp.row
  \/ /\ ~ctrlReset /\ kp.st = "EMIT" /\ ~kp.tv
     /\ kp'.st = "EMIT" /\ kp'.toks = kp.toks /\ kp'.ptr = kp.ptr /\ kp'.row = kp.row
     /\ kp'.tv \in BOOLEAN

\* In a clock the key path makes one of those moves.
LEMMA PathStep ==
  ASSUME PathInv, HandInv, CountInv, KeyPath, ctrlReset \in BOOLEAN
  PROVE  PathMoves /\ kp' \in KeyPathState
<1> DEFINE in == [valid |-> stb.kpIn.valid, start |-> stb.kpIn.start, last |-> stb.kpIn.last,
                  tok |-> tokens]
<1>1. kp' \in Step(kp, in, stb.kpFlush, ctrlReset)
  BY DEF KeyPath
<1>2. /\ in.valid = stb.kpIn.valid /\ in.start = stb.kpIn.start /\ in.last = stb.kpIn.last
      /\ in.tok = tokens
  OBVIOUS
<1>3. /\ kp \in [st : {"COLL", "WALK", "EMIT"}, toks : Seq(Token), ptr : Nat, tv : BOOLEAN,
                 row : Token \cup {NoToken}]
      /\ kp.st \in {"COLL", "WALK", "EMIT"} /\ kp.tv \in BOOLEAN /\ kp.toks \in Seq(Token)
      /\ kp.ptr \in Nat /\ kp.row \in Token \cup {NoToken}
  BY DEF PathInv, KeyPathState
<1>4. /\ stb.kpIn.valid \in BOOLEAN /\ stb.kpFlush \in BOOLEAN
      /\ stb.kpIn.start \in BOOLEAN /\ stb.kpIn.last \in BOOLEAN
      /\ stb.kpIn.valid => tokens \in Token /\ (stb.kpIn.start <=> kp.toks = << >>)
      /\ stb.kpFlush => kp.toks # << >>
      /\ kp.tv => kp.st = "EMIT"
      /\ kp.st # "COLL" => kp.toks # << >>
      /\ kp.st # "EMIT" => kp.ptr = 0
      /\ kp.st = "EMIT" => kp.ptr < Len(kp.toks)
  BY DEF HandInv, CountInv, PathInv, KeyOpen
<1>10. StepIs(kp, in, stb.kpFlush, ctrlReset)
  <2> HIDE DEF in
  <2>1. kp.st \in {"COLL", "WALK", "EMIT"} /\ kp.tv \in BOOLEAN
    BY <1>3
  <2> QED
    BY <2>1, StepCases, Zenon
<1> HIDE DEF in
<1> USE DEF KeyPathState
<1>5. CASE ctrlReset
  <2>1. kp' = Empty
    BY <1>1, <1>10, <1>5, Zenon DEF StepIs
  <2> QED
    BY <2>1, <1>5 DEF Empty, PathMoves
<1>6. CASE ~ctrlReset /\ kp.st = "COLL"
  <2>1. kp' = Collect(kp, in, stb.kpFlush)
    BY <1>1, <1>10, <1>6, Zenon DEF StepIs
  <2>2. CASE stb.kpIn.valid
    <3>1. kp' = [kp EXCEPT !.toks = IF in.start THEN <<in.tok>> ELSE Append(@, in.tok),
                           !.st = IF in.last THEN "WALK" ELSE @, !.ptr = 0]
      BY <2>1, <2>2, <1>2 DEF Collect
    <3>2. (IF in.start THEN <<in.tok>> ELSE Append(kp.toks, in.tok)) = Append(kp.toks, tokens)
      <4>1. Append(<< >>, tokens) = <<tokens>>
        OBVIOUS
      <4> QED
        BY <4>1, <1>2, <1>4, <2>2
    <3>3. Append(kp.toks, tokens) \in Seq(Token)
      BY <1>3, <1>4, <2>2
    <3>4. /\ kp'.toks = Append(kp.toks, tokens)
          /\ kp'.st = (IF stb.kpIn.last THEN "WALK" ELSE "COLL")
          /\ kp'.ptr = 0 /\ kp'.tv = FALSE /\ kp'.row = kp.row
      BY <3>1, <3>2, <1>2, <1>3, <1>4, <1>6
    <3>5. kp' \in KeyPathState
      BY <3>1, <3>2, <3>3, <1>2, <1>3
    <3> QED
      BY <3>4, <3>5, <1>6, <2>2 DEF PathMoves
  <2>3. CASE ~stb.kpIn.valid /\ stb.kpFlush
    <3>1. kp' = [kp EXCEPT !.st = "WALK", !.ptr = 0]
      BY <2>1, <2>3, <1>2, <1>4 DEF Collect
    <3> QED
      BY <3>1, <1>3, <1>4, <1>6, <2>3 DEF PathMoves
  <2>4. CASE ~stb.kpIn.valid /\ ~stb.kpFlush
    <3>1. kp' = kp
      BY <2>1, <2>4, <1>2 DEF Collect
    <3> QED
      BY <3>1, <1>3, <1>6, <2>4 DEF PathMoves
  <2> QED
    BY <2>2, <2>3, <2>4, <1>4
<1>7. CASE ~ctrlReset /\ kp.st = "WALK"
  <2>1. kp' \in {kp, [kp EXCEPT !.st = "EMIT", !.row = Head(kp.toks)]}
    BY <1>1, <1>10, <1>7, Zenon DEF StepIs
  <2>2. Head(kp.toks) \in Token
    BY <1>3, <1>4, <1>7
  <2>3. kp' \in KeyPathState
    BY <2>1, <2>2, <1>3
  <2> QED
    BY <2>1, <2>3, <1>3, <1>4, <1>7 DEF PathMoves
<1>8. CASE ~ctrlReset /\ kp.st = "EMIT" /\ kp.tv
  <2>3. Step(kp, in, stb.kpFlush, ctrlReset) = {Advance(kp)}
    BY <1>10, <1>8, Zenon DEF StepIs
  <2>1. kp' = Advance(kp)
    BY <1>1, <2>3, Zenon
  <2>2. CASE LastTok(kp)
    <3>1. kp' = [kp EXCEPT !.tv = FALSE, !.st = "COLL", !.toks = << >>, !.ptr = 0]
      BY <2>1, <2>2 DEF Advance
    <3>2. << >> \in Seq(Token)
      OBVIOUS
    <3> QED
      BY <3>1, <3>2, <1>3, <1>8, <2>2 DEF PathMoves, LastTok
  <2>4. CASE ~LastTok(kp)
    <3>1. kp' = [kp EXCEPT !.tv = FALSE, !.ptr = @ + 1]
      BY <2>1, <2>4 DEF Advance
    <3>2. kp' \in KeyPathState
      <4>1. kp.ptr + 1 \in Nat
        BY <1>3
      <4>2. kp' = [kp EXCEPT !.tv = FALSE, !.ptr = kp.ptr + 1]
        BY <3>1, <1>3
      <4> QED
        BY <4>1, <4>2, <1>3
    <3>3. /\ kp'.st = "EMIT" /\ kp'.toks = kp.toks /\ kp'.ptr = kp.ptr + 1 /\ kp'.tv = FALSE
          /\ kp'.row = kp.row
      BY <3>1, <1>3, <1>8
    <3> QED
      BY <3>2, <3>3, <1>8, <2>4 DEF PathMoves, LastTok
  <2> QED
    BY <2>2, <2>4
<1>9. CASE ~ctrlReset /\ kp.st = "EMIT" /\ ~kp.tv
  <2>1. kp' \in {kp, [kp EXCEPT !.tv = TRUE]}
    BY <1>1, <1>10, <1>9, Zenon DEF StepIs
  <2> QED
    BY <2>1, <1>3, <1>9 DEF PathMoves
<1> QED
  BY <1>3, <1>5, <1>6, <1>7, <1>8, <1>9

\* No strobe of the FSM is up.
Quiet(s) ==
  /\ s.sramWr = None /\ s.bankWr = None /\ s.sramRd = FALSE /\ s.cqvIn = FALSE
  /\ s.kpIn = NoKpIn /\ s.kpFlush = FALSE /\ s.sbOvwr = FALSE

\* The strobes of a cycle in which the FSM drives none.
LEMMA NoStrobeQuiet == Quiet(NoStrobe)
BY DEF Quiet, NoStrobe

\* What the key path is handed when it is handed nothing.
LEMMA NoKpInFields == NoKpIn.valid = FALSE /\ NoKpIn.start = FALSE /\ NoKpIn.last = FALSE
BY DEF NoKpIn

\* What a clock edge does beside the FSM: WRITE_ADDR holds while the engine
\* does not read as idle.
LEMMA ClockStep ==
  ASSUME IInv, NEW in \in Input, Clock(in)
  PROVE  /\ PathMoves /\ kp' \in KeyPathState
         /\ writeAddr' \in Nat /\ ctrlReset' \in BOOLEAN
         /\ ~idle => writeAddr' = writeAddr
<1>1. Csr(in) /\ KeyPath
  BY DEF Clock
<1>2. PathMoves /\ kp' \in KeyPathState
  BY <1>1, PathStep DEF IInv, CountInv
<1>3. /\ ctrlReset' = (in.csr.op = "reset")
      /\ writeAddr' = IF in.csr.op = "waddr" THEN in.csr.addr ELSE writeAddr
      /\ in.csr.op = "waddr" => StatusIdle
  BY <1>1 DEF Csr, HostRule
<1>4. in.csr \in CsrOp
  BY DEF Input
<1>5. in.csr.op = "waddr" => in.csr.addr \in WriteAddrs
  <2> DEFINE c == in.csr
  <2>1. \/ c \in [op : {"none", "reset"}]
        \/ c \in [op : {"read"}, addr : ReadAddrs]
        \/ c \in [op : {"waddr"}, addr : WriteAddrs]
        \/ c \in [op : {"commit"}, mask : HostMasks]
    BY <1>4 DEF CsrOp
  <2> HIDE DEF c
  <2>2. c.op = "waddr" => c.addr \in WriteAddrs
    BY <2>1
  <2> QED
    BY <2>2 DEF c
<1>6. WriteAddrs \subseteq Nat
  BY HostAssumption, GeometryAssumption
<1>7. writeAddr \in Nat
  BY DEF IInv, CountInv
<1> QED
  BY <1>2, <1>3, <1>5, <1>6, <1>7 DEF StatusIdle

\* Outside a group, and after a soft reset, the key path is empty.
LEMMA OutsideStep ==
  ASSUME IInv, NEW in \in Input, Clock(in), ctrlReset \/ ~KeyOpen,
         state' \in States \ {"KFEED", "KACCEPT", "KEMIT"},
         stb'.kpIn = NoKpIn /\ stb'.kpFlush = FALSE,
         tokens' \in 0 .. MaxTokens, grpBase' \in Nat, grpTokCnt' = 0,
         KeyOpen' => tokens' \in Token
  PROVE  /\ PathInv' /\ HandInv' /\ CountInv'
         /\ kp'.toks = << >> /\ Fed' = << >>
<1>1. /\ PathMoves /\ kp' \in KeyPathState /\ writeAddr' \in Nat /\ ctrlReset' \in BOOLEAN
  BY ClockStep
<1>2. stb'.kpIn = NoKpIn /\ stb'.kpFlush = FALSE
  OBVIOUS
<1>3. ~ctrlReset => kp.st = "COLL" /\ kp.toks = << >> /\ kp.ptr = 0 /\ kp.tv = FALSE
                    /\ ~stb.kpIn.valid /\ ~stb.kpFlush
  BY DEF IInv, PathInv, HandInv, KeyOpen, KeyPathState
<1>4. kp'.st = "COLL" /\ kp'.toks = << >> /\ kp'.ptr = 0 /\ kp'.tv = FALSE
  BY <1>1, <1>3 DEF PathMoves
<1>5. Fed' = << >> /\ Len(Fed') = 0
  BY <1>2, <1>4, NoKpInFields DEF Fed
<1>6. PathInv'
  BY <1>1, <1>4 DEF PathInv
<1>7. HandInv'
  BY <1>2, <1>4, NoKpInFields DEF HandInv
<1>8. CountInv'
  BY <1>1, <1>5 DEF CountInv
<1> QED
  BY <1>4, <1>5, <1>6, <1>7, <1>8

\* A soft reset leaves nothing open and nothing due.
LEMMA ResetStep ==
  ASSUME IInv, NEW in \in Input, SoftReset(in)
  PROVE  IInv'
<1>1. /\ ctrlReset /\ Clock(in) /\ state' = "IDLE" /\ idle' = TRUE /\ out' = None
      /\ grpTokCnt' = 0 /\ stb' = NoStrobe /\ due' = {} /\ tokens' = tokens /\ grpBase' = grpBase
  BY DEF SoftReset
<1>2. Quiet(stb') /\ tokens \in 0 .. MaxTokens /\ grpBase \in Nat
  BY <1>1, NoStrobeQuiet DEF IInv, CountInv
<1>3. PathInv' /\ HandInv' /\ CountInv'
  <2>1. ~KeyOpen' /\ state' \in States \ {"KFEED", "KACCEPT", "KEMIT"}
    BY <1>1 DEF KeyOpen, States
  <2> QED
    BY <1>1, <1>2, <2>1, OutsideStep DEF Quiet
<1>4. StrobeInv'
  BY <1>1, <1>2, NoKpInFields DEF StrobeInv, Quiet
<1>5. DueInv'
  BY <1>1 DEF DueInv
<1> QED
  BY <1>3, <1>4, <1>5 DEF IInv

\* From the idle state: a token or a read begins, or the engine rests.
LEMMA IdleSteps ==
  ASSUME IInv, NEW in \in Input,
         (\E key \in BOOLEAN : BeginToken(in, key)) \/ LaunchRead(in) \/ Rest(in)
  PROVE  IInv'
<1>1. /\ state = "IDLE" /\ ~ctrlReset /\ Clock(in) /\ stb' = NoStrobe /\ due' = due /\ out' = out
      /\ grpTokCnt' = grpTokCnt
      /\ \/ /\ state' \in {"COLLECT", "KCOLLECT"} /\ tokens < MaxTokens /\ tokens' = tokens + 1
            /\ idle' = FALSE /\ grpBase' \in {grpBase, writeAddr}
         \/ state' = "RLOAD" /\ tokens' = tokens /\ idle' = FALSE /\ grpBase' = grpBase
         \/ state' = "IDLE" /\ tokens' = tokens /\ idle' = TRUE /\ grpBase' = grpBase
  BY DEF BeginToken, LaunchRead, Rest, In, group, burst
<1>2. /\ tokens \in 0 .. MaxTokens /\ MaxTokens \in Int /\ grpBase \in Nat /\ writeAddr \in Nat
      /\ grpTokCnt = 0 /\ due = {} /\ out = None
  <2>1. tokens \in 0 .. MaxTokens
    BY DEF IInv, CountInv
  <2> QED
    BY <1>1, <2>1, TokenAssumption DEF IInv, CountInv, DueInv, StrobeInv, Bursting
<1>3. PathInv' /\ HandInv' /\ CountInv' /\ Fed' = << >>
  <2>1. ~KeyOpen /\ state' \in States \ {"KFEED", "KACCEPT", "KEMIT"}
    BY <1>1 DEF KeyOpen, States
  <2>2. tokens' \in 0 .. MaxTokens /\ (KeyOpen' => tokens' \in Token)
    BY <1>1, <1>2, TokenAssumption DEF KeyOpen
  <2>3. grpBase' \in Nat /\ grpTokCnt' = 0
    BY <1>1, <1>2
  <2> QED
    BY <1>1, <2>1, <2>2, <2>3, OutsideStep, NoStrobeQuiet DEF Quiet
<1>4. StrobeInv'
  BY <1>1, <1>2, NoStrobeQuiet, NoKpInFields DEF StrobeInv, Quiet
<1>5. DueInv'
  <2>1. Owed(Fed, grpBase, 1)' = {}
    BY <1>3 DEF Owed
  <2> QED
    BY <1>1, <1>2, <2>1 DEF DueInv
<1> QED
  BY <1>3, <1>4, <1>5 DEF IInv

\* A value being collected, compressed and stored is the one token due.
LEMMA ValueSteps ==
  ASSUME IInv, NEW in \in Input, Collecting(in) \/ Compress(in) \/ Store(in)
  PROVE  IInv'
<1>1. /\ state \in {"COLLECT", "COMPRESS", "STORE"} /\ Clock(in) /\ idle' = idle /\ out' = out
      /\ tokens' = tokens /\ grpTokCnt' = grpTokCnt /\ grpBase' = grpBase
      /\ stb'.kpIn = NoKpIn /\ stb'.kpFlush = FALSE /\ stb'.bankWr = None /\ stb'.sramRd = FALSE
      /\ \/ /\ state = "COLLECT" /\ stb'.sramWr = None
            /\ \/ state' = "COLLECT" /\ due' = due
               \/ state' = "COMPRESS" /\ due' = due \cup {[tok |-> tokens, addr |-> writeAddr]}
         \/ /\ state = "COMPRESS" /\ stb'.sramWr = None
            /\ state' \in {"COMPRESS", "STORE"} /\ due' = due
         \/ /\ state = "STORE" /\ state' = "IDLE"
            /\ due' = due \ {[tok |-> tokens, addr |-> writeAddr]}
  <2>1. CASE Collecting(in)
    BY <2>1 DEF Collecting, In, NoStrobe, group, burst
  <2>2. CASE Compress(in)
    BY <2>2 DEF Compress, In, NoStrobe, intake, group, burst
  <2>3. CASE Store(in)
    BY <2>3 DEF Store, In, NoStrobe, group, burst
  <2> QED
    BY <2>1, <2>2, <2>3
<1>2. /\ tokens \in 0 .. MaxTokens /\ grpBase \in Nat /\ grpTokCnt = 0 /\ ~idle
      /\ writeAddr' = writeAddr /\ out = None /\ idle \in BOOLEAN
  <2>1. ~idle /\ idle \in BOOLEAN
    BY <1>1 DEF IInv, StrobeInv
  <2>2. writeAddr' = writeAddr
    BY <1>1, <2>1, ClockStep
  <2> QED
    BY <1>1, <2>1, <2>2 DEF IInv, CountInv, StrobeInv, Bursting
<1>3. PathInv' /\ HandInv' /\ CountInv'
  <2>1. ~KeyOpen /\ ~KeyOpen' /\ state' \in States \ {"KFEED", "KACCEPT", "KEMIT"}
    BY <1>1 DEF KeyOpen, States
  <2> QED
    BY <1>1, <1>2, <2>1, OutsideStep
<1>4. StrobeInv'
  BY <1>1, <1>2 DEF StrobeInv
<1>5. DueInv'
  <2>1. state = "COLLECT" => due = {}
    BY DEF IInv, DueInv
  <2>2. state \in {"COMPRESS", "STORE"} => due = {[tok |-> tokens, addr |-> writeAddr]}
    BY DEF IInv, DueInv
  <2> QED
    BY <1>1, <1>2, <2>1, <2>2 DEF DueInv
<1> QED
  BY <1>3, <1>4, <1>5 DEF IInv

\* A read, from its address to the last beat, stores nothing.
LEMMA ReadSteps ==
  ASSUME IInv, NEW in \in Input,
         \/ ReadLoad(in) \/ Prime(in) \/ StartBurst(in) \/ AwaitRead(in)
         \/ Output(in) \/ OutFlush(in)
  PROVE  IInv'
<1>1. /\ state \in {"RLOAD", "RWAIT", "OUTPUT", "OFLUSH"} /\ Clock(in) /\ idle' = idle
      /\ tokens' = tokens /\ grpTokCnt' \in {grpTokCnt, 0} /\ grpBase' = grpBase /\ due' = due
      /\ stb'.kpIn = NoKpIn /\ stb'.kpFlush = FALSE /\ stb'.bankWr = None /\ stb'.sramWr = None
      /\ stb'.sramRd => state' = "RWAIT"
      /\ \/ state \in {"RLOAD", "RWAIT"} /\ state' \in {"RWAIT", "OUTPUT", "IDLE"} /\ out' = out
         \/ Bursting /\ Bursting'
         \/ Bursting /\ state' = "IDLE" /\ out' = None
  <2>1. CASE ReadLoad(in)
    BY <2>1 DEF ReadLoad, In, NoStrobe, intake, group, burst
  <2>2. CASE Prime(in)
    BY <2>2 DEF Prime, In, NoStrobe, intake, group
  <2>3. CASE StartBurst(in)
    BY <2>3 DEF StartBurst, In, NoStrobe, intake, group
  <2>4. CASE AwaitRead(in)
    BY <2>4 DEF AwaitRead, In, NoStrobe, intake, group, burst
  <2>5. CASE Output(in)
    BY <2>5 DEF Output, ResetAside, NoStrobe, Bursting
  <2>6. CASE OutFlush(in)
    BY <2>6 DEF OutFlush, ResetAside, NoStrobe, Bursting
  <2> QED
    BY <2>1, <2>2, <2>3, <2>4, <2>5, <2>6
<1>2. /\ tokens \in 0 .. MaxTokens /\ grpBase \in Nat /\ grpTokCnt = 0 /\ ~idle
      /\ due = {} /\ idle \in BOOLEAN /\ (~Bursting => out = None)
  BY <1>1 DEF IInv, CountInv, StrobeInv, DueInv
<1>3. PathInv' /\ HandInv' /\ CountInv'
  <2>1. ~KeyOpen /\ ~KeyOpen' /\ state' \in States \ {"KFEED", "KACCEPT", "KEMIT"}
    BY <1>1 DEF KeyOpen, States, Bursting
  <2> QED
    BY <1>1, <1>2, <2>1, OutsideStep
<1>4. StrobeInv'
  BY <1>1, <1>2 DEF StrobeInv, Bursting
<1>5. DueInv'
  BY <1>1, <1>2 DEF DueInv, Bursting
<1> QED
  BY <1>3, <1>4, <1>5 DEF IInv

\* A group being gathered: the tokens fed so far are due at its addresses.
LEMMA GatherSteps ==
  ASSUME IInv, NEW in \in Input, KCollect(in) \/ KFeed(in) \/ KAccept(in)
  PROVE  IInv'
<1>1. /\ state \in {"KCOLLECT", "KFEED", "KACCEPT"} /\ ~ctrlReset /\ Clock(in) /\ KeyOpen
      /\ idle' = idle /\ out' = out /\ grpBase' = grpBase
      /\ stb'.bankWr = None /\ stb'.sramRd = FALSE /\ stb'.sramWr = None
  BY DEF KCollect, KFeed, KAccept, In, NoStrobe, burst, KeyOpen
<1>2. /\ tokens \in Token /\ grpBase \in Nat /\ grpTokCnt \in Nat /\ ~idle /\ out = None
      /\ Len(Fed) = grpTokCnt /\ tokens \in 0 .. MaxTokens /\ MaxTokens \in Nat
  BY <1>1, TokenAssumption DEF IInv, CountInv, StrobeInv, Bursting
<1>3. /\ PathMoves /\ kp' \in KeyPathState /\ writeAddr' \in Nat /\ ctrlReset' \in BOOLEAN
      /\ kp.toks \in Seq(Token) /\ kp.st = "COLL" /\ ~stb.kpFlush
      /\ stb.kpIn.valid \in BOOLEAN
      /\ stb.kpIn.valid => state = "KACCEPT" /\ ~stb.kpIn.last
  <2>1. PathMoves /\ kp' \in KeyPathState /\ writeAddr' \in Nat /\ ctrlReset' \in BOOLEAN
    BY <1>1, ClockStep
  <2> QED
    BY <1>1, <2>1 DEF IInv, PathInv, HandInv, KeyPathState
<1>4. /\ kp'.st = "COLL" /\ kp'.ptr = 0 /\ kp'.tv = FALSE /\ kp'.toks = Fed
  <2>1. kp.ptr = 0 /\ kp.tv = FALSE
    BY <1>3 DEF IInv, PathInv, KeyPathState
  <2>2. CASE stb.kpIn.valid
    BY <1>1, <1>3, <2>1, <2>2 DEF PathMoves, Fed
  <2>3. CASE ~stb.kpIn.valid
    BY <1>1, <1>3, <2>1, <2>3 DEF PathMoves, Fed
  <2> QED
    BY <2>2, <2>3, <1>3
<1>5. Fed \in Seq(Token)
  BY <1>2, <1>3 DEF Fed
<1>6. StrobeInv'
  <2>1. state' \in States
    BY DEF KCollect, KFeed, KAccept, States
  <2>2. ~Bursting'
    BY DEF KCollect, KFeed, KAccept, Bursting
  <2>3. idle \in BOOLEAN
    BY DEF IInv, StrobeInv
  <2> QED
    BY <1>1, <1>2, <2>1, <2>2, <2>3 DEF StrobeInv
<1>7. CASE KCollect(in)
  <2>1. /\ state = "KCOLLECT" /\ stb' = NoStrobe /\ tokens' = tokens /\ grpTokCnt' = grpTokCnt
        /\ \/ state' = "KCOLLECT" /\ due' = due
           \/ state' = "KFEED" /\ due' = due \cup {[tok |-> tokens, addr |-> grpBase + grpTokCnt]}
    BY <1>7 DEF KCollect, In
  <2>2. stb'.kpIn = NoKpIn /\ stb'.kpFlush = FALSE
    BY <2>1, NoStrobeQuiet DEF Quiet
  <2>3. Fed' = Fed
    BY <1>4, <2>2, NoKpInFields DEF Fed
  <2>4. PathInv'
    BY <1>3, <1>4, <2>1 DEF PathInv, KeyOpen
  <2>5. HandInv'
    BY <1>4, <2>1, <2>2, NoKpInFields DEF HandInv
  <2>6. CountInv'
    BY <1>1, <1>2, <1>3, <2>1, <2>3 DEF CountInv, States, KeyOpen
  <2>7. due = Owed(Fed, grpBase, 1)
    BY <2>1 DEF IInv, DueInv
  <2>8. Owed(Fed, grpBase, 1)' = Owed(Fed, grpBase, 1)
    BY <1>1, <2>3 DEF Owed
  <2>9. DueInv'
    BY <1>1, <2>1, <2>7, <2>8 DEF DueInv
  <2> QED
    BY <1>6, <2>4, <2>5, <2>6, <2>9 DEF IInv
<1>8. CASE KFeed(in)
  <2> DEFINE full == grpTokCnt = KeyGroup - 1
  <2>1. /\ state = "KFEED" /\ tokens' = tokens /\ due' = due
        /\ stb' = [NoStrobe EXCEPT !.kpIn = [valid |-> TRUE, start |-> grpTokCnt = 0, last |-> full]]
        /\ grpTokCnt' = (IF full THEN 0 ELSE grpTokCnt + 1)
        /\ state' = (IF full THEN "KEMIT" ELSE "KACCEPT")
    BY <1>8 DEF KFeed, In
  <2>2. /\ stb'.kpIn = [valid |-> TRUE, start |-> grpTokCnt = 0, last |-> full]
        /\ stb'.kpFlush = FALSE
    BY <2>1 DEF NoStrobe
  <2> DEFINE first == grpTokCnt = 0
  <2> HIDE DEF full, first
  <2>12. /\ stb'.kpIn.valid = TRUE /\ stb'.kpIn.start = first /\ stb'.kpIn.last = full
    BY <2>2 DEF first
  <2>11. full \in BOOLEAN /\ first \in BOOLEAN
    BY DEF full, first
  <2>3. Fed = kp.toks /\ kp'.toks = kp.toks
    BY <1>3, <1>4, <2>1 DEF Fed
  <2>4. Fed' = Append(Fed, tokens) /\ Len(Fed') = grpTokCnt + 1
    <3>1. Fed' = Append(kp'.toks, tokens')
      BY <2>12 DEF Fed
    <3>2. Fed' = Append(Fed, tokens)
      BY <3>1, <2>1, <2>3
    <3> QED
      BY <3>2, <1>2, <1>5
  <2>5. PathInv'
    BY <1>3, <1>4, <2>1 DEF PathInv, KeyOpen
  <2>6. HandInv'
    <3>1. first <=> kp'.toks = << >>
      BY <2>3, <1>2, <1>5, EmptySeq DEF first
    <3> QED
      BY <1>4, <2>1, <2>2, <2>11, <2>12, <3>1 DEF HandInv
  <2>7. CountInv'
    BY <1>1, <1>2, <1>3, <2>1, <2>4, <2>11 DEF CountInv, States, KeyOpen
  <2>8. due = Owed(Fed, grpBase, 1) \cup {[tok |-> tokens, addr |-> grpBase + grpTokCnt]}
    BY <2>1 DEF IInv, DueInv
  <2>9. Owed(Fed', grpBase, 1) = due
    BY <1>2, <1>5, <2>4, <2>8, OwedAppend
  <2>10. DueInv'
    <3>1. kp'.ptr + 1 = 1
      BY <1>4
    <3>2. Owed(Fed, grpBase, 1)' = due /\ (state' = "KEMIT" => Owed(Fed, grpBase, kp.ptr + 1)' = due)
      BY <1>1, <2>9, <3>1
    <3> QED
      BY <2>1, <2>11, <3>2 DEF DueInv
  <2> QED
    BY <1>6, <2>5, <2>6, <2>7, <2>10 DEF IInv
<1>9. CASE KAccept(in)
  <2> DEFINE flushes == ~Beat(in) /\ Latched(in)
  <2>1. /\ state = "KACCEPT" /\ due' = due
        /\ stb' = [NoStrobe EXCEPT !.kpFlush = flushes]
        /\ \/ ~flushes /\ state' \in {"KCOLLECT", "KACCEPT"} /\ grpTokCnt' = grpTokCnt
              /\ (tokens' = tokens \/ (tokens < MaxTokens /\ tokens' = tokens + 1))
           \/ flushes /\ state' = "KEMIT" /\ grpTokCnt' = 0 /\ tokens' = tokens
    BY <1>9 DEF KAccept, In
  <2>12. flushes \in BOOLEAN
    BY DEF flushes
  <2> HIDE DEF flushes
  <2>2. stb'.kpIn = NoKpIn /\ stb'.kpFlush = flushes
    BY <2>1, NoStrobeQuiet DEF Quiet, NoStrobe
  <2>3. Fed' = Fed
    BY <1>4, <2>2, NoKpInFields DEF Fed
  <2>4. PathInv'
    BY <1>3, <1>4, <2>1 DEF PathInv, KeyOpen
  <2>5. grpTokCnt > 0
    BY <2>1 DEF IInv, CountInv
  <2>6. kp'.toks # << >>
    BY <1>2, <1>4, <2>5, EmptySeq
  <2>7. HandInv'
    BY <1>4, <2>1, <2>2, <2>6, <2>12, NoKpInFields DEF HandInv
  <2>8. tokens' \in 0 .. MaxTokens /\ tokens' \in Token
    BY <1>2, <2>1, TokenAssumption
  <2>9. CountInv'
    BY <1>1, <1>2, <1>3, <2>1, <2>3, <2>5, <2>8 DEF CountInv, States
  <2>10. due = Owed(Fed, grpBase, 1)
    BY <2>1 DEF IInv, DueInv
  <2>11. DueInv'
    <3>1. kp'.ptr + 1 = 1
      BY <1>4
    <3>2. Owed(Fed, grpBase, 1)' = due /\ Owed(Fed, grpBase, kp.ptr + 1)' = due
      BY <1>1, <2>3, <2>10, <3>1
    <3> QED
      BY <2>1, <3>2 DEF DueInv
  <2> QED
    BY <1>6, <2>4, <2>7, <2>9, <2>11 DEF IInv
<1> QED
  BY <1>7, <1>8, <1>9

\* A group being emitted: each record written takes its token off what is due,
\* and the last ends the group.
LEMMA EmitStep ==
  ASSUME IInv, NEW in \in Input, KEmit(in)
  PROVE  /\ IInv'
         /\ stb'.sramWr # None =>
              [tok |-> stb'.sramWr.rec.tok, addr |-> stb'.sramWr.addr] \in due
<1>1. /\ state = "KEMIT" /\ ~ctrlReset /\ Clock(in) /\ KeyOpen
      /\ idle' = idle /\ out' = out /\ grpBase' = grpBase /\ grpTokCnt' = grpTokCnt
      /\ tokens' = tokens
  BY DEF KEmit, In, burst, group, KeyOpen
<1>2. /\ tokens \in Token /\ grpBase \in Nat /\ grpTokCnt = 0 /\ ~idle /\ idle \in BOOLEAN
      /\ out = None /\ tokens \in 0 .. MaxTokens
      /\ due = Owed(Fed, grpBase, kp.ptr + 1)
  BY <1>1 DEF IInv, CountInv, StrobeInv, Bursting, DueInv
<1>3. /\ PathMoves /\ kp' \in KeyPathState /\ writeAddr' \in Nat /\ ctrlReset' \in BOOLEAN
  BY <1>1, ClockStep
<1>4. /\ kp.st \in {"COLL", "WALK", "EMIT"} /\ kp.toks \in Seq(Token) /\ kp.ptr \in Nat
      /\ kp.tv \in BOOLEAN
      /\ kp.tv => kp.st = "EMIT"
      /\ kp.st # "EMIT" => kp.ptr = 0
      /\ kp.st = "EMIT" => kp.ptr < Len(kp.toks)
      /\ kp.st # "COLL" => kp.toks # << >>
  BY DEF IInv, PathInv, KeyPathState
<1>5. /\ stb.kpIn.valid \in BOOLEAN /\ stb.kpFlush \in BOOLEAN
      /\ stb.kpIn.valid => kp.st = "COLL" /\ stb.kpIn.last = TRUE
      /\ stb.kpFlush => kp.toks # << >>
      /\ kp.st = "COLL" => stb.kpIn.valid \/ stb.kpFlush
  <2>1. /\ stb.kpIn.valid \in BOOLEAN /\ stb.kpFlush \in BOOLEAN /\ stb.kpIn.last \in BOOLEAN
        /\ stb.kpIn.valid => kp.st = "COLL" /\ (stb.kpIn.last <=> state = "KEMIT")
        /\ stb.kpFlush => kp.toks # << >>
        /\ kp.st = "COLL" => stb.kpIn.valid \/ stb.kpFlush
    BY <1>1 DEF IInv, HandInv
  <2> QED
    BY <2>1, <1>1
<1>6. CASE kp.tv
  <2> DEFINE first == ~kemitBanked
             wr == [kind |-> "wr", addr |-> grpBase + kp.ptr, rec |-> KeyRecord]
  <2>1. kp.st = "EMIT" /\ ~stb.kpIn.valid /\ Fed = kp.toks
    BY <1>4, <1>5, <1>6 DEF Fed
  <2>2. /\ stb' = [NoStrobe EXCEPT !.sramWr = wr,
                     !.bankWr = IF kp.tv /\ first THEN [kind |-> "bank", set |-> allocPtr] ELSE None,
                     !.sbOvwr = kp.tv /\ first /\ allocPtr \in setLive]
        /\ due' = due \ {[tok |-> Emitted(kp), addr |-> grpBase + kp.ptr]}
        /\ state' = IF LastTok(kp) THEN "IDLE" ELSE "KEMIT"
    BY <1>1, <1>6 DEF KEmit, GroupValid
  <2>3. /\ stb'.kpIn = NoKpIn /\ stb'.kpFlush = FALSE /\ stb'.sramRd = FALSE /\ stb'.sramWr = wr
    BY <2>2 DEF NoStrobe
  <2>4. wr.rec.tok = Emitted(kp) /\ wr.addr = grpBase + kp.ptr
    BY DEF KeyRecord
  <2> HIDE DEF wr, first
  <2>5. due' = Owed(kp.toks, grpBase, kp.ptr + 2)
    BY <1>2, <1>4, <2>1, <2>2, OwedNext DEF Emitted
  <2>6. [tok |-> Emitted(kp), addr |-> grpBase + kp.ptr] \in due
    <3>1. kp.ptr + 1 \in kp.ptr + 1 .. Len(kp.toks)
      BY <1>4, <2>1
    <3>2. grpBase + (kp.ptr + 1) - 1 = grpBase + kp.ptr
      BY <1>2, <1>4
    <3> QED
      BY <1>2, <2>1, <3>1, <3>2 DEF Owed, Emitted
  <2>7. CASE LastTok(kp)
    <3>1. kp'.st = "COLL" /\ kp'.toks = << >> /\ kp'.ptr = 0 /\ kp'.tv = FALSE
      BY <1>1, <1>3, <1>6, <2>1, <2>7 DEF PathMoves, LastTok
    <3>2. state' = "IDLE"
      BY <2>2, <2>7
    <3>3. due' = {}
      <4>1. kp.ptr + 2 = Len(kp.toks) + 1 /\ Len(kp.toks) \in Nat
        BY <1>4, <2>7 DEF LastTok
      <4> QED
        BY <2>5, <4>1, OwedEmpty
    <3>4. PathInv'
      BY <1>3, <3>1 DEF PathInv
    <3>5. HandInv'
      BY <3>1, <3>2, <2>3, NoKpInFields DEF HandInv
    <3>6. CountInv'
      BY <1>1, <1>2, <1>3, <3>2 DEF CountInv, States
    <3>7. StrobeInv'
      BY <1>1, <1>2, <2>3, <3>2 DEF StrobeInv
    <3>8. DueInv'
      BY <3>2, <3>3 DEF DueInv
    <3> QED
      BY <2>3, <2>4, <2>6, <3>4, <3>5, <3>6, <3>7, <3>8 DEF IInv
  <2>8. CASE ~LastTok(kp)
    <3>1. kp'.st = "EMIT" /\ kp'.toks = kp.toks /\ kp'.ptr = kp.ptr + 1 /\ kp'.tv = FALSE
      BY <1>1, <1>3, <1>6, <2>1, <2>8 DEF PathMoves, LastTok
    <3>2. state' = "KEMIT"
      BY <2>2, <2>8
    <3>3. Fed' = kp.toks
      BY <3>1, <2>3, NoKpInFields DEF Fed
    <3>4. PathInv'
      BY <1>3, <1>4, <2>1, <2>8, <3>1, <3>2 DEF PathInv, LastTok, KeyOpen
    <3>5. HandInv'
      BY <3>1, <3>2, <2>3, NoKpInFields DEF HandInv
    <3>6. CountInv'
      BY <1>1, <1>2, <1>3, <3>2 DEF CountInv, States
    <3>7. StrobeInv'
      BY <1>1, <1>2, <2>3, <3>2 DEF StrobeInv
    <3>8. DueInv'
      <4>1. kp'.ptr + 1 = kp.ptr + 2
        BY <1>4, <3>1
      <4>2. Owed(Fed, grpBase, kp.ptr + 1)' = due'
        BY <1>1, <2>5, <3>3, <4>1
      <4> QED
        BY <3>2, <4>2 DEF DueInv
    <3> QED
      BY <2>3, <2>4, <2>6, <3>4, <3>5, <3>6, <3>7, <3>8 DEF IInv
  <2> QED
    BY <2>7, <2>8
<1>7. CASE ~kp.tv
  <2>1. stb' = NoStrobe /\ due' = due /\ state' = "KEMIT"
    BY <1>1, <1>7 DEF KEmit, GroupValid
  <2>2. stb'.kpIn = NoKpIn /\ stb'.kpFlush = FALSE /\ stb'.sramRd = FALSE /\ stb'.sramWr = None
    BY <2>1, NoStrobeQuiet DEF Quiet
  <2>3. /\ kp'.toks = Fed /\ Fed # << >> /\ kp'.ptr = kp.ptr /\ kp'.st \in {"WALK", "EMIT"}
        /\ kp'.tv => kp'.st = "EMIT"
    <3>1. CASE kp.st = "COLL" /\ stb.kpIn.valid
      <4>1. Append(kp.toks, tokens) # << >>
        <5>1. Len(Append(kp.toks, tokens)) = Len(kp.toks) + 1 /\ Len(kp.toks) \in Nat
          BY <1>2, <1>4
        <5>2. Len(<< >>) = 0
          OBVIOUS
        <5> QED
          BY <5>1, <5>2
      <4> QED
        BY <3>1, <4>1, <1>1, <1>3, <1>4, <1>5 DEF PathMoves, Fed
    <3>2. CASE kp.st = "COLL" /\ ~stb.kpIn.valid
      BY <3>2, <1>1, <1>3, <1>4, <1>5 DEF PathMoves, Fed
    <3>3. CASE kp.st = "WALK"
      BY <3>3, <1>1, <1>3, <1>4, <1>5 DEF PathMoves, Fed
    <3>4. CASE kp.st = "EMIT"
      BY <3>4, <1>1, <1>3, <1>4, <1>5, <1>7 DEF PathMoves, Fed
    <3> QED
      BY <3>1, <3>2, <3>3, <3>4, <1>4
  <2>4. kp'.st = "EMIT" => kp'.ptr < Len(kp'.toks)
    <3>1. kp'.toks \in Seq(Token)
      BY <1>3 DEF KeyPathState
    <3>2. kp.st # "EMIT" => kp'.ptr = 0 /\ Len(kp'.toks) > 0
      BY <1>4, <2>3, <3>1, EmptySeq
    <3>3. kp.st = "EMIT" => Fed = kp.toks
      BY <1>5 DEF Fed
    <3> QED
      BY <1>4, <2>3, <3>2, <3>3
  <2>5. kp'.st # "EMIT" => kp'.ptr = 0
    <3>1. kp.st = "EMIT" => kp'.st = "EMIT"
      BY <1>1, <1>3, <1>7 DEF PathMoves
    <3> QED
      BY <1>4, <2>3, <3>1
  <2>6. Fed' = Fed
    BY <2>2, <2>3, NoKpInFields DEF Fed
  <2>7. PathInv'
    BY <1>3, <2>1, <2>3, <2>4, <2>5 DEF PathInv, KeyOpen
  <2>8. HandInv'
    BY <2>1, <2>2, <2>3, NoKpInFields DEF HandInv
  <2>9. CountInv'
    BY <1>1, <1>2, <1>3, <2>1 DEF CountInv, States
  <2>10. StrobeInv'
    BY <1>1, <1>2, <2>1, <2>2 DEF StrobeInv
  <2>11. DueInv'
    <3>1. Owed(Fed, grpBase, kp.ptr + 1)' = due
      BY <1>1, <1>2, <2>3, <2>6
    <3> QED
      BY <2>1, <3>1 DEF DueInv
  <2> QED
    BY <2>2, <2>7, <2>8, <2>9, <2>10, <2>11 DEF IInv
<1> QED
  BY <1>4, <1>6, <1>7

\* A record driven to the store is one that is due.
DueWrite ==
  stb'.sramWr # None => [tok |-> stb'.sramWr.rec.tok, addr |-> stb'.sramWr.addr] \in due

\* Every step of the engine keeps the invariant and writes only what is due.
LEMMA StepKeeps ==
  ASSUME IInv, Next
  PROVE  IInv' /\ DueWrite
<1>1. PICK in \in Input : FsmStep(in)
  BY DEF Next
<1>2. CASE SoftReset(in)
  <2>1. stb'.sramWr = None
    BY <1>2, NoStrobeQuiet DEF SoftReset, Quiet
  <2> QED
    BY <1>2, <2>1, ResetStep DEF DueWrite
<1>3. CASE (\E key \in BOOLEAN : BeginToken(in, key)) \/ LaunchRead(in) \/ Rest(in)
  <2>1. stb'.sramWr = None
    BY <1>3, NoStrobeQuiet DEF BeginToken, LaunchRead, Rest, Quiet
  <2> QED
    BY <1>3, <2>1, IdleSteps DEF DueWrite
<1>4. CASE Collecting(in) \/ Compress(in) \/ Store(in)
  <2>1. CASE Store(in)
    <3>1. stb'.sramWr = [kind |-> "wr", addr |-> writeAddr, rec |-> ValueRecord(tokens)]
      BY <2>1 DEF Store, NoStrobe
    <3>2. stb'.sramWr.addr = writeAddr /\ stb'.sramWr.rec.tok = tokens
      BY <3>1 DEF ValueRecord
    <3>3. due = {[tok |-> tokens, addr |-> writeAddr]}
      BY <2>1 DEF Store, In, IInv, DueInv
    <3> QED
      BY <2>1, <3>2, <3>3, ValueSteps DEF DueWrite
  <2>2. CASE Collecting(in) \/ Compress(in)
    <3>1. stb'.sramWr = None
      BY <2>2, NoStrobeQuiet DEF Collecting, Compress, Quiet, NoStrobe
    <3> QED
      BY <2>2, <3>1, ValueSteps DEF DueWrite
  <2> QED
    BY <1>4, <2>1, <2>2
<1>5. CASE \/ ReadLoad(in) \/ Prime(in) \/ StartBurst(in) \/ AwaitRead(in)
           \/ Output(in) \/ OutFlush(in)
  <2>1. stb'.sramWr = None
    BY <1>5 DEF ReadLoad, Prime, StartBurst, AwaitRead, Output, OutFlush, NoStrobe
  <2> QED
    BY <1>5, <2>1, ReadSteps DEF DueWrite
<1>6. CASE KCollect(in) \/ KFeed(in) \/ KAccept(in)
  <2>1. stb'.sramWr = None
    BY <1>6 DEF KCollect, KFeed, KAccept, NoStrobe
  <2> QED
    BY <1>6, <2>1, GatherSteps DEF DueWrite
<1>7. CASE KEmit(in)
  BY <1>7, EmitStep DEF DueWrite
<1> QED
  BY <1>1, <1>2, <1>3, <1>4, <1>5, <1>6, <1>7 DEF FsmStep

\* The engine's invariant: the phases of the FSM and of the key path agree,
\* and the tokens not yet stored are exactly those of the open token or group.
THEOREM Invariance == Spec => []IInv
<1>1. Init => IInv
  <2> SUFFICES ASSUME Init PROVE IInv
    OBVIOUS
  <2>1. /\ state = "IDLE" /\ idle = TRUE /\ tokens = 0 /\ grpTokCnt = 0 /\ grpBase = 0
        /\ out = None /\ stb = NoStrobe /\ kp = Empty /\ ctrlReset = FALSE /\ writeAddr = 0
        /\ due = {}
    BY DEF Init
  <2>2. Empty \in KeyPathState
    BY DEF Empty, KeyPathState
  <2>3. PathInv
    BY <2>1, <2>2 DEF PathInv, Empty
  <2>4. HandInv
    BY <2>1, NoStrobeQuiet, NoKpInFields DEF HandInv, Quiet
  <2>5. CountInv
    <3>1. 0 \in 0 .. MaxTokens
      BY TokenAssumption
    <3>2. ~KeyOpen /\ state \in States
      BY <2>1 DEF KeyOpen, States
    <3> QED
      BY <2>1, <3>1, <3>2 DEF CountInv
  <2>6. StrobeInv
    BY <2>1, NoStrobeQuiet, NoKpInFields DEF StrobeInv, Quiet
  <2>7. DueInv
    BY <2>1 DEF DueInv
  <2> QED
    BY <2>3, <2>4, <2>5, <2>6, <2>7 DEF IInv
<1>2. IInv /\ [Next]_vars => IInv'
  <2>1. IInv /\ Next => IInv'
    BY StepKeeps
  <2>2. IInv /\ UNCHANGED vars => IInv'
    BY DEF IInv, vars, intake, group, burst, memory, csr, PathInv, HandInv, CountInv, StrobeInv,
           DueInv, KeyOpen, Bursting, Fed, Owed
  <2> QED
    BY <2>1, <2>2
<1> QED
  BY <1>1, <1>2, PTL DEF Spec

\* D-020: STATUS.idle can never lie, whatever the host writes, resets and
\* flushes meanwhile.
THEOREM IdleNeverLiesHolds == Spec => []IdleNeverLies
<1>1. IInv => IdleNeverLies
  BY DEF IInv, StrobeInv, DueInv, IdleNeverLies, StatusIdle, Bursting
<1> QED
  BY <1>1, Invariance, PTL

\* Nothing is written but the record of a token collected in full and not
\* discarded since, once, and at the address it was collected for.
THEOREM StoresAreDueHolds == Spec => StoresAreDue
<1>1. IInv /\ [Next]_vars =>
        [stb'.sramWr # None =>
           [tok |-> stb'.sramWr.rec.tok, addr |-> stb'.sramWr.addr] \in due]_vars
  BY StepKeeps DEF DueWrite
<1> QED
  BY <1>1, Invariance, PTL DEF Spec, StoresAreDue
-----------------------------------------------------------------------------
\* The record store, the scale bank and the flags in a clock.
LEMMA MemoryStep ==
  ASSUME NEW in \in Input, Clock(in), DOMAIN mem = Addr, DOMAIN bank = SetNo
  PROVE  /\ irq \subseteq irq' /\ (stb.sbOvwr => "SB_OVWR" \in irq')
         /\ DOMAIN mem' = Addr /\ DOMAIN bank' = SetNo
         /\ \A a \in Addr : mem'[a] = mem[a] \/ (Writing /\ mem'[a] = stb.sramWr.rec)
         /\ ~Writing => mem' = mem
         /\ ~Committing => bank' = bank
         /\ Committing => \A s \in SetNo : bank'[s] = IF s = stb.bankWr.set THEN kp.row ELSE bank[s]
<1>1. Csr(in) /\ Sram /\ ScaleBank
  BY DEF Clock
<1>2. irq \subseteq irq' /\ (stb.sbOvwr => "SB_OVWR" \in irq')
  BY <1>1 DEF Csr
<1>3. /\ DOMAIN mem' = Addr
      /\ \A a \in Addr : mem'[a] = mem[a] \/ (Writing /\ mem'[a] = stb.sramWr.rec)
      /\ ~Writing => mem' = mem
  BY <1>1 DEF Sram, Writing
<1>4. /\ DOMAIN bank' = SetNo
      /\ ~Committing => bank' = bank
      /\ Committing => \A s \in SetNo : bank'[s] = IF s = stb.bankWr.set THEN kp.row ELSE bank[s]
  BY <1>1 DEF ScaleBank, Committing
<1> QED
  BY <1>2, <1>3, <1>4

\* The emission of a record: the first of its group commits the row.
Emits ==
  /\ state = "KEMIT" /\ kp.st = "EMIT" /\ kp'.row = kp.row
  /\ Writing' /\ stb'.sramWr.rec = KeyRecord
  /\ \/ /\ ~kemitBanked /\ Committing' /\ stb'.bankWr.set = allocPtr
        /\ stb'.sbOvwr \in BOOLEAN /\ (stb'.sbOvwr <=> allocPtr \in setLive)
        /\ setLive' = setLive \cup {allocPtr}
     \/ /\ kemitBanked /\ ~Committing' /\ stb'.sbOvwr = FALSE /\ setLive' = setLive
  /\ \/ state' = "KEMIT" /\ allocPtr' = allocPtr /\ kp'.st = "EMIT"
     \/ state' = "IDLE" /\ allocPtr' \in SetNo

\* Any other step: no key record and no row leaves the FSM.
EmitsNothing ==
  /\ ~Committing' /\ stb'.sbOvwr = FALSE /\ setLive' = setLive /\ allocPtr' = allocPtr
  /\ Writing' => ~IsKey(stb'.sramWr.rec) /\ state = "STORE"
  /\ state' = "KEMIT" /\ kemitBanked' =>
       state = "KEMIT" /\ kemitBanked /\ (kp.st = "EMIT" => kp'.st = "EMIT" /\ kp'.row = kp.row)

\* Every step is the emission of a record or none.
LEMMA EmitCases ==
  ASSUME IInv, NEW in \in Input, FsmStep(in), allocPtr \in SetNo
  PROVE  Clock(in) /\ (Emits \/ EmitsNothing)
<1>1. CASE KEmit(in)
  <2>1. /\ state = "KEMIT" /\ ~ctrlReset /\ Clock(in)
    BY <1>1 DEF KEmit, In
  <2>2. PathMoves
    BY <2>1, ClockStep
  <2>3. /\ kp.st \in {"COLL", "WALK", "EMIT"} /\ kp.tv \in BOOLEAN
        /\ kp.tv => kp.st = "EMIT" /\ ~stb.kpIn.valid
    BY DEF IInv, PathInv, HandInv, KeyPathState
  <2>4. CASE kp.tv
    <3> DEFINE wr == [kind |-> "wr", addr |-> grpBase + kp.ptr, rec |-> KeyRecord]
               row == [kind |-> "bank", set |-> allocPtr]
    <3>1. /\ stb' = [NoStrobe EXCEPT !.sramWr = wr,
                       !.bankWr = IF kp.tv /\ ~kemitBanked THEN row ELSE None,
                       !.sbOvwr = kp.tv /\ ~kemitBanked /\ allocPtr \in setLive]
          /\ setLive' = IF ~kemitBanked THEN setLive \cup {allocPtr} ELSE setLive
          /\ IF LastTok(kp) THEN state' = "IDLE" /\ allocPtr' = (allocPtr + 1) % ScaleSets
                            ELSE state' = "KEMIT" /\ allocPtr' = allocPtr
      BY <1>1, <2>1, <2>4 DEF KEmit, GroupValid
    <3>2. wr # None /\ row # None /\ wr.rec = KeyRecord /\ row.set = allocPtr
      <4>1. wr.kind = "wr" /\ row.kind = "bank" /\ None.kind = "none"
        BY DEF None
      <4> QED
        BY <4>1
    <3> HIDE DEF wr, row
    <3>3. /\ stb'.sramWr = wr
          /\ stb'.bankWr = IF ~kemitBanked THEN row ELSE None
          /\ stb'.sbOvwr = (~kemitBanked /\ allocPtr \in setLive)
      BY <2>4, <3>1 DEF NoStrobe
    <3>4. kp'.row = kp.row /\ (~LastTok(kp) => kp'.st = "EMIT")
      BY <2>1, <2>2, <2>3, <2>4 DEF PathMoves, LastTok
    <3>5. (allocPtr + 1) % ScaleSets \in SetNo
      <4>1. ScaleSets \in Nat \ {0} /\ allocPtr \in 0 .. ScaleSets - 1
        BY GeometryAssumption DEF SetNo
      <4> QED
        BY <4>1 DEF SetNo
    <3>6. Writing' /\ stb'.sramWr.rec = KeyRecord
      BY <3>2, <3>3 DEF Writing
    <3>7. \/ /\ ~kemitBanked /\ Committing' /\ stb'.bankWr.set = allocPtr
             /\ stb'.sbOvwr \in BOOLEAN /\ (stb'.sbOvwr <=> allocPtr \in setLive)
             /\ setLive' = setLive \cup {allocPtr}
          \/ /\ kemitBanked /\ ~Committing' /\ stb'.sbOvwr = FALSE /\ setLive' = setLive
      <4>1. CASE kemitBanked
        BY <4>1, <3>1, <3>3 DEF Committing
      <4>2. CASE ~kemitBanked
        BY <4>2, <3>1, <3>2, <3>3 DEF Committing
      <4> QED
        BY <4>1, <4>2
    <3>8. \/ state' = "KEMIT" /\ allocPtr' = allocPtr /\ kp'.st = "EMIT"
          \/ state' = "IDLE" /\ allocPtr' \in SetNo
      BY <3>1, <3>4, <3>5
    <3> QED
      BY <2>1, <2>3, <2>4, <3>4, <3>6, <3>7, <3>8 DEF Emits
  <2>5. CASE ~kp.tv
    <3>1. /\ stb' = NoStrobe /\ setLive' = setLive /\ allocPtr' = allocPtr /\ state' = "KEMIT"
          /\ kemitBanked' = (kemitBanked \/ FALSE)
      BY <1>1, <2>1, <2>5 DEF KEmit, GroupValid
    <3>2. ~Committing' /\ ~Writing' /\ stb'.sbOvwr = FALSE
      BY <3>1, NoStrobeQuiet DEF Quiet, Committing, Writing
    <3>3. kp.st = "EMIT" => kp'.st = "EMIT" /\ kp'.row = kp.row
      BY <2>1, <2>2, <2>3, <2>5 DEF PathMoves
    <3> QED
      BY <2>1, <3>1, <3>2, <3>3 DEF EmitsNothing
  <2> QED
    BY <2>3, <2>4, <2>5
<1>2. CASE Store(in)
  <2>1. /\ stb' = [NoStrobe EXCEPT !.sramWr = [kind |-> "wr", addr |-> writeAddr, rec |-> ValueRecord(tokens)]]
        /\ setLive' = setLive /\ allocPtr' = allocPtr /\ state = "STORE" /\ state' = "IDLE" /\ Clock(in)
    BY <1>2 DEF Store, alloc, In
  <2>2. /\ stb'.bankWr = None /\ stb'.sbOvwr = FALSE /\ ~IsKey(stb'.sramWr.rec)
    BY <2>1 DEF NoStrobe, IsKey, ValueRecord
  <2> QED
    BY <2>1, <2>2 DEF EmitsNothing, Committing
<1>3. CASE ~KEmit(in) /\ ~Store(in)
  <2>1. /\ stb'.sramWr = None /\ stb'.bankWr = None /\ stb'.sbOvwr = FALSE
        /\ setLive' = setLive /\ allocPtr' = allocPtr /\ Clock(in)
        /\ state' = "KEMIT" => ~kemitBanked'
    <3>1. CASE SoftReset(in)
      BY <3>1 DEF SoftReset, NoStrobe
    <3>2. CASE (\E key \in BOOLEAN : BeginToken(in, key)) \/ LaunchRead(in) \/ Rest(in)
      BY <3>2 DEF BeginToken, LaunchRead, Rest, NoStrobe, In, alloc
    <3>3. CASE Collecting(in) \/ Compress(in)
      BY <3>3 DEF Collecting, Compress, NoStrobe, In, alloc
    <3>4. CASE KCollect(in)
      BY <3>4 DEF KCollect, NoStrobe, In, alloc
    <3>7. CASE KFeed(in)
      BY <3>7 DEF KFeed, NoStrobe, In
    <3>8. CASE KAccept(in)
      BY <3>8 DEF KAccept, NoStrobe, In
    <3>5. CASE ReadLoad(in) \/ Prime(in) \/ StartBurst(in) \/ AwaitRead(in)
      BY <3>5 DEF ReadLoad, Prime, StartBurst, AwaitRead, NoStrobe, In, alloc
    <3>6. CASE Output(in) \/ OutFlush(in)
      BY <3>6 DEF Output, OutFlush, NoStrobe
    <3> QED
      BY <1>3, <3>1, <3>2, <3>3, <3>4, <3>5, <3>6, <3>7, <3>8 DEF FsmStep
  <2> QED
    BY <2>1 DEF EmitsNothing, Committing, Writing
<1> QED
  BY <1>1, <1>2, <1>3

\* A row is overwritten under a record that names it only with SB_OVWR raised.
LEMMA ScaleStep ==
  ASSUME IInv, ScaleInv, Next
  PROVE  ScaleInv'
<1>1. PICK in \in Input : FsmStep(in)
  BY DEF Next
<1>2. DOMAIN mem = Addr /\ DOMAIN bank = SetNo /\ allocPtr \in SetNo /\ InFlight
  BY DEF ScaleInv
<1>3. Clock(in) /\ (Emits \/ EmitsNothing)
  BY <1>1, <1>2, EmitCases
<1>4. /\ irq \subseteq irq' /\ (stb.sbOvwr => "SB_OVWR" \in irq')
      /\ DOMAIN mem' = Addr /\ DOMAIN bank' = SetNo
      /\ \A a \in Addr : mem'[a] = mem[a] \/ (Writing /\ mem'[a] = stb.sramWr.rec)
      /\ ~Committing => bank' = bank
      /\ Committing => \A s \in SetNo : bank'[s] = IF s = stb.bankWr.set THEN kp.row ELSE bank[s]
  BY <1>2, <1>3, MemoryStep
<1>5. IsKey(KeyRecord) /\ KeyRecord.ssid = allocPtr /\ KeyRecord.group = kp.row
  BY DEF IsKey, KeyRecord
<1>6. /\ setLive \subseteq setLive' /\ setLive' \subseteq SetNo /\ allocPtr' \in SetNo
  BY <1>2, <1>3 DEF Emits, EmitsNothing, ScaleInv
\* Whatever is in the store after the step named a live set before it.
<1>7. \A a \in Addr : IsKey(mem'[a]) => mem'[a].ssid \in setLive
  BY <1>2, <1>4 DEF ScaleInv, InFlight
<1>8. InFlight'
  <2>1. CASE Emits
    <3>1. /\ Writing' /\ IsKey(stb'.sramWr.rec) /\ stb'.sramWr.rec.ssid = allocPtr
          /\ stb'.sramWr.rec.group = kp.row /\ kp'.row = kp.row
      BY <1>5, <2>1 DEF Emits
    <3>2. stb'.sbOvwr \in BOOLEAN /\ (Committing' => stb'.bankWr.set = allocPtr)
      BY <2>1 DEF Emits
    <3>3. allocPtr \in setLive'
      BY <1>2, <2>1 DEF Emits, InFlight
    <3>4. state' = "KEMIT" => allocPtr' = allocPtr /\ kp'.st = "EMIT"
      BY <2>1 DEF Emits
    <3> QED
      BY <1>2, <3>1, <3>2, <3>3, <3>4 DEF InFlight
  <2>2. CASE EmitsNothing
    BY <1>2, <2>2 DEF EmitsNothing, InFlight
  <2> QED
    BY <1>3, <2>1, <2>2
<1>9. ASSUME ~Flagged("SB_OVWR")'
      PROVE  /\ \A a \in Addr : IsKey(mem'[a]) =>
                  RowRight(mem[a])' /\ (Committing' => stb'.sbOvwr \/ mem'[a].ssid # stb'.bankWr.set)
             /\ Writing' /\ IsKey(stb'.sramWr.rec) => Committing' \/ RowRight(stb.sramWr.rec)'
             /\ state' = "KEMIT" /\ kemitBanked' =>
                  (Committing' /\ stb'.bankWr.set = allocPtr') \/ bank'[allocPtr'] = kp'.row
  <2>1. ~Flagged("SB_OVWR") /\ ~stb.sbOvwr
    BY <1>4, <1>9 DEF Flagged
  <2>2. \A a \in Addr : IsKey(mem'[a]) => bank'[mem'[a].ssid] = mem'[a].group
    <3> SUFFICES ASSUME NEW a \in Addr, IsKey(mem'[a]) PROVE bank'[mem'[a].ssid] = mem'[a].group
      OBVIOUS
    <3>1. CASE mem'[a] = mem[a]
      <4>1. RowRight(mem[a]) /\ (Committing => mem[a].ssid # stb.bankWr.set)
        BY <2>1, <3>1 DEF ScaleInv
      <4>2. CASE ~Committing
        BY <1>4, <3>1, <4>1, <4>2 DEF RowRight
      <4>3. CASE Committing
        <5>1. mem[a].ssid \in SetNo
          BY <3>1 DEF ScaleInv
        <5> QED
          BY <1>4, <3>1, <4>1, <4>3, <5>1 DEF RowRight
      <4> QED
        BY <4>2, <4>3
    <3>2. CASE Writing /\ mem'[a] = stb.sramWr.rec
      <4>1. Committing \/ RowRight(stb.sramWr.rec)
        BY <2>1, <3>2 DEF ScaleInv
      <4>2. CASE Committing
        BY <1>2, <1>4, <3>2, <4>2 DEF InFlight
      <4>3. CASE ~Committing
        BY <1>4, <3>2, <4>1, <4>3 DEF RowRight
      <4> QED
        BY <4>2, <4>3
    <3> QED
      BY <1>4, <3>1, <3>2
  <2>3. CASE Emits
    <3>1. Committing' => stb'.bankWr.set = allocPtr /\ (stb'.sbOvwr <=> allocPtr \in setLive)
      BY <2>3 DEF Emits
    <3>2. kemitBanked => bank'[allocPtr] = kp.row
      <4>1. kemitBanked => (Committing /\ stb.bankWr.set = allocPtr) \/ bank[allocPtr] = kp.row
        BY <2>1, <2>3 DEF ScaleInv, Emits
      <4> QED
        BY <1>2, <1>4, <4>1
    <3>3. Writing' => Committing' \/ RowRight(stb.sramWr.rec)'
      BY <1>5, <2>3, <3>2 DEF Emits, RowRight
    <3>4. state' = "KEMIT" => (Committing' /\ stb'.bankWr.set = allocPtr') \/ bank'[allocPtr'] = kp'.row
      BY <2>3, <3>1, <3>2 DEF Emits
    <3>5. Committing' => \A a \in Addr : IsKey(mem'[a]) => stb'.sbOvwr \/ mem'[a].ssid # stb'.bankWr.set
      BY <1>7, <3>1
    <3> QED
      BY <2>2, <3>3, <3>4, <3>5 DEF RowRight
  <2>4. CASE EmitsNothing
    <3>1. ASSUME state' = "KEMIT", kemitBanked'
          PROVE  bank'[allocPtr'] = kp'.row
      <4>1. state = "KEMIT" /\ kemitBanked /\ (kp.st = "EMIT" => kp'.row = kp.row) /\ allocPtr' = allocPtr
        BY <2>4, <3>1 DEF EmitsNothing
      <4>2. kp'.row = kp.row
        BY <1>2, <4>1 DEF InFlight
      <4>3. (Committing /\ stb.bankWr.set = allocPtr) \/ bank[allocPtr] = kp.row
        BY <2>1, <4>1 DEF ScaleInv
      <4>4. bank'[allocPtr] = kp.row
        BY <1>2, <1>4, <4>3
      <4> QED
        BY <4>1, <4>2, <4>4
    <3> QED
      BY <2>2, <2>4, <3>1 DEF EmitsNothing, RowRight
  <2> QED
    BY <1>3, <2>3, <2>4
<1>10. \A a \in Addr : IsKey(mem'[a]) => mem'[a].ssid \in setLive'
  BY <1>6, <1>7
<1> QED
  BY <1>4, <1>6, <1>8, <1>9, <1>10 DEF ScaleInv

\* The invariant of the scale sets: records, live sets and rows agree.
THEOREM ScaleInvariance == Spec => []ScaleInv
<1>1. Init => ScaleInv
  <2> SUFFICES ASSUME Init PROVE ScaleInv
    OBVIOUS
  <2>1. /\ state = "IDLE" /\ stb = NoStrobe /\ allocPtr = 0 /\ setLive = {}
        /\ mem = [a \in Addr |-> None] /\ bank = [s \in SetNo |-> NoToken]
    BY DEF Init
  <2>2. ~IsKey(None)
    BY DEF IsKey, None
  <2>3. ~Writing /\ ~Committing /\ stb.sbOvwr \in BOOLEAN
    BY <2>1, NoStrobeQuiet DEF Quiet, Writing, Committing
  <2>4. 0 \in SetNo
    BY GeometryAssumption DEF SetNo
  <2>5. InFlight
    BY <2>1, <2>3 DEF InFlight
  <2> QED
    BY <2>1, <2>2, <2>3, <2>4, <2>5 DEF ScaleInv
<1>2. IInv /\ ScaleInv /\ [Next]_vars => ScaleInv'
  <2>1. IInv /\ ScaleInv /\ Next => ScaleInv'
    BY ScaleStep
  <2>2. ScaleInv /\ UNCHANGED vars => ScaleInv'
    BY DEF vars, memory, alloc, csr, ScaleInv, InFlight, Flagged, RowRight, Writing, Committing
  <2> QED
    BY <2>1, <2>2
<1> QED
  BY <1>1, <1>2, Invariance, PTL DEF Spec

\* D-026: the scale row a stored key record names is that of its own group,
\* over every wrap of the set pointer, flush and reset, until SB_OVWR is raised.
THEOREM RowOfOwnGroupHolds == Spec => []RowOfOwnGroup
<1>1. ScaleInv => RowOfOwnGroup
  BY DEF ScaleInv, RowOfOwnGroup, Flagged, RowRight
<1> QED
  BY <1>1, ScaleInvariance, PTL
-----------------------------------------------------------------------------
\* A host that polls idle before it commits a mask moves it only under an
\* engine at rest, and over stored records not without MASK_SWAP.
LEMMA CommitStep ==
  ASSUME ~CommitAnyTime, NEW in \in Input, Clock(in)
  PROVE  \/ mask' = mask
         \/ idle /\ mask' \in LegalMask /\ (Occupied => "MASK_SWAP" \in irq')
<1>1. /\ mask' = IF Commits(in) THEN in.csr.mask ELSE mask
      /\ Commits(in) => StatusIdle /\ in.csr.mask \in LegalMask
      /\ Commits(in) /\ SwapHazard => "MASK_SWAP" \in irq'
  BY DEF Clock, Csr, HostRule, Commits
<1> QED
  BY <1>1 DEF StatusIdle, SwapHazard

\* Records are laid out under the live mask, and a commit over them is flagged.
LEMMA MaskStep ==
  ASSUME ~CommitAnyTime, IInv, ScaleInv, MaskInv, Next
  PROVE  MaskInv'
<1>1. PICK in \in Input : FsmStep(in)
  BY DEF Next
<1>2. Clock(in) /\ (Emits \/ EmitsNothing)
  BY <1>1, EmitCases DEF ScaleInv
<1>3. /\ irq \subseteq irq'
      /\ \A a \in Addr : mem'[a] = mem[a] \/ (Writing /\ mem'[a] = stb.sramWr.rec)
      /\ ~Writing => mem' = mem
  BY <1>2, MemoryStep DEF ScaleInv
<1>4. idle => state = "IDLE" /\ ~Writing
  BY DEF IInv, StrobeInv, Writing
<1>5. CASE mask' = mask
  <2>1. Writing' /\ IsKey(stb'.sramWr.rec) => stb'.sramWr.rec.mask = mask
    <3>1. KeyRecord.mask = mask
      BY DEF KeyRecord
    <3> QED
      BY <1>2, <3>1 DEF Emits, EmitsNothing
  <2> QED
    BY <1>3, <1>5, <2>1 DEF MaskInv, Flagged
<1>6. CASE idle /\ mask' \in LegalMask /\ (Occupied => "MASK_SWAP" \in irq')
  <2>1. mem' = mem /\ ~Writing'
    BY <1>2, <1>3, <1>4, <1>6 DEF Emits, EmitsNothing
  <2>2. ~Flagged("MASK_SWAP")' => \A a \in Addr : ~IsKey(mem[a])
    BY <1>6 DEF Flagged, Occupied, IsKey, None
  <2> QED
    BY <1>6, <2>1, <2>2 DEF MaskInv
<1> QED
  BY <1>2, <1>5, <1>6, CommitStep

\* The invariant of the mask, for a host that polls idle before a commit.
THEOREM MaskInvariance == ASSUME ~CommitAnyTime PROVE Spec => []MaskInv
<1>1. Init => MaskInv
  <2> SUFFICES ASSUME Init PROVE MaskInv
    OBVIOUS
  <2>1. stb = NoStrobe /\ mem = [a \in Addr |-> None] /\ mask \in LegalMask
    BY DEF Init
  <2>2. ~IsKey(None) /\ ~Writing
    BY <2>1, NoStrobeQuiet DEF IsKey, None, Quiet, Writing
  <2> QED
    BY <2>1, <2>2 DEF MaskInv
<1>2. IInv /\ ScaleInv /\ MaskInv /\ [Next]_vars => MaskInv'
  <2>1. IInv /\ ScaleInv /\ MaskInv /\ Next => MaskInv'
    BY MaskStep
  <2>2. MaskInv /\ UNCHANGED vars => MaskInv'
    BY DEF vars, memory, csr, MaskInv, Flagged, Writing
  <2> QED
    BY <2>1, <2>2
<1> QED
  BY <1>1, <1>2, Invariance, ScaleInvariance, PTL DEF Spec

\* D-027: under a host that commits masks only while STATUS.idle reads 1, the
\* lanes of every stored key record are laid out by the live mask until
\* MASK_SWAP is raised.
THEOREM MaskOfRecordsHolds == ASSUME ~CommitAnyTime PROVE Spec => []MaskOfRecords
<1>1. MaskInv => MaskOfRecords
  BY DEF MaskInv, MaskOfRecords, Flagged
<1> QED
  BY <1>1, MaskInvariance, PTL
-----------------------------------------------------------------------------
\* The outliers before a channel, one channel on.
LEMMA BeforeNext ==
  ASSUME NEW m \in SUBSET Chan, NEW i \in Chan
  PROVE  /\ Before(m, i) \in Nat /\ Before(m, 0) = 0
         /\ Before(m, i + 1) = IF i \in m THEN Before(m, i) + 1 ELSE Before(m, i)
<1>1. Chan \subseteq Int /\ IsFiniteSet(Chan)
  BY GeometryAssumption, FS_Interval DEF Chan
<1> DEFINE S(k) == {j \in m : j < k}
<1>2. IsFiniteSet(S(i))
  BY <1>1, FS_Subset
<1>10. /\ \A j \in m : ~(j < 0) /\ (j < i + 1 <=> j < i \/ j = i)
       /\ ~(i < i)
  <2>1. \A j \in Chan : j \in Int /\ j >= 0
    BY GeometryAssumption DEF Chan
  <2> QED
    BY <2>1
<1>3. S(0) = {}
  BY <1>10, Zenon
<1>4. i \in m => S(i + 1) = S(i) \cup {i}
  BY <1>10
<1>5. i \notin m => S(i + 1) = S(i)
  BY <1>10
<1>6. i \notin S(i)
  BY <1>10
<1> HIDE DEF S
<1>7. Cardinality(S(i)) \in Nat /\ Cardinality({}) = 0
  BY <1>2, FS_CardinalityType, FS_EmptySet
<1>8. Cardinality(S(i) \cup {i}) = Cardinality(S(i)) + 1
  BY <1>2, <1>6, FS_AddElement
<1>9. Before(m, i) = Cardinality(S(i)) /\ Before(m, i + 1) = Cardinality(S(i + 1))
      /\ Before(m, 0) = Cardinality(S(0))
  BY DEF Before, S
<1> QED
  BY <1>3, <1>4, <1>5, <1>7, <1>8, <1>9

\* A single outlier has none before it.
LEMMA BeforeOnly ==
  ASSUME NEW m \in LegalMask, OutlierK <= 1, NEW i \in m
  PROVE  Before(m, i) = 0 /\ m = {i}
<1>1. m \in SUBSET Chan /\ Cardinality(m) = OutlierK /\ IsFiniteSet(Chan) /\ Chan \subseteq Int
  <2>1. m \in SUBSET Chan /\ Cardinality(m) = OutlierK
    BY DEF LegalMask
  <2>2. D - 1 \in Int
    BY GeometryAssumption
  <2>3. IsFiniteSet(0 .. D - 1)
    BY <2>2, FS_Interval
  <2> QED
    BY <2>1, <2>2, <2>3 DEF Chan
<1>2. IsFiniteSet(m) /\ Cardinality(m) \in Nat
  BY <1>1, FS_Subset, FS_CardinalityType
<1>3. Cardinality(m) # 0
  BY <1>2, FS_EmptySet
<1>4. Cardinality(m) = 1
  <2>1. OutlierK \in Nat
    BY <1>1, <1>2
  <2> QED
    BY <1>1, <1>2, <1>3, <2>1
<1>5. m = {i}
  BY <1>2, <1>4, FS_Singleton
<1>6. {j \in m : j < i} = {}
  BY <1>1, <1>5
<1> QED
  BY <1>5, <1>6, FS_EmptySet DEF Before

\* What the SRAM and the scale bank return in a clock.
LEMMA FetchStep ==
  ASSUME IInv, ScaleInv, MaskInv, ReadInv, NEW in \in Input, Clock(in), ~CommitAnyTime
  PROVE  /\ readAddr' \in Addr /\ rdAddr' \in Addr
         /\ ~stb.sramRd => rdValid' = FALSE /\ rdData' = rdData
         /\ rdValid' => RecordRight(rdData)'
         /\ stb.sramRd => state = "RWAIT"
         /\ state \in {"RWAIT", "OUTPUT"} =>
              bank' = bank /\ mask' = mask /\ (RecordRight(rdData) => (rdData' = rdData => RecordRight(rdData)'))
         /\ irq \subseteq irq'
         /\ PrimeRow => bankRow' = bank[rdData.ssid]
         /\ ~PrimeRow => bankRow' = bankRow
<1>1. Csr(in) /\ Sram /\ ScaleBank /\ rdAddr' \in {rdAddr, readAddr}
  BY DEF Clock
<1>2. readAddr' \in Addr /\ rdAddr' \in Addr
  <2>1. in.csr.op = "read" => in.csr.addr \in ReadAddrs
    <3> DEFINE c == in.csr
    <3>1. \/ c \in [op : {"none", "reset"}]
          \/ c \in [op : {"read"}, addr : ReadAddrs]
          \/ c \in [op : {"waddr"}, addr : WriteAddrs]
          \/ c \in [op : {"commit"}, mask : HostMasks]
      BY DEF CsrOp, Input
    <3> HIDE DEF c
    <3>2. c.op = "read" => c.addr \in ReadAddrs
      BY <3>1
    <3> QED
      BY <3>2 DEF c
  <2>2. readAddr' = IF in.csr.op = "read" THEN in.csr.addr ELSE readAddr
    BY <1>1 DEF Csr
  <2>3. readAddr \in Addr /\ rdAddr \in Addr /\ ReadAddrs \subseteq Addr
    BY HostAssumption DEF ReadInv, Addr
  <2> QED
    BY <1>1, <2>1, <2>2, <2>3
<1>3. /\ rdValid' = (stb.sramRd /\ mem[rdAddr] # None)
      /\ rdData' = IF rdValid' THEN mem[rdAddr] ELSE rdData
  BY <1>1 DEF Sram
<1>4. stb.sramRd => state = "RWAIT"
  BY DEF IInv, StrobeInv
<1>5. /\ irq \subseteq irq'
      /\ ~Writing => mem' = mem
      /\ ~Committing => bank' = bank
  BY MemoryStep DEF ScaleInv
<1>6. mask' = mask \/ idle
  BY CommitStep
<1>7. state \in {"RWAIT", "OUTPUT"} => mem' = mem /\ bank' = bank /\ mask' = mask
  BY <1>5, <1>6 DEF IInv, StrobeInv, Writing, Committing
<1>9. state \in {"RWAIT", "OUTPUT"} /\ RecordRight(rdData) /\ rdData' = rdData => RecordRight(rdData)'
  BY <1>5, <1>7 DEF RecordRight, Flagged, RowRight
<1>10. rdValid' => RecordRight(rdData)'
  <2> SUFFICES ASSUME rdValid' PROVE RecordRight(rdData)'
    OBVIOUS
  <2>1. state = "RWAIT" /\ rdData' = mem[rdAddr] /\ rdAddr \in Addr
    BY <1>3, <1>4 DEF ReadInv
  <2>2. RecordRight(mem[rdAddr])
    BY <2>1 DEF ScaleInv, MaskInv, RecordRight
  <2> QED
    BY <1>5, <1>7, <2>1, <2>2 DEF RecordRight, Flagged, RowRight
<1>11. /\ PrimeRow => bankRow' = bank[rdData.ssid]
       /\ ~PrimeRow => bankRow' = bankRow
  BY <1>1 DEF ScaleBank
<1>12. ~stb.sramRd => rdValid' = FALSE /\ rdData' = rdData
  BY <1>3
<1> QED
  BY <1>2, <1>4, <1>5, <1>7, <1>9, <1>10, <1>11, <1>12

\* A beat held on the bus, or none, is as right as it was.
LEMMA BeatKept ==
  ASSUME BurstExact, irq \subseteq irq', out' = out \/ out' = None
  PROVE  BurstExact'
BY DEF BurstExact

\* A step that neither primes a row nor drives a beat.
LEMMA OtherReadStep ==
  ASSUME IInv, ScaleInv, MaskInv, ReadInv, ~CommitAnyTime, NEW in \in Input, FsmStep(in),
         ~Prime(in), ~StartBurst(in), ~Output(in)
  PROVE  ReadInv'
<1>1. /\ Clock(in) /\ ~bankPrimed' /\ state' # "OUTPUT" /\ (out' = out \/ out' = None)
      /\ stb'.sramRd => state = "RLOAD"
  <2>1. Clock(in)
    BY EmitCases DEF ScaleInv
  <2>2. bankPrimed => state = "RWAIT"
    BY DEF ReadInv
  <2>3. CASE SoftReset(in)
    BY <2>1, <2>3 DEF SoftReset, NoStrobe
  <2>4. CASE (\E key \in BOOLEAN : BeginToken(in, key)) \/ LaunchRead(in) \/ Rest(in)
    BY <2>1, <2>2, <2>4 DEF BeginToken, LaunchRead, Rest, NoStrobe, In, burst, reader
  <2>5. CASE Collecting(in) \/ Compress(in) \/ Store(in)
    BY <2>1, <2>2, <2>5 DEF Collecting, Compress, Store, NoStrobe, In, burst, reader
  <2>6. CASE KCollect(in) \/ KFeed(in) \/ KAccept(in) \/ KEmit(in)
    <3>1. state # "RWAIT" /\ out' = out /\ bankPrimed' = bankPrimed
      BY <2>6 DEF KCollect, KFeed, KAccept, KEmit, In, burst, reader
    <3>2. stb'.sramRd = FALSE /\ state' # "OUTPUT"
      <4>1. CASE KCollect(in)
        BY <4>1 DEF KCollect, NoStrobe
      <4>2. CASE KFeed(in)
        BY <4>2 DEF KFeed, NoStrobe
      <4>3. CASE KAccept(in)
        BY <4>3 DEF KAccept, NoStrobe
      <4>4. CASE KEmit(in)
        <5>1. stb'.sramRd = FALSE
          BY <4>4 DEF KEmit, NoStrobe
        <5>2. state' \in {state, "IDLE"} /\ state = "KEMIT"
          BY <4>4 DEF KEmit, In
        <5> QED
          BY <5>1, <5>2
      <4> QED
        BY <2>6, <4>1, <4>2, <4>3, <4>4
    <3> QED
      BY <2>1, <2>2, <3>1, <3>2
  <2>7. CASE ReadLoad(in)
    BY <2>1, <2>2, <2>7 DEF ReadLoad, In, burst
  <2>8. CASE AwaitRead(in)
    BY <2>1, <2>8 DEF AwaitRead, NoStrobe, In, burst
  <2>9. CASE OutFlush(in)
    BY <2>1, <2>2, <2>9 DEF OutFlush, NoStrobe, ResetAside
  <2> QED
    BY <2>3, <2>4, <2>5, <2>6, <2>7, <2>8, <2>9 DEF FsmStep
<1>2. /\ readAddr' \in Addr /\ rdAddr' \in Addr /\ irq \subseteq irq'
      /\ rdValid' => RecordRight(rdData)' /\ state = "RWAIT"
  BY <1>1, FetchStep
<1>3. BurstExact'
  BY <1>1, <1>2, BeatKept DEF ReadInv
<1> QED
  BY <1>1, <1>2, <1>3 DEF ReadInv

\* The row primed for a key record is the one its set names.
LEMMA PrimeStep ==
  ASSUME IInv, ScaleInv, MaskInv, ReadInv, ~CommitAnyTime, NEW in \in Input, Prime(in)
  PROVE  ReadInv'
<1>1. /\ state = "RWAIT" /\ PrimeRow /\ Clock(in) /\ bankPrimed' = TRUE /\ outIsKey' = TRUE
      /\ state' = "RWAIT" /\ out' = out /\ stb' = NoStrobe
  BY DEF Prime, In
<1>2. /\ rdValid /\ IsKey(rdData) /\ ~stb.sramRd /\ RecordRight(rdData)
  BY <1>1 DEF PrimeRow, ReadInv
<1>3. /\ readAddr' \in Addr /\ rdAddr' \in Addr /\ irq \subseteq irq'
      /\ rdValid' = FALSE /\ rdData' = rdData /\ RecordRight(rdData)'
      /\ bankRow' = bank[rdData.ssid]
  BY <1>1, <1>2, FetchStep
<1>4. ~stb'.sramRd
  BY <1>1, NoStrobeQuiet DEF Quiet
<1>5. Flagged("SB_OVWR")' \/ bankRow' = rdData'.group
  BY <1>2, <1>3 DEF RecordRight, RowRight, Flagged
<1>6. BurstExact'
  BY <1>1, <1>3, BeatKept DEF ReadInv
<1> QED
  BY <1>1, <1>2, <1>3, <1>4, <1>5, <1>6 DEF ReadInv

\* The operands of the first beat are captured as the burst starts.
LEMMA StartBurstStep ==
  ASSUME IInv, ScaleInv, MaskInv, ReadInv, ~CommitAnyTime, NEW in \in Input, StartBurst(in)
  PROVE  ReadInv'
<1>1. /\ state = "RWAIT" /\ ~PrimeRow /\ (rdValid \/ bankPrimed) /\ Clock(in)
      /\ outCount' = 0 /\ olaneCnt' = 0 /\ outIsKey' = (outIsKey /\ bankPrimed)
      /\ bankPrimed' = FALSE /\ op' = Operands(0, 0) /\ state' = "OUTPUT" /\ stb' = NoStrobe
      /\ out' = out
  BY DEF StartBurst, In
<1>2. /\ ~stb.sramRd /\ RecordRight(rdData)
      /\ bankPrimed => IsKey(rdData) /\ outIsKey = TRUE
                       /\ (Flagged("SB_OVWR") \/ bankRow = rdData.group)
      /\ ~bankPrimed => ~IsKey(rdData)
  BY <1>1 DEF PrimeRow, ReadInv
<1>3. /\ readAddr' \in Addr /\ rdAddr' \in Addr /\ irq \subseteq irq'
      /\ rdValid' = FALSE /\ rdData' = rdData /\ RecordRight(rdData)'
      /\ bankRow' = bankRow /\ mask' = mask
  BY <1>1, <1>2, FetchStep
<1>4. ~stb'.sramRd
  BY <1>1, NoStrobeQuiet DEF Quiet
<1>5. BurstExact'
  BY <1>1, <1>3, BeatKept DEF ReadInv
<1>6. outIsKey' = IsKey(rdData)'
  <2>1. CASE bankPrimed
    BY <2>1, <1>1, <1>2, <1>3 DEF IsKey
  <2>2. CASE ~bankPrimed
    BY <2>2, <1>1, <1>2, <1>3 DEF IsKey
  <2> QED
    BY <2>1, <2>2
<1>7. outIsKey' => bankPrimed
  BY <1>1
<1>8. 0 \in Chan
  BY GeometryAssumption DEF Chan
<1>9. LanesWalked'
  <2>1. Before(mask, 0) = 0
    BY <1>8, BeforeNext DEF MaskInv, LegalMask
  <2> QED
    BY <1>1, <1>3, <2>1 DEF LanesWalked
<1>10. /\ op'.rec = rdData /\ op'.idx = 0
       /\ op'.key = IF 0 \in mask THEN Lane(0) ELSE BankRow(bankRow)
  BY <1>1 DEF Operands
<1>11. op'.key = IF outCount' \in mask' THEN Lane(olaneCnt') ELSE BankRow(bankRow')
  BY <1>1, <1>3, <1>10
<1>12. outIsKey' => Flagged("SB_OVWR")' \/ bankRow' = rdData'.group
  BY <1>2, <1>3, <1>7 DEF Flagged
<1> QED
  BY <1>1, <1>3, <1>4, <1>5, <1>6, <1>8, <1>9, <1>10, <1>11, <1>12 DEF ReadInv

\* At an outlier the lanes walked are those before it.
LEMMA LaneAtOutlier ==
  ASSUME mask \in LegalMask, LanesWalked, outCount \in mask
  PROVE  olaneCnt = Before(mask, outCount)
BY BeforeOnly DEF LanesWalked

\* The walk one channel on, when no reset makes it lose count.
LEMMA WalkStep ==
  ASSUME mask \in LegalMask, outCount \in Chan, LanesWalked,
         NEW hit, hit = (IF outCount \in mask THEN 1 ELSE 0), NEW lost \in BOOLEAN, lost => OutlierK <= 1,
         NEW count, count = (IF hit = 1 THEN olaneCnt + 1 ELSE IF lost THEN 0 ELSE olaneCnt)
  PROVE  /\ count = Before(mask, outCount + 1) \/ (OutlierK <= 1 /\ count = 0)
         /\ outCount + 1 \in mask => count = olaneCnt + hit
<1>1. /\ Before(mask, outCount) \in Nat
      /\ Before(mask, outCount + 1)
           = IF outCount \in mask THEN Before(mask, outCount) + 1 ELSE Before(mask, outCount)
  BY BeforeNext DEF LegalMask
<1>2. olaneCnt \in Nat
  BY <1>1 DEF LanesWalked
<1>3. CASE outCount \in mask
  BY <1>1, <1>2, <1>3, LaneAtOutlier
<1>4. CASE outCount \notin mask
  <2>1. hit = 0 /\ count = (IF lost THEN 0 ELSE olaneCnt)
    BY <1>4
  <2>2. ASSUME outCount + 1 \in mask, lost PROVE olaneCnt = 0
    <3>1. Before(mask, outCount + 1) = 0
      BY <2>2, BeforeOnly
    <3> QED
      BY <1>1, <1>4, <3>1 DEF LanesWalked
  <2> QED
    BY <1>1, <1>2, <1>4, <2>1, <2>2 DEF LanesWalked
<1> QED
  BY <1>3, <1>4

\* A beat driven from the operands captured for it.
LEMMA OutputStep ==
  ASSUME IInv, ScaleInv, MaskInv, ReadInv, ~CommitAnyTime, NoLaneLost, NEW in \in Input, Output(in)
  PROVE  ReadInv'
<1>1. /\ state = "OUTPUT" /\ Clock(in) /\ outIsKey' = outIsKey /\ stb' = NoStrobe
      /\ bankPrimed' = (~ctrlReset /\ bankPrimed)
  BY DEF Output, ResetAside
<1>2. /\ ~stb.sramRd /\ RecordRight(rdData) /\ op.rec = rdData /\ op.idx = outCount
      /\ outCount \in Chan /\ outIsKey = IsKey(rdData) /\ ~bankPrimed
      /\ outIsKey => /\ Flagged("SB_OVWR") \/ bankRow = rdData.group
                     /\ LanesWalked
                     /\ op.key = IF outCount \in mask THEN Lane(olaneCnt) ELSE BankRow(bankRow)
  BY <1>1 DEF ReadInv
<1>3. /\ readAddr' \in Addr /\ rdAddr' \in Addr /\ irq \subseteq irq'
      /\ rdValid' = FALSE /\ rdData' = rdData /\ RecordRight(rdData)'
      /\ bankRow' = bankRow /\ mask' = mask
  BY <1>1, <1>2, FetchStep DEF PrimeRow
<1>4. ~stb'.sramRd /\ ~bankPrimed'
  BY <1>1, <1>2, NoStrobeQuiet DEF Quiet
<1>5. mask \in LegalMask
  BY DEF MaskInv
<1>6. outIsKey' = IsKey(rdData)'
  BY <1>1, <1>2, <1>3 DEF IsKey
<1>7. outIsKey => Flagged("SB_OVWR")' \/ bankRow' = rdData'.group
  BY <1>2, <1>3 DEF Flagged
<1>8. ctrlReset => OutlierK <= 1
  BY <1>1 DEF NoLaneLost, Bursting
<1>9. CASE OutAdvance(in)
  <2>1. /\ out' = [kind |-> "beat", rec |-> op.rec, idx |-> op.idx, last |-> outCount = D - 1,
                   sel |-> IF outIsKey THEN op.key ELSE OwnScale]
        /\ op' = Operands((outCount + 1) % D, olaneCnt + LaneHit)
        /\ olaneCnt' = IF LaneHit = 1 THEN olaneCnt + 1 ELSE IF ctrlReset THEN 0 ELSE olaneCnt
        /\ outCount' = IF outCount = D - 1 THEN 0 ELSE outCount + 1
        /\ state' = IF outCount = D - 1 THEN "OFLUSH" ELSE "OUTPUT"
    BY <1>9 DEF Output
  <2>2. BurstExact'
    <3> SUFFICES ASSUME irq' \cap {"SB_OVWR", "MASK_SWAP"} = {} PROVE out'.sel = RightOperand(out')
      BY DEF BurstExact
    <3>1. ~Flagged("SB_OVWR") /\ ~Flagged("MASK_SWAP")
      BY <1>3 DEF Flagged
    <3>2. /\ out'.rec = rdData /\ out'.idx = outCount
          /\ out'.sel = IF outIsKey THEN op.key ELSE OwnScale
      BY <1>2, <2>1
    <3>3. CASE ~outIsKey
      BY <1>2, <3>2, <3>3 DEF RightOperand
    <3>4. CASE outIsKey
      <4>1. rdData.mask = mask /\ bankRow = rdData.group /\ IsKey(rdData)
        BY <1>2, <3>1, <3>4 DEF RecordRight
      <4>2. outCount \in mask => olaneCnt = Before(mask, outCount)
        BY <1>2, <1>5, <3>4, LaneAtOutlier
      <4>3. RightOperand(out') = IF outCount \in mask THEN Lane(Before(mask, outCount)) ELSE BankRow(bankRow)
        BY <3>2, <4>1 DEF RightOperand, Before
      <4> QED
        BY <1>2, <3>2, <3>4, <4>2, <4>3
    <3> QED
      BY <3>3, <3>4
  <2>3. CASE outCount = D - 1
    BY <1>3, <1>4, <2>1, <2>2, <2>3 DEF ReadInv
  <2>4. CASE outCount # D - 1
    <3>1. D \in Nat \ {0} /\ outCount \in 0 .. D - 1
      BY <1>2, GeometryAssumption DEF Chan
    <3>2. outCount + 1 \in Chan /\ (outCount + 1) % D = outCount + 1
      BY <2>4, <3>1 DEF Chan
    <3>3. /\ outCount' = outCount + 1 /\ state' = "OUTPUT"
          /\ op' = Operands(outCount + 1, olaneCnt + LaneHit)
      BY <2>1, <2>4, <3>2
    <3>4. /\ op'.rec = rdData /\ op'.idx = outCount + 1
          /\ op'.key = IF outCount + 1 \in mask THEN Lane(olaneCnt + LaneHit) ELSE BankRow(bankRow)
      BY <3>3 DEF Operands
    <3>5. ASSUME outIsKey
          PROVE  LanesWalked' /\ (outCount + 1 \in mask => olaneCnt' = olaneCnt + LaneHit)
      <4>1. LaneHit = IF outCount \in mask THEN 1 ELSE 0
        BY <3>5 DEF LaneHit
      <4>2. ctrlReset \in BOOLEAN
        BY DEF IInv, CountInv
      <4>3. /\ olaneCnt' = Before(mask, outCount + 1) \/ (OutlierK <= 1 /\ olaneCnt' = 0)
            /\ outCount + 1 \in mask => olaneCnt' = olaneCnt + LaneHit
        BY <1>2, <1>5, <1>8, <2>1, <3>5, <4>1, <4>2, WalkStep
      <4> QED
        BY <1>3, <3>3, <4>3 DEF LanesWalked
    <3>6. outIsKey => op'.key = IF outCount' \in mask' THEN Lane(olaneCnt') ELSE BankRow(bankRow')
      BY <1>3, <3>3, <3>4, <3>5
    <3> QED
      BY <1>1, <1>3, <1>4, <1>6, <1>7, <2>2, <3>2, <3>3, <3>4, <3>5, <3>6 DEF ReadInv
  <2> QED
    BY <2>3, <2>4
<1>10. CASE ~OutAdvance(in)
  <2>1. /\ olaneCnt' = IF ctrlReset THEN 0 ELSE olaneCnt
        /\ out' = out /\ op' = op /\ outCount' = outCount /\ state' = state
    BY <1>10 DEF Output
  <2>2. BurstExact'
    BY <1>3, <2>1, BeatKept DEF ReadInv
  <2>3. ASSUME outIsKey
        PROVE  LanesWalked' /\ op'.key = IF outCount' \in mask' THEN Lane(olaneCnt') ELSE BankRow(bankRow')
    <3>1. LanesWalked'
      BY <1>2, <1>3, <1>8, <2>1, <2>3 DEF LanesWalked
    <3>2. outCount \in mask => olaneCnt' = olaneCnt
      <4>1. CASE ctrlReset /\ outCount \in mask
        <5>1. Before(mask, outCount) = 0
          BY <1>5, <1>8, <4>1, BeforeOnly
        <5> QED
          BY <1>2, <1>5, <2>1, <2>3, <4>1, <5>1, LaneAtOutlier
      <4> QED
        BY <2>1, <4>1
    <3> QED
      BY <1>2, <1>3, <2>1, <2>3, <3>1, <3>2
  <2> QED
    BY <1>1, <1>2, <1>3, <1>4, <1>6, <1>7, <2>1, <2>2, <2>3 DEF ReadInv
<1> QED
  BY <1>9, <1>10

\* The invariant of reads, while a reset spares a burst that has lanes to lose.
THEOREM ReadInvariance == ASSUME ~CommitAnyTime PROVE Spec /\ []NoLaneLost => []ReadInv
<1>1. Init => ReadInv
  <2> SUFFICES ASSUME Init PROVE ReadInv
    OBVIOUS
  <2>1. /\ state = "IDLE" /\ rdValid = FALSE /\ bankPrimed = FALSE /\ out = None
        /\ readAddr = 0 /\ rdAddr = 0
    BY DEF Init
  <2>2. 0 \in Addr
    BY GeometryAssumption DEF Addr
  <2>3. BurstExact
    BY <2>1 DEF BurstExact
  <2> QED
    BY <2>1, <2>2, <2>3 DEF ReadInv
<1>2. IInv /\ ScaleInv /\ MaskInv /\ ReadInv /\ NoLaneLost /\ [Next]_vars => ReadInv'
  <2>1. ASSUME IInv, ScaleInv, MaskInv, ReadInv, NoLaneLost, Next PROVE ReadInv'
    <3>1. PICK in \in Input : FsmStep(in)
      BY <2>1 DEF Next
    <3> QED
      BY <2>1, <3>1, PrimeStep, StartBurstStep, OutputStep, OtherReadStep
  <2>2. ReadInv /\ UNCHANGED vars => ReadInv'
    <3> SUFFICES ASSUME ReadInv, UNCHANGED vars PROVE ReadInv'
      OBVIOUS
    <3>1. BurstExact'
      BY BeatKept DEF ReadInv, vars, burst, csr
    <3> QED
      BY <3>1 DEF vars, burst, reader, memory, csr, ReadInv, RecordRight, RowRight, Flagged, LanesWalked
  <2> QED
    BY <2>1, <2>2
<1> QED
  BY <1>1, <1>2, Invariance, ScaleInvariance, MaskInvariance, PTL DEF Spec

\* Every beat of a read burst is dequantized with what belongs to it, for a
\* host that polls idle before it commits a mask and either one outlier lane
\* or no soft reset in the middle of a burst: the flags alone excuse a beat.
THEOREM BurstExactHolds == ASSUME ~CommitAnyTime PROVE Spec /\ []NoLaneLost => []BurstExact
<1>1. ReadInv => BurstExact
  BY DEF ReadInv
<1> QED
  BY <1>1, ReadInvariance, PTL

\* With a single outlier lane no reset can spoil a burst.
THEOREM BurstExactOneLane == ASSUME ~CommitAnyTime, OutlierK <= 1 PROVE Spec => []BurstExact
<1>1. NoLaneLost
  BY DEF NoLaneLost
<1> QED
  BY <1>1, BurstExactHolds, PTL
=============================================================================
