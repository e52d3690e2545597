----------------------------- MODULE KvqEngine -----------------------------
(***************************************************************************)
(* rtl/kvq/kvq_engine.sv, a grouped-key build (CQ-4 or CQ-4+), with its    *)
(* record SRAM and its two cores.  A step is one clock edge.  A token is   *)
(* a number, a record names what it was made from and under which mask,    *)
(* and a beat of a read names the operands it was dequantized with, so a   *)
(* wrong record, scale row, outlier lane or channel is visible.            *)
(* The stream is enabled throughout (CTRL.enable = 1).                     *)
(***************************************************************************)
EXTENDS Naturals, Sequences, FiniteSets

CONSTANTS Token,        \* the numbers of the tokens
          D,            \* VECTOR_DIM, channels of a token
          OutlierK,     \* OUTLIER_K, outlier channels of a legal mask
          KeyGroup,     \* KEY_GROUP, tokens of a full key group
          ScaleSets,    \* SCALE_SETS, rows of the persistent scale bank
          SramDepth,    \* SRAM_DEPTH, records
          RdWaitMax,    \* RD_WAIT_MAX
          MaxTokens,    \* bound of the model: tokens ever begun
          ReadAddrs, WriteAddrs,   \* addresses the host reads and writes
          HostMasks,    \* masks it stages and commits
          CommitAnyTime \* TRUE: it commits them without polling idle

ASSUME GeometryAssumption ==
  /\ {D, KeyGroup, ScaleSets, SramDepth, RdWaitMax} \subseteq Nat \ {0}
  /\ D >= 2 /\ ScaleSets >= 2        \* and ScaleSets a power of two: alloc_ptr wraps
  /\ OutlierK \in 0 .. D /\ KeyGroup <= SramDepth
ASSUME TokenAssumption == MaxTokens \in Nat /\ Token = 1 .. MaxTokens
ASSUME HostAssumption ==
  /\ ReadAddrs \subseteq 0 .. SramDepth - 1
  /\ WriteAddrs \subseteq 0 .. SramDepth - KeyGroup
  /\ HostMasks \subseteq SUBSET (0 .. D - 1)
  /\ CommitAnyTime \in BOOLEAN

-----------------------------------------------------------------------------
(***************************************************************************)
(* cores/cq_key_path.sv with its residual_buffer.sv and its transient      *)
(* scale_bank.sv, as a record and the successors of a record in one clock. *)
(* The arithmetic pipes take a number of cycles that depends on the build, *)
(* so a walk may end in any cycle.  A group is known by its first token:   *)
(* row is the group whose scales are in the transient bank.                *)
(***************************************************************************)
NoToken == 0

\* toks is the residual buffer up to tcnt, tv the tok_valid pulse.
KeyPathState ==
  [st : {"COLL", "WALK", "EMIT"}, toks : Seq(Token), ptr : Nat, tv : BOOLEAN,
   row : Token \cup {NoToken}]

Empty == [st |-> "COLL", toks |-> << >>, ptr |-> 0, tv |-> FALSE, row |-> NoToken]

Busy(kp) == kp.st # "COLL" \/ kp.toks # << >>
LastTok(kp) == kp.ptr + 1 = Len(kp.toks)
GroupValid(kp) == kp.tv /\ LastTok(kp)
Emitted(kp) == kp.toks[kp.ptr + 1]

\* S_COLL: in is None-like when in.valid is low; a flush freezes a group
\* that holds at least one token.
Collect(kp, in, flush) ==
  IF in.valid
  THEN [kp EXCEPT !.toks = IF in.start THEN <<in.tok>> ELSE Append(@, in.tok),
                  !.st = IF in.last THEN "WALK" ELSE @,
                  !.ptr = 0]
  ELSE IF flush /\ kp.toks # << >> THEN [kp EXCEPT !.st = "WALK", !.ptr = 0] ELSE kp

\* S_EMIT while tok_valid is high: on to the next token, or to S_COLL.
Advance(kp) ==
  IF LastTok(kp) THEN [kp EXCEPT !.tv = FALSE, !.st = "COLL", !.toks = << >>, !.ptr = 0]
                 ELSE [kp EXCEPT !.tv = FALSE, !.ptr = @ + 1]

\* The successors of kp in a clock; clear (dp_clear) aborts whatever runs.
Step(kp, in, flush, clear) ==
  CASE clear -> {Empty}
    [] ~clear /\ kp.st = "COLL" -> {Collect(kp, in, flush)}
    [] ~clear /\ kp.st = "WALK" -> {kp, [kp EXCEPT !.st = "EMIT", !.row = Head(kp.toks)]}
    [] ~clear /\ kp.st = "EMIT" /\ kp.tv -> {Advance(kp)}
    [] OTHER -> {kp, [kp EXCEPT !.tv = TRUE]}
-----------------------------------------------------------------------------
VARIABLES state, idle,
          tready, tokens, inCount,          \* token assembly; tokens numbers tok_vec
          grpTokCnt, grpBase, flushPending,
          readPending, rwaitCnt, bankPrimed,
          out,                              \* m_axis_kv_tdata under tvalid
          outIsKey, outCount, olaneCnt,
          op,                               \* dec_op_r: the next beat's operands
          stb,                              \* the one-cycle strobes
          rdAddr,                           \* sram_rd_addr
          mem, rdValid, rdData,             \* sram_controller
          cqv, kp,                          \* cq_value_path, cq_key_path
          bank, bankRow,                    \* scale_bank_store
          allocPtr, setLive, kemitBanked,
          ctrlReset, readReq, writeAddr, readAddr, mask, irq,   \* CSR block
          due,     \* history: tokens collected in full and not yet stored
          taken    \* history: the beat on the bus was accepted in the last cycle

intake == <<tready, tokens, inCount>>
group == <<grpTokCnt, grpBase, flushPending>>
reader == <<readPending, rwaitCnt, bankPrimed>>
burst == <<out, outIsKey, outCount, olaneCnt, op>>
memory == <<mem, rdValid, rdData, cqv, kp, bank, bankRow>>
alloc == <<allocPtr, setLive, kemitBanked>>
csr == <<ctrlReset, readReq, writeAddr, readAddr, mask, irq>>
vars == <<state, idle, intake, group, reader, burst, stb, rdAddr, memory, alloc, csr, due, taken>>

Chan == 0 .. D - 1
Addr == 0 .. SramDepth - 1
SetNo == 0 .. ScaleSets - 1
None == [kind |-> "none"]
LegalMask == {m \in SUBSET Chan : Cardinality(m) = OutlierK}

\* A key record names its scale set (ssid), the group it was scaled with and
\* the mask that laid out its outlier lanes.
ValueRecord(t) == [kind |-> "value", tok |-> t]
KeyRecord == [kind |-> "key", tok |-> Emitted(kp), ssid |-> allocPtr, group |-> kp.row, mask |-> mask]

\* What a beat was dequantized with: a value record's own scale, outlier
\* lane n of a key record, or the bank row of group n.
OwnScale == [from |-> "record", n |-> 0]
Lane(n) == [from |-> "lane", n |-> n]
BankRow(g) == [from |-> "bank", n |-> g]

NoKpIn == [valid |-> FALSE, start |-> FALSE, last |-> FALSE]
NoStrobe == [sramWr |-> None, sramRd |-> FALSE, bankWr |-> None, cqvIn |-> FALSE,
             kpIn |-> NoKpIn, kpFlush |-> FALSE, rdErr |-> FALSE, sbOvwr |-> FALSE]

Init ==
  /\ state = "IDLE" /\ idle = TRUE
  /\ tready = TRUE /\ tokens = 0 /\ inCount = 0
  /\ grpTokCnt = 0 /\ grpBase = 0 /\ flushPending = FALSE
  /\ readPending = FALSE /\ rwaitCnt = 0 /\ bankPrimed = FALSE
  /\ out = None /\ outIsKey = FALSE /\ outCount = 0 /\ olaneCnt = 0 /\ op = None
  /\ stb = NoStrobe /\ rdAddr = 0
  /\ mem = [a \in Addr |-> None] /\ rdValid = FALSE /\ rdData = None
  /\ cqv = "IDLE" /\ kp = Empty
  /\ bank = [s \in SetNo |-> NoToken] /\ bankRow = NoToken
  /\ allocPtr = 0 /\ setLive = {} /\ kemitBanked = FALSE
  /\ ctrlReset = FALSE /\ readReq = FALSE /\ writeAddr = 0 /\ readAddr = 0
  /\ mask \in LegalMask /\ irq = {}
  /\ due = {} /\ taken = FALSE
-----------------------------------------------------------------------------
\* Mutant of StatusIdle: taken from the FSM state, not from the idle register.
StatusIdleByState == state = "IDLE" /\ cqv # "RUN" /\ ~Busy(kp)

\* Combinational signals.
StatusIdle == idle /\ cqv # "RUN" /\ ~Busy(kp)
Occupied == \E a \in Addr : mem[a] # None
KeyOpen == state \in {"KCOLLECT", "KFEED", "KACCEPT", "KEMIT"}
Bursting == state \in {"OUTPUT", "OFLUSH"}
Beat(in) == in.beat /\ tready

TokenDone(in) == Beat(in) /\ inCount = D - 1

OutAdvance(in) == out = None \/ in.mReady
IsKey(rec) == rec.kind = "key"

\* The registered operands for channel i, with n outlier lanes walked.
Operands(i, n) ==
  [kind |-> "op", rec |-> rdData, idx |-> i, key |-> IF i \in mask THEN Lane(n) ELSE BankRow(bankRow)]

\* dec_ol_hit: the beat being driven is an outlier of a key record.
LaneHit == IF outIsKey /\ outCount \in mask THEN 1 ELSE 0
-----------------------------------------------------------------------------
\* The CSR block.  The host moves WRITE_ADDR only while it sees STATUS.idle
\* and does not stream a token meanwhile; it may reset or read at any time.
CsrOp == [op : {"none", "reset"}]
         \cup [op : {"read"}, addr : ReadAddrs]
         \cup [op : {"waddr"}, addr : WriteAddrs]
         \cup [op : {"commit"}, mask : HostMasks]

HostRule(in) ==
  /\ in.csr.op = "waddr" => StatusIdle /\ ~in.beat
  /\ in.csr.op = "commit" => StatusIdle \/ CommitAnyTime

Commits(in) == in.csr.op = "commit" /\ in.csr.mask \in LegalMask

\* Mutant of SwapHazard: records at rest are forgotten.
SwapHazardOpenOnly == KeyOpen

SwapHazard == Occupied \/ KeyOpen

Csr(in) ==
  /\ HostRule(in)
  /\ ctrlReset' = (in.csr.op = "reset")
  /\ readReq' = (in.csr.op = "read")
  /\ readAddr' = IF in.csr.op = "read" THEN in.csr.addr ELSE readAddr
  /\ writeAddr' = IF in.csr.op = "waddr" THEN in.csr.addr ELSE writeAddr
  /\ mask' = IF Commits(in) THEN in.csr.mask ELSE mask
  /\ irq' = irq \cup (IF stb.rdErr THEN {"RD_ERR"} ELSE {})
                \cup (IF stb.sbOvwr THEN {"SB_OVWR"} ELSE {})
                \cup (IF in.csr.op = "commit" /\ ~Commits(in) THEN {"MASK_ERR"} ELSE {})
                \cup (IF Commits(in) /\ SwapHazard THEN {"MASK_SWAP"} ELSE {})

\* sram_controller: only a written address is acknowledged.
Sram ==
  /\ mem' = IF stb.sramWr # None THEN [mem EXCEPT ![stb.sramWr.addr] = stb.sramWr.rec] ELSE mem
  /\ rdValid' = (stb.sramRd /\ mem[rdAddr] # None)
  /\ rdData' = IF rdValid' THEN mem[rdAddr] ELSE rdData

\* cq_value_path: RUN is busy, DONE the out_valid pulse.
ValuePath ==
  \/ ctrlReset /\ cqv' = "IDLE"
  \/ ~ctrlReset /\ stb.cqvIn /\ cqv' = "RUN"
  \/ ~ctrlReset /\ ~stb.cqvIn /\ cqv = "RUN" /\ cqv' \in {"RUN", "DONE"}
  \/ ~ctrlReset /\ ~stb.cqvIn /\ cqv # "RUN" /\ cqv' = "IDLE"

\* Mutant of KeyPath: the soft reset does not reach the core.
KeyPathUncleared ==
  kp' \in Step(kp, [valid |-> stb.kpIn.valid, start |-> stb.kpIn.start, last |-> stb.kpIn.last,
                    tok |-> tokens],
               stb.kpFlush, FALSE)

KeyPath ==
  kp' \in Step(kp, [valid |-> stb.kpIn.valid, start |-> stb.kpIn.start, last |-> stb.kpIn.last,
                    tok |-> tokens],
               stb.kpFlush, ctrlReset)

\* scale_bank_store: it has no clear; the row read launches in the ack cycle.
PrimeRow == state = "RWAIT" /\ rdValid /\ IsKey(rdData) /\ ~bankPrimed
\* Mutants of ScaleBank: the row written through the advanced pointer, and the
\* row read launched one cycle late.
ScaleBankLateSet ==
  /\ bank' = IF stb.bankWr # None THEN [bank EXCEPT ![allocPtr] = kp.row] ELSE bank
  /\ bankRow' = IF PrimeRow THEN bank[rdData.ssid] ELSE bankRow
ScaleBankLateRead ==
  /\ bank' = IF stb.bankWr # None THEN [bank EXCEPT ![stb.bankWr.set] = kp.row] ELSE bank
  /\ bankRow' = IF bankPrimed THEN bank[rdData.ssid] ELSE bankRow

ScaleBank ==
  /\ bank' = IF stb.bankWr # None THEN [bank EXCEPT ![stb.bankWr.set] = kp.row] ELSE bank
  /\ bankRow' = IF PrimeRow THEN bank[rdData.ssid] ELSE bankRow

\* What every clock edge does, whatever the state of the FSM.
Clock(in) ==
  /\ Csr(in) /\ Sram /\ ValuePath /\ KeyPath /\ ScaleBank
  /\ rdAddr' = IF state = "RLOAD" /\ ~ctrlReset THEN readAddr ELSE rdAddr
  /\ taken' = (out # None /\ in.mReady)
-----------------------------------------------------------------------------
\* The soft reset where no read burst is on the bus: abort and discard.
SoftReset(in) ==
  /\ ctrlReset /\ ~Bursting
  /\ Clock(in)
  /\ state' = "IDLE" /\ idle' = TRUE /\ tready' = TRUE
  /\ inCount' = 0 /\ grpTokCnt' = 0 /\ flushPending' = FALSE
  /\ readPending' = FALSE /\ rwaitCnt' = 0 /\ bankPrimed' = FALSE /\ kemitBanked' = FALSE
  /\ olaneCnt' = 0 /\ out' = None
  /\ stb' = NoStrobe
  /\ due' = {}
  /\ UNCHANGED <<tokens, grpBase, outIsKey, outCount, op, allocPtr, setLive>>

\* An edge of the FSM in state s that no reset pre-empts.
In(s, in) == state = s /\ ~ctrlReset /\ Clock(in)

\* Mutant of BeginToken: a deferred read survives one token only.
BeginTokenForgets(in, key) ==
  /\ In("IDLE", in)
  /\ Beat(in) /\ tokens < MaxTokens
  /\ tokens' = tokens + 1 /\ inCount' = 1
  /\ idle' = FALSE
  /\ readPending' = readReq
  /\ state' = IF key THEN "KCOLLECT" ELSE "COLLECT"
  /\ grpBase' = IF key THEN writeAddr ELSE grpBase
  /\ stb' = NoStrobe
  /\ UNCHANGED <<tready, grpTokCnt, flushPending, rwaitCnt, bankPrimed, burst, alloc, due>>

\* ST_IDLE: an accepted beat wins over a read, which is deferred.
BeginToken(in, key) ==
  /\ In("IDLE", in)
  /\ Beat(in) /\ tokens < MaxTokens
  /\ tokens' = tokens + 1 /\ inCount' = 1
  /\ idle' = FALSE
  /\ readPending' = (readPending \/ readReq)
  /\ state' = IF key THEN "KCOLLECT" ELSE "COLLECT"
  /\ grpBase' = IF key THEN writeAddr ELSE grpBase
  /\ stb' = NoStrobe
  /\ UNCHANGED <<tready, grpTokCnt, flushPending, rwaitCnt, bankPrimed, burst, alloc, due>>

LaunchRead(in) ==
  /\ In("IDLE", in)
  /\ ~Beat(in) /\ (readReq \/ readPending)
  /\ readPending' = FALSE /\ tready' = FALSE /\ idle' = FALSE
  /\ state' = "RLOAD"
  /\ stb' = NoStrobe
  /\ UNCHANGED <<tokens, inCount, group, rwaitCnt, bankPrimed, burst, alloc, due>>

Rest(in) ==
  /\ In("IDLE", in)
  /\ ~Beat(in) /\ ~readReq /\ ~readPending
  /\ idle' = TRUE /\ tready' = TRUE
  /\ stb' = NoStrobe
  /\ UNCHANGED <<state, tokens, inCount, group, reader, burst, alloc, due>>

\* ST_COLLECT: gather a value token; the last beat presents it to the core.
Collecting(in) ==
  /\ In("COLLECT", in)
  /\ LET last == TokenDone(in)
     IN  /\ inCount' = IF Beat(in) THEN inCount + 1 ELSE inCount
         /\ state' = IF last THEN "COMPRESS" ELSE "COLLECT"
         /\ tready' = ~last
         /\ stb' = [NoStrobe EXCEPT !.cqvIn = last]
         /\ due' = IF last THEN due \cup {[tok |-> tokens, addr |-> writeAddr]} ELSE due
  /\ UNCHANGED <<idle, tokens, group, reader, burst, alloc>>

Compress(in) ==
  /\ In("COMPRESS", in)
  /\ state' = IF cqv = "DONE" THEN "STORE" ELSE "COMPRESS"
  /\ stb' = NoStrobe
  /\ UNCHANGED <<idle, intake, group, reader, burst, alloc, due>>

Store(in) ==
  /\ In("STORE", in)
  /\ stb' = [NoStrobe EXCEPT !.sramWr = [kind |-> "wr", addr |-> writeAddr, rec |-> ValueRecord(tokens)]]
  /\ due' = due \ {[tok |-> tokens, addr |-> writeAddr]}
  /\ inCount' = 0 /\ tready' = TRUE
  /\ state' = "IDLE"
  /\ UNCHANGED <<idle, tokens, group, reader, burst, alloc>>

\* A flush that cannot be acted on is latched (in.flush in a key phase).
Latched(in) == flushPending \/ in.flush

\* ST_KCOLLECT: gather one token of a key group.
KCollect(in) ==
  /\ In("KCOLLECT", in)
  /\ LET last == TokenDone(in)
     IN  /\ inCount' = IF Beat(in) THEN inCount + 1 ELSE inCount
         /\ state' = IF last THEN "KFEED" ELSE "KCOLLECT"
         /\ tready' = ~last
         /\ due' = IF last THEN due \cup {[tok |-> tokens, addr |-> grpBase + grpTokCnt]} ELSE due
  /\ flushPending' = Latched(in)
  /\ stb' = NoStrobe
  /\ UNCHANGED <<idle, tokens, grpTokCnt, grpBase, reader, burst, alloc>>

\* ST_KFEED: hand the token to the core; the last of a group closes it.
KFeed(in) ==
  /\ In("KFEED", in)
  /\ LET full == grpTokCnt = KeyGroup - 1
     IN  /\ stb' = [NoStrobe EXCEPT !.kpIn = [valid |-> TRUE, start |-> grpTokCnt = 0, last |-> full]]
         /\ grpTokCnt' = IF full THEN 0 ELSE grpTokCnt + 1
         /\ inCount' = IF full THEN inCount ELSE 0
         /\ flushPending' = (~full /\ Latched(in))
         /\ kemitBanked' = (~full /\ kemitBanked)
         /\ state' = IF full THEN "KEMIT" ELSE "KACCEPT"
  /\ UNCHANGED <<idle, tready, tokens, grpBase, reader, burst, allocPtr, setLive, due>>

\* ST_KACCEPT: the next token of the group, or a flush of the partial group;
\* a beat in the same cycle wins and leaves the flush latched.
KAccept(in) ==
  /\ In("KACCEPT", in)
  /\ Beat(in) => tokens < MaxTokens
  /\ LET flushes == ~Beat(in) /\ Latched(in)
     IN  /\ tokens' = IF Beat(in) THEN tokens + 1 ELSE tokens
         /\ inCount' = IF Beat(in) THEN 1 ELSE inCount
         /\ flushPending' = (Latched(in) /\ ~flushes)
         /\ stb' = [NoStrobe EXCEPT !.kpFlush = flushes]
         /\ grpTokCnt' = IF flushes THEN 0 ELSE grpTokCnt
         /\ kemitBanked' = (~flushes /\ kemitBanked)
         /\ tready' = ~flushes
         /\ state' = IF Beat(in) THEN "KCOLLECT" ELSE IF flushes THEN "KEMIT" ELSE "KACCEPT"
  /\ UNCHANGED <<idle, grpBase, reader, burst, allocPtr, setLive, due>>

\* ST_KEMIT: one record per emitted token; the first commits the scale row
\* to set allocPtr, the last advances allocPtr and ends the group.
KEmit(in) ==
  /\ In("KEMIT", in)
  /\ LET first == kp.tv /\ ~kemitBanked
         wr == [kind |-> "wr", addr |-> grpBase + kp.ptr, rec |-> KeyRecord]
     IN  /\ stb' = IF ~kp.tv THEN NoStrobe
                   ELSE [NoStrobe EXCEPT !.sramWr = wr,
                           !.bankWr = IF first THEN [kind |-> "bank", set |-> allocPtr] ELSE None,
                           !.sbOvwr = first /\ allocPtr \in setLive]
         /\ due' = IF kp.tv THEN due \ {[tok |-> Emitted(kp), addr |-> grpBase + kp.ptr]} ELSE due
         /\ setLive' = IF first THEN setLive \cup {allocPtr} ELSE setLive
         /\ kemitBanked' = (kemitBanked \/ first)
  /\ IF GroupValid(kp)
     THEN allocPtr' = (allocPtr + 1) % ScaleSets /\ tready' = TRUE /\ state' = "IDLE"
     ELSE UNCHANGED <<allocPtr, tready, state>>
  /\ UNCHANGED <<idle, tokens, inCount, group, reader, burst>>

ReadLoad(in) ==
  /\ In("RLOAD", in)
  /\ stb' = [NoStrobe EXCEPT !.sramRd = TRUE]
  /\ rwaitCnt' = 0
  /\ state' = "RWAIT"
  /\ UNCHANGED <<idle, intake, group, readPending, bankPrimed, burst, alloc, due>>

\* ST_RWAIT: a key record primes the bank row for one cycle, ...
Prime(in) ==
  /\ In("RWAIT", in) /\ PrimeRow
  /\ bankPrimed' = TRUE /\ outIsKey' = TRUE
  /\ stb' = NoStrobe
  /\ UNCHANGED <<state, idle, intake, group, readPending, rwaitCnt, out, outCount, olaneCnt, op,
                 alloc, due>>

\* ... then the operands of beat 0 are captured and the burst starts, ...
StartBurst(in) ==
  /\ In("RWAIT", in) /\ ~PrimeRow /\ (rdValid \/ bankPrimed)
  /\ outCount' = 0 /\ olaneCnt' = 0
  /\ outIsKey' = (outIsKey /\ bankPrimed)
  /\ bankPrimed' = FALSE
  /\ op' = Operands(0, 0)
  /\ state' = "OUTPUT"
  /\ stb' = NoStrobe
  /\ UNCHANGED <<idle, intake, group, readPending, rwaitCnt, out, alloc, due>>

\* Mutant of AwaitRead: the wait is not bounded.
AwaitReadForever(in) ==
  /\ In("RWAIT", in) /\ ~rdValid /\ ~bankPrimed
  /\ stb' = NoStrobe
  /\ UNCHANGED <<state, rwaitCnt>>
  /\ UNCHANGED <<idle, intake, group, readPending, bankPrimed, burst, alloc, due>>

\* ... and an address that is never acknowledged ends in RD_ERR.
AwaitRead(in) ==
  /\ In("RWAIT", in) /\ ~rdValid /\ ~bankPrimed
  /\ IF rwaitCnt = RdWaitMax
     THEN state' = "IDLE" /\ stb' = [NoStrobe EXCEPT !.rdErr = TRUE] /\ UNCHANGED rwaitCnt
     ELSE rwaitCnt' = rwaitCnt + 1 /\ stb' = NoStrobe /\ UNCHANGED state
  /\ UNCHANGED <<idle, intake, group, readPending, bankPrimed, burst, alloc, due>>

\* What a reset clears while a burst goes on: everything but the burst.
ResetAside ==
  /\ inCount' = IF ctrlReset THEN 0 ELSE inCount
  /\ grpTokCnt' = IF ctrlReset THEN 0 ELSE grpTokCnt
  /\ readPending' = (~ctrlReset /\ readPending)
  /\ flushPending' = (~ctrlReset /\ flushPending)
  /\ rwaitCnt' = IF ctrlReset THEN 0 ELSE rwaitCnt
  /\ kemitBanked' = (~ctrlReset /\ kemitBanked)
  /\ bankPrimed' = (~ctrlReset /\ bankPrimed)

\* ST_OUTPUT: the output register takes the beat whose operands were captured
\* one step ahead; the lane count is on the list of what a reset clears.
Output(in) ==
  /\ state = "OUTPUT"
  /\ Clock(in)
  /\ ResetAside
  /\ LET last == outCount = D - 1
     IN  IF OutAdvance(in)
         THEN /\ out' = [kind |-> "beat", rec |-> op.rec, idx |-> op.idx, last |-> last,
                         sel |-> IF outIsKey THEN op.key ELSE OwnScale]
              /\ op' = Operands((outCount + 1) % D, olaneCnt + LaneHit)
              /\ olaneCnt' = IF LaneHit = 1 THEN olaneCnt + 1 ELSE IF ctrlReset THEN 0 ELSE olaneCnt
              /\ outCount' = IF last THEN 0 ELSE outCount + 1
              /\ state' = IF last THEN "OFLUSH" ELSE "OUTPUT"
         ELSE /\ olaneCnt' = IF ctrlReset THEN 0 ELSE olaneCnt
              /\ UNCHANGED <<out, op, outCount, state>>
  /\ stb' = NoStrobe
  /\ UNCHANGED <<idle, tready, tokens, grpBase, outIsKey, allocPtr, setLive, due>>

\* ST_OFLUSH: hold the last beat until it is accepted.
OutFlush(in) ==
  /\ state = "OFLUSH"
  /\ Clock(in)
  /\ ResetAside
  /\ olaneCnt' = IF ctrlReset THEN 0 ELSE olaneCnt
  /\ IF in.mReady THEN out' = None /\ state' = "IDLE" ELSE UNCHANGED <<out, state>>
  /\ stb' = NoStrobe
  /\ UNCHANGED <<idle, tready, tokens, grpBase, outIsKey, outCount, op, allocPtr, setLive, due>>

FsmStep(in) ==
  \/ SoftReset(in)
  \/ \E key \in BOOLEAN : BeginToken(in, key)
  \/ LaunchRead(in) \/ Rest(in)
  \/ Collecting(in) \/ Compress(in) \/ Store(in)
  \/ KCollect(in) \/ KFeed(in) \/ KAccept(in) \/ KEmit(in)
  \/ ReadLoad(in) \/ Prime(in) \/ StartBurst(in) \/ AwaitRead(in)
  \/ Output(in) \/ OutFlush(in)

\* s_axis tvalid, m_axis tready, flush_req and the CSR write of a cycle.
Input == [beat : BOOLEAN, mReady : BOOLEAN, flush : BOOLEAN, csr : CsrOp]

Next == \E in \in Input : FsmStep(in)

Spec == Init /\ [][Next]_vars

\* A cycle in which nobody holds the engine back: a token begun goes on, a
\* partial group is flushed, the read consumer is ready, a core's walk ends.
\* It neither resets, reads nor commits, and begins no token.
Unhindered(in) ==
  /\ FsmStep(in)
  /\ in.mReady /\ in.csr.op = "none"
  /\ state = "IDLE" => ~in.beat
  /\ state \in {"COLLECT", "KCOLLECT"} => in.beat
  /\ state = "KACCEPT" => in.flush /\ ~in.beat
  /\ cqv = "RUN" => cqv' # cqv
  /\ kp.st # "COLL" => kp' # kp

FairSpec == Spec /\ WF_vars(\E in \in Input : Unhindered(in))
-----------------------------------------------------------------------------
TypeOK ==
  /\ state \in {"IDLE", "COLLECT", "COMPRESS", "STORE", "KCOLLECT", "KFEED", "KACCEPT", "KEMIT",
                "RLOAD", "RWAIT", "OUTPUT", "OFLUSH"}
  /\ {idle, tready, flushPending, readPending, bankPrimed, outIsKey, rdValid, kemitBanked,
      ctrlReset, readReq, taken} \subseteq BOOLEAN
  /\ tokens \in 0 .. MaxTokens /\ inCount \in 0 .. D
  /\ grpTokCnt \in 0 .. KeyGroup - 1 /\ grpBase + KeyGroup <= SramDepth
  /\ rwaitCnt \in 0 .. RdWaitMax /\ outCount \in Chan /\ olaneCnt \in 0 .. OutlierK
  /\ kp \in KeyPathState /\ Len(kp.toks) <= KeyGroup /\ kp.ptr < KeyGroup
  /\ cqv \in {"IDLE", "RUN", "DONE"}
  /\ allocPtr \in SetNo /\ setLive \subseteq SetNo
  /\ mask \in LegalMask
  /\ irq \subseteq {"RD_ERR", "SB_OVWR", "MASK_ERR", "MASK_SWAP"}

\* D-020: STATUS.idle can never lie.  While it reads 1 every token taken in
\* full and not discarded by a reset is in the record store, no core and no
\* strobe can still change the store, and no beat is on the read bus.
IdleNeverLies ==
  StatusIdle => /\ state = "IDLE" /\ due = {} /\ out = None
                /\ stb.sramWr = None /\ stb.bankWr = None /\ ~stb.kpIn.valid /\ ~stb.cqvIn

\* Every record written is that of a token that was collected in full and not
\* discarded since, at the address it was collected for, and written once:
\* an aborted token or group never finishes and stores later.
StoresAreDue ==
  [][stb'.sramWr # None => [tok |-> stb'.sramWr.rec.tok, addr |-> stb'.sramWr.addr] \in due]_vars

\* D-026: the bank row a stored key record names is that of its own group,
\* unless SB_OVWR says a live set was reused.
RowOfOwnGroup ==
  \A a \in Addr :
    IsKey(mem[a]) => bank[mem[a].ssid] = mem[a].group \/ "SB_OVWR" \in irq

\* D-027: the outlier lanes of every stored key record are laid out by the
\* live mask, unless MASK_SWAP says it was swapped over stored records.
MaskOfRecords ==
  \A a \in Addr : IsKey(mem[a]) => mem[a].mask = mask \/ "MASK_SWAP" \in irq

\* what belongs to a beat: its record's scale, its outlier lane, or the row of
\* its own group
RightOperand(b) ==
  IF ~IsKey(b.rec) THEN OwnScale
  ELSE IF b.idx \in b.rec.mask THEN Lane(Cardinality({j \in b.rec.mask : j < b.idx}))
  ELSE BankRow(b.rec.group)

\* Every beat of a read burst is channel idx of the record, dequantized with
\* what belongs to it; only a flagged host error (SB_OVWR, MASK_SWAP) makes it
\* differ.
BurstExact ==
  out # None /\ irq \cap {"SB_OVWR", "MASK_SWAP"} = {} => out.sel = RightOperand(out)

\* D-016(b): a read deferred behind an accepted beat is launched once the
\* token, or the group it opened, is done (only a soft reset drops it), and a
\* read that is launched ends: with its burst or with RD_ERR.
ReadEnds ==
  /\ readPending ~> (state = "RLOAD" \/ ctrlReset)
  /\ state = "RLOAD" ~> state = "IDLE"

=============================================================================
