-------------------------------- MODULE Tile --------------------------------
(* The tile as a register program sees it: the mailbox streams a program      *)
(* pushes into, the stage buffer, the array, the requantiser, the feeder, the *)
(* softmax, the KV store, and the capture FIFOs a program pops.  The engines  *)
(* run on their own; a program is a sequence of operations, executed in order *)
(* by the host or, in walker mode, by the tile's own walker.  Data is         *)
(* symbolic: a beat is the name of what it holds, a product the names of what *)
(* was multiplied, so a capture says which inputs it was made from.           *)
EXTENDS Integers, Sequences, FiniteSets, SequencesExt

CONSTANTS Bpr,      \* beats of a row (D / 8); 3 or more, as in every image
          Depth,    \* depth of a mailbox push FIFO (16)
          CapDepth, \* depth of a capture FIFO (16)
          Chunk,    \* records of a score chunk (8)
          Group,    \* tokens of a key group (16)
          StageRows,    \* rows of a stage bank; a row past them aliases
          Win,      \* beats of a residual window (1024 elements)
          DmMax     \* beats of the residual row

ASSUME TileAssumption ==
    Bpr \in Nat /\ Bpr >= 3 /\ Depth \in Nat \ {0} /\ CapDepth \in Nat \ {0}
    /\ Chunk \in Nat \ {0}
    /\ Group \in Nat \ {0}
    /\ StageRows \in Nat \ {0} /\ Win \in Nat \ {0} /\ DmMax \in Nat

VARIABLES camp,     \* the campaign: the programs to fly and what may be broken
          book,     \* what became of the programs flown so far
          prog,     \* the program flown: its operations and what they are worth
          pc,       \* the next operation of the host; 0 when one has failed
          wk,       \* the operations the walker has left, while it walks
          en,       \* whether the tile is in walker mode
          tile,     \* the tile's state
          caps      \* what the host has captured

vars == <<camp, book, prog, pc, wk, en, tile, caps>>
flight == <<camp, book, prog>>

NoJob == [op |-> "none", bank |-> 0, pat |-> 0, rows |-> 0, nb |-> 0, sel |-> 0, k |-> 0]
NoDesc == [acc |-> 0, os |-> 0, ka |-> 0, kw |-> 0]
Reset == [fsrc |-> 0, fdst |-> 0, asrc |-> 0, wsrc |-> 0, rdst |-> 0, qsrc |-> 0,
          kvu |-> 1]
\* what the head walker drives while it has the tile: attention's own route
Through == [fsrc |-> 1, fdst |-> 1, asrc |-> 1, wsrc |-> 1, rdst |-> 2, qsrc |-> 1, kvu |-> 1]
NoLayer == [ser |-> 0, fext |-> 0, rope |-> FALSE, nsrc |-> FALSE]
Direct == [mode |-> "local", sum |-> <<>>]
Empty == <<"empty">>
Poison == <<"poison">>      \* what a record of the poisoned image reads as
Loader == <<"loader">>      \* the beat whose first codes are 127 and 1
InjectRow == [j \in 1 .. Bpr |-> <<"e", <<"inj">>, j>>]

InitTile(img) ==
    [r |-> Reset, img |-> img, err |-> FALSE, drop |-> FALSE,
     aj |-> NoJob, wj |-> NoJob,
     act |-> [b \in 0 .. 1 |-> [i \in 0 .. StageRows - 1 |-> [j \in 1 .. Bpr |-> Empty]]], wgt |-> <<>>,
     fj |-> 0, fd |-> <<>>, nx |-> <<>>, lj |-> 0,
     qj |-> <<>>, got |-> 0, row |-> <<>>, sq |-> <<>>,
     sj |-> 0, sc |-> <<>>, comp |-> 0,
     mx |-> NoDesc, run |-> FALSE, ina |-> <<>>, inw |-> <<>>, acc |-> <<>>,
     kv |-> <<>>, wa |-> 0, storing |-> FALSE, reads |-> <<>>,
     open |-> <<>>, flush |-> FALSE,
     xw |-> <<>>, qs |-> <<>>, cs |-> <<>>, xa |-> <<>>, ds |-> <<>>,
     xg |-> <<>>, lc |-> NoLayer, jc |-> <<>>, lu |-> <<>>, dq |-> <<>>, sw |-> <<>>,
     res |-> [i \in 0 .. DmMax - 1 |-> Empty], rp |-> 0, nf |-> <<>>,
     rms |-> Direct, s2 |-> <<>>, nj |-> 0,
     fuel |-> FALSE, fq |-> <<>>, hr |-> Reset, werr |-> FALSE,
     fs |-> <<>>, ss |-> <<>>, ro |-> <<>>, td |-> <<>>]

KvIdle == ~tile.storing /\ ~tile.flush /\ tile.reads = <<>>
Idle == /\ tile.aj = NoJob /\ tile.wj = NoJob /\ ~tile.run /\ tile.ds = <<>>
        /\ tile.fj = 0 /\ tile.qj = <<>> /\ tile.sj = 0 /\ tile.lj = 0 /\ KvIdle
        /\ (tile.fq # <<>> => Head(tile.fq)[1] # "xg")

---------------------------------------------------------------------------
(* The engines.                                                             *)

\* a LOAD moves a row from the routed source into the stage buffer
Load == /\ tile.aj.op = "load"
        /\ LET src == IF tile.r.asrc = 0 THEN tile.fd ELSE tile.sq
               row == tile.aj.k + (IF tile.img = "base_row" THEN tile.aj.sel ELSE 0)
               at == row % StageRows
               more == [tile.aj EXCEPT !.k = @ + 1]
               new == [tile EXCEPT !.act[tile.aj.bank][at] =
                                     [j \in 1 .. Bpr |-> IF j <= tile.aj.nb THEN src[j] ELSE @[j]],
                                   !.aj = IF more.k = more.rows THEN NoJob ELSE more]
               rest == SubSeq(src, tile.aj.nb + 1, Len(src))
           IN /\ Len(src) >= tile.aj.nb
              /\ tile.r.asrc = 0 => tile.r.fdst = 0
              /\ tile' = IF tile.r.asrc = 0 THEN [new EXCEPT !.fd = rest]
                                            ELSE [new EXCEPT !.sq = rest]

\* an EMIT streams a staged row into the array, once it takes activations
Emit == /\ tile.aj.op = "emit" /\ tile.run /\ Len(tile.ina) < tile.mx.ka
        /\ tile' = [tile EXCEPT
             !.ina = @ \o SubSeq(tile.act[tile.aj.bank][tile.aj.sel % StageRows], 1, tile.aj.nb),
             !.aj = NoJob]

\* the weight-side stage: rows from the feeder, then out in the named pattern
LoadW == /\ tile.wj.op = "load" /\ tile.r.fdst = 1 /\ Len(tile.fd) >= Bpr
         /\ tile' = [tile EXCEPT !.wgt = Append(@, SubSeq(tile.fd, 1, Bpr)),
                                 !.fd = SubSeq(@, Bpr + 1, Len(@)),
                                 !.wj = IF tile.wj.rows = 1 THEN NoJob
                                        ELSE [@ EXCEPT !.rows = @ - 1]]
EmitW == /\ tile.wj.op = "emit" /\ tile.r.wsrc = 1 /\ tile.run
         /\ Len(tile.ina) >= tile.mx.ka /\ Len(tile.inw) < tile.mx.kw
         /\ tile' = [tile EXCEPT
              !.inw = @ \o [i \in 1 .. tile.wj.rows |->
                              <<tile.wj.pat, tile.wj.sel, tile.wgt[i]>>],
              !.wgt = <<>>, !.wj = NoJob]

\* the array takes a descriptor only when the one before has drained
Accept == /\ tile.ds # <<>> /\ ~tile.run
          /\ tile' = IF Head(tile.ds).ka = 0
                     THEN [tile EXCEPT !.ds = Tail(@), !.err = TRUE]
                     ELSE [tile EXCEPT !.ds = Tail(@), !.mx = Head(tile.ds), !.run = TRUE]

\* weights move only after the activations of the pass are all in
Weigh == /\ tile.run /\ tile.r.wsrc = 0 /\ tile.xw # <<>>
         /\ Len(tile.ina) >= tile.mx.ka /\ Len(tile.inw) < tile.mx.kw
         /\ tile' = [tile EXCEPT !.inw = Append(@, Head(tile.xw)), !.xw = Tail(@)]

Product == LET new == IF tile.ina \in {<<Loader>>, InjectRow} THEN <<tile.inw[1]>>
                      ELSE <<<<"mm", tile.ina, tile.inw>>>>
           IN IF tile.mx.os = 1 /\ tile.mx.acc = 1 /\ camp.fault # "no_acc" THEN tile.acc \o new ELSE new
Multiplied == tile.run /\ Len(tile.ina) >= tile.mx.ka /\ Len(tile.inw) >= tile.mx.kw
Drained == [tile EXCEPT !.acc = Product, !.run = FALSE, !.ina = <<>>, !.inw = <<>>,
                        !.mx = NoDesc]

ToCapture == /\ Multiplied /\ tile.r.rdst = 0 /\ Len(tile.ro) < CapDepth
             /\ tile' = [Drained EXCEPT !.ro = Append(@, Product)]
\* through the requantiser: a whole row is a KV record or a quantised row
ToRow == /\ Multiplied /\ tile.r.rdst = 1 /\ tile.qj # <<>> /\ tile.r.qsrc = 0
         /\ tile.got >= Head(tile.qj).n /\ tile.lj > 0 /\ tile.lc.ser = 0
         /\ tile' = [Drained EXCEPT !.row = @ \o Product, !.lj = @ - 1,
                                    !.storing = @ \/ Head(tile.qj).mode = 0]
ToScore == /\ Multiplied /\ tile.r.rdst = 2 /\ tile.sj > 0
           /\ tile' = [Drained EXCEPT !.sc = @ \o <<<<Product, Len(tile.inw)>>>>]

Comps == \/ /\ tile.qj # <<>> /\ tile.qs # <<>> /\ tile.got < Head(tile.qj).n
            /\ tile' = [tile EXCEPT !.qs = Tail(@), !.got = @ + 1]
         \/ /\ tile.sj > 0 /\ tile.cs # <<>> /\ tile.comp < tile.sj
            /\ tile' = [tile EXCEPT !.cs = Tail(@), !.comp = @ + 1]
Quantise == /\ tile.qj # <<>> /\ Head(tile.qj).mode = 1 /\ Len(tile.row) = Bpr
            /\ tile.sq = <<>> /\ Len(tile.ss) < CapDepth
            /\ tile' = [tile EXCEPT !.sq = tile.row, !.ss = Append(@, <<"s", tile.row>>),
                                    !.row = <<>>, !.qj = <<>>, !.got = 0]
\* a value is stored at the write address; keys of a group when it closes
StoreValue == /\ tile.storing /\ tile.r.kvu = 1 /\ tile.lc.fext # 3 /\ Len(tile.row) = Bpr
              /\ tile' = [tile EXCEPT !.kv = Append(@, <<tile.wa, tile.row>>), !.row = <<>>,
                                      !.qj = <<>>, !.got = 0, !.storing = FALSE]
StoreKey == /\ tile.storing /\ tile.r.kvu = 0 /\ Len(tile.row) = Bpr
            /\ tile' = [tile EXCEPT !.open = Append(@, tile.row), !.row = <<>>,
                                    !.qj = <<>>, !.got = 0, !.storing = FALSE,
                                    !.flush = Len(tile.open) + 1 = Group]
CloseGroup == /\ tile.flush
              /\ tile' = [tile EXCEPT !.flush = FALSE, !.open = <<>>,
                    !.kv = @ \o [i \in 1 .. Len(tile.open) |-> <<tile.wa + i - 1, tile.open[i]>>]]

\* the records the scores were made of, in chunks; P leaves through the quantiser
Scored == FoldLeft(LAMBDA n, x : n + x[2], 0, tile.sc)
Softmax == /\ tile.sj > 0 /\ tile.comp = tile.sj /\ Scored = tile.sj
           /\ tile.r.qsrc = 1 /\ tile.qj # <<>> /\ tile.got = Head(tile.qj).n
           /\ tile.sq = <<>> /\ Len(tile.ss) < CapDepth
           /\ LET p == <<"p", tile.sc>>
              IN tile' = [tile EXCEPT !.sq = [i \in 1 .. (tile.sj + Chunk - 1) \div Chunk |-> <<"pb", p, i>>],
                                      !.ss = Append(@, <<"s", p>>),
                                      !.td = IF tile.sj <= Chunk THEN Append(@, <<"tip">>) ELSE @,
                                      !.sj = 0, !.comp = 0, !.sc = <<>>,
                                      !.qj = <<>>, !.got = 0]

\* the layer units behind the serialiser: dequantise and add onto the row ...
Deq == /\ Multiplied /\ tile.r.rdst = 1 /\ tile.lc.ser = 1 /\ tile.lj > 0
       /\ tile.dq # <<>> /\ tile.lu # <<>>
       /\ LET d == Head(tile.dq)
              u == Head(tile.lu)
              i == u.base * Win + u.n
          IN tile' = [Drained EXCEPT
               !.res[i] = <<"add", @, <<"deq", d.comp, Product>>>>, !.lj = @ - 1,
               !.dq = IF d.n + 1 = d.cols THEN <<>> ELSE <<[d EXCEPT !.n = @ + 1]>>,
               !.lu = IF u.n + 1 = u.cols THEN <<>> ELSE <<[u EXCEPT !.n = @ + 1]>>]
\* ... or a gate frame, then an up frame, whose products go to the feeder
Swiglu == /\ Multiplied /\ tile.r.rdst = 1 /\ tile.lc.ser = 2 /\ tile.lj > 0
          /\ tile.sw # <<>>
          /\ LET w == Head(tile.sw)
                 in == Append(w.in, Product)
                 up == Len(in) > w.cols
             IN tile' = [Drained EXCEPT !.lj = @ - 1,
                  !.nf = IF up THEN Append(@, <<"swi", w.comp, <<in[Len(in) - w.cols], Product>>>>)
                               ELSE @,
                  !.sw = IF Len(in) = 2 * w.cols THEN <<>> ELSE <<[w EXCEPT !.in = in]>>]
\* the rotated row, steered to the feeder instead of the KV store
Rotate == /\ tile.storing /\ tile.lc.fext = 3 /\ Len(tile.row) = Bpr /\ tile.nf = <<>>
          /\ tile' = [tile EXCEPT !.row = <<>>, !.qj = <<>>, !.got = 0, !.storing = FALSE,
                !.nf = IF tile.lc.rope THEN [j \in 1 .. Bpr |-> <<"rot", tile.row[j]>>]
                       ELSE tile.row]
FeedUnit == /\ tile.fj > 0 /\ tile.lc.fext > 0 /\ Len(tile.nf) = Bpr /\ tile.fd = <<>>
            /\ Len(tile.fs) < CapDepth
            /\ tile' = [tile EXCEPT !.fd = tile.nf, !.nf = <<>>, !.fj = @ - 1,
                                    !.fs = Append(@, <<"s", tile.nf>>)]

\* the norm unit takes a frame of rows; in a sum pass it only adds their squares
TakeRows == /\ tile.xa # <<>> /\ tile.nx = <<>>
            /\ tile' = IF tile.rms.mode = "sum"
                       THEN [tile EXCEPT !.xa = Tail(@), !.s2 = Append(@, Head(tile.xa))]
                       ELSE [tile EXCEPT !.xa = Tail(@), !.nx = Head(tile.xa)]
\* a row leaves with its gamma, scaled by its own sum or by the armed one
\* (the root of the sum is taken in integers: a sum one more has the same)
OneMore == <<<<"one more">>>>
Root(sum) == IF sum # <<>> /\ Last(sum) = OneMore THEN Front(sum) ELSE sum
Normed(row, g) == IF tile.rms.mode = "ext" /\ camp.fault # "own_sum"
                  THEN [j \in 1 .. Bpr |-> <<"n", Root(tile.rms.sum), row[j], g>>]
                  ELSE IF row[1] = Loader THEN row ELSE [j \in 1 .. Bpr |-> <<"n", row[j], g>>]
Norm == /\ tile.fj > 0 /\ tile.r.fsrc = 0 /\ tile.lc.fext = 0 /\ tile.nx # <<>>
        /\ tile.xg # <<>> /\ tile.fd = <<>> /\ Len(tile.fs) < CapDepth
        /\ LET y == Normed(Head(tile.nx), Head(tile.xg))
           IN tile' = [tile EXCEPT !.fd = y, !.nx = Tail(@), !.xg = Tail(@),
                                   !.fj = @ - 1, !.fs = Append(@, <<"s", y>>)]
\* the residual row as a frame: to the norm unit, or to the stage buffer
Egress == /\ tile.nj > 0 /\ tile.fj > 0 /\ tile.lc.fext = 4 /\ tile.lu = <<>>
          /\ Len(tile.fs) < CapDepth /\ tile.fd = <<>> /\ tile.nx = <<>>
          /\ LET row == [j \in 1 .. Bpr |-> tile.res[j - 1]]
                 new == [tile EXCEPT !.nj = 0, !.fj = @ - 1, !.fs = Append(@, <<"s", row>>)]
             IN tile' = IF tile.lc.nsrc THEN [new EXCEPT !.nx = <<row>>] ELSE [new EXCEPT !.fd = row]

\* the records the walker fetched arrive from card memory, in order
Fuel == /\ tile.fq # <<>> /\ Len(tile[Head(tile.fq)[1]]) < Depth
        /\ LET to == Head(tile.fq)[1]
               v == IF \/ camp.fault = "wrong_image"
                       \/ Head(tile.fq)[2] = prog.mem /\ camp.fault # "stale_fuel"
                    THEN Poison ELSE Head(tile.fq)[2]
           IN tile' = [tile EXCEPT !.fq = Tail(@), ![to] = Append(@, v)]

\* the feeder reads a record back
Feed == /\ tile.fj > 0 /\ tile.r.fsrc = 1 /\ tile.reads # <<>>
        /\ tile.fd = <<>> /\ Len(tile.fs) < CapDepth
        /\ tile' = [tile EXCEPT !.fd = Head(tile.reads), !.reads = Tail(@),
                                !.fj = @ - 1, !.fs = Append(@, <<"s", Head(tile.reads)>>)]

Engines == Load \/ Emit \/ LoadW \/ EmitW \/ Accept \/ Weigh \/ ToCapture \/ ToRow
           \/ ToScore \/ Comps \/ Quantise \/ StoreValue \/ StoreKey \/ CloseGroup
           \/ Softmax \/ Feed \/ Deq \/ Swiglu \/ Rotate \/ FeedUnit \/ TakeRows \/ Norm
           \/ Egress \/ Fuel

---------------------------------------------------------------------------
(* The operations.                                                          *)

\* a level: changed only once the whole tile has been read idle
DoRoute(op) == op.o = "route" /\ Idle /\ tile' = [tile EXCEPT !.r = op.r]

\* a job register is fired when its unit is ready, never before
DoJob(op) ==
    \/ op.o = "aj" /\ tile.aj = NoJob /\ tile' = [tile EXCEPT !.aj = op.j]
    \/ op.o = "wj" /\ tile.wj = NoJob /\ tile' = [tile EXCEPT !.wj = op.j]
    \/ op.o = "fjob" /\ tile.fj = 0 /\ tile' = [tile EXCEPT !.fj = op.n]
    \/ op.o = "ljob" /\ tile.lj = 0 /\ tile' = [tile EXCEPT !.lj = op.n]
    \/ op.o = "sjob" /\ tile.sj = 0 /\ tile' = [tile EXCEPT !.sj = op.n]
    \/ /\ op.o = "qjob" /\ tile.qj = <<>>
       /\ tile' = [tile EXCEPT !.qj = <<[mode |-> op.mode, n |-> op.n]>>]

DoPush(op) == /\ op.o = "push" /\ Len(tile[op.f]) < Depth
              /\ tile' = [tile EXCEPT ![op.f] = Append(@, op.v)]

DoKv(op) ==
    \/ op.o = "kvp" /\ KvIdle /\ UNCHANGED tile
    \/ op.o = "waddr" /\ tile' = [tile EXCEPT !.wa = op.n]
    \/ op.o = "flush" /\ tile' = [tile EXCEPT !.flush = tile.open # <<>>]
    \/ /\ op.o = "raddr"        \* a record read back: the last one stored there
       /\ tile' = [tile EXCEPT !.reads =
            Append(@, IF \E i \in DOMAIN tile.kv : tile.kv[i][1] = op.n
                      THEN tile.kv[CHOOSE i \in DOMAIN tile.kv :
                             /\ tile.kv[i][1] = op.n
                             /\ \A k \in DOMAIN tile.kv : tile.kv[k][1] = op.n => k <= i][2]
                      ELSE <<Empty, Empty, Empty>>)]

\* the LAYER window: levels, row and table loads, composites, jobs
LayerIdle == tile.lu = <<>> /\ tile.dq = <<>> /\ tile.sw = <<>>
\* a footprint past the row, an egress without its route, a zero composite
Illegal(op) == \/ op.unit \in {"resid", "norm"} /\ op.base * Win + op.cols > DmMax
               \/ op.unit = "norm" /\ tile.lc.fext # 4
               \/ op.unit = "deq" /\ tile.jc = <<<<"c", -1>>>>
DoLayer(op) ==
    \/ op.o = "lctl" /\ tile' = [tile EXCEPT !.lc = op.c]
    \/ op.o = "ldata" /\ tile' = [tile EXCEPT !.res = [i \in 0 .. DmMax - 1 |->
                                                       IF i < op.n THEN <<op.v, i>> ELSE @[i]]]
    \/ op.o = "ljc" /\ tile' = [tile EXCEPT !.jc = Append(@, op.v)]
    \* the levels named, the others kept
    \/ op.o = "lset" /\ tile' = [tile EXCEPT !.lc = op.c @@ @]
    \/ /\ op.o = "lujob" /\ (LayerIdle \/ op.unit \in {"deq", "norm"})
       /\ LET job == <<[base |-> op.base, cols |-> op.cols, n |-> 0]>>
              new == [tile EXCEPT !.jc = <<>>]      \* a push resets the composite index
          IN tile' = CASE Illegal(op) -> [new EXCEPT !.err = TRUE]
                       [] op.unit = "resid" -> [new EXCEPT !.lu = job]
                       [] op.unit = "norm" -> [new EXCEPT !.nj = 1]
                       [] op.unit = "deq" ->
                            [new EXCEPT !.dq = <<[cols |-> op.cols, n |-> 0, comp |-> tile.jc]>>]
                       [] OTHER -> [new EXCEPT !.sw = <<[comp |-> tile.jc, cols |-> op.cols, in |-> <<>>]>>]
    \/ op.o = "lpoll" /\ LayerIdle /\ UNCHANGED tile
    \/ op.o = "lrptr" /\ tile' = [tile EXCEPT !.rp = 0]
\* the norm unit's modes: an illegal arm is refused whole
DoNorm(op) ==
    \/ op.o = "nctl" /\ tile' = IF op.mode = "ext" /\ op.k < 2
                                THEN [tile EXCEPT !.err = TRUE]
                                ELSE [tile EXCEPT !.rms.mode = op.mode,
                                                  !.s2 = IF op.mode = "sum" THEN <<>> ELSE @]
    \/ op.o = "nsum2" /\ tile' = [tile EXCEPT !.rms.sum = op.v]
    \/ op.o = "npoll" /\ Len(tile.s2) = op.n /\ UNCHANGED tile
    \/ op.o = "unarmed" /\ tile.rms.mode = "local" /\ UNCHANGED tile

\* records are accepted in fuel mode only, one fetch at a time
DoFuel(op) ==
    \/ op.o = "fuel" /\ tile' = [tile EXCEPT !.fuel = op.on]
    \/ /\ op.o = "fetch" /\ tile.fuel /\ tile.fq = <<>>
       /\ tile' = [tile EXCEPT !.fq = op.v]
    \* the walker's own route, which it moves without asking whether all is idle
    \/ op.o = "wroute" /\ tile' = [tile EXCEPT !.r = op.r]

\* what a register reads
NfBusy == tile.lc.fext = 4 /\ (tile.fj > 0 \/ tile.nj > 0)
Peek(f) == CASE f = "busy" -> wk # <<>>
             [] f = "err" -> tile.err
             [] f = "werr" -> tile.werr
             [] f = "levels" -> tile.lc
             [] f = "ser" -> tile.lc.ser
             [] f = "fext" -> tile.lc.fext
             [] f = "nf" -> NfBusy
             [] f = "deq" -> tile.dq # <<>>
             [] f = "swg" -> tile.sw # <<>>
             [] f = "res" -> tile.lu # <<>>
             [] f = "wgt" -> tile.wj # NoJob
             [] f = "drop" -> tile.drop
             [] OTHER -> KvIdle

DoStatus(op) ==
    \/ op.o = "poll" /\ Peek(op.f) = op.v /\ UNCHANGED tile
    \/ op.o = "idle" /\ Idle /\ UNCHANGED tile
    \/ op.o = "rejected" /\ tile.err /\ tile' = [tile EXCEPT !.err = FALSE]
    \/ op.o = "clear" /\ ~tile.err /\ UNCHANGED tile
    \* a new job file resets the tile
    \/ op.o = "file" /\ tile' = InitTile(tile.img)
    \* DONE: every capture FIFO empty and nothing dropped
    \/ /\ op.o = "done" /\ UNCHANGED tile
       /\ \A f \in {"fs", "ss", "ro", "td"} : tile[f] = <<>>

Do(op) == DoRoute(op) \/ DoJob(op) \/ DoPush(op) \/ DoKv(op) \/ DoLayer(op) \/ DoNorm(op)
          \/ DoFuel(op) \/ DoStatus(op)

---------------------------------------------------------------------------
(* The host: one register operation after another.                          *)
Op == prog.ops[pc]
HostLeft == pc \in 1 .. Len(prog.ops)
Pops == {"fs", "ss", "ro", "td"}

\* in walker mode the tile parks the host's KV window
Plain == /\ HostLeft /\ Do(Op) /\ pc' = pc + 1
         /\ Op.o \in {"kvp", "waddr", "raddr", "idle", "done"} => ~en
         /\ UNCHANGED <<flight, wk, en, caps>>

\* a bursting program reads a stream empty once, then pushes into it blind
EmptyPoll == /\ HostLeft /\ Op.o = "empty" /\ tile[Op.f] = <<>>
             /\ pc' = pc + 1
             /\ UNCHANGED <<flight, wk, en, tile, caps>>
Blind == /\ HostLeft /\ Op.o = "blind"
         /\ pc' = pc + 1
         /\ tile' = IF Len(tile[Op.f]) < Depth
                    THEN [tile EXCEPT ![Op.f] = Append(@, Op.v)]
                    ELSE [tile EXCEPT !.drop = camp.fault # "no_flag"]
         /\ UNCHANGED <<flight, wk, en, caps>>

Pop == /\ HostLeft /\ Op.o \in Pops /\ tile[Op.o] # <<>>
       /\ caps' = Append(caps, <<Op.o, Head(tile[Op.o])>>)
       /\ tile' = [tile EXCEPT ![Op.o] = Tail(@)]
       /\ pc' = pc + 1
       /\ UNCHANGED <<flight, wk, en>>

\* a register read that is an output: the residual row, the running sum
ReadOut == /\ HostLeft /\ Op.o \in {"erd", "ns2c"}
           /\ caps' = Append(caps, <<Op.o, IF Op.o = "erd" THEN tile.res[tile.rp]
                                          ELSE <<"sum", tile.s2>>>>)
           /\ tile' = IF Op.o = "erd" THEN [tile EXCEPT !.rp = (@ + 1) % DmMax] ELSE tile
           /\ pc' = pc + 1
           /\ UNCHANGED <<flight, wk, en>>

\* walker mode: load, kick, and (after the drain) wait for busy to clear
Kick == /\ HostLeft /\ Op.o = "walk" /\ ~en
        /\ en' = TRUE /\ wk' = Op.ops /\ pc' = pc + 1
        /\ tile' = [tile EXCEPT !.hr = tile.r]
        /\ UNCHANGED <<flight, caps>>
\* a layer descriptor: refused whole, or the walker takes the levels and goes;
\* its 64 words take the host longer than a row in flight takes to land
LayerGo ==
    /\ HostLeft /\ Op.o = "go" /\ ~en /\ tile.aj = NoJob
    /\ en' = TRUE /\ pc' = pc + 1
    /\ IF (Op.refused \/ (Op.fproj /\ ~tile.fuel)) /\ camp.fault # "no_check"
       THEN tile' = [tile EXCEPT !.werr = TRUE, !.hr = tile.r, !.r = Through] /\ wk' = <<>>
       ELSE /\ tile' = [tile EXCEPT !.hr = tile.r, !.r = Through,
                                    !.lc = [NoLayer EXCEPT !.nsrc = tile.lc.nsrc]]
            /\ wk' = IF camp.fault = "no_walk" THEN <<>> ELSE Op.plan
    /\ UNCHANGED <<flight, caps>>
\* a descriptor the walker refuses starts nothing
Refused == /\ HostLeft /\ Op.o = "badwalk" /\ ~en
           /\ en' = TRUE /\ tile' = [tile EXCEPT !.err = TRUE, !.hr = tile.r]
           /\ pc' = pc + 1
           /\ UNCHANGED <<flight, wk, caps>>
WalkOff == /\ HostLeft /\ Op.o = "walkoff" /\ wk = <<>>
           /\ en' = FALSE /\ pc' = pc + 1
           /\ tile' = [tile EXCEPT !.r = tile.hr]
           /\ UNCHANGED <<flight, wk, caps>>
Walk == /\ wk # <<>> /\ Do(Head(wk)) /\ wk' = Tail(wk)
        /\ UNCHANGED <<flight, pc, en, caps>>

\* a checked read ends the program where the register is not as it says
CheckedRead ==
    /\ HostLeft /\ Op.o = "look"
    /\ pc' = IF Peek(Op.f) = Op.v THEN pc + 1 ELSE 0
    /\ UNCHANGED <<flight, wk, en, tile, caps>>

Host == Plain \/ EmptyPoll \/ Blind \/ Pop \/ ReadOut \/ Kick \/ Refused \/ WalkOff
        \/ LayerGo \/ CheckedRead
Engine == Engines /\ UNCHANGED <<flight, pc, wk, en, caps>>

Finished == pc > Len(prog.ops)
Failed == pc = 0
Step == Host \/ Walk \/ Engine
=============================================================================
