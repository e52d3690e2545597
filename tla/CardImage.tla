----------------------------- MODULE CardImage -----------------------------
(***************************************************************************)
(* The weight image in the card's DRAM: the loader f2_ddr_load.py (hash,   *)
(* plan, preflight, bursts, readback) as a process of its own, and the     *)
(* drivers that load, poison and restore the image around walked programs: *)
(* fly_e7_hw.py, fly_e7ng.py, fly_e7ng_poison.py and the hardware path of  *)
(* walk_fuel_proj.py.  Drivers take turns on the one card; each may die    *)
(* between any two steps, a burst may be lost, a flight may stall, never   *)
(* start, or run and lose its captures.                                    *)
(*                                                                         *)
(* DRAM words are "good" (the true weights), "bad" (the mutated byte) or   *)
(* "junk"; what a program fetched is all a grade depends on.               *)
(***************************************************************************)
EXTENDS WalkFormat

CONSTANTS
  Table,     \* the image's tensor table (BuildImage)
  Burst,     \* words of a burst
  Poison,    \* the word with the mutated byte
  Picks,     \* words a sampled readback looks at beyond first and last
  Gamma, Qkv \* words the gamma walk and the projection walk fetch

ASSUME CardImageAssumption ==
  /\ Burst \in Nat \ {0}
  /\ Poison \in UNION {Footprint(r) : r \in Range(Table)}

Word == UNION {Footprint(r) : r \in Range(Table)}

VARIABLES
  ready,   \* FUEL_STAT.ddr_ready: the DIMM is calibrated
  dram,    \* the DRAM words of the image's regions
  own,     \* FUEL_CTRL: who owns the DRAM read port, "LOAD" or "RUN"
  fuelErr, \* FUEL_ERR has a sticky bit
  ld,      \* the loader process
  drv      \* the driver that has the card

imageVars == <<ready, dram, own, fuelErr, ld, drv>>

\* The image directories: "bad" has the mutated byte and, re-hashed, a
\* manifest of its own; "swap" ships the mutated byte under the good manifest.
ImageWord(dir, w) == IF dir # "good" /\ w = Poison THEN "bad" ELSE "good"
ShaMatches(dir)   == dir # "swap"

NoLoader == [pc |-> "idle", dir |-> "good", how |-> "none", writes |-> TRUE, k |-> 0,
             passed |-> FALSE, rc |-> 0]
NoDriver == [who |-> "none", pc |-> 0, verdict |-> "none", ran |-> FALSE, ok |-> TRUE]

ImageInit ==
  /\ dram \in {[w \in Word |-> v] : v \in {"good", "junk"}}
  /\ ready \in BOOLEAN
  /\ own = "LOAD"
  /\ fuelErr = FALSE
  /\ ld = NoLoader
  /\ drv = NoDriver
-----------------------------------------------------------------------------
(* The loader.                                                             *)

Plan   == BurstPlan(Table, Burst)
Length == LET r == Last(Table) IN r.base + r.words

\* What a readback compares: every word, or the first, the last and the picks
\* of every tensor.
EveryWord   == Word
SampledWord == UNION {{r.base, r.base + r.words - 1} : r \in Range(Table)} \cup Picks
Read(how)   == CASE how = "full" -> EveryWord [] how = "sampled" -> SampledWord [] OTHER -> {}

Exit(rc) == ld' = [ld EXCEPT !.pc = "done", !.rc = rc]

\* Whole image against the manifest, then the plan against the table, before
\* the card is touched.
LoadHash ==
  /\ ld.pc = "hash"
  /\ IF ShaMatches(ld.dir) /\ CheckPlan(Table, Plan, Length)
     THEN ld' = [ld EXCEPT !.pc = "preflight"]
     ELSE Exit(1)
  /\ UNCHANGED <<ready, dram, own, fuelErr, drv>>

\* On to the first burst or, without --load, to the readback.
Admitted ==
  IF ld.writes THEN [ld EXCEPT !.pc = "burst", !.k = 1] ELSE [ld EXCEPT !.pc = "verify"]

\* Mutant of Preflight: ddr_ready is polled without a limit.
PreflightUnbounded ==
  /\ ld.pc = "preflight"
  /\ ready
  /\ IF own = "LOAD" THEN ld' = Admitted ELSE Exit(1)
  /\ UNCHANGED <<ready, dram, own, fuelErr, drv>>

\* ddr_ready within the time limit, and a read port the loader owns.
Preflight ==
  /\ ld.pc = "preflight"
  /\ IF ready /\ own = "LOAD" THEN ld' = Admitted ELSE Exit(1)
  /\ UNCHANGED <<ready, dram, own, fuelErr, drv>>

\* The DDR controller finishes its calibration, if the build has one.
Calibrate ==
  /\ ~ready /\ ready' = TRUE
  /\ UNCHANGED <<dram, own, fuelErr, ld, drv>>

\* One posted burst; nothing tells the loader whether it arrived.
LoadBurst ==
  /\ ld.pc = "burst"
  /\ \E arrives \in BOOLEAN :
       LET b == Plan[ld.k]
       IN  dram' = [w \in Word |-> IF arrives /\ w \in b.offset .. b.offset + b.words - 1
                                   THEN ImageWord(ld.dir, w) ELSE dram[w]]
  /\ ld' = IF ld.k < Len(Plan) THEN [ld EXCEPT !.k = @ + 1] ELSE [ld EXCEPT !.pc = "verify"]
  /\ UNCHANGED <<ready, own, fuelErr, drv>>

\* Readback, whose verdict is printed, then the sticky error register, and the
\* exit status of the two.
LoadVerify ==
  /\ ld.pc = "verify"
  /\ LET same == \A w \in Read(ld.how) : dram[w] = ImageWord(ld.dir, w)
     IN  ld' = [ld EXCEPT !.pc = "done", !.passed = ld.how # "none" /\ same,
                          !.rc = IF same /\ ~fuelErr THEN 0 ELSE 1]
  /\ UNCHANGED <<ready, dram, own, fuelErr, drv>>

\* The loader's shell dies or times out where it stands.
LoadDies ==
  /\ ld.pc \in {"hash", "preflight", "burst", "verify"}
  /\ Exit(1)
  /\ UNCHANGED <<ready, dram, own, fuelErr, drv>>

Loader == LoadHash \/ Preflight \/ LoadBurst \/ LoadVerify \/ LoadDies
-----------------------------------------------------------------------------
(* The drivers, as the steps they take in order.                           *)

\* A flight of a program: what it fetches, whether it hands the read port
\* back, and what it is to show; must: the driver stops if it did not execute.
Fly(fetch, disarms, want, must) ==
  [do |-> "fly", fetch |-> fetch, disarms |-> disarms, want |-> want, must |-> must,
   dir |-> "good", how |-> "none", writes |-> FALSE, by |-> "rc"]

\* A run of the loader: the image directory, how it is read back, whether it
\* is written first, and whether the driver believes the exit status or the
\* printed verdict.
Reload(dir, how) ==
  [do |-> "reload", fetch |-> {}, disarms |-> FALSE, want |-> "none", must |-> FALSE,
   dir |-> dir, how |-> how, writes |-> TRUE, by |-> "rc"]
Swap(dir)      == [Reload(dir, "sampled") EXCEPT !.by = "print"]
ReadOnly(how)  == [Reload("good", how) EXCEPT !.writes = FALSE]

Claim(fetch, disarms) == Fly(fetch, disarms, "good", FALSE)
Refusal               == Fly({}, FALSE, "refused", FALSE)
PoisonFlight(fetch)   == Fly(fetch, TRUE, "bad", FALSE)

\* Mutant of E7: the poison is loaded whatever became of the claim.
E7Regardless(poison) ==
  <<Claim(Gamma, TRUE), Refusal, Refusal, Refusal>>
    \o (IF poison THEN <<Reload("bad", "sampled"), PoisonFlight(Gamma), Reload("good", "full")>> ELSE << >>)

\* fly_e7_hw.fly: a claim that must have executed, three refusals that leave
\* the read port with the fuel reader, then the poison between two reloads.
E7(poison) ==
  <<Fly(Gamma, TRUE, "good", TRUE), Refusal, Refusal, Refusal>>
    \o (IF poison THEN <<Reload("bad", "sampled"), PoisonFlight(Gamma), Reload("good", "full")>> ELSE << >>)

\* Mutant of NgPoison: the restore is read back by sample.
NgPoisonSampled == <<Reload("bad", "sampled"), PoisonFlight(Gamma), Reload("good", "sampled")>>

NgPoison == <<Reload("bad", "sampled"), PoisonFlight(Gamma), Reload("good", "full")>>

\* walk_fuel_proj.run on hardware: a claim that keeps the read port, the
\* walk-off arm, which parks, and the poison under the good manifest, by
\* _ddr_swap, which looks for the printed PASS.  (Its verdict would compare
\* "n/a(hw)" with a number; no run gets past the refused swap to it.)
FuelProj ==
  <<Claim(Qkv, FALSE), Fly({}, FALSE, "parked", FALSE), Swap("swap"),
    [PoisonFlight(Qkv) EXCEPT !.disarms = FALSE], Swap("good")>>

\* The scripts: an operator's own loads and readbacks, the two E-7 forms, E-8
\* (projections composed in), the attention-free claim, its poison, the
\* fuel-fed projection.
Script(who) ==
  CASE who = "load"         -> <<Reload("good", "full")>>
    [] who = "load_sampled" -> <<Reload("good", "sampled")>>
    [] who = "load_only"    -> <<Reload("good", "none")>>
    [] who = "verify_only"  -> <<ReadOnly("full")>>
    [] who = "sample_only"  -> <<ReadOnly("sampled")>>
    [] who = "e7"           -> E7(TRUE)
    [] who = "e7_skip"      -> E7(FALSE)
    [] who = "e8"           -> <<Claim(Gamma \cup Qkv, TRUE)>>
    [] who = "e7ng"         -> <<Claim(Gamma, TRUE)>>
    [] who = "ng_poison"    -> NgPoison
    [] who = "fuel_proj"    -> FuelProj
Drivers == {"load", "load_sampled", "load_only", "verify_only", "sample_only", "e7", "e7_skip",
            "e8", "e7ng", "ng_poison", "fuel_proj"}

Active  == drv.who \in Drivers /\ drv.verdict = "none"
Current == Script(drv.who)[drv.pc]

\* A driver that finds no transport refuses before its first flight.
StartDriver(who) ==
  /\ drv.who \notin Drivers \/ drv.verdict # "none"
  /\ \E attached \in BOOLEAN :
       drv' = [who |-> who, pc |-> 1, ran |-> FALSE, ok |-> TRUE,
               verdict |-> IF attached THEN "none" ELSE "refused"]
  /\ ld' = NoLoader
  /\ UNCHANGED <<ready, dram, own, fuelErr>>

\* The verdict after the last step, or the next step.
Advance(shown, ran) ==
  LET ok == drv.ok /\ shown
  IN  drv' = [drv EXCEPT !.pc = @ + 1, !.ok = ok, !.ran = @ \/ ran,
                         !.verdict = IF drv.pc < Len(Script(drv.who)) THEN "none"
                                     ELSE IF ok THEN "PASS" ELSE "FAIL"]
Abort(verdict) == drv' = [drv EXCEPT !.verdict = verdict]

\* What the captures of a program that ran show its grader.
Shows(step) ==
  CASE step.want = "good"    -> \A w \in step.fetch : dram[w] = "good"
    [] step.want = "bad"     -> \A w \in step.fetch : dram[w] = ImageWord("bad", w)
    [] step.want = "refused" -> TRUE

\* One program through the remote runner, which resets the tile, and with it
\* the fuel line's mode and errors, before it and not after it: it runs, it
\* stalls with some captures or none, it runs and its captures are lost, or
\* nothing happens at all.
FlyStep ==
  /\ Active /\ Current.do = "fly"
  /\ \E outcome \in (IF Current.want = "parked" THEN {} ELSE {"ran", "lost"}) \cup {"partial", "stalled", "dead"} :
       /\ own' = CASE outcome = "dead"                 -> own
                   [] outcome \in {"ran", "lost"}      -> (IF Current.disarms THEN "LOAD" ELSE "RUN")
                   [] outcome \in {"partial", "stalled"} -> "RUN"
       /\ \/ fuelErr' = (outcome = "dead" /\ fuelErr)
          \/ outcome = "partial" /\ fuelErr' = TRUE
       /\ IF Current.must /\ outcome \notin {"ran", "partial"}
          THEN Abort("aborted")
          ELSE Advance(IF Current.want = "parked" THEN TRUE ELSE outcome = "ran" /\ Shows(Current),
                       Current.want = "good" /\ outcome \in {"ran", "partial"})
  /\ UNCHANGED <<ready, dram, ld>>

\* A register program of another tool: the tile is reset before it.
OtherProgram ==
  /\ own' = "LOAD" /\ fuelErr' = FALSE
  /\ UNCHANGED <<ready, dram, ld, drv>>

\* A reload starts the loader, waits for it, and raises unless it exits 0 or,
\* for _ddr_swap, unless it printed PASS, whatever its exit status.
AskReload ==
  /\ Active /\ Current.do = "reload" /\ ld.pc = "idle"
  /\ ld' = [pc |-> "hash", dir |-> Current.dir, how |-> Current.how, writes |-> Current.writes,
            k |-> 0, passed |-> FALSE, rc |-> 0]
  /\ UNCHANGED <<ready, dram, own, fuelErr, drv>>

Accepted == IF Current.by = "print" THEN ld.passed ELSE ld.rc = 0

TakeReload ==
  /\ Active /\ Current.do = "reload" /\ ld.pc = "done"
  /\ IF Accepted THEN Advance(TRUE, FALSE) ELSE Abort("raised")
  /\ ld' = NoLoader
  /\ UNCHANGED <<ready, dram, own, fuelErr>>

\* The driver is killed; a loader it had started is waited for by nobody and
\* is taken to be killed with the session.
DriverDies ==
  /\ Active
  /\ Abort("died")
  /\ ld' = NoLoader
  /\ UNCHANGED <<ready, dram, own, fuelErr>>

DriverStep == FlyStep \/ AskReload \/ TakeReload \/ DriverDies
-----------------------------------------------------------------------------
\* A driver that poisoned the image and came to a verdict of its own has put
\* every word back, whatever bursts were lost on the way: a card found with
\* the mutated byte is one whose driver raised, died or was aborted
\* (fly_e7ng_poison.py: the restore is read back in full, and a restore that
\* fails raises before a report is written).
RestoredOrRaised ==
  (\E w \in Word : dram[w] = "bad") /\ drv.who \in {"e7", "ng_poison", "fuel_proj"}
     => drv.verdict \notin {"PASS", "FAIL"}

\* E-7 rewrites the card's DRAM only after its claim has executed
\* (fly_e7_hw.py: "NOT touching the card's DRAM").
DramAfterClaim == [][dram' # dram /\ drv.who = "e7" => drv.ran]_imageVars
=============================================================================
