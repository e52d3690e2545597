----------------------------- MODULE CardProofs -----------------------------
(***************************************************************************)
(* Proofs about CardImage beside the sweeps (MCCardImages), for any tensor *)
(* table, burst length and choice of words: a driver that poisoned the     *)
(* card and came to a verdict has put every word back, and E-7 leaves the  *)
(* card alone until its claim has run.                                     *)
(***************************************************************************)
EXTENDS MCCardImages, SequenceTheorems, WellFoundedInduction, TLAPS

\* The card, its loader and its drivers, whatever else is done beside them:
\* a driver may start whenever none is active.
ImageNext ==
  \/ \E who \in Drivers : StartDriver(who)
  \/ OtherProgram \/ DriverStep \/ Loader \/ Calibrate

\* What a loader may be asked for: what some step of some script says.
Steps == {Script(who)[i] : who \in Drivers, i \in Nat}

Dirs == {"good"} \cup {step.dir : step \in Steps}
Hows == {"none"} \cup {step.how : step \in Steps}
Writes == BOOLEAN \cup {step.writes : step \in Steps}

Loads == [pc : {"idle", "hash", "preflight", "burst", "verify", "done"},
          dir : Dirs, how : Hows,
          writes : Writes, k : Nat, passed : BOOLEAN, rc : {0, 1}]
Runs == [who : Drivers \cup {"none"}, pc : Nat,
         verdict : {"none", "refused", "aborted", "raised", "died", "PASS", "FAIL"},
         ran : BOOLEAN, ok : BOOLEAN]

Shapes == ld \in Loads /\ drv \in Runs

\* A loader runs for the reload its driver stands at, and for no other.
Serves ==
  ld.pc # "idle" => /\ Active /\ Current.do = "reload"
                    /\ ld.dir = Current.dir /\ ld.how = Current.how

\* Past the hash the image is the manifest's; a loader that ended well has
\* found on the card what it was to read back.
ReadBack ==
  /\ ld.pc \in {"preflight", "burst", "verify"} => ld.dir # "swap"
  /\ ld.pc \in {"hash", "preflight", "burst", "verify"} => ~ld.passed
  /\ ld.pc = "done" /\ (ld.rc = 0 \/ ld.passed) =>
       ld.dir # "swap" /\ \A w \in Read(ld.how) : dram[w] = ImageWord(ld.dir, w)

Pointed == Active /\ drv.who \in {"e7", "ng_poison"} => drv.pc \in 1 .. Len(Script(drv.who))
ClaimFirst == Active /\ drv.who = "e7" /\ drv.pc # 1 => drv.ran
Stopped == drv.who = "fuel_proj" => /\ drv.verdict \notin {"PASS", "FAIL"}
                                    /\ Active => drv.pc \in 1 .. 3
Restored == drv.who \in {"e7", "ng_poison"} /\ drv.verdict \in {"PASS", "FAIL"}
              => \A w \in Word : dram[w] # "bad"

DriverInv == Pointed /\ ClaimFirst /\ Stopped /\ Restored
CardInv == Shapes /\ Serves /\ ReadBack /\ DriverInv
-----------------------------------------------------------------------------
(* The scripts: only the steps the argument turns on.                      *)

LEMMA Glued ==
  ASSUME NEW S, NEW a1 \in S, NEW a2 \in S, NEW a3 \in S, NEW a4 \in S,
         NEW b1 \in S, NEW b2 \in S, NEW b3 \in S
  PROVE  /\ Len(<<a1, a2, a3, a4>> \o <<b1, b2, b3>>) = 7
         /\ (<<a1, a2, a3, a4>> \o <<b1, b2, b3>>)[1] = a1
         /\ (<<a1, a2, a3, a4>> \o <<b1, b2, b3>>)[7] = b3
<1>1. <<a1, a2, a3, a4>> \in Seq(S) /\ <<b1, b2, b3>> \in Seq(S)
  OBVIOUS
<1> QED
  BY <1>1, ConcatProperties

LEMMA E7Script ==
  /\ Len(Script("e7")) = 7
  /\ Script("e7")[1] = Fly(Gamma, TRUE, "good", TRUE)
  /\ Script("e7")[7] = Reload("good", "full")
<1> DEFINE claim == Fly(Gamma, TRUE, "good", TRUE)
           spoil == Reload("bad", "sampled")
           flight == PoisonFlight(Gamma)
           restore == Reload("good", "full")
<1>1. Script("e7") = <<claim, Refusal, Refusal, Refusal>> \o <<spoil, flight, restore>>
  BY DEF Script, E7
<1> HIDE DEF claim, spoil, flight, restore
<1>2. /\ Len(Script("e7")) = 7
      /\ Script("e7")[1] = claim /\ Script("e7")[7] = restore
  <2> DEFINE S == {claim, Refusal, spoil, flight, restore}
  <2>1. claim \in S /\ Refusal \in S /\ spoil \in S /\ flight \in S /\ restore \in S
    OBVIOUS
  <2> HIDE DEF S
  <2> QED
    BY <1>1, <2>1, Glued
<1> QED
  BY <1>2 DEF claim, restore

LEMMA PoisonScript ==
  Len(Script("ng_poison")) = 3 /\ Script("ng_poison")[3] = Reload("good", "full")
  BY DEF Script, NgPoison

LEMMA FuelScript ==
  Len(Script("fuel_proj")) = 5 /\ Script("fuel_proj")[3] = Swap("swap")
  BY DEF Script, FuelProj
-----------------------------------------------------------------------------
LEMMA InitCard == ImageInit => CardInv
<1> SUFFICES ASSUME ImageInit PROVE CardInv
  OBVIOUS
<1>1. Shapes
  BY DEF ImageInit, Shapes, Loads, Dirs, Hows, Writes, Runs, NoLoader, NoDriver
<1>2. ~Active /\ ld.pc = "idle" /\ drv.who = "none"
  BY DEF ImageInit, Active, NoLoader, NoDriver, Drivers
<1> QED
  BY <1>1, <1>2 DEF CardInv, Serves, ReadBack, DriverInv, Pointed, ClaimFirst, Stopped, Restored

\* What the loader does between its start and its end.
LEMMA LoaderStep ==
  ASSUME CardInv, Loader
  PROVE  CardInv' /\ Active
<1>1. /\ ld.pc \in {"hash", "preflight", "burst", "verify"} /\ drv' = drv
      /\ ld \in Loads
  BY DEF Loader, LoadHash, Preflight, LoadBurst, LoadVerify, LoadDies, CardInv, Shapes
<1>2. Active
  BY <1>1 DEF CardInv, Serves
<1>3. /\ ld' \in Loads /\ ld'.dir = ld.dir /\ ld'.how = ld.how
      /\ ld'.pc \in {"preflight", "burst", "verify", "done"}
      /\ ld'.pc \in {"preflight", "burst", "verify"} => ld.dir # "swap" /\ ~ld'.passed
      /\ ld'.pc = "done" /\ (ld'.rc = 0 \/ ld'.passed) =>
           /\ ld.pc = "verify" /\ dram' = dram
           /\ \A w \in Read(ld.how) : dram[w] = ImageWord(ld.dir, w)
  <2>0. ld \in Loads /\ ~ld.passed
    BY <1>1 DEF CardInv, ReadBack
  <2> DEFINE Kept == ld' \in Loads /\ ld'.dir = ld.dir /\ ld'.how = ld.how
  <2>a. ASSUME NEW rc \in {0, 1}, ld' = [ld EXCEPT !.pc = "done", !.rc = rc]
        PROVE  Kept /\ ld'.pc = "done" /\ ld'.rc = rc /\ ~ld'.passed
    BY <2>0, <2>a DEF Loads
  <2>b. ASSUME NEW pc \in {"preflight", "burst", "verify"}, ld' = [ld EXCEPT !.pc = pc]
        PROVE  Kept /\ ld'.pc = pc /\ ~ld'.passed
    BY <2>0, <2>b DEF Loads
  <2>c. ASSUME ld' = [ld EXCEPT !.pc = "burst", !.k = 1]
        PROVE  Kept /\ ld'.pc = "burst" /\ ~ld'.passed
    BY <2>0, <2>c DEF Loads
  <2>d. ASSUME ld' = [ld EXCEPT !.k = ld.k + 1]
        PROVE  Kept /\ ld'.pc = ld.pc /\ ~ld'.passed
    BY <2>0, <2>d DEF Loads
  <2> HIDE DEF Kept
  <2>1. CASE LoadHash
    <3>1. CASE ShaMatches(ld.dir) /\ CheckPlan(Table, Plan, Length)
      <4>1. ld' = [ld EXCEPT !.pc = "preflight"] /\ ld.dir # "swap"
        BY <2>1, <3>1 DEF LoadHash, ShaMatches
      <4> QED
        BY <2>b, <4>1 DEF Kept
    <3>2. CASE ~ (ShaMatches(ld.dir) /\ CheckPlan(Table, Plan, Length))
      <4>1. ld' = [ld EXCEPT !.pc = "done", !.rc = 1]
        BY <2>1, <3>2 DEF LoadHash, Exit
      <4> QED
        BY <2>a, <4>1 DEF Kept
    <3> QED
      BY <3>1, <3>2
  <2>2. CASE Preflight
    <3>1. ld.dir # "swap"
      BY <2>2 DEF Preflight, CardInv, ReadBack
    <3>2. CASE ready /\ own = "LOAD"
      <4>1. ld' = Admitted
        BY <2>2, <3>2 DEF Preflight
      <4>2. CASE ld.writes
        <5>1. ld' = [ld EXCEPT !.pc = "burst", !.k = 1]
          BY <4>1, <4>2 DEF Admitted
        <5> QED
          BY <2>c, <3>1, <5>1 DEF Kept
      <4>3. CASE ~ld.writes
        <5>1. ld' = [ld EXCEPT !.pc = "verify"]
          BY <4>1, <4>3 DEF Admitted
        <5> QED
          BY <2>b, <3>1, <5>1 DEF Kept
      <4> QED
        BY <4>2, <4>3
    <3>3. CASE ~ (ready /\ own = "LOAD")
      <4>1. ld' = [ld EXCEPT !.pc = "done", !.rc = 1]
        BY <2>2, <3>3 DEF Preflight, Exit
      <4> QED
        BY <2>a, <4>1 DEF Kept
    <3> QED
      BY <3>2, <3>3
  <2>3. CASE LoadBurst
    <3>1. ld.pc = "burst" /\ ld.dir # "swap"
      BY <2>3 DEF LoadBurst, CardInv, ReadBack
    <3>2. CASE ld.k < Len(Plan)
      <4>1. ld' = [ld EXCEPT !.k = ld.k + 1]
        BY <2>3, <3>2 DEF LoadBurst
      <4> QED
        BY <2>d, <3>1, <4>1 DEF Kept
    <3>3. CASE ~ (ld.k < Len(Plan))
      <4>1. ld' = [ld EXCEPT !.pc = "verify"]
        BY <2>3, <3>3 DEF LoadBurst
      <4> QED
        BY <2>b, <3>1, <4>1 DEF Kept
    <3> QED
      BY <3>2, <3>3
  <2>4. CASE LoadVerify
    <3> DEFINE same == \A w \in Read(ld.how) : dram[w] = ImageWord(ld.dir, w)
               passed == ld.how # "none" /\ same
               rc == IF same /\ ~fuelErr THEN 0 ELSE 1
    <3>1. ld' = [ld EXCEPT !.pc = "done", !.passed = passed, !.rc = rc]
      BY <2>4 DEF LoadVerify
    <3>2. passed \in BOOLEAN /\ rc \in {0, 1}
      OBVIOUS
    <3>3. rc = 0 \/ passed => same
      OBVIOUS
    <3>4. ld.pc = "verify" /\ dram' = dram
      BY <2>4 DEF LoadVerify
    <3>5. Kept /\ ld'.pc = "done" /\ ld'.passed = passed /\ ld'.rc = rc
      <4> HIDE DEF passed, rc
      <4> QED
        BY <2>0, <3>1, <3>2 DEF Loads, Kept
    <3> HIDE DEF passed, rc
    <3> QED
      BY <3>3, <3>4, <3>5 DEF Kept
  <2>5. CASE LoadDies
    <3>1. ld' = [ld EXCEPT !.pc = "done", !.rc = 1]
      BY <2>5 DEF LoadDies, Exit
    <3> QED
      BY <2>a, <3>1 DEF Kept
  <2> QED
    BY <2>1, <2>2, <2>3, <2>4, <2>5 DEF Loader
<1>4. Shapes'
  BY <1>1, <1>3 DEF CardInv, Shapes
<1>5. Serves'
  BY <1>1, <1>3 DEF CardInv, Serves, Active, Current
<1>6. ReadBack'
  BY <1>1, <1>3 DEF CardInv, ReadBack
<1>7. Pointed' /\ ClaimFirst' /\ Stopped'
  BY <1>1 DEF CardInv, DriverInv, Pointed, ClaimFirst, Stopped, Active
<1>8. Restored'
  BY <1>1, <1>2 DEF Restored, Active
<1> QED
  BY <1>2, <1>4, <1>5, <1>6, <1>7, <1>8 DEF CardInv, DriverInv
-----------------------------------------------------------------------------
(* The driver's steps.                                                     *)

\* A run that ends by other means than a verdict of its own.
LEMMA Ends ==
  ASSUME CardInv, drv' \in Runs, drv'.verdict \notin {"none", "PASS", "FAIL"}, ld' \in Loads,
         ld'.pc = "idle"
  PROVE  CardInv'
  BY DEF CardInv, Shapes, Serves, ReadBack, DriverInv, Pointed, ClaimFirst, Stopped, Restored,
     Active

\* On to the next step, or to the verdict: what the step must have shown for
\* the driver to be where its script says.
LEMMA AdvanceFields ==
  ASSUME drv \in Runs, NEW ok \in BOOLEAN, NEW ran \in BOOLEAN,
         NEW verdict \in {"none", "PASS", "FAIL"},
         drv' = [drv EXCEPT !.pc = drv.pc + 1, !.ok = ok, !.ran = ran, !.verdict = verdict]
  PROVE  /\ drv' \in Runs /\ drv'.who = drv.who /\ drv'.pc = drv.pc + 1
         /\ drv'.ran = ran /\ drv'.verdict = verdict
<1>1. drv'.who = drv.who /\ drv'.pc = drv.pc + 1 /\ drv'.verdict = verdict
  BY DEF Runs
<1>2. drv'.ran = ran /\ drv'.ok = ok
  BY DEF Runs
<1>3. drv' \in Runs
  <2>1. drv' = [who |-> drv.who, pc |-> drv.pc + 1, verdict |-> verdict, ran |-> ran, ok |-> ok]
    BY DEF Runs
  <2>2. drv.who \in Drivers \cup {"none"} /\ drv.pc + 1 \in Nat
    BY DEF Runs
  <2> QED
    BY <2>1, <2>2 DEF Runs
<1> QED
  BY <1>1, <1>2, <1>3

LEMMA Advances ==
  ASSUME CardInv, Active, NEW shown \in BOOLEAN, NEW ran \in BOOLEAN, Advance(shown, ran),
         ld' \in Loads, ld'.pc = "idle", dram' = dram,
         drv.who = "e7" /\ drv.pc = 1 => ran,
         drv.who = "fuel_proj" => drv.pc # 3,
         drv.who \in {"e7", "ng_poison"} /\ drv.pc = Len(Script(drv.who)) =>
           \A w \in Word : dram[w] # "bad"
  PROVE  CardInv'
<1>1. drv \in Runs /\ drv.verdict = "none" /\ drv.who \in Drivers
  BY DEF CardInv, Shapes, Active
<1>2. /\ drv' \in Runs /\ drv'.who = drv.who /\ drv'.pc = drv.pc + 1
      /\ drv'.ran = (drv.ran \/ ran)
      /\ drv.pc < Len(Script(drv.who)) => drv'.verdict = "none"
      /\ ~ (drv.pc < Len(Script(drv.who))) => drv'.verdict \in {"PASS", "FAIL"}
  <2> DEFINE ok == drv.ok /\ shown
             some == drv.ran \/ ran
             verdict == IF drv.pc < Len(Script(drv.who)) THEN "none"
                        ELSE IF ok THEN "PASS" ELSE "FAIL"
  <2>1. drv' = [drv EXCEPT !.pc = drv.pc + 1, !.ok = ok, !.ran = some, !.verdict = verdict]
    BY DEF Advance
  <2>2. ok \in BOOLEAN /\ some \in BOOLEAN /\ verdict \in {"none", "PASS", "FAIL"}
    OBVIOUS
  <2>3. /\ drv.pc < Len(Script(drv.who)) => verdict = "none"
        /\ ~ (drv.pc < Len(Script(drv.who))) => verdict \in {"PASS", "FAIL"}
    OBVIOUS
  <2> HIDE DEF ok, verdict
  <2>4. /\ drv' \in Runs /\ drv'.who = drv.who /\ drv'.pc = drv.pc + 1
        /\ drv'.ran = some /\ drv'.verdict = verdict
    <3> HIDE DEF some
    <3> QED
      BY <1>1, <2>1, <2>2, AdvanceFields
  <2> QED
    BY <2>3, <2>4
<1>3. drv.pc \in Nat
  BY <1>1 DEF Runs
<1>4. Shapes' /\ Serves' /\ ReadBack'
  BY <1>2 DEF Shapes, Serves, ReadBack
<1>5. Pointed'
  BY <1>2, <1>3, E7Script, PoisonScript DEF CardInv, DriverInv, Pointed, Active
<1>6. ClaimFirst'
  BY <1>1, <1>2 DEF CardInv, DriverInv, ClaimFirst, Active
<1>7. Stopped'
  BY <1>1, <1>2, <1>3, FuelScript DEF CardInv, DriverInv, Stopped, Active
<1>8. Restored'
  BY <1>2, <1>3, E7Script, PoisonScript DEF CardInv, DriverInv, Pointed, Restored
<1> QED
  BY <1>4, <1>5, <1>6, <1>7, <1>8 DEF CardInv, DriverInv

LEMMA FlyKeeps ==
  ASSUME CardInv, FlyStep
  PROVE  CardInv'
<1>1. Active /\ Current.do = "fly" /\ ld' = ld /\ dram' = dram /\ ld \in Loads /\ drv \in Runs
  BY DEF FlyStep, CardInv, Shapes
<1>2. ld.pc = "idle"
  BY <1>1 DEF CardInv, Serves
<1>3. PICK outcome :
        IF Current.must /\ outcome \notin {"ran", "partial"}
        THEN Abort("aborted")
        ELSE Advance(IF Current.want = "parked" THEN TRUE ELSE outcome = "ran" /\ Shows(Current),
                     Current.want = "good" /\ outcome \in {"ran", "partial"})
  BY DEF FlyStep
<1> DEFINE shown == IF Current.want = "parked" THEN TRUE ELSE outcome = "ran" /\ Shows(Current)
           ran == Current.want = "good" /\ outcome \in {"ran", "partial"}
<1>4. CASE Current.must /\ outcome \notin {"ran", "partial"}
  <2>1. drv' = [drv EXCEPT !.verdict = "aborted"]
    BY <1>3, <1>4 DEF Abort
  <2>2. drv' \in Runs /\ drv'.verdict = "aborted"
    BY <1>1, <2>1 DEF Runs
  <2> QED
    BY <1>1, <1>2, <2>2, Ends
<1>5. CASE ~ (Current.must /\ outcome \notin {"ran", "partial"})
  <2>1. Advance(shown, ran)
    BY <1>3, <1>5
  <2>2. shown \in BOOLEAN /\ ran \in BOOLEAN
    OBVIOUS
  <2>3. drv.who = "e7" /\ drv.pc = 1 => ran
    BY <1>5, E7Script DEF Current, Fly
  <2>4. drv.who = "fuel_proj" => drv.pc # 3
    BY <1>1, FuelScript DEF Current, Reload, Swap
  <2>5. ~ (drv.who \in {"e7", "ng_poison"} /\ drv.pc = Len(Script(drv.who)))
    BY <1>1, E7Script, PoisonScript DEF Current, Reload
  <2> HIDE DEF shown, ran
  <2> QED
    BY <1>1, <1>2, <2>1, <2>2, <2>3, <2>4, <2>5, Advances
<1> QED
  BY <1>4, <1>5

LEMMA AskKeeps ==
  ASSUME CardInv, AskReload
  PROVE  CardInv'
<1>1. /\ Active /\ Current.do = "reload" /\ UNCHANGED <<drv, dram>>
      /\ ld' = [pc |-> "hash", dir |-> Current.dir, how |-> Current.how, writes |-> Current.writes,
                k |-> 0, passed |-> FALSE, rc |-> 0]
  BY DEF AskReload
<1>2. Current \in Steps
  <2>1. drv.pc \in Nat /\ drv.who \in Drivers
    BY <1>1 DEF CardInv, Shapes, Runs, Active
  <2> HIDE DEF Script, Drivers
  <2> QED
    BY <2>1 DEF Current, Steps
<1>3. Shapes'
  <2>1. Current.dir \in Dirs /\ Current.how \in Hows /\ Current.writes \in Writes
    BY <1>2 DEF Dirs, Hows, Writes
  <2>2. ld' \in Loads
    BY <1>1, <2>1 DEF Loads
  <2> QED
    BY <1>1, <2>2 DEF CardInv, Shapes
<1>4. Serves' /\ ReadBack'
  BY <1>1 DEF Serves, ReadBack, Active, Current
<1>5. DriverInv'
  BY <1>1 DEF CardInv, DriverInv, Pointed, ClaimFirst, Stopped, Restored, Active
<1> QED
  BY <1>3, <1>4, <1>5 DEF CardInv

LEMMA TakeKeeps ==
  ASSUME CardInv, TakeReload
  PROVE  CardInv'
<1>1. /\ Active /\ Current.do = "reload" /\ ld.pc = "done" /\ ld' = NoLoader /\ dram' = dram
      /\ IF Accepted THEN Advance(TRUE, FALSE) ELSE Abort("raised")
      /\ drv \in Runs
  BY DEF TakeReload, CardInv, Shapes
<1>2. ld' \in Loads /\ ld'.pc = "idle"
  BY <1>1 DEF NoLoader, Loads, Dirs, Hows, Writes
<1>3. CASE Accepted
  <2>0. ld.rc = 0 \/ ld.passed
    BY <1>3 DEF Accepted
  <2>1. /\ Current.dir # "swap"
        /\ \A w \in Read(Current.how) : dram[w] = ImageWord(Current.dir, w)
    BY <1>1, <2>0 DEF CardInv, Serves, ReadBack
  <2>2. ~ (drv.who = "e7" /\ drv.pc = 1)
    BY <1>1, E7Script DEF Current, Fly
  <2>3. drv.who = "fuel_proj" => drv.pc # 3
    BY <2>1, FuelScript DEF Current, Reload, Swap
  <2>4. ASSUME drv.who \in {"e7", "ng_poison"}, drv.pc = Len(Script(drv.who))
        PROVE  \A w \in Word : dram[w] # "bad"
    <3>1. Current = Reload("good", "full")
      BY <2>4, E7Script, PoisonScript DEF Current
    <3>2. Current.how = "full" /\ Current.dir = "good"
      BY <3>1 DEF Reload
    <3> QED
      BY <2>1, <3>2 DEF Read, EveryWord, ImageWord
  <2> QED
    BY <1>1, <1>2, <1>3, <2>2, <2>3, <2>4, Advances
<1>4. CASE ~Accepted
  <2>1. drv' \in Runs /\ drv'.verdict = "raised"
    BY <1>1, <1>4 DEF Abort, Runs
  <2> QED
    BY <1>2, <2>1, Ends
<1> QED
  BY <1>3, <1>4

LEMMA DiesKeeps ==
  ASSUME CardInv, DriverDies
  PROVE  CardInv'
<1>1. drv' \in Runs /\ drv'.verdict = "died"
  BY DEF DriverDies, Abort, CardInv, Shapes, Runs
<1>2. ld' \in Loads /\ ld'.pc = "idle"
  BY DEF DriverDies, NoLoader, Loads, Dirs, Hows, Writes
<1> QED
  BY <1>1, <1>2, Ends

LEMMA StartKeeps ==
  ASSUME CardInv, NEW who \in Drivers, StartDriver(who)
  PROVE  CardInv'
<1>1. ld' \in Loads /\ ld'.pc = "idle"
  BY DEF StartDriver, NoLoader, Loads, Dirs, Hows, Writes
<1>2. /\ drv' \in Runs /\ drv'.pc = 1
      /\ drv'.verdict \in {"none", "refused"}
  BY DEF StartDriver, Runs
<1>3. Shapes' /\ Serves' /\ ReadBack'
  BY <1>1, <1>2 DEF Shapes, Serves, ReadBack
<1>4. DriverInv'
  BY <1>2, E7Script, PoisonScript DEF DriverInv, Pointed, ClaimFirst, Stopped, Restored
<1> QED
  BY <1>3, <1>4 DEF CardInv

\* What moves neither a driver nor a word of the card.
LEMMA AsideKeeps ==
  ASSUME CardInv, UNCHANGED <<dram, ld, drv>>
  PROVE  CardInv'
<1>1. Shapes' /\ Serves' /\ ReadBack'
  BY DEF CardInv, Shapes, Serves, ReadBack, Active, Current
<1>2. DriverInv'
  BY DEF CardInv, DriverInv, Pointed, ClaimFirst, Stopped, Restored, Active
<1> QED
  BY <1>1, <1>2 DEF CardInv

LEMMA CardStep == CardInv /\ [ImageNext]_imageVars => CardInv'
<1> SUFFICES ASSUME CardInv, [ImageNext]_imageVars PROVE CardInv'
  OBVIOUS
<1>1. CASE UNCHANGED imageVars
  BY <1>1, AsideKeeps DEF imageVars
<1>2. CASE OtherProgram \/ Calibrate
  BY <1>2, AsideKeeps DEF OtherProgram, Calibrate
<1>3. CASE DriverStep
  BY <1>3, FlyKeeps, AskKeeps, TakeKeeps, DiesKeeps DEF DriverStep
<1>4. CASE Loader
  BY <1>4, LoaderStep
<1>5. CASE \E who \in Drivers : StartDriver(who)
  BY <1>5, StartKeeps
<1> QED
  BY <1>1, <1>2, <1>3, <1>4, <1>5 DEF ImageNext
-----------------------------------------------------------------------------
\* A sweep or the breadth gate moves nothing of the card's: every step of
\* the composition is one of ImageNext, or leaves the image's variables.
LEMMA Composed == [Next]_vars => [ImageNext]_imageVars
  BY DEF Next, Start, OnImage, OnSweep, OnBreadth, ImageNext, vars

\* A driver that poisoned the image and came to a verdict has put every word
\* back, whatever bursts were lost and whoever died before
\* (fly_e7ng_poison.py, fly_e7_hw.py, walk_fuel_proj.py).
THEOREM RestoredHolds == Spec => []RestoredOrRaised
<1>1. CardInv => RestoredOrRaised
  BY DEF CardInv, DriverInv, Stopped, Restored, RestoredOrRaised
<1>2. Init => CardInv
  BY InitCard DEF Init
<1>3. CardInv /\ [Next]_vars => CardInv'
  BY CardStep, Composed
<1> QED
  BY <1>1, <1>2, <1>3, PTL DEF Spec

\* E-7 has the card's DRAM rewritten only after its claim has executed
\* (fly_e7_hw.py: "NOT touching the card's DRAM").
THEOREM ClaimComesFirst == Spec => DramAfterClaim
<1>1. CardInv /\ [ImageNext]_imageVars => [dram' # dram /\ drv.who = "e7" => drv.ran]_imageVars
  <2> SUFFICES ASSUME CardInv, ImageNext, dram' # dram, drv.who = "e7" PROVE drv.ran
    BY DEF imageVars
  <2>1. Loader
    BY DEF ImageNext, StartDriver, OtherProgram, Calibrate, DriverStep, FlyStep, AskReload,
       TakeReload, DriverDies
  <2>2. Active /\ Current.do = "reload"
    BY <2>1, LoaderStep DEF CardInv, Serves, Loader, LoadHash, Preflight, LoadBurst, LoadVerify,
       LoadDies
  <2>3. drv.pc # 1
    BY <2>2, E7Script DEF Current, Fly
  <2> QED
    BY <2>2, <2>3 DEF CardInv, DriverInv, ClaimFirst
<1>2. Init => CardInv
  BY InitCard DEF Init
<1>3. CardInv /\ [Next]_vars => CardInv'
  BY CardStep, Composed
<1>4. CardInv /\ [Next]_vars => [dram' # dram /\ drv.who = "e7" => drv.ran]_imageVars
  BY <1>1, Composed
<1> QED
  BY <1>2, <1>3, <1>4, PTL DEF Spec, DramAfterClaim
-----------------------------------------------------------------------------
(* The sweeps.                                                             *)

Whole(b)    == {<<b.ask.step, b.ask.layer, h>> : h \in 1 .. Heads}
CaughtAll(b) == b.grabbed = <<b.ask.step, b.ask.layer>> /\ b.caught = Whole(b)
CaughtNone(b) == b.grabbed = << >> /\ b.caught = {}
Outcomes == {"exact", "wrong", "empty", "refused"}

\* A record of a sweep or of the gate, whatever its data is.
SweepShape(s) ==
  s \in [pc : {"idle", "batch", "report"}, req : {s.req}, todo : {s.todo}, got : {s.got}, tries : {s.tries},
         check : {s.check}, verdict : {"none", "died", "aborted", "PASS", "FAIL"}]
BreadthShape(b) ==
  b \in [pc : {"idle", "capture", "heads", "blocks", "report"}, ask : {b.ask}, calls : {b.calls},
         caught : {b.caught}, grabbed : {b.grabbed}, picks : {b.picks}, heads : Seq(Outcomes),
         blocks : {b.blocks}, verdict : {"none", "refused", "died", "PASS", "FAIL"}]

Complete(s) == \A p \in Paths(s.req) : s.got[p] = Partial(s.req, p[2])
SweepEarned(s) == s.pc = "report" /\ s.verdict = "PASS" => Complete(s)

\* What the gate has of the step asked for, from the capture on: nothing yet,
\* or all of it; the blocks flown are sampled ones; and what a PASS has seen.
Earned(b) ==
  /\ Len(b.heads) = Heads /\ Range(b.heads) = {"exact"}
  /\ DOMAIN b.blocks = b.picks /\ Range(b.blocks) = {"exact"}
BreadthEarned(b) ==
  /\ b.pc = "capture" => CaughtAll(b) \/ CaughtNone(b)
  /\ b.pc \in {"heads", "blocks", "report"} => CaughtAll(b) /\ \E full \in BOOLEAN : b.picks = BlockPicks(full)
  /\ b.pc = "capture" => DOMAIN b.blocks = {}
  /\ b.pc \in {"heads", "blocks", "report"} => DOMAIN b.blocks \subseteq b.picks
  /\ b.pc = "report" /\ b.verdict = "PASS" => Earned(b)

SweepInv == SweepShape(sw) /\ SweepEarned(sw) /\ BreadthShape(br) /\ BreadthEarned(br)

\* What the two do, one at a time.
SweepNext ==
  \/ \E req \in Requests, resume \in BOOLEAN, check \in {"none", "equal", "differs"} : BeginSweep(req, resume, check)
  \/ \E n \in Prompts, layer \in 0 .. Layers, step \in 0 .. Max(Prompts), fast \in BOOLEAN :
       BeginBreadth(n, layer, step, fast)
  \/ SweepStep \/ BreadthStep \/ BreadthDies
-----------------------------------------------------------------------------
(* The sample: first and last block of each projection.                    *)

LEMMA LeastNumber ==
  ASSUME NEW T, T \subseteq Nat, T # {}
  PROVE  \E m \in T : \A n \in T : m <= n
<1>1. PICK m \in T : \A n \in T : ~(<<n, m>> \in OpToRel(<, Nat))
  BY NatLessThanWellFounded, WFMin, Zenon
<1>2. \A n \in T : ~(n < m)
  <2> SUFFICES ASSUME NEW n \in T, n < m PROVE <<n, m>> \in OpToRel(<, Nat)
    BY <1>1
  <2> QED
    BY DEF OpToRel
<1> QED
  BY <1>2

\* A whole number is rounded to itself.
LEMMA RoundWhole ==
  ASSUME NEW d \in Nat \ {0}, NEW m \in Nat
  PROVE  Round(d * m, d) = m /\ Round(0, d) = 0
<1>1. (d * m) \div d = m /\ (d * m) % d = 0
  <2> DEFINE x == d * m
  <2>1. x \in Nat /\ x = d * m + 0
    OBVIOUS
  <2> QED
    BY <2>1
<1>2. 0 \div d = 0 /\ 0 % d = 0
  OBVIOUS
<1>3. d * m \in Nat
  OBVIOUS
<1> QED
  BY <1>1, <1>2, <1>3 DEF Round

LEMMA Endpoints ==
  ASSUME NEW nb \in Nat \ {0}, NEW k \in Nat
  PROVE  /\ 0 \in SampleBlocks(nb, k)
         /\ (k > 1 => nb - 1 \in SampleBlocks(nb, k))
<1>1. CASE k >= nb
  BY <1>1 DEF SampleBlocks
<1>2. CASE k < nb /\ k <= 1
  BY <1>2 DEF SampleBlocks
<1>3. CASE k < nb /\ k > 1
  <2>1. SampleBlocks(nb, k) = {Round(i * (nb - 1), k - 1) : i \in 0 .. k - 1}
    BY <1>3 DEF SampleBlocks
  <2>2. k - 1 \in Nat \ {0} /\ nb - 1 \in Nat
    BY <1>3
  <2>3. Round(0 * (nb - 1), k - 1) = 0 /\ Round((k - 1) * (nb - 1), k - 1) = nb - 1
    <3>1. 0 * (nb - 1) = 0
      OBVIOUS
    <3> QED
      BY <2>2, <3>1, RoundWhole
  <2>4. 0 \in 0 .. k - 1 /\ k - 1 \in 0 .. k - 1
    BY <2>2
  <2> HIDE DEF SampleBlocks
  <2> QED
    BY <2>1, <2>3, <2>4
<1> QED
  BY <1>1, <1>2, <1>3

LEMMA PicksHaveEnds ==
  ASSUME NEW full \in BOOLEAN, NEW t \in DOMAIN NBlocks
  PROVE  {<<t, 0>>, <<t, IF PerProj <= 1 THEN 0 ELSE NBlocks[t] - 1>>} \subseteq BlockPicks(full)
<1> DEFINE k == IF full THEN NBlocks[t] ELSE PerProj
<1>1. NBlocks[t] \in Nat \ {0} /\ k \in Nat
  BY SweepAssumption
<1>2. {t} \X SampleBlocks(NBlocks[t], k) \subseteq BlockPicks(full)
  BY DEF BlockPicks
<1>3. 0 \in SampleBlocks(NBlocks[t], k)
  BY <1>1, Endpoints
<1>4. PerProj > 1 => NBlocks[t] - 1 \in SampleBlocks(NBlocks[t], k)
  <2>1. CASE k > 1
    BY <1>1, <2>1, Endpoints
  <2>2. CASE PerProj > 1 /\ ~(k > 1)
    <3>1. NBlocks[t] = 1
      BY <1>1, <2>2
    <3> QED
      BY <1>3, <3>1
  <2> QED
    BY <2>1, <2>2
<1>5. ~(PerProj <= 1) => PerProj > 1
  BY SweepAssumption
<1> QED
  BY <1>2, <1>3, <1>4, <1>5

\* The next block is one that has not been flown.
LEMMA NextIsUnflown ==
  ASSUME NEW S, S \subseteq Nat \X Nat, S # {}
  PROVE  \E p \in S : \A q \in S \ {p} : PathLess(p, q)
<1> DEFINE A == {p[1] : p \in S}
<1>1. A \subseteq Nat /\ A # {}
  OBVIOUS
<1>2. PICK a \in A : \A n \in A : a <= n
  BY <1>1, LeastNumber, Zenon
<1> DEFINE B == {b \in Nat : <<a, b>> \in S}
<1>3. B \subseteq Nat /\ B # {}
  OBVIOUS
<1>4. PICK b \in B : \A n \in B : b <= n
  BY <1>3, LeastNumber, Zenon
<1>5. ASSUME NEW q \in S, q # <<a, b>> PROVE PathLess(<<a, b>>, q)
  <2>1. q[1] \in Nat /\ q[2] \in Nat /\ q = <<q[1], q[2]>>
    OBVIOUS
  <2>2. a <= q[1] /\ a \in Nat /\ b \in Nat
    BY <1>1, <1>2
  <2>3. CASE q[1] = a
    <3>1. q[2] \in B
      BY <2>1, <2>3
    <3>2. b <= q[2] /\ q[2] # b
      BY <1>4, <1>5, <2>1, <2>3, <3>1
    <3> QED
      BY <2>1, <2>2, <2>3, <3>2 DEF PathLess
  <2>4. CASE q[1] # a
    BY <2>1, <2>2, <2>4 DEF PathLess
  <2> QED
    BY <2>3, <2>4
<1>6. <<a, b>> \in S
  OBVIOUS
<1> QED
  BY <1>5, <1>6
-----------------------------------------------------------------------------
LEMMA InitSweep == SweepInit => SweepInv
<1> SUFFICES ASSUME SweepInit PROVE SweepInv
  OBVIOUS
<1>1. SweepShape(sw) /\ SweepEarned(sw)
  BY DEF SweepInit, NoSweep, SweepShape, SweepEarned
<1>2. BreadthShape(br) /\ BreadthEarned(br)
  BY DEF SweepInit, NoBreadth, BreadthShape, BreadthEarned
<1> QED
  BY <1>1, <1>2 DEF SweepInv

LEMMA SweepEnds ==
  ASSUME NEW verdict \in {"none", "died", "aborted", "PASS", "FAIL"}, EndSweep(verdict)
  PROVE  SweepShape(sw') /\ SweepEarned(sw')
BY DEF EndSweep, NoSweep, SweepShape, SweepEarned

\* No step of a sweep makes it earn less.
LEMMA SweepKeeps ==
  ASSUME SweepInv,
         \/ SweepStep
         \/ \E req \in Requests, resume \in BOOLEAN, check \in {"none", "equal", "differs"} :
              BeginSweep(req, resume, check)
  PROVE  SweepShape(sw') /\ SweepEarned(sw') /\ br' = br
<1>0. SweepShape(sw) /\ SweepEarned(sw)
  BY DEF SweepInv
<1>7. br' = br
  BY DEF SweepStep, BeginSweep, BatchFails, RunBatch, SweepDies, GradeSweep, CloseSweep
<1> SUFFICES SweepShape(sw') /\ SweepEarned(sw')
  BY <1>7
<1>1. ASSUME NEW req \in Requests, NEW resume \in BOOLEAN, NEW check \in {"none", "equal", "differs"},
             BeginSweep(req, resume, check)
      PROVE  SweepShape(sw') /\ SweepEarned(sw')
  BY <1>1 DEF BeginSweep, NoSweep, SweepShape, SweepEarned
<1>2. CASE BatchFails
  <2>1. ASSUME NEW n \in {1, 2}, sw.pc = "batch", sw' = [sw EXCEPT !.tries = n]
        PROVE  SweepShape(sw') /\ SweepEarned(sw')
    BY <1>0, <2>1 DEF SweepShape, SweepEarned
  <2>2. sw.pc = "batch"
    BY <1>2 DEF BatchFails
  <2>3. \/ \E n \in {1, 2} : sw' = [sw EXCEPT !.tries = n]
        \/ \E verdict \in {"died", "aborted"} : EndSweep(verdict)
    BY <1>2 DEF BatchFails
  <2>4. CASE \E n \in {1, 2} : sw' = [sw EXCEPT !.tries = n]
    BY <2>1, <2>2, <2>4
  <2>5. CASE \E verdict \in {"died", "aborted"} : EndSweep(verdict)
    <3>1. PICK verdict \in {"died", "aborted"} : EndSweep(verdict)
      BY <2>5
    <3> QED
      BY <3>1, SweepEnds
  <2> QED
    BY <2>3, <2>4, <2>5
<1>3. CASE RunBatch
  <2>1. ASSUME NEW got, NEW todo, sw.pc = "batch",
               sw' = [sw EXCEPT !.tries = 0, !.got = got, !.todo = todo]
        PROVE  SweepShape(sw') /\ SweepEarned(sw')
    BY <1>0, <2>1 DEF SweepShape, SweepEarned
  <2> QED
    BY <1>3, <2>1 DEF RunBatch
<1>4. CASE SweepDies
  BY <1>4, SweepEnds DEF SweepDies
<1>5. CASE GradeSweep
  <2>1. /\ sw'.pc = "report" /\ sw'.req = sw.req /\ sw'.got = sw.got
        /\ SweepShape(sw')
        /\ sw'.verdict = "PASS" => \A b \in sw.req.blocks : GradeBlock(sw.req, b, sw.got)
    BY <1>0, <1>5 DEF GradeSweep, SweepShape
  <2>2. (\A b \in sw.req.blocks : GradeBlock(sw.req, b, sw.got)) => Complete(sw)
    BY DEF GradeBlock, Complete, Paths
  <2>3. Complete(sw) => Complete(sw')
    BY <2>1 DEF Complete
  <2>4. sw'.verdict = "PASS" => Complete(sw')
    BY <2>1, <2>2, <2>3
  <2> QED
    BY <2>1, <2>4 DEF SweepEarned
<1>6. CASE CloseSweep
  BY <1>0, <1>6, SweepEnds DEF CloseSweep, SweepShape
<1> QED
  BY <1>1, <1>2, <1>3, <1>4, <1>5, <1>6 DEF SweepStep
-----------------------------------------------------------------------------
\* The gate gives up, or reports, or is idle: nothing is left to earn.
LEMMA Idles ==
  ASSUME NEW verdict \in {"none", "refused", "died", "PASS", "FAIL"}, NEW b, b = [NoBreadth EXCEPT !.verdict = verdict]
  PROVE  BreadthShape(b) /\ BreadthEarned(b)
<1> DEFINE none == << >>
<1>1. none \in Seq(Outcomes)
  OBVIOUS
<1>2. b = [pc |-> "idle", ask |-> NoAsk, calls |-> 0, caught |-> {}, grabbed |-> none,
           picks |-> {}, heads |-> none, blocks |-> none, verdict |-> verdict]
  BY DEF NoBreadth
<1> HIDE DEF none
<1>3. BreadthShape(b) /\ b.pc = "idle"
  <2> DEFINE ask == NoAsk
  <2> HIDE DEF ask
  <2>1. b = [pc |-> "idle", ask |-> ask, calls |-> 0, caught |-> {}, grabbed |-> none,
             picks |-> {}, heads |-> none, blocks |-> none, verdict |-> verdict]
    BY <1>2 DEF ask
  <2>2. verdict \in {"none", "refused", "died", "PASS", "FAIL"}
    OBVIOUS
  <2>3. \A any \in {"none", "refused", "died", "PASS", "FAIL"} :
          b = [pc |-> "idle", ask |-> ask, calls |-> 0, caught |-> {}, grabbed |-> none,
               picks |-> {}, heads |-> none, blocks |-> none, verdict |-> any] => BreadthShape(b) /\ b.pc = "idle"
    BY <1>1 DEF BreadthShape
  <2> QED
    BY <2>1, <2>2, <2>3
<1> QED
  BY <1>3 DEF BreadthEarned

LEMMA BeginKeeps ==
  ASSUME NEW n, NEW layer, NEW step, NEW fast, BeginBreadth(n, layer, step, fast)
  PROVE  BreadthShape(br') /\ BreadthEarned(br')
<1>1. ASSUME NEW ask, br' = [NoBreadth EXCEPT !.pc = "capture", !.ask = ask]
      PROVE  BreadthShape(br') /\ BreadthEarned(br')
  <2> DEFINE none == << >>
  <2>1. none \in Seq(Outcomes) /\ DOMAIN none = {}
    OBVIOUS
  <2>2. br' = [pc |-> "capture", ask |-> ask, calls |-> 0, caught |-> {}, grabbed |-> none,
               picks |-> {}, heads |-> none, blocks |-> none, verdict |-> "none"]
    BY <1>1 DEF NoBreadth
  <2>3. none = << >>
    OBVIOUS
  <2> HIDE DEF none
  <2>4. BreadthShape(br')
    BY <2>1, <2>2 DEF BreadthShape
  <2>5. br'.pc = "capture" /\ br'.caught = {} /\ br'.grabbed = << >> /\ DOMAIN br'.blocks = {}
    BY <2>1, <2>2, <2>3
  <2> QED
    BY <2>4, <2>5 DEF BreadthEarned, CaughtNone
<1>2. (\E ask : br' = [NoBreadth EXCEPT !.pc = "capture", !.ask = ask]) \/ br' = [NoBreadth EXCEPT !.verdict = "refused"]
  BY DEF BeginBreadth
<1> QED
  BY <1>1, <1>2, Idles

LEMMA CaptureKeeps ==
  ASSUME BreadthShape(br), BreadthEarned(br), CaptureLayer
  PROVE  BreadthShape(br') /\ BreadthEarned(br')
<1> DEFINE c == br.calls
           caught == br.caught \cup (IF Asked(c) THEN {<<StepAt(c), LayerAt(c), h>> : h \in 1 .. Heads} ELSE {})
           grabbed == IF Collected(c) THEN <<StepAt(c), LayerAt(c)>> ELSE br.grabbed
<1>1. br.pc = "capture" /\ DOMAIN br.blocks = {}
  BY DEF CaptureLayer, BreadthEarned
<1>2. CASE br' = [br EXCEPT !.calls = c + 1, !.caught = caught, !.grabbed = grabbed]
  <2>1. (caught = Whole(br) /\ grabbed = <<br.ask.step, br.ask.layer>>) \/ (caught = br.caught /\ grabbed = br.grabbed)
    <3>1. CASE Asked(c)
      <4>1. StepAt(c) = br.ask.step /\ LayerAt(c) = br.ask.layer /\ Collected(c)
        BY <3>1 DEF Asked, Collected
      <4>2. grabbed = <<br.ask.step, br.ask.layer>>
        BY <4>1
      <4>3. caught = br.caught \cup Whole(br)
        BY <3>1, <4>1 DEF Whole
      <4>4. br.caught \in {{}, Whole(br)}
        BY <1>1 DEF BreadthEarned, CaughtAll, CaughtNone
      <4> QED
        BY <4>2, <4>3, <4>4
    <3>2. CASE ~Asked(c)
      BY <3>2 DEF Collected
    <3> QED
      BY <3>1, <3>2
  <2> HIDE DEF c, caught, grabbed
  <2>2. /\ BreadthShape(br')
        /\ br'.pc = "capture" /\ br'.ask = br.ask /\ br'.caught = caught /\ br'.grabbed = grabbed
        /\ br'.blocks = br.blocks /\ br'.picks = br.picks
    BY <1>1, <1>2 DEF BreadthShape
  <2>3. CaughtAll(br') \/ CaughtNone(br')
    <3>1. CaughtAll(br) \/ CaughtNone(br)
      BY <1>1 DEF BreadthEarned
    <3>2. Whole(br') = Whole(br)
      BY <2>2 DEF Whole
    <3> QED
      BY <2>1, <2>2, <3>1, <3>2 DEF CaughtAll, CaughtNone
  <2> QED
    BY <1>1, <2>2, <2>3 DEF BreadthEarned
<1>3. CASE br' = [NoBreadth EXCEPT !.verdict = "refused"]
  BY <1>3, Idles
<1> QED
  BY <1>2, <1>3 DEF CaptureLayer

LEMMA DoneKeeps ==
  ASSUME BreadthShape(br), BreadthEarned(br), NEW full \in BOOLEAN, CaptureDone(full)
  PROVE  BreadthShape(br') /\ BreadthEarned(br')
<1>1. CASE br.grabbed # << >> /\ br' = [br EXCEPT !.pc = "heads", !.picks = BlockPicks(full)]
  <2> DEFINE picks == BlockPicks(full)
  <2> HIDE DEF picks
  <2>0. br.pc = "capture"
    BY DEF CaptureDone
  <2>1. br' = [br EXCEPT !.pc = "heads", !.picks = picks]
    BY <1>1 DEF picks
  <2>2. /\ BreadthShape(br')
        /\ br'.pc = "heads" /\ br'.ask = br.ask /\ br'.caught = br.caught /\ br'.grabbed = br.grabbed
        /\ br'.blocks = br.blocks /\ br'.picks = picks
    BY <2>1 DEF BreadthShape
  <2>3. CaughtAll(br')
    BY <1>1, <2>0, <2>2 DEF BreadthEarned, CaughtAll, CaughtNone, Whole
  <2>4. DOMAIN br'.blocks = {} /\ br'.picks = BlockPicks(full)
    BY <2>0, <2>2 DEF BreadthEarned, picks
  <2>5. DOMAIN br'.blocks \subseteq br'.picks
    BY <2>4
  <2>6. \E any \in BOOLEAN : br'.picks = BlockPicks(any)
    BY <2>4
  <2> QED
    BY <2>2, <2>3, <2>5, <2>6 DEF BreadthEarned
<1>2. br' = [NoBreadth EXCEPT !.verdict = "refused"] => BreadthShape(br') /\ BreadthEarned(br')
  BY Idles
<1> QED
  BY <1>1, <1>2 DEF CaptureDone

LEMMA HeadKeeps ==
  ASSUME BreadthShape(br), BreadthEarned(br), FlyHead
  PROVE  BreadthShape(br') /\ BreadthEarned(br')
<1>1. PICK row \in {"exact", "wrong", "empty"} : br' = [br EXCEPT !.heads = Append(br.heads, row),
       !.pc = IF Len(br.heads) + 1 < Heads THEN "heads" ELSE "blocks"]
  BY DEF FlyHead
<1> DEFINE heads == Append(br.heads, row)
           pc == IF Len(br.heads) + 1 < Heads THEN "heads" ELSE "blocks"
<1>2. heads \in Seq(Outcomes) /\ pc \in {"heads", "blocks"}
  BY DEF BreadthShape, Outcomes
<1>3. br.pc = "heads"
  BY DEF FlyHead
<1> HIDE DEF heads, pc
<1>4. br' = [br EXCEPT !.heads = heads, !.pc = pc]
  BY <1>1 DEF heads, pc
<1>5. /\ BreadthShape(br')
      /\ br'.pc = pc /\ br'.ask = br.ask /\ br'.caught = br.caught /\ br'.grabbed = br.grabbed
      /\ br'.blocks = br.blocks /\ br'.picks = br.picks
  BY <1>2, <1>4 DEF BreadthShape
<1>6. CaughtAll(br') /\ DOMAIN br'.blocks \subseteq br'.picks /\ \E full \in BOOLEAN : br'.picks = BlockPicks(full)
  BY <1>3, <1>5 DEF BreadthEarned, CaughtAll, Whole
<1> QED
  BY <1>2, <1>5, <1>6 DEF BreadthEarned

LEMMA PicksArePairs ==
  ASSUME NEW full \in BOOLEAN
  PROVE  BlockPicks(full) \subseteq Nat \X Nat
<1> SUFFICES ASSUME NEW t \in DOMAIN NBlocks,
                    NEW b \in SampleBlocks(NBlocks[t], IF full THEN NBlocks[t] ELSE PerProj)
             PROVE  t \in Nat /\ b \in Nat
  BY DEF BlockPicks
<1> DEFINE k == IF full THEN NBlocks[t] ELSE PerProj
<1>1. NBlocks[t] \in Nat \ {0} /\ k \in Nat /\ t \in Nat
  BY SweepAssumption
<1>2. ASSUME NEW num \in Nat, NEW den \in Nat \ {0} PROVE Round(num, den) \in Nat
  <2>1. num \div den \in Nat
    OBVIOUS
  <2> QED
    BY <2>1 DEF Round
<1>3. CASE k >= NBlocks[t]
  BY <1>1, <1>3 DEF SampleBlocks
<1>4. CASE k < NBlocks[t] /\ k <= 1
  BY <1>1, <1>4 DEF SampleBlocks
<1>5. CASE k < NBlocks[t] /\ k > 1
  <2>0. SampleBlocks(NBlocks[t], k) = {Round(i * (NBlocks[t] - 1), k - 1) : i \in 0 .. k - 1}
    BY <1>1, <1>5 DEF SampleBlocks
  <2>1. PICK i \in 0 .. k - 1 : b = Round(i * (NBlocks[t] - 1), k - 1)
    BY <2>0
  <2>2. k - 1 \in Nat \ {0} /\ NBlocks[t] - 1 \in Nat /\ i \in Nat
    BY <1>1, <1>5
  <2>3. i * (NBlocks[t] - 1) \in Nat
    BY <2>2
  <2> QED
    BY <1>1, <1>2, <2>1, <2>2, <2>3
<1> QED
  BY <1>1, <1>3, <1>4, <1>5

LEMMA BlockKeeps ==
  ASSUME BreadthShape(br), BreadthEarned(br), FlyBlock
  PROVE  BreadthShape(br') /\ BreadthEarned(br')
<1>1. PICK row : br' = [br EXCEPT !.blocks = [p \in DOMAIN br.blocks \cup {NextBlock} |->
                                      IF p = NextBlock THEN row ELSE br.blocks[p]]]
  BY DEF FlyBlock
<1> DEFINE blocks == [p \in DOMAIN br.blocks \cup {NextBlock} |-> IF p = NextBlock THEN row ELSE br.blocks[p]]
<1>2. br.pc = "blocks" /\ Unflown # {}
  BY DEF FlyBlock
<1>3. NextBlock \in Unflown
  <2>1. Unflown \subseteq Nat \X Nat
    BY <1>2, PicksArePairs DEF BreadthEarned, Unflown
  <2>2. \E p \in Unflown : \A q \in Unflown \ {p} : PathLess(p, q)
    BY <1>2, <2>1, NextIsUnflown, Zenon
  <2> QED
    BY <2>2, Zenon DEF NextBlock
<1>4. DOMAIN blocks = DOMAIN br.blocks \cup {NextBlock}
  OBVIOUS
<1> HIDE DEF blocks
<1>5. /\ BreadthShape(br')
      /\ br'.pc = "blocks" /\ br'.ask = br.ask /\ br'.caught = br.caught /\ br'.grabbed = br.grabbed
      /\ br'.blocks = blocks /\ br'.picks = br.picks
  <2>1. br' = [br EXCEPT !.blocks = blocks]
    BY <1>1 DEF blocks
  <2> QED
    BY <1>2, <2>1 DEF BreadthShape
<1>6. CaughtAll(br') /\ DOMAIN br'.blocks \subseteq br'.picks /\ \E full \in BOOLEAN : br'.picks = BlockPicks(full)
  <2>1. CaughtAll(br) /\ DOMAIN br.blocks \subseteq br.picks /\ \E full \in BOOLEAN : br.picks = BlockPicks(full)
    BY <1>2 DEF BreadthEarned
  <2>2. NextBlock \in br.picks
    BY <1>3 DEF Unflown
  <2>3. CaughtAll(br')
    BY <2>1, <1>5 DEF CaughtAll, Whole
  <2> QED
    BY <1>4, <1>5, <2>1, <2>2, <2>3
<1> QED
  BY <1>5, <1>6 DEF BreadthEarned

LEMMA ReportKeeps ==
  ASSUME BreadthShape(br), BreadthEarned(br), NEW shown, ReportBreadth(shown)
  PROVE  BreadthShape(br') /\ BreadthEarned(br')
<1> DEFINE verdict == IF BreadthPass /\ shown = EvidenceKinds THEN "PASS" ELSE "FAIL"
<1>1. br.pc = "blocks" /\ Unflown = {} /\ br' = [br EXCEPT !.pc = "report", !.verdict = verdict]
  BY DEF ReportBreadth
<1>2. verdict \in {"PASS", "FAIL"} /\ (verdict = "PASS" => BreadthPass)
  OBVIOUS
<1> HIDE DEF verdict
<1>3. /\ BreadthShape(br')
      /\ br'.pc = "report" /\ br'.ask = br.ask /\ br'.caught = br.caught /\ br'.grabbed = br.grabbed
      /\ br'.blocks = br.blocks /\ br'.picks = br.picks /\ br'.heads = br.heads /\ br'.verdict = verdict
  BY <1>1, <1>2 DEF BreadthShape
<1>4. CaughtAll(br) /\ DOMAIN br.blocks = br.picks /\ \E full \in BOOLEAN : br.picks = BlockPicks(full)
  BY <1>1 DEF BreadthEarned, Unflown
<1>5. BreadthPass => Earned(br)
  <2> SUFFICES ASSUME BreadthPass PROVE Earned(br)
    OBVIOUS
  <2>1. Range(br.blocks) = {"exact"}
    BY DEF BreadthPass, Range
  <2>2. br.heads \in Seq(Outcomes) /\ Heads \in Nat \ {0}
    BY SweepAssumption DEF BreadthShape
  <2>3. 1 \in DOMAIN br.heads
    BY <2>2 DEF BreadthPass
  <2>4. Range(br.heads) = {"exact"}
    BY <2>3 DEF BreadthPass, Range
  <2> QED
    BY <1>4, <2>1, <2>4 DEF BreadthPass, Earned
<1>6. CaughtAll(br') /\ (Earned(br) => Earned(br'))
  BY <1>3, <1>4 DEF CaughtAll, Whole, Earned
<1> QED
  BY <1>2, <1>3, <1>4, <1>5, <1>6 DEF BreadthEarned
-----------------------------------------------------------------------------
LEMMA BreadthKeeps ==
  ASSUME SweepInv,
         \/ BreadthStep \/ BreadthDies
         \/ \E n \in Prompts, layer \in 0 .. Layers, step \in 0 .. Max(Prompts), fast \in BOOLEAN :
              BeginBreadth(n, layer, step, fast)
  PROVE  BreadthShape(br') /\ BreadthEarned(br') /\ sw' = sw
<1>0. BreadthShape(br) /\ BreadthEarned(br)
  BY DEF SweepInv
<1>1. CASE CaptureLayer
  BY <1>0, <1>1, CaptureKeeps DEF CaptureLayer
<1>2. ASSUME NEW full \in BOOLEAN, CaptureDone(full)
      PROVE  BreadthShape(br') /\ BreadthEarned(br') /\ sw' = sw
  BY <1>0, <1>2, DoneKeeps DEF CaptureDone
<1>3. CASE FlyHead
  BY <1>0, <1>3, HeadKeeps DEF FlyHead
<1>4. CASE FlyBlock
  BY <1>0, <1>4, BlockKeeps DEF FlyBlock
<1>5. ASSUME NEW shown, ReportBreadth(shown)
      PROVE  BreadthShape(br') /\ BreadthEarned(br') /\ sw' = sw
  BY <1>0, <1>5, ReportKeeps DEF ReportBreadth
<1>6. CASE CloseBreadth
  <2>1. br.verdict \in {"none", "refused", "died", "PASS", "FAIL"}
    BY <1>0 DEF BreadthShape
  <2>2. br' = [NoBreadth EXCEPT !.verdict = br.verdict] /\ sw' = sw
    BY <1>6 DEF CloseBreadth
  <2> QED
    BY <2>1, <2>2, Idles
<1>7. CASE BreadthDies
  <2>1. br' = [NoBreadth EXCEPT !.verdict = "died"] /\ sw' = sw
    BY <1>7 DEF BreadthDies
  <2> QED
    BY <2>1, Idles
<1>8. ASSUME NEW n, NEW layer, NEW step, NEW fast, BeginBreadth(n, layer, step, fast)
      PROVE  BreadthShape(br') /\ BreadthEarned(br') /\ sw' = sw
  BY <1>8, BeginKeeps DEF BeginBreadth
<1> QED
  BY <1>1, <1>2, <1>3, <1>4, <1>5, <1>6, <1>7, <1>8 DEF BreadthStep

LEMMA SweepsKeep == SweepInv /\ [SweepNext]_sweepVars => SweepInv'
<1> SUFFICES ASSUME SweepInv, [SweepNext]_sweepVars PROVE SweepInv'
  OBVIOUS
<1>1. CASE UNCHANGED sweepVars
  <2>1. sw' = sw /\ br' = br
    BY <1>1 DEF sweepVars
  <2> QED
    BY <2>1 DEF SweepInv, SweepShape, SweepEarned, Complete, BreadthShape, BreadthEarned, CaughtAll,
      CaughtNone, Whole, Earned
<1>2. CASE SweepStep \/ \E req \in Requests, resume \in BOOLEAN, check \in {"none", "equal", "differs"} :
                          BeginSweep(req, resume, check)
  <2>1. SweepShape(sw') /\ SweepEarned(sw') /\ br' = br
    BY <1>2, SweepKeeps
  <2>2. BreadthShape(br') /\ BreadthEarned(br')
    BY <2>1 DEF SweepInv
  <2> QED
    BY <2>1, <2>2 DEF SweepInv
<1>3. CASE \/ BreadthStep \/ BreadthDies
           \/ \E n \in Prompts, layer \in 0 .. Layers, step \in 0 .. Max(Prompts), fast \in BOOLEAN :
                BeginBreadth(n, layer, step, fast)
  <2>1. BreadthShape(br') /\ BreadthEarned(br') /\ sw' = sw
    BY <1>3, BreadthKeeps
  <2>2. SweepShape(sw') /\ SweepEarned(sw')
    BY <2>1 DEF SweepInv
  <2> QED
    BY <2>1, <2>2 DEF SweepInv
<1> QED
  BY <1>1, <1>2, <1>3 DEF SweepNext

LEMMA ComposedSweeps == [Next]_vars => [SweepNext]_sweepVars
  BY DEF Next, Start, OnImage, OnSweep, OnBreadth, SweepNext, vars

\* A sweep passes only over sums of its own request, complete and right,
\* whatever it resumed over; the breadth gate only over every head of the step
\* asked for and every block of the sample, the ends of each projection in it
\* (proj_sweep_batched.py, breadth_step.py).
THEOREM PassIsWholeHolds == Spec => []PassIsWhole
<1>1. SweepInv => PassIsWhole
  <2> SUFFICES ASSUME SweepInv PROVE PassIsWhole
    OBVIOUS
  <2>1. sw.pc = "report" /\ sw.verdict = "PASS" =>
          \A p \in Paths(sw.req) : sw.got[p] = Partial(sw.req, p[2])
    BY DEF SweepInv, SweepEarned, Complete
  <2>2. ASSUME br.pc = "report", br.verdict = "PASS"
        PROVE  /\ CaughtAll(br) /\ Earned(br)
               /\ \A t \in DOMAIN NBlocks :
                    {<<t, 0>>, <<t, IF PerProj <= 1 THEN 0 ELSE NBlocks[t] - 1>>} \subseteq br.picks
    <3>1. CaughtAll(br) /\ Earned(br) /\ \E full \in BOOLEAN : br.picks = BlockPicks(full)
      BY <2>2 DEF SweepInv, BreadthEarned
    <3>2. PICK full \in BOOLEAN : br.picks = BlockPicks(full)
      BY <3>1
    <3> QED
      BY <3>1, <3>2, PicksHaveEnds
  <2> QED
    BY <2>1, <2>2 DEF PassIsWhole, CaughtAll, Whole, Earned
<1>2. Init => SweepInv
  BY InitSweep DEF Init
<1>3. SweepInv /\ [Next]_vars => SweepInv'
  BY SweepsKeep, ComposedSweeps
<1> QED
  BY <1>1, <1>2, <1>3, PTL DEF Spec
=============================================================================
