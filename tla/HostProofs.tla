----------------------------- MODULE HostProofs -----------------------------
(***************************************************************************)
(* Proofs about HostExec, for every number of files, captures and jobs and *)
(* for every transport: one runner at a time drives the card, and at a     *)
(* clock its image was closed at; and what a session is told of a job, and *)
(* of each file of it, is what that job's run read of that file.  Last,    *)
(* about MultiRun and LmHead, for every vocabulary, model and prompt: no   *)
(* arm of a prompt run resolves a name to the context of another, a head   *)
(* offered to the tile is exact, and what the report prints is true.       *)
(***************************************************************************)
EXTENDS HostExec, MultiRun, TLAPS, FiniteSetTheorems, SequenceTheorems, WellFoundedInduction

\* ExpectedClock: at most one frequency, and never one above the
\* recipe the image was closed at.
LEMMA ExpectedClockIsSafe ==
  ASSUME NEW image \in Images, NEW recipe, \A r, s \in recipe : r = s,
         NEW m \in ExpectedClock(image, recipe)
  PROVE  /\ m \in Nat /\ m <= Mhz[ImageRecipe[image]]
         /\ ExpectedClock(image, recipe) = {m}
<1>1. ImageRecipe[image] \in Recipes
  BY DEF Images, ImageRecipe, Recipes
<1>2. \A r \in Recipes : Mhz[r] \in Nat
  BY DEF Recipes, Mhz
<1>3. PICK r \in Recipes : m = Mhz[r] /\ Mhz[r] <= Mhz[ImageRecipe[image]]
  BY <1>1 DEF ExpectedClock
<1>4. ASSUME NEW n \in ExpectedClock(image, recipe)
      PROVE  n = m
  BY <1>4 DEF ExpectedClock
<1> QED
  BY <1>2, <1>3, <1>4

\* A flight that expects one frequency, at most the fastest that is right for
\* it, expects at most its own limit.
LEMMA FlightBound ==
  ASSUME NEW top \in Nat, NEW expect,
         \A m \in expect : expect = {m} /\ m \in Nat /\ m <= top
  PROVE  \A m \in Flight(expect, top).expect : m <= Flight(expect, top).limit
<1>1. Flight(expect, top).expect = expect
  BY DEF Flight
<1>2. ASSUME NEW m \in expect
      PROVE  m <= Flight(expect, top).limit
  <2>1. m \in Nat /\ m <= top /\ expect \cup {top} = {m, top}
    BY <1>2
  <2>2. \A o \in expect \cup {top} : m <= o
    BY <2>1
  <2>3. \E l \in expect \cup {top} : \A o \in expect \cup {top} : l <= o
    BY <1>2, <2>2
  <2>4. LET l == CHOOSE l \in expect \cup {top} : \A o \in expect \cup {top} : l <= o
        IN  l \in {m, top}
    BY <2>1, <2>3
  <2>5. Flight(expect, top).limit = CHOOSE l \in expect \cup {top} : \A o \in expect \cup {top} : l <= o
    BY <1>2 DEF Flight
  <2> QED
    BY <2>1, <2>4, <2>5
<1> QED
  BY <1>1, <1>2

\* Whatever image is on the card and whatever the caller named, the clock gate
\* never expects more than what is right for the flight (clock_key.py).
THEOREM GateIsSafe ==
  ASSUME NEW f \in Flights
  PROVE  \A m \in f.expect : m <= f.limit
<1>1. \A i \in Images : Mhz[ImageRecipe[i]] \in Nat /\ Slowest <= Mhz[ImageRecipe[i]]
  BY DEF Images, ImageRecipe, Recipes, Mhz, Slowest
<1>2. Slowest \in Nat /\ LoadDefault \in Nat /\ 500 <= LoadDefault
  BY DEF Recipes, Mhz, Slowest, LoadDefault
<1>3. ASSUME NEW image \in Images, NEW recipe \in RecipeArgs, NEW mhz \in MhzArgs,
             f = KeyedFlight(image, recipe, mhz)
      PROVE  \A m \in f.expect : m <= f.limit
  <2> DEFINE e == ResolveClockExpectation({image}, recipe, mhz)
  <2>1. e \subseteq ExpectedClock(image, recipe)
    BY DEF ResolveClockExpectation
  <2>2. \A r, s \in recipe : r = s
    BY DEF RecipeArgs
  <2>3. \A m \in ExpectedClock(image, recipe) :
          m \in Nat /\ m <= Mhz[ImageRecipe[image]] /\ ExpectedClock(image, recipe) = {m}
    BY <2>2, ExpectedClockIsSafe
  <2>4. \A m \in e : e = {m} /\ m \in Nat /\ m <= Mhz[ImageRecipe[image]]
    BY <2>1, <2>3
  <2>5. f = Flight(e, Mhz[ImageRecipe[image]])
    BY <1>3 DEF KeyedFlight
  <2> HIDE DEF e
  <2> QED
    BY <1>1, <2>4, <2>5, FlightBound
<1>4. ASSUME NEW image \in Images, NEW agfi \in {{}, {"unregistered"}}, NEW recipe \in {{}, {2}},
             NEW mhz \in MhzArgs, f = UnkeyedFlight(image, agfi, recipe, mhz)
      PROVE  \A m \in f.expect : m <= f.limit
  <2> DEFINE e == ResolveClockExpectation(agfi, recipe, mhz)
             top == IF agfi = {} /\ mhz # {} THEN LoadDefault ELSE Mhz[ImageRecipe[image]]
  <2>1. top \in Nat /\ f = Flight(e, top)
    BY <1>1, <1>2, <1>4 DEF UnkeyedFlight
  <2>2. CASE agfi # {}
    <3>1. "unregistered" \notin Images
      BY DEF Images, ImageRecipe
    <3>2. e = {}
      BY <2>2, <3>1 DEF ResolveClockExpectation, ExpectedClock
    <3> HIDE DEF e, top
    <3> QED
      BY <2>1, <3>2, FlightBound
  <2>3. CASE agfi = {}
    <3>1. e = {} \/ (e = {Slowest} /\ mhz = {}) \/ (e = {500} /\ mhz # {})
      BY <2>3 DEF ResolveClockExpectation, MhzArgs
    <3>2. \A m \in e : e = {m} /\ m \in Nat /\ m <= top
      BY <1>1, <1>2, <2>3, <3>1
    <3> HIDE DEF e, top
    <3> QED
      BY <2>1, <3>2, FlightBound
  <2> QED
    BY <2>2, <2>3
<1> QED
  BY <1>3, <1>4 DEF Flights
-----------------------------------------------------------------------------
(* What a step of a runner can do to the list of runners.                  *)

Replies == [ran : Nat, rc : {0, 1}, n : Int]

Process ==
  [pc : {"attach", "idle", "run", "reply", "gone"}, job : Nat, part : Nat, at : Nat, n : Int,
   failed : BOOLEAN, linked : BOOLEAN, reply : Replies]

\* A runner that was started with its job: no server.
OneJob(r) == r.pc \in {"run", "reply", "gone"} /\ (r.reply = Silence \/ r.pc = "gone")

Keeps(p, r) ==
  /\ r \in Process
  /\ runners' = [runners EXCEPT ![p] = r]
  /\ r.pc # "gone" => runners[p].pc # "gone"
  /\ r.pc \in {"run", "reply"} => runners[p].pc \in {"run", "reply"}
  /\ r.pc = "run" => runners[p].pc = "run"
  /\ transport # "daemon" /\ OneJob(runners[p]) => OneJob(r)

LEMMA SilenceIsReply == Silence \in Replies /\ Ready \in Replies /\ NoAnswer \in Replies
  BY DEF Silence, Ready, NoAnswer, Replies

LEMMA FreshIsProcess ==
  ASSUME NEW pc \in {"attach", "idle", "run", "reply", "gone"}, NEW job \in Nat
  PROVE  /\ Fresh(pc, job) \in Process
         /\ Fresh(pc, job).pc = pc
         /\ Fresh(pc, job).reply = Silence
  BY SilenceIsReply DEF Fresh, Process

\* The updates of a runner's record keep it one.
LEMMA StopIsProcess ==
  ASSUME NEW r \in Process
  PROVE  LET next == [r EXCEPT !.pc = "reply", !.n = -1, !.failed = TRUE]
         IN  next \in Process /\ next.pc = "reply" /\ next.reply = r.reply /\ next.job = r.job
<1>1. -1 \in Int
  OBVIOUS
<1> QED
  BY <1>1 DEF Process

\* A file ends by a stall, and the next begins.
LEMMA StallIsProcess ==
  ASSUME NEW r \in Process
  PROVE  LET next == [r EXCEPT !.part = @ + 1, !.at = 1, !.failed = TRUE]
         IN  /\ next \in Process /\ next.pc = r.pc /\ next.reply = r.reply /\ next.job = r.job
             /\ next.linked = r.linked /\ next.part = r.part + 1 /\ next.at = 1
<1>1. r.part + 1 \in Nat
  BY DEF Process
<1> QED
  BY <1>1 DEF Process

LEMMA OpenIsProcess ==
  ASSUME NEW r \in Process
  PROVE  LET next == [r EXCEPT !.part = 1, !.at = 1, !.linked = TRUE]
         IN  /\ next \in Process /\ next.pc = r.pc /\ next.reply = r.reply /\ next.job = r.job
             /\ next.linked = TRUE /\ next.part = 1 /\ next.at = 1
  BY DEF Process

LEMMA OnwardRules ==
  ASSUME NEW r \in Process
  PROVE  /\ Onward(r) \in Process
         /\ Onward(r).pc = r.pc /\ Onward(r).reply = r.reply /\ Onward(r).job = r.job
         /\ Onward(r).linked = r.linked
         /\ IF r.at < Len(Script(r.part)) THEN Onward(r).part = r.part /\ Onward(r).at = r.at + 1
                                          ELSE Onward(r).part = r.part + 1 /\ Onward(r).at = 1
<1>1. CASE r.at < Len(Script(r.part))
  BY <1>1 DEF Onward, Process
<1>2. CASE ~(r.at < Len(Script(r.part)))
  <2> DEFINE next == [r EXCEPT !.part = @ + 1, !.at = 1]
  <2>1. r.part + 1 \in Nat
    BY DEF Process
  <2>2. /\ next \in Process /\ next.pc = r.pc /\ next.reply = r.reply /\ next.job = r.job
        /\ next.linked = r.linked /\ next.part = r.part + 1 /\ next.at = 1
    BY <2>1 DEF Process
  <2>3. Onward(r) = next
    BY <1>2 DEF Onward
  <2> HIDE DEF next
  <2> QED
    BY <1>2, <2>2, <2>3
<1> QED
  BY <1>1, <1>2

LEMMA CountIsProcess ==
  ASSUME NEW r \in Process
  PROVE  LET next == [r EXCEPT !.n = @ + 1]
         IN  /\ next \in Process /\ next.pc = r.pc /\ next.reply = r.reply /\ next.job = r.job
             /\ next.linked = r.linked /\ next.part = r.part /\ next.at = r.at
  BY DEF Process

LEMMA RunnerMoves ==
  ASSUME runners \in Seq(Process), NEW p \in Pid, Runner(p)
  PROVE  /\ RunnerOnly
         /\ \E r : Keeps(p, r)
<1> DEFINE old == runners[p]
<1>1. old \in Process /\ DOMAIN runners = 1 .. Len(runners) /\ Len(runners) \in Nat
  BY ElementOfSeq, LenProperties DEF Pid
<1>3. RunnerOnly
  BY DEF Runner, Attach, Open, Reset, Load, Stall, Capture, Mark, Write, Reply, Die
<1>4. CASE Attach(p)
  <2>1. PICK ok \in BOOLEAN :
          runners' = [runners EXCEPT ![p].pc = IF ok THEN "idle" ELSE "gone",
                                     ![p].reply = IF ok THEN Ready ELSE Silence]
    BY <1>4 DEF Attach
  <2> DEFINE r == [old EXCEPT !.pc = IF ok THEN "idle" ELSE "gone",
                              !.reply = IF ok THEN Ready ELSE Silence]
  <2>2. r \in Process /\ r.pc = (IF ok THEN "idle" ELSE "gone")
    BY <1>1, SilenceIsReply DEF Process
  <2>3. runners' = [runners EXCEPT ![p] = r]
    BY <2>1, <1>1
  <2>4. old.pc = "attach"
    BY <1>4 DEF Attach
  <2>5. Keeps(p, r)
    BY <2>2, <2>3, <2>4 DEF Keeps, OneJob
  <2> QED
    BY <2>5, <1>3
<1>13. ASSUME old.pc = "run",
              runners' = [runners EXCEPT ![p].pc = "reply", ![p].n = -1, ![p].failed = TRUE]
       PROVE  \E r : Keeps(p, r)
  <2> DEFINE r == [old EXCEPT !.pc = "reply", !.n = -1, !.failed = TRUE]
  <2>1. r \in Process /\ r.pc = "reply" /\ r.reply = old.reply
    <3> HIDE DEF old
    <3> QED
      BY <1>1, StopIsProcess
  <2>2. runners' = [runners EXCEPT ![p] = r]
    BY <1>1, <1>13
  <2>3. Keeps(p, r)
    BY <1>13, <2>1, <2>2 DEF Keeps, OneJob
  <2> QED
    BY <2>3
<1>5. CASE Open(p)
  <2>1. old.pc = "run"
    BY <1>5 DEF Open
  <2>2. CASE runners' = [runners EXCEPT ![p].part = 1, ![p].at = 1, ![p].linked = TRUE]
    <3> DEFINE r == [old EXCEPT !.part = 1, !.at = 1, !.linked = TRUE]
    <3>1. r \in Process /\ r.pc = "run" /\ r.reply = old.reply
      <4> HIDE DEF old
      <4> QED
        BY <1>1, <2>1, OpenIsProcess
    <3>2. runners' = [runners EXCEPT ![p] = r]
      BY <2>2, <1>1
    <3>3. Keeps(p, r)
      BY <2>1, <3>1, <3>2 DEF Keeps, OneJob
    <3> QED
      BY <3>3, <1>3
  <2>3. CASE runners' = [runners EXCEPT ![p].pc = "reply", ![p].n = -1, ![p].failed = TRUE]
    BY <1>3, <1>13, <2>1, <2>3
  <2> QED
    BY <1>5, <2>2, <2>3 DEF Open
<1>6. ASSUME NEW op, At(p, op), runners' = Ahead(p)
      PROVE  \E r : Keeps(p, r)
  <2>1. old.pc = "run"
    BY <1>6 DEF At
  <2>2. Onward(old) \in Process /\ Onward(old).pc = "run" /\ Onward(old).reply = old.reply
    BY <1>1, <2>1, OnwardRules
  <2>3. runners' = [runners EXCEPT ![p] = Onward(old)]
    BY <1>6, <1>1 DEF Ahead
  <2>4. Keeps(p, Onward(old))
    BY <2>1, <2>2, <2>3 DEF Keeps, OneJob
  <2> QED
    BY <2>4
<1>7. CASE Reset(p)
  <2>1. old.pc = "run"
    BY <1>7 DEF Reset, At
  <2>2. CASE runners' = [runners EXCEPT ![p].pc = "reply", ![p].n = -1, ![p].failed = TRUE]
    BY <1>3, <1>13, <2>1, <2>2
  <2> QED
    BY <1>3, <1>6, <1>7, <2>2 DEF Reset
<1>8. CASE Stall(p)
  <2> DEFINE r == [old EXCEPT !.part = @ + 1, !.at = 1, !.failed = TRUE]
  <2>1. old.pc = "run"
    BY <1>8 DEF Stall, At
  <2>2. r \in Process /\ r.pc = "run" /\ r.reply = old.reply
    <3> HIDE DEF old
    <3> QED
      BY <1>1, <2>1, StallIsProcess
  <2>3. runners' = [runners EXCEPT ![p] = r]
    BY <1>8, <1>1 DEF Stall
  <2>4. Keeps(p, r)
    BY <2>1, <2>2, <2>3 DEF Keeps, OneJob
  <2> QED
    BY <2>4, <1>3
<1>14. CASE Load(p)
  BY <1>3, <1>6, <1>14 DEF Load
<1>9. ASSUME NEW op, At(p, op), NEW rec, Write(p, rec)
      PROVE  \E r : Keeps(p, r)
  <2> DEFINE r == [Onward(old) EXCEPT !.n = @ + 1]
  <2>1. old.pc = "run"
    BY <1>9 DEF At
  <2>2. Onward(old) \in Process /\ Onward(old).pc = "run" /\ Onward(old).reply = old.reply
    BY <1>1, <2>1, OnwardRules
  <2>3. r \in Process /\ r.pc = "run" /\ r.reply = old.reply
    <3> HIDE DEF old
    <3> QED
      BY <2>2, CountIsProcess
  <2>4. runners' = [runners EXCEPT ![p] = r]
    BY <1>9, <1>1 DEF Write, Ahead
  <2>5. Keeps(p, r)
    BY <2>1, <2>3, <2>4 DEF Keeps, OneJob
  <2> QED
    BY <2>5
<1>10. CASE Capture(p) \/ Mark(p)
  BY <1>3, <1>9, <1>10 DEF Capture, Mark
<1>11. CASE Reply(p)
  <2> DEFINE pc == IF transport = "daemon" THEN "idle" ELSE "gone"
             answer == [ran |-> old.job, rc |-> IF old.failed THEN 1 ELSE 0, n |-> old.n]
             r == [Fresh(pc, 0) EXCEPT !.reply = answer]
  <2>1. old.pc \in {"run", "reply"} /\ runners' = [runners EXCEPT ![p] = r]
    BY <1>11 DEF Reply
  <2>2. answer \in Replies
    BY <1>1 DEF Process, Replies
  <2>3. r \in Process /\ r.pc = pc
    <3>1. pc \in {"attach", "idle", "run", "reply", "gone"}
      OBVIOUS
    <3>2. Fresh(pc, 0) \in Process /\ Fresh(pc, 0).pc = pc
      BY <3>1, FreshIsProcess
    <3> HIDE DEF pc, answer
    <3> QED
      BY <2>2, <3>2 DEF Process
  <2>4. Keeps(p, r)
    <3>1. pc \in {"idle", "gone"} /\ (transport # "daemon" => pc = "gone")
      OBVIOUS
    <3> HIDE DEF pc, r
    <3> QED
      BY <2>1, <2>3, <3>1 DEF Keeps, OneJob
  <2> QED
    BY <2>4, <1>3
<1>12. CASE Die(p)
  <2> DEFINE r == [Fresh("gone", 0) EXCEPT !.reply = old.reply]
  <2>1. old.pc # "gone" /\ runners' = [runners EXCEPT ![p] = r]
    BY <1>12 DEF Die, Alive
  <2>2. r \in Process /\ r.pc = "gone"
    <3>1. Fresh("gone", 0) \in Process /\ Fresh("gone", 0).pc = "gone"
      BY FreshIsProcess
    <3>2. old.reply \in Replies
      BY <1>1 DEF Process
    <3> HIDE DEF old
    <3> QED
      BY <3>1, <3>2 DEF Process
  <2>3. Keeps(p, r)
    BY <2>1, <2>2 DEF Keeps, OneJob
  <2> QED
    BY <2>3, <1>3
<1> QED
  BY <1>4, <1>5, <1>7, <1>8, <1>10, <1>11, <1>12, <1>14 DEF Runner
-----------------------------------------------------------------------------
(* The inductive invariant.                                                *)

ClientStates ==
  [pc : {"ready", "acquire", "hello", "send", "launch", "gate", "upload", "exec", "await",
         "fetch", "parse"},
   job : Nat, attempt : {1, 2}, answer : Replies, late : BOOLEAN]

Typed ==
  /\ transport \in {"daemon", "oneshot", "remote"}
  /\ client \in ClientStates
  /\ runners \in Seq(Process)
  /\ daemon \in 0 .. Len(runners)
  /\ input \in Nat

\* Which steps of run_job belong to which transport.
OnItsPath ==
  /\ client.pc \in {"acquire", "hello", "send"} => transport = "daemon"
  /\ client.pc = "launch" => transport = "oneshot"
  /\ client.pc \in {"gate", "upload", "exec", "fetch"} => transport = "remote"

\* Only the registered server lives; while a request is made it is registered.
OnlyServer ==
  transport = "daemon" =>
    /\ \A p \in Pid : Alive(p) => p = daemon
    /\ client.pc \in {"hello", "send", "await"} => daemon # 0

\* Only the last runner of a process per job can live.  Nothing lives when the
\* next is started, and, on the local host, once its job is over.
OnlyLast ==
  transport # "daemon" =>
    /\ \A p \in Pid : OneJob(runners[p]) /\ (Alive(p) => p = Len(runners))
    /\ client.pc = "await" => Len(runners) # 0
    /\ transport = "oneshot" /\ client.pc # "await" => \A p \in Pid : ~Alive(p)
    /\ client.pc \in {"gate", "upload", "exec"} => \A p \in Pid : ~Alive(p)

\* What passed the clock gate stays passed until its runner has started, and a
\* clock only changes where nothing runs.
ClockHeld ==
  /\ \A m \in fly.expect : m <= fly.limit
  /\ client.pc \in {"upload", "exec"} => clock \in fly.expect
  /\ transport # "remote" => clock <= fly.limit
  /\ \A p \in Pid : runners[p].pc = "run" => clock <= fly.limit

HostInv == Typed /\ OnItsPath /\ OnlyServer /\ OnlyLast /\ ClockHeld
-----------------------------------------------------------------------------
LEMMA InitHost == Init => HostInv
<1> SUFFICES ASSUME Init PROVE HostInv
  OBVIOUS
<1>1. runners = << >> /\ runners \in Seq(Process) /\ Len(runners) = 0 /\ Pid = {}
  BY EmptySeq DEF Init, Pid
<1>2. Typed
  BY <1>1, SilenceIsReply, TransportsAssumption DEF Init, Typed, ClientStates
<1>3. OnItsPath /\ OnlyServer /\ OnlyLast
  BY <1>1 DEF Init, OnItsPath, OnlyServer, OnlyLast
<1>4. ClockHeld
  <2>1. CASE transport = "remote"
    <3>1. fly \in Flights
      BY <2>1 DEF Init
    <3> QED
      BY <1>1, <2>1, <3>1, GateIsSafe DEF Init, ClockHeld
  <2>2. CASE transport # "remote"
    <3>1. Slowest \in Nat
      BY DEF Slowest, Mhz, Recipes
    <3>2. clock = Slowest /\ fly = [expect |-> {}, limit |-> Slowest]
      BY <2>2 DEF Init
    <3> QED
      BY <1>1, <3>1, <3>2 DEF Init, ClockHeld
  <2> QED
    BY <2>1, <2>2
<1> QED
  BY <1>2, <1>3, <1>4 DEF HostInv

LEMMA RunnerStep ==
  ASSUME HostInv, NEW p \in Pid, Runner(p)
  PROVE  HostInv'
<1>1. runners \in Seq(Process) /\ Pid = 1 .. Len(runners) /\ Len(runners) \in Nat
  BY LenProperties DEF HostInv, Typed, Pid
<1>2. PICK r : Keeps(p, r)
  BY <1>1, RunnerMoves
<1>3. UNCHANGED <<transport, client, daemon, input, clock, fly>>
  BY <1>1, RunnerMoves DEF RunnerOnly
<1>4. /\ runners' \in Seq(Process) /\ Len(runners') = Len(runners) /\ Pid' = Pid
      /\ \A q \in Pid : runners'[q] = IF q = p THEN r ELSE runners[q]
  <2>1. r \in Process /\ runners' = [runners EXCEPT ![p] = r]
    BY <1>2 DEF Keeps
  <2>2. /\ runners' \in Seq(Process) /\ Len(runners') = Len(runners)
        /\ \A q \in 1 .. Len(runners) : runners'[q] = IF q = p THEN r ELSE runners[q]
    BY <1>1, <2>1, ExceptSeq
  <2> QED
    BY <1>1, <2>2, LenProperties DEF Pid
<1>5. \A q \in Pid : /\ Alive(q)' => Alive(q)
                     /\ runners'[q].pc = "run" => runners[q].pc = "run"
                     /\ transport # "daemon" /\ OneJob(runners[q]) => OneJob(runners'[q])
  BY <1>2, <1>4 DEF Keeps, Alive
<1>6. Typed' /\ OnItsPath'
  BY <1>3, <1>4 DEF HostInv, Typed, OnItsPath
<1>7. OnlyServer' /\ OnlyLast'
  BY <1>3, <1>4, <1>5 DEF HostInv, OnlyServer, OnlyLast
<1>8. ClockHeld'
  BY <1>3, <1>4, <1>5 DEF HostInv, ClockHeld
<1> QED
  BY <1>6, <1>7, <1>8 DEF HostInv
-----------------------------------------------------------------------------
(* What a step of run_job can do to the list of runners.                   *)

\* The list after a step, compared with the one before.
SameRunners ==
  /\ runners' \in Seq(Process)
  /\ Len(runners') = Len(runners)
  /\ \A q \in Pid : runners'[q].pc = runners[q].pc
  /\ \A q \in Pid : runners'[q].reply \in {runners[q].reply, Silence}

GoneRunner(p) ==
  /\ runners' \in Seq(Process)
  /\ Len(runners') = Len(runners)
  /\ \A q \in Pid \ {p} : runners'[q] = runners[q]
  /\ runners'[p].pc = "gone"

NewRunner(pc) ==
  /\ runners' \in Seq(Process)
  /\ Len(runners') = Len(runners) + 1
  /\ \A q \in Pid : runners'[q].pc = runners[q].pc
  /\ \A q \in Pid : runners'[q].reply = runners[q].reply
  /\ runners'[Len(runners')].pc = pc
  /\ runners'[Len(runners')].reply = Silence

LEMMA PidRules ==
  ASSUME Typed
  PROVE  Pid = 1 .. Len(runners) /\ Len(runners) \in Nat
  BY LenProperties DEF Typed, Pid

LEMMA PidRulesPrime ==
  ASSUME runners' \in Seq(Process)
  PROVE  Pid' = 1 .. Len(runners') /\ Len(runners') \in Nat
  BY LenProperties DEF Pid

LEMMA UnlinkedRules ==
  ASSUME NEW rs \in Seq(Process)
  PROVE  /\ Unlinked(rs) \in Seq(Process)
         /\ Len(Unlinked(rs)) = Len(rs)
         /\ \A q \in 1 .. Len(rs) : /\ Unlinked(rs)[q].pc = rs[q].pc
                                    /\ Unlinked(rs)[q].reply = rs[q].reply
<1>1. rs \in [1 .. Len(rs) -> Process] /\ Len(rs) \in Nat /\ DOMAIN rs = 1 .. Len(rs)
  BY LenProperties
<1>2. \A q \in 1 .. Len(rs) : LET u == [rs[q] EXCEPT !.linked = FALSE]
                              IN  u \in Process /\ u.pc = rs[q].pc /\ u.reply = rs[q].reply
  <2> TAKE q \in 1 .. Len(rs)
  <2>1. rs[q] \in Process
    BY <1>1
  <2>2. \A r \in Process : LET u == [r EXCEPT !.linked = FALSE]
                           IN  u \in Process /\ u.pc = r.pc /\ u.reply = r.reply
    BY DEF Process
  <2> QED
    BY <2>1, <2>2
<1>3. Unlinked(rs) = [q \in 1 .. Len(rs) |-> [rs[q] EXCEPT !.linked = FALSE]]
  BY <1>1 DEF Unlinked
<1>4. Unlinked(rs) \in [1 .. Len(rs) -> Process]
  BY <1>2, <1>3
<1>5. Unlinked(rs) \in Seq(Process) /\ Len(Unlinked(rs)) = Len(rs)
  <2>1. Unlinked(rs) \in Seq(Process)
    BY <1>1, <1>4, SeqDef
  <2>2. DOMAIN Unlinked(rs) = 1 .. Len(rs) /\ DOMAIN Unlinked(rs) = 1 .. Len(Unlinked(rs))
        /\ Len(Unlinked(rs)) \in Nat
    BY <1>3, <2>1, LenProperties
  <2> QED
    BY <1>1, <2>1, <2>2
<1> QED
  BY <1>2, <1>3, <1>5

LEMMA AppendRules ==
  ASSUME Typed, NEW rs \in Seq(Process), Len(rs) = Len(runners),
         \A q \in Pid : rs[q].pc = runners[q].pc /\ rs[q].reply = runners[q].reply,
         NEW pc \in {"attach", "run"}, NEW job \in Nat, runners' = Append(rs, Fresh(pc, job))
  PROVE  NewRunner(pc)
  BY PidRules, FreshIsProcess, AppendProperties DEF NewRunner

LEMMA KilledRules ==
  ASSUME Typed, NEW p \in Pid, runners' = Killed(p)
  PROVE  GoneRunner(p)
  BY PidRules, FreshIsProcess, ExceptSeq DEF Typed, Killed, GoneRunner

LEMMA HeardRules ==
  ASSUME Typed, NEW p \in Pid, runners' = [runners EXCEPT ![p].reply = Silence]
  PROVE  SameRunners
<1> DEFINE r == [runners[p] EXCEPT !.reply = Silence]
<1>1. runners \in Seq(Process) /\ runners[p] \in Process /\ p \in 1 .. Len(runners)
      /\ Pid = 1 .. Len(runners)
  BY PidRules, ElementOfSeq DEF Typed
<1>2. r \in Process /\ r.pc = runners[p].pc /\ r.reply = Silence
  BY <1>1, SilenceIsReply DEF Process
<1>3. runners' = [runners EXCEPT ![p] = r]
  BY PidRules, <1>1
<1> HIDE DEF r
<1>4. runners' \in Seq(Process) /\ Len(runners') = Len(runners)
      /\ \A q \in 1 .. Len(runners) : runners'[q] = IF q = p THEN r ELSE runners[q]
  BY <1>1, <1>2, <1>3, ExceptSeq
<1> QED
  BY <1>1, <1>2, <1>4 DEF SameRunners
-----------------------------------------------------------------------------
(* Each step of run_job preserves the invariant.                           *)

LEMMA GotoRules ==
  ASSUME client \in ClientStates, NEW pc, Goto(pc),
         pc \in {"ready", "acquire", "hello", "send", "launch", "gate", "upload", "exec", "await",
                 "fetch", "parse"}
  PROVE  client' \in ClientStates /\ client'.pc = pc
  BY DEF Goto, ClientStates

\* A job is sent: nothing runs where the next step would start a runner.
LEMMA SubmitStep ==
  ASSUME HostInv, Submit \/ SubmitRemote
  PROVE  HostInv'
<1>1. Pid = 1 .. Len(runners) /\ Len(runners) \in Nat
  BY PidRules DEF HostInv
<1>2. PICK pc \in {"acquire", "launch", "gate"} :
         /\ Sends(pc)
         /\ pc = "acquire" <=> transport = "daemon"
         /\ pc = "launch" <=> transport = "oneshot"
  BY DEF Submit, SubmitRemote, HostInv, Typed
<1>3. client' \in ClientStates /\ client'.pc = pc
  BY <1>2, SilenceIsReply DEF Sends, HostInv, Typed, ClientStates
<1>4. UNCHANGED <<transport, clock, fly, daemon, input>>
  BY <1>2 DEF Sends, ClientOnly
<1>5. SameRunners
  <2>1. CASE runners' = runners
    BY <2>1 DEF SameRunners, HostInv, Typed
  <2>2. CASE runners' = Unlinked(runners)
    BY <1>1, <2>2, UnlinkedRules DEF SameRunners, HostInv, Typed
  <2> QED
    BY <2>1, <2>2 DEF Submit, SubmitRemote
<1>6. Pid' = Pid
  BY <1>1, <1>5, PidRulesPrime DEF SameRunners
<1>7. Typed' /\ OnItsPath'
  BY <1>2, <1>3, <1>4, <1>5 DEF HostInv, Typed, OnItsPath, SameRunners
<1>8. OnlyServer'
  BY <1>3, <1>4, <1>5, <1>6 DEF HostInv, OnlyServer, SameRunners, Alive
<1>9. OnlyLast'
  <2> SUFFICES ASSUME transport # "daemon" PROVE OnlyLast'
    BY <1>4 DEF OnlyLast
  <2>1. \A p \in Pid : ~Alive(p)
    BY <1>2 DEF Sends, MayGoOn, HostInv, OnlyLast, Typed
  <2>2. \A p \in Pid : OneJob(runners'[p]) /\ ~Alive(p)'
    BY <1>5, <1>6, <2>1 DEF SameRunners, Alive, OneJob
  <2> QED
    BY <1>2, <1>3, <1>6, <2>2 DEF OnlyLast
<1>10. ClockHeld'
  BY <1>2, <1>3, <1>4, <1>5, <1>6 DEF HostInv, ClockHeld, SameRunners
<1> QED
  BY <1>7, <1>8, <1>9, <1>10 DEF HostInv

\* A step that leaves the runners alone and starts none.
LEMMA WaitStep ==
  ASSUME HostInv, SameRunners, UNCHANGED <<transport, daemon, clock, fly>>, input' \in Nat,
         client' \in ClientStates, OnItsPath',
         client'.pc \in {"send", "await", "hello"} => daemon # 0 \/ transport # "daemon",
         client'.pc = "await" => client.pc = "await",
         client'.pc \in {"upload", "exec"} => clock \in fly.expect,
         client'.pc \in {"upload", "exec", "gate"} => client.pc \in {"upload", "exec", "gate"},
         transport = "oneshot" /\ client'.pc # "await" => \A p \in Pid : ~Alive(p)
  PROVE  HostInv'
<1>1. Pid = 1 .. Len(runners) /\ Pid' = Pid
  BY PidRules, PidRulesPrime DEF HostInv, SameRunners
<1>2. \A p \in Pid : /\ Alive(p)' <=> Alive(p)
                     /\ OneJob(runners[p]) => OneJob(runners'[p])
  BY <1>1 DEF SameRunners, Alive, OneJob
<1>3. Typed'
  BY DEF HostInv, Typed, SameRunners
<1>4. OnlyServer'
  BY <1>1, <1>2 DEF HostInv, OnlyServer
<1>5. OnlyLast'
  <2> SUFFICES ASSUME transport # "daemon" PROVE OnlyLast'
    BY DEF OnlyLast
  <2>1. \A p \in Pid' : OneJob(runners'[p]) /\ (Alive(p)' => p = Len(runners'))
    BY <1>1, <1>2 DEF HostInv, OnlyLast, SameRunners
  <2>2. client'.pc = "await" => Len(runners') # 0
    BY DEF HostInv, OnlyLast, SameRunners
  <2>3. transport = "oneshot" /\ client'.pc # "await" => \A p \in Pid' : ~Alive(p)'
    BY <1>1, <1>2
  <2>4. client'.pc \in {"gate", "upload", "exec"} => \A p \in Pid' : ~Alive(p)'
    BY <1>1, <1>2 DEF HostInv, OnlyLast
  <2> QED
    BY <2>1, <2>2, <2>3, <2>4 DEF OnlyLast
<1>6. ClockHeld'
  BY <1>1 DEF HostInv, ClockHeld, SameRunners
<1> QED
  BY <1>3, <1>4, <1>5, <1>6 DEF HostInv

\* A step that kills the one runner that may live.
LEMMA KillStep ==
  ASSUME HostInv, NEW p \in Pid, GoneRunner(p), \A q \in Pid : Alive(q) => q = p,
         UNCHANGED <<transport, clock, fly, input>>, daemon' = 0,
         client' \in ClientStates, client'.pc \in {"ready", "acquire", "parse"}, OnItsPath'
  PROVE  HostInv'
<1>1. Pid = 1 .. Len(runners) /\ Pid' = Pid /\ Len(runners) \in Nat
  BY PidRules, PidRulesPrime DEF HostInv, GoneRunner
<1>2. \A q \in Pid : runners'[q].pc = "gone" /\ ~Alive(q)'
  BY DEF GoneRunner, Alive
<1>3. Typed'
  BY <1>1 DEF HostInv, Typed, GoneRunner
<1>4. OnlyServer' /\ OnlyLast'
  BY <1>1, <1>2 DEF OnlyServer, OnlyLast, OneJob
<1>5. ClockHeld'
  BY <1>1, <1>2 DEF HostInv, ClockHeld
<1> QED
  BY <1>3, <1>4, <1>5 DEF HostInv

\* A step that starts a runner where none lives.
LEMMA StartStep ==
  ASSUME HostInv, NEW pc \in {"attach", "run"}, NewRunner(pc), \A q \in Pid : ~Alive(q),
         UNCHANGED <<transport, clock, fly, input>>,
         daemon' = IF transport = "daemon" THEN Len(runners') ELSE daemon,
         pc = "attach" <=> transport = "daemon",
         pc = "run" => clock <= fly.limit,
         client' \in ClientStates, client'.pc \in {"hello", "await"}, OnItsPath'
  PROVE  HostInv'
<1>1. Pid = 1 .. Len(runners) /\ Pid' = Pid \cup {Len(runners')} /\ Len(runners) \in Nat
      /\ Len(runners') \notin Pid /\ Len(runners') # 0
  BY PidRules, PidRulesPrime DEF HostInv, NewRunner
<1>2. \A q \in Pid : ~Alive(q)' /\ (OneJob(runners[q]) => OneJob(runners'[q]))
  BY DEF NewRunner, Alive, OneJob
<1>3. Typed'
  BY <1>1 DEF HostInv, Typed, NewRunner
<1>4. OnlyServer'
  <2>1. ASSUME transport = "daemon", NEW q \in Pid', Alive(q)'
        PROVE  q = daemon'
    BY <1>1, <1>2, <2>1
  <2> QED
    BY <1>1, <2>1 DEF OnlyServer
<1>5. OnlyLast'
  <2> SUFFICES ASSUME transport # "daemon" PROVE OnlyLast'
    BY DEF OnlyLast
  <2>1. OneJob(runners'[Len(runners')])
    BY DEF NewRunner, OneJob
  <2>2. \A q \in Pid' : OneJob(runners'[q]) /\ (Alive(q)' => q = Len(runners'))
    BY <1>1, <1>2, <2>1 DEF HostInv, OnlyLast
  <2>3. client'.pc = "await"
    BY DEF OnItsPath
  <2> QED
    BY <1>1, <2>2, <2>3 DEF OnlyLast
<1>6. ClockHeld'
  <2>1. \A q \in Pid : runners'[q].pc # "run"
    BY <1>2 DEF Alive
  <2>2. runners'[Len(runners')].pc = pc
    BY DEF NewRunner
  <2> QED
    BY <1>1, <2>1, <2>2 DEF HostInv, ClockHeld
<1> QED
  BY <1>3, <1>4, <1>5, <1>6 DEF HostInv

LEMMA AcquireStep == ASSUME HostInv, Acquire PROVE HostInv'
<1>1. transport = "daemon" /\ client \in ClientStates
  BY DEF Acquire, HostInv, OnItsPath, Typed
<1>2. CASE daemon # 0 /\ Alive(daemon)
  <2>1. Goto("send") /\ UNCHANGED <<runners, daemon, transport, clock, fly, input>>
    BY <1>2 DEF Acquire, ClientOnly
  <2>2. client' \in ClientStates /\ client'.pc = "send"
    BY <1>1, <2>1, GotoRules
  <2>3. SameRunners
    BY <2>1 DEF SameRunners, HostInv, Typed
  <2>4. OnItsPath' /\ input' \in Nat
    BY <1>1, <2>1, <2>2 DEF OnItsPath, HostInv, Typed
  <2> QED
    BY <1>1, <1>2, <2>1, <2>2, <2>3, <2>4, WaitStep
<1>3. CASE ~(daemon # 0 /\ Alive(daemon))
  <2>1. /\ Goto("hello") /\ UNCHANGED <<transport, clock, fly, input>>
        /\ runners' = Append(runners, Fresh("attach", 0))
        /\ daemon' = Len(runners) + 1
    BY <1>3 DEF Acquire, ClientOnly
  <2>2. client' \in ClientStates /\ client'.pc = "hello"
    BY <1>1, <2>1, GotoRules
  <2>3. NewRunner("attach")
    BY <2>1, AppendRules DEF HostInv, Typed
  <2>4. daemon' = Len(runners')
    BY <2>1, <2>3 DEF NewRunner
  <2>5. \A q \in Pid : ~Alive(q)
    BY <1>1, <1>3, PidRules DEF HostInv, OnlyServer
  <2>6. OnItsPath'
    BY <1>1, <2>1, <2>2 DEF OnItsPath
  <2> QED
    BY <1>1, <2>1, <2>2, <2>3, <2>4, <2>5, <2>6, StartStep
<1> QED
  BY <1>2, <1>3

LEMMA HelloStep == ASSUME HostInv, Hello PROVE HostInv'
<1>1. transport = "daemon" /\ client \in ClientStates /\ daemon # 0 /\ daemon \in Pid
  BY PidRules DEF Hello, HostInv, OnItsPath, Typed, OnlyServer
<1>2. UNCHANGED <<transport, clock, fly, input>>
  BY DEF Hello, ClientOnly
<1>3. CASE Goto("send") /\ runners' = [runners EXCEPT ![daemon].reply = Silence]
           /\ UNCHANGED daemon
  <2>1. client' \in ClientStates /\ client'.pc = "send"
    BY <1>1, <1>3, GotoRules
  <2>2. SameRunners
    BY <1>1, <1>3, HeardRules DEF HostInv
  <2>3. OnItsPath' /\ input' \in Nat
    BY <1>1, <1>2, <2>1 DEF OnItsPath, HostInv, Typed
  <2> QED
    BY <1>1, <1>2, <1>3, <2>1, <2>2, <2>3, WaitStep
<1>4. CASE runners' = Killed(daemon) /\ daemon' = 0 /\ Tell(TRUE, << >>)
  <2>1. client' \in ClientStates /\ client'.pc = "ready"
    BY <1>1, <1>4, GotoRules DEF Tell
  <2>2. GoneRunner(daemon)
    BY <1>1, <1>4, KilledRules DEF HostInv
  <2>3. \A q \in Pid : Alive(q) => q = daemon
    BY <1>1 DEF HostInv, OnlyServer
  <2>4. OnItsPath'
    BY <2>1 DEF OnItsPath
  <2> QED
    BY <1>1, <1>2, <1>4, <2>1, <2>2, <2>3, <2>4, KillStep
<1> QED
  BY <1>3, <1>4 DEF Hello

\* Died, in Send and in Eof.
LEMMA DiedStep ==
  ASSUME HostInv, Died, transport = "daemon", daemon # 0, UNCHANGED input, ClientOnly
  PROVE  HostInv'
<1>1. client \in ClientStates /\ daemon \in Pid
  BY PidRules DEF HostInv, Typed
<1>2. client' \in ClientStates /\ client'.pc \in {"acquire", "ready"}
  <2>1. CASE client.attempt = 1
    <3>1. client' = [client EXCEPT !.pc = "acquire", !.attempt = 2]
      BY <2>1 DEF Died
    <3> QED
      BY <1>1, <3>1 DEF ClientStates
  <2>2. CASE client.attempt # 1
    BY <1>1, <2>2, GotoRules DEF Died, Tell
  <2> QED
    BY <2>1, <2>2
<1>3. GoneRunner(daemon) /\ daemon' = 0
  BY <1>1, KilledRules DEF Died, HostInv
<1>4. \A q \in Pid : Alive(q) => q = daemon
  BY DEF HostInv, OnlyServer
<1>5. UNCHANGED <<transport, clock, fly, input>>
  BY DEF ClientOnly
<1>6. OnItsPath'
  BY <1>2, <1>5 DEF OnItsPath
<1> QED
  BY <1>1, <1>2, <1>3, <1>4, <1>5, <1>6, KillStep

LEMMA SendStep == ASSUME HostInv, Send PROVE HostInv'
<1>1. transport = "daemon" /\ client \in ClientStates /\ daemon # 0 /\ daemon \in Pid
  BY PidRules DEF Send, HostInv, OnItsPath, Typed, OnlyServer
<1>2. UNCHANGED <<transport, clock, fly, input>> /\ ClientOnly
  BY DEF Send, ClientOnly
<1>3. CASE Alive(daemon)
  <2>1. Goto("await") /\ UNCHANGED daemon
        /\ runners' = [runners EXCEPT ![daemon] = Fresh("run", client.job)]
    BY <1>3 DEF Send
  <2>2. client' \in ClientStates /\ client'.pc = "await"
    BY <1>1, <2>1, GotoRules
  <2>3. Fresh("run", client.job) \in Process
    BY <1>1, FreshIsProcess DEF ClientStates
  <2>4. runners' \in Seq(Process) /\ Len(runners') = Len(runners)
        /\ \A q \in 1 .. Len(runners) : q # daemon => runners'[q] = runners[q]
    BY <1>1, <2>1, <2>3, ExceptSeq, PidRules DEF HostInv, Typed
  <2>5. Pid = 1 .. Len(runners) /\ Pid' = Pid
    BY <2>4, PidRules, PidRulesPrime DEF HostInv
  <2>6. Typed' /\ OnItsPath'
    BY <1>1, <1>2, <2>1, <2>2, <2>4 DEF HostInv, Typed, OnItsPath
  <2>7. OnlyServer' /\ OnlyLast'
    BY <1>1, <1>2, <2>1, <2>2, <2>4, <2>5 DEF HostInv, OnlyServer, OnlyLast, Alive
  <2>8. ClockHeld'
    BY <1>1, <1>2, <2>2 DEF HostInv, ClockHeld
  <2> QED
    BY <2>6, <2>7, <2>8 DEF HostInv
<1>4. CASE ~Alive(daemon)
  BY <1>1, <1>2, <1>4, DiedStep DEF Send
<1> QED
  BY <1>3, <1>4

LEMMA LaunchStep == ASSUME HostInv, Launch PROVE HostInv'
<1>1. transport = "oneshot" /\ client \in ClientStates
  BY DEF Launch, HostInv, OnItsPath, Typed
<1>2. Goto("await") /\ UNCHANGED <<transport, clock, fly, input, daemon>>
  BY DEF Launch, ClientOnly
<1>3. client' \in ClientStates /\ client'.pc = "await" /\ OnItsPath'
  <2>1. client' \in ClientStates /\ client'.pc = "await"
    BY <1>1, <1>2, GotoRules
  <2> QED
    BY <2>1 DEF OnItsPath
<1>4. NewRunner("run")
  BY <1>1, AppendRules DEF Launch, HostInv, Typed, ClientStates
<1>5. \A q \in Pid : ~Alive(q)
  BY <1>1 DEF Launch, HostInv, OnlyLast
<1>6. clock <= fly.limit
  BY <1>1 DEF HostInv, ClockHeld
<1> QED
  BY <1>1, <1>2, <1>3, <1>4, <1>5, <1>6, StartStep

\* The runner starts at the clock the gate has seen.
LEMMA ExecStep == ASSUME HostInv, Exec PROVE HostInv'
<1>1. transport = "remote" /\ client \in ClientStates /\ input \in Nat /\ runners \in Seq(Process)
  BY DEF Exec, HostInv, OnItsPath, Typed
<1>2. Goto("await") /\ UNCHANGED <<transport, clock, fly, input, daemon>>
      /\ runners' = Append(Unlinked(runners), Fresh("run", input))
  BY DEF Exec, ClientOnly
<1>3. client' \in ClientStates /\ client'.pc = "await" /\ OnItsPath'
  <2>1. client' \in ClientStates /\ client'.pc = "await"
    BY <1>1, <1>2, GotoRules
  <2> QED
    BY <2>1 DEF OnItsPath
<1>4. NewRunner("run")
  <2>1. /\ Unlinked(runners) \in Seq(Process) /\ Len(Unlinked(runners)) = Len(runners)
        /\ \A q \in Pid : /\ Unlinked(runners)[q].pc = runners[q].pc
                          /\ Unlinked(runners)[q].reply = runners[q].reply
    BY <1>1, UnlinkedRules, PidRules DEF HostInv
  <2> QED
    BY <1>1, <1>2, <2>1, AppendRules DEF HostInv
<1>5. \A q \in Pid : ~Alive(q)
  BY <1>1 DEF Exec, HostInv, OnlyLast
<1>6. clock <= fly.limit
  BY DEF Exec, HostInv, ClockHeld
<1> QED
  BY <1>1, <1>2, <1>3, <1>4, <1>5, <1>6, StartStep

\* The runner that the client waits for is in the list.
LEMMA MineRules ==
  ASSUME HostInv, client.pc = "await"
  PROVE  /\ Mine \in Pid
         /\ \A q \in Pid : Alive(q) => q = Mine
<1>1. Pid = 1 .. Len(runners) /\ Len(runners) \in Nat
  BY PidRules DEF HostInv
<1>2. CASE transport = "daemon"
  BY <1>1, <1>2 DEF HostInv, Typed, OnlyServer, Mine
<1>3. CASE transport # "daemon"
  BY <1>1, <1>3 DEF HostInv, OnlyLast, Mine
<1> QED
  BY <1>2, <1>3

LEMMA AnsweredStep == ASSUME HostInv, Answered PROVE HostInv'
<1>1. client \in ClientStates /\ client.pc = "await" /\ Mine \in Pid
  BY MineRules DEF Answered, HostInv, Typed
<1>2. /\ UNCHANGED <<transport, clock, fly, input, daemon>>
      /\ client' = [client EXCEPT !.pc = After, !.answer = runners[Mine].reply]
      /\ runners' = [runners EXCEPT ![Mine].reply = Silence]
      /\ runners[Mine].reply # Silence
  BY DEF Answered, ClientOnly
<1>3. SameRunners
  BY <1>1, <1>2, HeardRules DEF HostInv
<1>4. runners[Mine].reply \in Replies
  <2>1. runners[Mine] \in Process
    BY <1>1, PidRules, ElementOfSeq DEF HostInv, Typed
  <2> QED
    BY <2>1 DEF Process
<1>5. After \in {"fetch", "parse"} /\ (After = "fetch" => transport = "remote")
  BY DEF After
<1>6. client' \in ClientStates /\ client'.pc = After
  BY <1>1, <1>2, <1>4, <1>5 DEF ClientStates
<1>7. OnItsPath' /\ input' \in Nat
  BY <1>2, <1>5, <1>6 DEF OnItsPath, HostInv, Typed
<1>8. transport = "oneshot" => \A q \in Pid : ~Alive(q)
  <2> SUFFICES ASSUME transport = "oneshot" PROVE \A q \in Pid : ~Alive(q)
    OBVIOUS
  <2>1. OneJob(runners[Mine])
    BY <1>1 DEF HostInv, OnlyLast
  <2>2. ~Alive(Mine)
    BY <1>2, <2>1 DEF OneJob, Alive
  <2> QED
    BY <1>1, <2>2, MineRules
<1> QED
  BY <1>2, <1>3, <1>5, <1>6, <1>7, <1>8, WaitStep

\* A step that only moves the client to a later point of its path.
LEMMA MoveStep ==
  ASSUME HostInv, UNCHANGED <<transport, clock, fly, daemon, runners>>, input' \in Nat,
         client' \in ClientStates,
         client'.pc \in {"ready", "upload", "exec", "fetch", "parse"},
         client'.pc = "fetch" => transport = "remote",
         client'.pc \in {"upload", "exec"} =>
           clock \in fly.expect /\ client.pc \in {"gate", "upload"},
         transport = "oneshot" => \A q \in Pid : ~Alive(q)
  PROVE  HostInv'
<1>1. SameRunners
  BY DEF SameRunners, HostInv, Typed
<1>2. OnItsPath'
  BY DEF HostInv, OnItsPath
<1> QED
  BY <1>1, <1>2, WaitStep

LEMMA OneshotOver ==
  ASSUME HostInv, client.pc # "await", transport = "oneshot"
  PROVE  \A q \in Pid : ~Alive(q)
  BY DEF HostInv, OnlyLast

LEMMA EofStep == ASSUME HostInv, Eof PROVE HostInv'
<1>1. client \in ClientStates /\ client.pc = "await" /\ ~Alive(Mine) /\ input' = input
      /\ ClientOnly /\ input \in Nat
  BY DEF Eof, HostInv, Typed
<1>2. CASE transport = "daemon"
  <2>1. daemon # 0 /\ Died
    BY <1>1, <1>2 DEF Eof, HostInv, OnlyServer
  <2> QED
    BY <1>1, <1>2, <2>1, DiedStep
<1>3. CASE transport # "daemon"
  <2>1. Goto(After) /\ UNCHANGED <<runners, daemon, transport, clock, fly>>
    BY <1>1, <1>3 DEF Eof, ClientOnly
  <2>2. After \in {"fetch", "parse"} /\ (After = "fetch" => transport = "remote")
    BY DEF After
  <2>3. client' \in ClientStates /\ client'.pc = After
    BY <1>1, <2>1, <2>2, GotoRules
  <2>4. \A q \in Pid : ~Alive(q)
    BY <1>1, MineRules
  <2> QED
    BY <1>1, <2>1, <2>2, <2>3, <2>4, MoveStep
<1> QED
  BY <1>2, <1>3

LEMMA TimedOutStep == ASSUME HostInv, TimedOut PROVE HostInv'
<1>1. client \in ClientStates /\ client.pc = "await" /\ transport # "remote" /\ Mine \in Pid
  BY MineRules DEF TimedOut, HostInv, Typed
<1>2. /\ UNCHANGED <<transport, clock, fly, input>> /\ daemon' = 0
      /\ client' = [client EXCEPT !.pc = After, !.late = TRUE]
      /\ runners' = Killed(Mine)
  BY DEF TimedOut, ClientOnly
<1>3. After = "parse"
  BY <1>1 DEF After
<1>4. client' \in ClientStates /\ client'.pc = "parse"
  BY <1>1, <1>2, <1>3 DEF ClientStates
<1>5. GoneRunner(Mine)
  BY <1>1, <1>2, KilledRules DEF HostInv
<1>6. OnItsPath'
  BY <1>4 DEF OnItsPath
<1> QED
  BY <1>1, <1>2, <1>4, <1>5, <1>6, MineRules, KillStep

LEMMA RemoteWaitStep == ASSUME HostInv, TimedOutRemote \/ Truncated PROVE HostInv'
<1>1. client \in ClientStates /\ transport = "remote" /\ input \in Nat /\ After = "fetch"
  BY DEF TimedOutRemote, Truncated, HostInv, Typed, After
<1>2. UNCHANGED <<transport, clock, fly, input, daemon, runners>>
  BY DEF TimedOutRemote, Truncated, ClientOnly
<1>3. client' \in ClientStates /\ client'.pc = "fetch"
  <2>1. CASE TimedOutRemote
    BY <1>1, <2>1 DEF TimedOutRemote, ClientStates
  <2>2. CASE Truncated
    <3>1. PICK n \in {-1, 0} :
            client' = [client EXCEPT !.pc = "fetch", !.answer = [ran |-> 0, rc |-> 1, n |-> n]]
      BY <2>2 DEF Truncated
    <3>2. [ran |-> 0, rc |-> 1, n |-> n] \in Replies
      BY DEF Replies
    <3> QED
      BY <1>1, <3>1, <3>2 DEF ClientStates
  <2> QED
    BY <2>1, <2>2
<1> QED
  BY <1>1, <1>2, <1>3, MoveStep

\* Gate, Upload, Fetch and the parsing of the answer.
LEMMA PathStep ==
  ASSUME HostInv, Gate \/ Upload \/ Fetch \/ Parse \/ ParseRemote
  PROVE  HostInv'
<1>1. client \in ClientStates /\ client.pc \in {"gate", "upload", "fetch", "parse"}
      /\ input \in Nat /\ client.job \in Nat
  BY DEF Gate, Upload, Fetch, Parse, ParseRemote, Parsed, HostInv, Typed, ClientStates
<1>2. UNCHANGED <<transport, clock, fly, daemon, runners>> /\ input' \in Nat
  BY <1>1 DEF Gate, Upload, Fetch, Parse, ParseRemote, Parsed, Fail, ClientOnly
<1>3. transport = "oneshot" => \A q \in Pid : ~Alive(q)
  BY <1>1, OneshotOver
<1>4. CASE Goto("ready")
  <2>1. client' \in ClientStates /\ client'.pc = "ready"
    BY <1>1, <1>4, GotoRules
  <2> QED
    BY <1>2, <1>3, <2>1, MoveStep
<1>5. CASE client.pc = "gate" /\ clock \in fly.expect /\ Goto("upload")
  <2>1. client' \in ClientStates /\ client'.pc = "upload"
    BY <1>1, <1>5, GotoRules
  <2> QED
    BY <1>2, <1>3, <1>5, <2>1, MoveStep
<1>6. CASE client.pc = "upload" /\ Goto("exec")
  <2>1. client' \in ClientStates /\ client'.pc = "exec"
    BY <1>1, <1>6, GotoRules
  <2>2. clock \in fly.expect
    BY <1>6 DEF HostInv, ClockHeld
  <2> QED
    BY <1>2, <1>3, <1>6, <2>1, <2>2, MoveStep
<1>7. CASE Goto("parse")
  <2>1. client' \in ClientStates /\ client'.pc = "parse"
    BY <1>1, <1>7, GotoRules
  <2> QED
    BY <1>2, <1>3, <2>1, MoveStep
<1> QED
  BY <1>4, <1>5, <1>6, <1>7
     DEF Gate, ClockRight, Upload, Fetch, Parse, ParseRemote, Parsed, Fail, Tell

LEMMA LoseClockStep == ASSUME HostInv, LoseClock PROVE HostInv'
<1>1. /\ transport = "remote" /\ client.pc = "ready"
      /\ \A p \in Pid : runners[p].pc # "run"
      /\ UNCHANGED <<transport, client, runners, daemon, input, fly>>
  BY DEF LoseClock, Alive
<1>2. Typed' /\ OnItsPath' /\ OnlyServer' /\ OnlyLast'
  BY <1>1 DEF HostInv, Typed, OnItsPath, OnlyServer, OnlyLast, OneJob, Alive, Pid
<1>3. ClockHeld'
  BY <1>1 DEF HostInv, ClockHeld, Pid
<1> QED
  BY <1>2, <1>3 DEF HostInv

LEMMA NextStep == HostInv /\ [Next]_vars => HostInv'
<1> SUFFICES ASSUME HostInv, [Next]_vars PROVE HostInv'
  OBVIOUS
<1>1. CASE UNCHANGED vars
  BY <1>1 DEF vars, HostInv, Typed, OnItsPath, OnlyServer, OnlyLast, ClockHeld, OneJob, Alive, Pid
<1>2. CASE Client
  BY <1>2, SubmitStep, AcquireStep, HelloStep, SendStep, LaunchStep, AnsweredStep, EofStep,
     TimedOutStep, RemoteWaitStep, PathStep, ExecStep DEF Client
<1>3. CASE LoseClock
  BY <1>3, LoseClockStep
<1>4. CASE \E p \in Pid : Runner(p)
  BY <1>4, RunnerStep
<1> QED
  BY <1>1, <1>2, <1>3, <1>4 DEF Next

\* At most one process of the list can live, so at most one runs a job.
LEMMA OneFollows == HostInv => OneRunner
<1> SUFFICES ASSUME HostInv PROVE OneRunner
  OBVIOUS
<1> DEFINE Running == {p \in Pid : runners[p].pc \in {"run", "reply"}}
<1>1. \E p : Running \subseteq {p}
  BY SMTT(30) DEF HostInv, OnlyServer, OnlyLast, Alive
<1>2. Cardinality(Running) <= 1
  <2>1. PICK p : Running \subseteq {p}
    BY <1>1
  <2>2. IsFiniteSet({p}) /\ Cardinality({p}) = 1
    BY FS_Singleton
  <2> HIDE DEF Running
  <2> QED
    BY <2>1, <2>2, FS_Subset
<1>3. \A p \in Pid : runners[p].pc = "run" => clock <= fly.limit
  BY DEF HostInv, ClockHeld
<1> QED
  BY <1>2, <1>3 DEF OneRunner

\* Two runners never drive one card at a time, and none runs at a clock faster
\* than is right for its image: for every number of files, captures and jobs,
\* and whatever times out, dies or is cut off (run_job, run_job_remote).
THEOREM OneRunnerHolds == Spec => []OneRunner
<1>1. Init => HostInv
  BY InitHost
<1>2. HostInv /\ [Next]_vars => HostInv'
  BY NextStep
<1>3. HostInv => OneRunner
  BY OneFollows
<1> QED
  BY <1>1, <1>2, <1>3, PTL DEF Spec
-----------------------------------------------------------------------------
(* The capture file that a runner writes.                                  *)

\* What the runner of a job writes in one part of its script.
From(rec, job, f) ==
  IF IsMarker(f) THEN rec = [tag |-> MarkTag(job, Number(f)), value |-> {}]
  ELSE \E i \in 1 .. Caps : rec = [tag |-> CapTag(i), value |-> {<<job, Number(f)>>}]

Records(job) ==
  {rec \in [tag : {MarkTag(job, k) : k \in 0 .. Files} \cup {CapTag(i) : i \in 1 .. Caps},
            value : {{}} \cup {{<<job, k>>} : k \in Payload}] :
     \E f \in Parts : From(rec, job, f)}

\* A capture file as the runner that has come to a part leaves it: the records
\* in the order of the script, each marker once and none of them skipped.
InOrder(caps, job) ==
  \A i, j \in DOMAIN caps : \A f, g \in Parts :
    i < j /\ From(caps[i], job, f) /\ From(caps[j], job, g) => f <= g /\ (IsMarker(f) => f < g)

NoneSkipped(caps, job) ==
  \A j \in DOMAIN caps : \A f, g \in Parts :
    From(caps[j], job, g) /\ f < g /\ IsMarker(f) =>
      \E i \in DOMAIN caps : i < j /\ From(caps[i], job, f)

UpTo(caps, job, part) ==
  /\ \A i \in DOMAIN caps : \A f \in Parts :
       From(caps[i], job, f) => f <= part /\ (IsMarker(f) => f < part)
  /\ \A f \in Parts : f < part /\ IsMarker(f) => \E i \in DOMAIN caps : From(caps[i], job, f)

Written(caps, job, part) ==
  caps \in Seq(Records(job)) /\ InOrder(caps, job) /\ NoneSkipped(caps, job)
  /\ UpTo(caps, job, part)

\* Markers and files take turns.
LEMMA PartRules ==
  ASSUME NEW f \in Parts
  PROVE  /\ f \in Nat /\ Number(f) \in Nat /\ IsMarker(f) \in BOOLEAN
         /\ IsMarker(f) => f = 2 * Number(f) + 1 /\ Number(f) \in 0 .. Files
         /\ ~IsMarker(f) => f = 2 * Number(f) /\ Number(f) \in Payload
         /\ IsMarker(f + 1) <=> ~IsMarker(f)
<1>1. Files \in Nat /\ f \in 1 .. 2 * Files + 1
  BY FilesAssumption DEF Parts
<1>2. /\ f % 2 \in {0, 1} /\ f \div 2 \in Nat /\ f = 2 * (f \div 2) + (f % 2)
      /\ (f + 1) % 2 = 1 <=> f % 2 = 0
  BY <1>1
<1> QED
  BY <1>1, <1>2 DEF IsMarker, Number, Payload

LEMMA FromMarker ==
  ASSUME NEW rec, NEW job, NEW f \in Parts, From(rec, job, f)
  PROVE  /\ rec.tag[1] = "mark" <=> IsMarker(f)
         /\ ~IsMarker(f) => rec.value = {<<job, Number(f)>>}
  BY PartRules DEF From, MarkTag, CapTag

\* A record tells which part it is from.
LEMMA FromUnique ==
  ASSUME NEW rec, NEW job, NEW f \in Parts, NEW g \in Parts, From(rec, job, f), From(rec, job, g)
  PROVE  f = g
<1>1. \A h \in Parts : From(rec, job, h) => (rec.tag[1] = "mark" <=> IsMarker(h))
  BY FromMarker
<1>2. CASE IsMarker(f)
  <2>1. IsMarker(g)
    BY <1>1, <1>2
  <2>2. rec.tag[3] = Number(f) /\ rec.tag[3] = Number(g)
    BY <1>2, <2>1 DEF From, MarkTag
  <2> QED
    BY <1>2, <2>1, <2>2, PartRules
<1>3. CASE ~IsMarker(f)
  <2>1. ~IsMarker(g)
    BY <1>1, <1>3
  <2>2. rec.value = {<<job, Number(f)>>} /\ rec.value = {<<job, Number(g)>>}
    BY <1>3, <2>1 DEF From
  <2>3. <<job, Number(f)>> = <<job, Number(g)>>
    BY <2>2
  <2> QED
    BY <1>3, <2>1, <2>3, PartRules
<1> QED
  BY <1>2, <1>3

LEMMA FromIsRecord ==
  ASSUME NEW rec, NEW job, NEW f \in Parts, From(rec, job, f)
  PROVE  rec \in Records(job)
  BY PartRules DEF From, Records

\* The file that was truncated.
LEMMA WrittenOpen ==
  ASSUME NEW job
  PROVE  Written(<< >>, job, 1)
<1>1. << >> \in Seq(Records(job)) /\ DOMAIN << >> = {}
  BY EmptySeq
<1>2. \A f \in Parts : ~(f < 1)
  BY PartRules DEF Parts
<1> QED
  BY <1>1, <1>2 DEF Written, InOrder, NoneSkipped, UpTo

\* The end of a file's part, or a stall in it.
LEMMA WrittenOnward ==
  ASSUME NEW caps, NEW job, NEW part \in Parts, ~IsMarker(part), Written(caps, job, part)
  PROVE  Written(caps, job, part + 1)
<1>1. \A f \in Parts : f < part + 1 /\ IsMarker(f) => f < part
  BY PartRules
<1>2. \A f \in Parts : f <= part => f <= part + 1 /\ f < part + 1
  BY PartRules
<1> QED
  BY <1>1, <1>2 DEF Written, UpTo

LEMMA WrittenAppend ==
  ASSUME NEW caps, NEW job, NEW part \in Parts, NEW rec, Written(caps, job, part),
         From(rec, job, part)
  PROVE  /\ ~IsMarker(part) => Written(Append(caps, rec), job, part)
         /\ Written(Append(caps, rec), job, part + 1)
<1> DEFINE next == Append(caps, rec)
<1>1. caps \in Seq(Records(job)) /\ rec \in Records(job)
  BY FromIsRecord DEF Written
<1>2. /\ next \in Seq(Records(job)) /\ Len(caps) \in Nat /\ Len(next) = Len(caps) + 1
      /\ DOMAIN caps = 1 .. Len(caps) /\ DOMAIN next = 1 .. Len(next)
      /\ \A i \in 1 .. Len(caps) : next[i] = caps[i]
      /\ next[Len(caps) + 1] = rec
  <2>1. /\ next \in Seq(Records(job)) /\ Len(next) = Len(caps) + 1
        /\ \A i \in 1 .. Len(caps) : next[i] = caps[i]
        /\ next[Len(caps) + 1] = rec
    BY <1>1, AppendProperties
  <2> HIDE DEF next
  <2> QED
    BY <1>1, <2>1, LenProperties
<1> DEFINE last == Len(caps) + 1
<1>3. DOMAIN next = DOMAIN caps \cup {last} /\ \A i \in DOMAIN caps : i < last /\ i # last
  BY <1>2
<1> HIDE DEF next
<1>4. \A g \in Parts : From(next[last], job, g) => g = part
  BY <1>2, FromUnique
<1>5. \A i \in DOMAIN caps : \A f \in Parts :
        From(caps[i], job, f) => f <= part /\ (IsMarker(f) => f < part)
  BY DEF Written, UpTo
<1>6. \A i \in DOMAIN caps : next[i] = caps[i]
  BY <1>2
<1>7. InOrder(next, job)
  <2> SUFFICES ASSUME NEW i \in DOMAIN next, NEW j \in DOMAIN next, NEW f \in Parts, NEW g \in Parts,
                      i < j, From(next[i], job, f), From(next[j], job, g)
               PROVE  f <= g /\ (IsMarker(f) => f < g)
    BY DEF InOrder
  <2>1. i \in DOMAIN caps
    BY <1>2, <1>3
  <2>2. CASE j \in DOMAIN caps
    BY <1>6, <2>1, <2>2 DEF Written, InOrder
  <2>3. CASE j = last
    BY <1>4, <1>5, <1>6, <2>1, <2>3
  <2> QED
    BY <1>3, <2>2, <2>3
<1>8. NoneSkipped(next, job)
  <2> SUFFICES ASSUME NEW j \in DOMAIN next, NEW f \in Parts, NEW g \in Parts,
                      From(next[j], job, g), f < g, IsMarker(f)
               PROVE  \E i \in DOMAIN next : i < j /\ From(next[i], job, f)
    BY DEF NoneSkipped
  <2>1. CASE j \in DOMAIN caps
    <3>1. PICK i \in DOMAIN caps : i < j /\ From(caps[i], job, f)
      BY <1>6, <2>1 DEF Written, NoneSkipped
    <3> QED
      BY <1>3, <1>6, <3>1
  <2>2. CASE j = last
    <3>1. PICK i \in DOMAIN caps : From(caps[i], job, f)
      BY <1>4, <2>2 DEF Written, UpTo
    <3> QED
      BY <1>3, <1>6, <2>2, <3>1
  <2> QED
    BY <1>3, <2>1, <2>2
<1>9. part \in Nat /\ \A f \in Parts : f \in Nat
  BY PartRules
<1>10. ASSUME NEW f \in Parts, f < part + 1, IsMarker(f)
       PROVE  \E i \in DOMAIN next : From(next[i], job, f)
  <2>1. CASE f = part
    BY <1>2, <1>3, <2>1
  <2>2. CASE f # part
    <3>1. PICK i \in DOMAIN caps : From(caps[i], job, f)
      BY <1>9, <1>10, <2>2 DEF Written, UpTo
    <3> QED
      BY <1>3, <1>6, <3>1
  <2> QED
    BY <2>1, <2>2
<1>11. ASSUME NEW i \in DOMAIN next, NEW f \in Parts, From(next[i], job, f)
       PROVE  f <= part /\ (IsMarker(f) /\ ~IsMarker(part) => f < part)
  BY <1>3, <1>4, <1>5, <1>6, <1>9, <1>11
<1>12. UpTo(next, job, part + 1)
  BY <1>9, <1>10, <1>11 DEF UpTo
<1>13. ~IsMarker(part) => UpTo(next, job, part)
  BY <1>9, <1>10, <1>11 DEF UpTo
<1> QED
  BY <1>2, <1>7, <1>8, <1>12, <1>13 DEF Written, next

\* Where a marker is found.
LEMMA MarkAtRules ==
  ASSUME NEW caps, NEW job, NEW part, Written(caps, job, part), NEW f \in Parts, IsMarker(f)
  PROVE  LET m == MarkAt(caps, job, Number(f))
         IN  /\ m \in 1 .. Len(caps) + 1
             /\ m <= Len(caps) => From(caps[m], job, f)
             /\ \A i \in 1 .. m - 1 : ~From(caps[i], job, f)
<1> DEFINE k == Number(f)
           Is(m) == /\ m <= Len(caps) => caps[m].tag = MarkTag(job, k)
                    /\ \A j \in 1 .. m - 1 : caps[j].tag # MarkTag(job, k)
<1>1. Len(caps) \in Nat /\ DOMAIN caps = 1 .. Len(caps)
      /\ \A i \in 1 .. Len(caps) : \E g \in Parts : From(caps[i], job, g)
  <2>1. caps \in Seq(Records(job))
    BY DEF Written
  <2>2. \A i \in 1 .. Len(caps) : caps[i] \in Records(job)
    BY <2>1, ElementOfSeq
  <2> QED
    BY <2>1, <2>2, LenProperties DEF Records
<1>2. ASSUME NEW i \in 1 .. Len(caps)
      PROVE  caps[i].tag = MarkTag(job, k) <=> From(caps[i], job, f)
  <2>1. PICK g \in Parts : From(caps[i], job, g)
    BY <1>1, <1>2
  <2>2. ASSUME caps[i].tag = MarkTag(job, k)
        PROVE  From(caps[i], job, f)
    <3>1. caps[i].tag[1] = "mark" /\ caps[i].tag[3] = k
      BY <2>2 DEF MarkTag
    <3>2. IsMarker(g)
      BY <2>1, <3>1, FromMarker
    <3>3. Number(g) = k
      BY <2>1, <3>1, <3>2 DEF From, MarkTag
    <3>4. g = f
      BY <3>2, <3>3, PartRules
    <3> QED
      BY <2>1, <3>4
  <2>3. From(caps[i], job, f) => caps[i].tag = MarkTag(job, k)
    BY DEF From
  <2> QED
    BY <2>2, <2>3
<1>3. \E m \in 1 .. Len(caps) + 1 : Is(m)
  <2>1. CASE \E i \in 1 .. Len(caps) : From(caps[i], job, f)
    <3>1. PICK i \in 1 .. Len(caps) : From(caps[i], job, f)
      BY <2>1
    <3>2. ASSUME NEW j \in 1 .. i - 1
          PROVE  ~From(caps[j], job, f)
      <4>1. j \in 1 .. Len(caps) /\ j < i
        BY <1>1, <3>1
      <4>2. f \in Nat /\ ~(f < f)
        BY PartRules
      <4> QED
        BY <1>1, <3>1, <4>1, <4>2 DEF Written, InOrder
    <3>3. i \in 1 .. Len(caps) + 1 /\ \A j \in 1 .. i - 1 : j \in 1 .. Len(caps)
      BY <1>1, <3>1
    <3>4. Is(i)
      BY <1>2, <3>1, <3>2, <3>3
    <3> QED
      BY <3>3, <3>4
  <2>2. CASE \A i \in 1 .. Len(caps) : ~From(caps[i], job, f)
    <3>1. Len(caps) + 1 \in 1 .. Len(caps) + 1 /\ ~(Len(caps) + 1 <= Len(caps))
          /\ \A j \in 1 .. Len(caps) + 1 - 1 : j \in 1 .. Len(caps)
      BY <1>1
    <3>2. Is(Len(caps) + 1)
      BY <1>2, <2>2, <3>1
    <3> QED
      BY <3>1, <3>2
  <2> QED
    BY <2>1, <2>2
<1> DEFINE m == MarkAt(caps, job, k)
<1>4. m = CHOOSE i \in 1 .. Len(caps) + 1 : Is(i)
  BY DEF MarkAt
<1> HIDE DEF Is, m
<1>5. m \in 1 .. Len(caps) + 1 /\ Is(m)
  BY <1>3, <1>4, Zenon
<1>6. /\ m <= Len(caps) => m \in 1 .. Len(caps)
      /\ \A i \in 1 .. m - 1 : i \in 1 .. Len(caps)
  BY <1>1, <1>5
<1>7. m <= Len(caps) => From(caps[m], job, f)
  BY <1>2, <1>5, <1>6 DEF Is
<1>8. \A i \in 1 .. m - 1 : ~From(caps[i], job, f)
  BY <1>2, <1>5, <1>6 DEF Is
<1> QED
  BY <1>5, <1>7, <1>8 DEF m

\* What lies between a file's two markers is the file's.
LEMMA SegmentIsOwn ==
  ASSUME NEW caps, NEW job, NEW part, Written(caps, job, part), NEW k \in Payload
  PROVE  /\ Segment(caps, job, k) \in Seq(Records(job))
         /\ \A n \in DOMAIN Segment(caps, job, k) : Segment(caps, job, k)[n].value = {<<job, k>>}
<1> DEFINE f == 2 * k - 1
           g == 2 * k + 1
           a == MarkAt(caps, job, k - 1)
           b == MarkAt(caps, job, k)
<1>1. /\ k \in Nat /\ f \in Parts /\ g \in Parts /\ 2 * k \in Parts
      /\ IsMarker(f) /\ IsMarker(g) /\ ~IsMarker(2 * k)
      /\ Number(f) = k - 1 /\ Number(g) = k /\ Number(2 * k) = k
  <2>1. Files \in Nat /\ k \in Nat /\ 1 <= k /\ k <= Files
    BY FilesAssumption DEF Payload
  <2>2. f \in Parts /\ g \in Parts /\ 2 * k \in Parts
    BY <2>1 DEF Parts
  <2>3. f % 2 = 1 /\ g % 2 = 1 /\ (2 * k) % 2 = 0 /\ f \div 2 = k - 1 /\ g \div 2 = k
        /\ (2 * k) \div 2 = k
    BY <2>1
  <2> QED
    BY <2>1, <2>2, <2>3 DEF IsMarker, Number
<1> HIDE DEF f, g
<1>2. /\ a \in 1 .. Len(caps) + 1 /\ (a <= Len(caps) => From(caps[a], job, f))
      /\ b \in 1 .. Len(caps) + 1 /\ \A i \in 1 .. b - 1 : ~From(caps[i], job, g)
  BY <1>1, MarkAtRules
<1> HIDE DEF a, b
<1>3. Len(caps) \in Nat /\ DOMAIN caps = 1 .. Len(caps)
      /\ \A i \in 1 .. Len(caps) : caps[i] \in Records(job)
  <2>1. caps \in Seq(Records(job))
    BY DEF Written
  <2> QED
    BY <2>1, ElementOfSeq, LenProperties
<1>4. a + 1 \in Int /\ b - 1 \in Int /\ \A i \in a + 1 .. b - 1 : i \in 1 .. Len(caps) /\ i \in 1 .. b - 1
  BY <1>2, <1>3
<1> DEFINE seg == SubSeq(caps, a + 1, b - 1)
<1>5. /\ seg \in Seq(Records(job))
      /\ Len(seg) = IF a + 1 <= b - 1 THEN (b - 1) - (a + 1) + 1 ELSE 0
      /\ \A n \in 1 .. (b - 1) - (a + 1) + 1 : seg[n] = caps[(a + 1) + n - 1]
  <2>1. \A i \in a + 1 .. b - 1 : caps[i] \in Records(job)
    BY <1>3, <1>4
  <2> QED
    BY <1>4, <2>1, SubSeqProperties
<1>6. Segment(caps, job, k) = seg
  BY DEF Segment, a, b
<1> HIDE DEF seg
<1>7. ASSUME NEW n \in DOMAIN seg
      PROVE  \E i \in a + 1 .. b - 1 : seg[n] = caps[i]
  <2>1. DOMAIN seg = 1 .. Len(seg)
    BY <1>5, LenProperties
  <2>2. n \in 1 .. (b - 1) - (a + 1) + 1 /\ (a + 1) + n - 1 \in a + 1 .. b - 1
    BY <1>2, <1>3, <1>5, <1>7, <2>1
  <2> QED
    BY <1>5, <2>2
<1>8. ASSUME NEW i \in a + 1 .. b - 1
      PROVE  caps[i].value = {<<job, k>>}
  <2>1. i \in DOMAIN caps /\ a \in DOMAIN caps /\ a < i /\ From(caps[a], job, f)
    BY <1>2, <1>3, <1>4, <1>8
  <2>2. PICK h \in Parts : From(caps[i], job, h)
    BY <1>3, <2>1 DEF Records
  <2>3. f < h
    BY <1>1, <2>1, <2>2 DEF Written, InOrder
  <2>4. h # g
    BY <1>2, <1>4, <2>2
  <2>5. ~(g < h)
    <3> SUFFICES ASSUME g < h PROVE FALSE
      OBVIOUS
    <3>1. PICK j \in DOMAIN caps : j < i /\ From(caps[j], job, g)
      BY <1>1, <2>1, <2>2 DEF Written, NoneSkipped
    <3>2. j \in 1 .. b - 1
      BY <1>2, <1>3, <1>4, <3>1
    <3> QED
      BY <1>2, <3>1, <3>2
  <2>6. h = 2 * k
    BY <1>1, <2>3, <2>4, <2>5, PartRules DEF f, g
  <2> QED
    BY <1>1, <2>2, <2>6, FromMarker
<1> QED
  BY <1>5, <1>6, <1>7, <1>8
-----------------------------------------------------------------------------
(* Whose captures the session is told.                                     *)

Running(r) == r.pc \in {"run", "reply"}

\* Where in its script a runner can be, and what the tile holds there.
Position(r, t) ==
  r.part # 0 =>
    /\ r.part \in 1 .. 2 * Files + 2
    /\ r.part \in Parts => r.at \in 1 .. Len(Script(r.part))
    /\ r.at = 2 => t = {}
    /\ r.at > 2 => t = {<<r.job, Number(r.part)>>}

\* The one runner that drives the card runs the session's job, alone in the
\* tile, and wrote what is in the capture file that it has open.
RunnersOwn ==
  \A p \in Pid : Running(runners[p]) =>
    /\ runners[p].job = client.job /\ runners[p].reply = Silence
    /\ transport # "remote" => client.pc = "await"
    /\ runners[p].pc = "run" => Position(runners[p], tile)
    /\ runners[p].pc = "run" /\ runners[p].linked => Written(capfile, client.job, runners[p].part)

Partial(caps, job) == \E part \in Nat : Written(caps, job, part)

\* The capture file is the job's own, and so is the answer, from the moment
\* the job's run starts (over ssh), or from its submission (on the host).
FileOwn ==
  transport # "remote" \/ client.pc \in {"await", "fetch", "parse"} =>
    capfile = None \/ Partial(capfile, client.job)

AnswerOwn ==
  /\ client.pc = "exec" => input = client.job
  /\ client.pc = "await" => /\ runners[Mine].pc # "attach"
                            /\ runners[Mine].reply = Silence \/ runners[Mine].reply.ran = client.job
  /\ client.answer.rc = 0 => client.answer.ran = client.job

OwnInv == RunnersOwn /\ FileOwn /\ AnswerOwn /\ OkIsOwn

LEMMA InitOwn == Init => OwnInv
<1> SUFFICES ASSUME Init PROVE OwnInv
  OBVIOUS
<1>1. Pid = {} /\ capfile = None /\ client.pc = "ready" /\ client.answer = NoAnswer /\ told = Untold
  BY EmptySeq DEF Init, Pid
<1>2. OkIsOwn
  BY <1>1 DEF OkIsOwn, Untold
<1> QED
  BY <1>1, <1>2 DEF OwnInv, RunnersOwn, FileOwn, AnswerOwn, NoAnswer

\* What the session is told of a file that its job's runner wrote.
LEMMA TellOwn ==
  ASSUME NEW raised, NEW caps, Tell(raised, caps), Partial(caps, client.job), AnswerOwn
  PROVE  OkIsOwn'
<1> DEFINE job == client.job
<1>1. PICK part : Written(caps, job, part)
  BY DEF Partial
<1>2. /\ told'.job = job /\ told'.ran = client.answer.ran
      /\ told'.ok => client.answer.rc = 0
      /\ told'.batchOk => DemuxOk(caps, job)
      /\ told'.values = {caps[i].value : i \in {m \in DOMAIN caps : caps[m].tag[1] = "cap"}}
      /\ told'.files = Demux(caps, job)
  BY DEF Tell, Verdict
<1>3. told'.values \subseteq Own(job)
  <2> SUFFICES ASSUME NEW i \in DOMAIN caps, caps[i].tag[1] = "cap" PROVE caps[i].value \in Own(job)
    BY <1>2
  <2>1. caps \in Seq(Records(job))
    BY <1>1 DEF Written
  <2>2. caps[i] \in Records(job)
    BY <2>1, ElementOfSeq, LenProperties
  <2>3. PICK f \in Parts : From(caps[i], job, f)
    BY <2>2 DEF Records
  <2>4. caps[i].value = {<<job, Number(f)>>} /\ Number(f) \in Payload
    BY <2>3, FromMarker, PartRules
  <2> QED
    BY <2>4 DEF Own
<1>4. ASSUME NEW k \in Payload
      PROVE  /\ told'.files[k].values \subseteq {{<<job, k>>}}
             /\ told'.files[k].complete => told'.files[k].values = {{<<job, k>>}}
  <2> DEFINE seg == Segment(caps, job, k)
  <2>1. told'.files[k].values = {seg[n].value : n \in DOMAIN seg}
        /\ told'.files[k].complete = (TagsOf(seg) = Manifest)
    BY <1>2 DEF Demux, FileResult
  <2>2. \A n \in DOMAIN seg : seg[n].value = {<<job, k>>}
    BY <1>1, SegmentIsOwn
  <2>3. TagsOf(seg) = Manifest => 1 \in DOMAIN seg
    BY CapsAssumption DEF TagsOf, Manifest
  <2> HIDE DEF seg
  <2>4. told'.files[k].values \subseteq {{<<job, k>>}}
    BY <2>1, <2>2
  <2>5. ASSUME told'.files[k].complete
        PROVE  {<<job, k>>} \in told'.files[k].values
    <3>1. 1 \in DOMAIN seg
      BY <2>1, <2>3, <2>5
    <3>2. seg[1].value \in told'.files[k].values /\ seg[1].value = {<<job, k>>}
      BY <2>1, <2>2, <3>1
    <3> QED
      BY <3>2
  <2> QED
    BY <2>4, <2>5
<1>5. told'.batchOk => \A k \in Payload : told'.files[k].complete
  BY <1>2 DEF DemuxOk
<1> QED
  BY <1>2, <1>3, <1>4, <1>5 DEF OkIsOwn, AnswerOwn

\* Where the operations of a file are in its script.
LEMMA ScriptRules ==
  ASSUME NEW part \in Parts
  PROVE  LET s == Script(part)
         IN  /\ s[1] = "reset"
             /\ IsMarker(part) => Len(s) = 2 /\ s[2] = "mark"
             /\ ~IsMarker(part) => /\ Len(s) = Caps + 2 /\ s[2] = "load"
                                   /\ \A i \in 3 .. Caps + 2 : s[i] = "cap"
<1>1. CASE IsMarker(part)
  BY <1>1 DEF Script
<1>2. CASE ~IsMarker(part)
  <2> DEFINE S == {"reset", "load", "cap"}
             a == <<"reset", "load">>
             b == [i \in 1 .. Caps |-> "cap"]
  <2>1. a \in Seq(S) /\ Len(a) = 2 /\ a[1] = "reset" /\ a[2] = "load"
    OBVIOUS
  <2>2. Caps \in Nat /\ b \in Seq(S) /\ \A i \in 1 .. Caps : b[i] = "cap"
    BY CapsAssumption, SeqDef
  <2>3. Len(b) = Caps
    BY <2>2, LenProperties
  <2>4. Script(part) = a \o b
    BY <1>2 DEF Script
  <2> HIDE DEF a, b
  <2>5. /\ Len(a \o b) = Caps + 2
        /\ \A i \in 1 .. Caps + 2 : (a \o b)[i] = IF i <= 2 THEN a[i] ELSE b[i - 2]
    <3>1. /\ Len(a \o b) = Len(a) + Len(b)
          /\ \A i \in 1 .. Len(a) + Len(b) :
               (a \o b)[i] = IF i <= Len(a) THEN a[i] ELSE b[i - Len(a)]
      BY <2>1, <2>2, ConcatProperties
    <3>2. Len(a) = 2 /\ Len(a) + Len(b) = Caps + 2
      BY <2>1, <2>2, <2>3
    <3> QED
      BY <3>1, <3>2
  <2>6. 1 \in 1 .. Caps + 2 /\ 2 \in 1 .. Caps + 2 /\ \A i \in 3 .. Caps + 2 : i - 2 \in 1 .. Caps
        /\ i \in 1 .. Caps + 2 /\ ~(i <= 2)
    BY <2>2
  <2>7. (a \o b)[1] = "reset" /\ (a \o b)[2] = "load"
    BY <2>1, <2>5, <2>6
  <2>8. \A i \in 3 .. Caps + 2 : (a \o b)[i] = "cap"
    BY <2>2, <2>5, <2>6
  <2> QED
    BY <1>2, <2>4, <2>5, <2>7, <2>8
<1> QED
  BY <1>1, <1>2
-----------------------------------------------------------------------------
(* The runner's steps keep the captures the job's own.                     *)

\* Where a step of a runner's record can be.
LEMMA RunningFacts ==
  ASSUME HostInv, NEW p \in Pid
  PROVE  /\ runners[p] \in Process
         /\ runners \in Seq(Process) /\ p \in 1 .. Len(runners)
         /\ Running(runners[p]) => \A q \in Pid : Running(runners[q]) => q = p
<1>1. runners[p] \in Process /\ runners \in Seq(Process) /\ p \in 1 .. Len(runners)
  BY PidRules, ElementOfSeq DEF HostInv, Typed
<1>2. \A q \in Pid : Running(runners[q]) => Alive(q)
  BY DEF Running, Alive
<1> QED
  BY <1>1, <1>2 DEF HostInv, OnlyServer, OnlyLast

\* A step that replaces one runner's record by a good one.
LEMMA OwnByRunner ==
  ASSUME HostInv, OwnInv, NEW p \in Pid, NEW r \in Process, RunnerOnly,
         runners' = [runners EXCEPT ![p] = r],
         Running(r) => /\ Running(runners[p]) /\ r.job = runners[p].job /\ r.reply = runners[p].reply
                       /\ r.pc = "run" => Position(r, tile')
                       /\ r.pc = "run" /\ r.linked => Written(capfile', client.job, r.part),
         UNCHANGED <<tile, capfile>> \/ Running(runners[p]),
         capfile' = capfile \/ Partial(capfile', client.job),
         r.pc = "attach" => runners[p].pc = "attach",
         \/ r.reply = runners[p].reply
         \/ r.reply.ran = client.job
         \/ runners[p].pc = "attach"
  PROVE  OwnInv'
<1>1. UNCHANGED <<transport, client, daemon, input, told>>
  BY DEF RunnerOnly
<1>2. /\ Len(runners') = Len(runners) /\ Pid' = Pid
      /\ \A q \in Pid : runners'[q] = IF q = p THEN r ELSE runners[q]
  <2>1. /\ runners' \in Seq(Process) /\ Len(runners') = Len(runners)
        /\ \A q \in 1 .. Len(runners) : runners'[q] = IF q = p THEN r ELSE runners[q]
    BY RunningFacts, ExceptSeq
  <2> QED
    BY <2>1, PidRules, PidRulesPrime DEF HostInv
<1>3. RunnersOwn'
  <2> SUFFICES ASSUME NEW q \in Pid, Running(runners'[q])
               PROVE  /\ runners'[q].job = client.job /\ runners'[q].reply = Silence
                      /\ transport # "remote" => client.pc = "await"
                      /\ runners'[q].pc = "run" => Position(runners'[q], tile')
                      /\ runners'[q].pc = "run" /\ runners'[q].linked =>
                           Written(capfile', client.job, runners'[q].part)
    BY <1>1, <1>2 DEF RunnersOwn
  <2>1. CASE q = p
    BY <1>2, <2>1 DEF OwnInv, RunnersOwn
  <2>2. CASE q # p
    <3>1. runners'[q] = runners[q] /\ Running(runners[q])
      BY <1>2, <2>2
    <3>2. UNCHANGED <<tile, capfile>>
      BY <2>2, <3>1, RunningFacts
    <3> QED
      BY <3>1, <3>2 DEF OwnInv, RunnersOwn
  <2> QED
    BY <2>1, <2>2
<1>4. FileOwn'
  BY <1>1 DEF OwnInv, FileOwn
<1>5. AnswerOwn'
  <2>1. Mine' = Mine
    BY <1>1, <1>2 DEF Mine
  <2>2. CASE client.pc = "await"
    <3>1. Mine \in Pid
      BY <2>2, MineRules
    <3>2. runners'[Mine].pc # "attach"
      BY <1>2, <2>2, <3>1 DEF OwnInv, AnswerOwn
    <3>3. runners'[Mine].reply = Silence \/ runners'[Mine].reply.ran = client.job
      BY <1>2, <2>2, <3>1 DEF OwnInv, AnswerOwn
    <3> QED
      BY <1>1, <2>1, <3>2, <3>3 DEF OwnInv, AnswerOwn
  <2>3. CASE client.pc # "await"
    BY <1>1, <2>3 DEF OwnInv, AnswerOwn
  <2> QED
    BY <2>2, <2>3
<1>6. OkIsOwn'
  BY <1>1 DEF OwnInv, OkIsOwn
<1> QED
  BY <1>3, <1>4, <1>5, <1>6 DEF OwnInv

\* An operation of the script is the one at the runner's place.
LEMMA AtRules ==
  ASSUME HostInv, OwnInv, NEW p \in Pid, NEW op, At(p, op)
  PROVE  LET r == runners[p]
         IN  /\ r \in Process /\ r.pc = "run" /\ Running(r) /\ r.job = client.job
             /\ r.part \in Parts /\ r.at \in 1 .. Len(Script(r.part)) /\ Position(r, tile)
             /\ r.linked => Written(capfile, client.job, r.part)
             /\ op = "reset" => r.at = 1
             /\ op = "mark" => IsMarker(r.part) /\ r.at = 2
             /\ op = "load" => ~IsMarker(r.part) /\ r.at = 2
             /\ op = "cap" => ~IsMarker(r.part) /\ r.at \in 3 .. Caps + 2
<1> DEFINE r == runners[p]
<1>1. r \in Process /\ r.pc = "run" /\ r.part \in Parts /\ Script(r.part)[r.at] = op
  BY RunningFacts DEF At
<1>2. Running(r)
  BY <1>1 DEF Running
<1>3. /\ r.job = client.job /\ Position(r, tile)
      /\ r.linked => Written(capfile, client.job, r.part)
  BY <1>1, <1>2 DEF OwnInv, RunnersOwn
<1> HIDE DEF r
<1>4. r.part # 0 /\ r.at \in 1 .. Len(Script(r.part))
  BY <1>1, <1>3, PartRules DEF Position, Parts
<1>5. CASE IsMarker(r.part)
  <2>1. r.at \in {1, 2}
    BY <1>1, <1>4, <1>5, ScriptRules
  <2> QED
    BY <1>1, <1>2, <1>3, <1>4, <1>5, <2>1, ScriptRules DEF r
<1>6. CASE ~IsMarker(r.part)
  <2>1. Caps \in Nat /\ r.at \in 1 .. Caps + 2
    BY <1>1, <1>4, <1>6, ScriptRules, CapsAssumption
  <2>2. r.at = 1 \/ r.at = 2 \/ r.at \in 3 .. Caps + 2
    BY <2>1
  <2> QED
    BY <1>1, <1>2, <1>3, <1>4, <1>6, <2>2, ScriptRules DEF r
<1> QED
  BY <1>5, <1>6

\* The next operation's place.
LEMMA OnwardPosition ==
  ASSUME NEW r \in Process, r.part \in Parts, r.at \in 1 .. Len(Script(r.part)), NEW t,
         r.at = 1 => t = {},
         r.at > 1 /\ r.at < Len(Script(r.part)) => t = {<<r.job, Number(r.part)>>}
  PROVE  Position(Onward(r), t)
<1>1. Files \in Nat /\ r.part \in 1 .. 2 * Files + 1 /\ Len(Script(r.part)) \in Nat
  BY FilesAssumption, CapsAssumption, ScriptRules DEF Parts
<1>2. CASE r.at < Len(Script(r.part))
  <2>1. Onward(r).part = r.part /\ Onward(r).at = r.at + 1 /\ Onward(r).job = r.job
    BY <1>2, OnwardRules
  <2> QED
    BY <1>1, <1>2, <2>1 DEF Position
<1>3. CASE ~(r.at < Len(Script(r.part)))
  <2>1. Onward(r).part = r.part + 1 /\ Onward(r).at = 1
    BY <1>3, OnwardRules
  <2>2. Onward(r).part \in Parts => 1 \in 1 .. Len(Script(Onward(r).part))
    BY CapsAssumption, ScriptRules
  <2> QED
    BY <1>1, <2>1, <2>2 DEF Position
<1> QED
  BY <1>2, <1>3

LEMMA StopOwn ==
  ASSUME HostInv, OwnInv, NEW p \in Pid, runners[p].pc = "run", RunnerOnly, UNCHANGED capfile,
         runners' = [runners EXCEPT ![p].pc = "reply", ![p].n = -1, ![p].failed = TRUE]
  PROVE  OwnInv'
<1> DEFINE old == runners[p]
           r == [old EXCEPT !.pc = "reply", !.n = -1, !.failed = TRUE]
<1>1. old \in Process
  BY RunningFacts
<1>2. r \in Process /\ r.pc = "reply" /\ r.reply = old.reply /\ r.job = old.job
  <2> HIDE DEF old
  <2> QED
    BY <1>1, StopIsProcess
<1>3. runners' = [runners EXCEPT ![p] = r]
  BY <1>1
<1> HIDE DEF r
<1> QED
  BY <1>2, <1>3, OwnByRunner DEF Running

LEMMA OpenOwn == ASSUME HostInv, OwnInv, NEW p \in Pid, Open(p) PROVE OwnInv'
<1> DEFINE old == runners[p]
           r == [old EXCEPT !.part = 1, !.at = 1, !.linked = TRUE]
<1>1. old \in Process /\ old.pc = "run" /\ Running(old) /\ RunnerOnly
  BY RunningFacts DEF Open, Running
<1>2. CASE runners' = [runners EXCEPT ![p].part = 1, ![p].at = 1, ![p].linked = TRUE]
           /\ capfile' = << >>
  <2>1. r \in Process /\ r.pc = "run" /\ r.reply = old.reply /\ r.job = old.job
        /\ r.part = 1 /\ r.at = 1
    <3> HIDE DEF old
    <3> QED
      BY <1>1, OpenIsProcess
  <2>2. runners' = [runners EXCEPT ![p] = r]
    BY <1>2
  <2>3. Written(capfile', client.job, 1)
    BY <1>2, WrittenOpen
  <2>4. Partial(capfile', client.job)
    BY <2>3 DEF Partial
  <2> HIDE DEF r
  <2>5. Position(r, tile')
    <3>1. 1 \in 1 .. 2 * Files + 2
      BY FilesAssumption
    <3>2. 1 \in Parts => 1 \in 1 .. Len(Script(1))
      BY CapsAssumption, ScriptRules
    <3> QED
      BY <2>1, <3>1, <3>2 DEF Position
  <2> QED
    BY <1>1, <2>1, <2>2, <2>3, <2>4, <2>5, OwnByRunner
<1>3. CASE runners' = [runners EXCEPT ![p].pc = "reply", ![p].n = -1, ![p].failed = TRUE]
           /\ UNCHANGED capfile
  BY <1>1, <1>3, StopOwn
<1> QED
  BY <1>2, <1>3 DEF Open

\* A step to the next operation that writes no record.
LEMMA AheadOwn ==
  ASSUME HostInv, OwnInv, NEW p \in Pid, NEW op \in {"reset", "load"}, At(p, op), RunnerOnly,
         runners' = Ahead(p), UNCHANGED capfile,
         op = "reset" => tile' = {},
         op = "load" => tile' = tile \cup {<<runners[p].job, Number(runners[p].part)>>}
  PROVE  OwnInv'
<1> DEFINE old == runners[p]
           r == Onward(old)
<1>1. old \in Process /\ old.pc = "run" /\ Running(old) /\ old.job = client.job
      /\ old.part \in Parts
      /\ old.at \in 1 .. Len(Script(old.part)) /\ Position(old, tile)
      /\ (old.linked => Written(capfile, client.job, old.part))
  BY AtRules
<1>2. old.at < Len(Script(old.part))
  BY AtRules, ScriptRules, CapsAssumption
<1>3. r \in Process /\ r.pc = "run" /\ r.reply = old.reply /\ r.job = old.job
      /\ r.linked = old.linked
      /\ r.part = old.part
  BY <1>1, <1>2, OnwardRules
<1>4. runners' = [runners EXCEPT ![p] = r]
  BY DEF Ahead
<1>5. Position(r, tile')
  <2>1. op = "reset" => old.at = 1 /\ tile' = {}
    BY AtRules
  <2>2. op = "load" => old.at = 2 /\ tile' = {<<old.job, Number(old.part)>>}
    <3> SUFFICES ASSUME op = "load" PROVE old.at = 2 /\ tile' = {<<old.job, Number(old.part)>>}
      OBVIOUS
    <3>1. old.at = 2
      BY AtRules
    <3>2. tile = {}
      BY <1>1, <3>1, PartRules DEF Position, Parts
    <3> QED
      BY <3>1, <3>2
  <2> HIDE DEF old
  <2> QED
    BY <1>1, <2>1, <2>2, OnwardPosition
<1> HIDE DEF r
<1>6. r.linked => Written(capfile', client.job, r.part)
  BY <1>1, <1>3
<1> QED
  BY <1>1, <1>3, <1>4, <1>5, <1>6, OwnByRunner

LEMMA StallOwn == ASSUME HostInv, OwnInv, NEW p \in Pid, Stall(p) PROVE OwnInv'
<1> DEFINE old == runners[p]
           r == [old EXCEPT !.part = @ + 1, !.at = 1, !.failed = TRUE]
<1>1. At(p, "cap") /\ RunnerOnly /\ UNCHANGED <<tile, capfile>>
  BY DEF Stall
<1>2. old \in Process /\ old.pc = "run" /\ Running(old) /\ old.job = client.job
      /\ old.part \in Parts /\ ~IsMarker(old.part)
      /\ (old.linked => Written(capfile, client.job, old.part))
  BY <1>1, AtRules
<1>3. r \in Process /\ r.pc = "run" /\ r.reply = old.reply /\ r.job = old.job
      /\ r.linked = old.linked /\ r.part = old.part + 1 /\ r.at = 1
  <2> HIDE DEF old
  <2> QED
    BY <1>2, StallIsProcess
<1>4. runners' = [runners EXCEPT ![p] = r]
  BY DEF Stall
<1> HIDE DEF r
<1>5. r.linked => Written(capfile', client.job, r.part)
  BY <1>1, <1>2, <1>3, WrittenOnward
<1>6. Position(r, tile')
  <2>1. old.part + 1 \in 1 .. 2 * Files + 2
    BY <1>2, FilesAssumption DEF Parts
  <2>2. r.part \in Parts => 1 \in 1 .. Len(Script(r.part))
    BY CapsAssumption, ScriptRules
  <2> QED
    BY <1>3, <2>1, <2>2 DEF Position
<1> QED
  BY <1>1, <1>2, <1>3, <1>4, <1>5, <1>6, OwnByRunner

LEMMA WriteOwn ==
  ASSUME HostInv, OwnInv, NEW p \in Pid, NEW op \in {"mark", "cap"}, At(p, op), NEW rec,
         Write(p, rec),
         From(rec, runners[p].job, runners[p].part)
  PROVE  OwnInv'
<1> DEFINE old == runners[p]
           next == Onward(old)
           r == [next EXCEPT !.n = @ + 1]
<1>1. old \in Process /\ old.pc = "run" /\ Running(old) /\ old.job = client.job
      /\ old.part \in Parts
      /\ old.at \in 1 .. Len(Script(old.part)) /\ Position(old, tile)
      /\ (old.linked => Written(capfile, client.job, old.part))
  BY AtRules
<1>11. \/ IsMarker(old.part) /\ old.at = 2 /\ Len(Script(old.part)) = 2
       \/ ~IsMarker(old.part) /\ old.at \in 3 .. Caps + 2 /\ Len(Script(old.part)) = Caps + 2
  <2>1. \/ IsMarker(old.part) /\ old.at = 2
        \/ ~IsMarker(old.part) /\ old.at \in 3 .. Caps + 2
    BY AtRules
  <2> HIDE DEF old
  <2> QED
    BY <1>1, <2>1, ScriptRules
<1>2. RunnerOnly /\ tile' = tile
      /\ capfile' = IF old.linked THEN Append(capfile, rec) ELSE capfile
  BY DEF Write
<1>3. next \in Process /\ next.pc = "run" /\ next.reply = old.reply /\ next.job = old.job
      /\ next.linked = old.linked
      /\ next.part = (IF old.at < Len(Script(old.part)) THEN old.part ELSE old.part + 1)
  <2> HIDE DEF old
  <2> QED
    BY <1>1, OnwardRules
<1>4. Position(next, tile)
  <2>1. old.at # 1 /\ (old.at > 1 /\ old.at < Len(Script(old.part)) => old.at > 2)
    <3> HIDE DEF old
    <3>1. CASE IsMarker(old.part)
      <4>1. old.at = 2 /\ Len(Script(old.part)) = 2
        BY <1>11, <3>1
      <4> QED
        BY <4>1
    <3>2. CASE ~IsMarker(old.part)
      <4>1. old.at \in 3 .. Caps + 2 /\ Caps \in Nat
        BY <1>11, <3>2, CapsAssumption
      <4> QED
        BY <4>1
    <3> QED
      BY <3>1, <3>2
  <2>2. old.at > 2 => tile = {<<old.job, Number(old.part)>>}
    BY <1>1, PartRules DEF Position, Parts
  <2> HIDE DEF old
  <2> QED
    BY <1>1, <2>1, <2>2, OnwardPosition
<1>5. r \in Process /\ r.pc = "run" /\ r.reply = old.reply /\ r.job = old.job
      /\ r.linked = old.linked
      /\ r.part = next.part /\ r.at = next.at
  <2> HIDE DEF old, next
  <2> QED
    BY <1>3, CountIsProcess
<1>6. runners' = [runners EXCEPT ![p] = r]
  BY <1>1, RunningFacts DEF Write, Ahead
<1>7. old.linked => Written(capfile', client.job, next.part) /\ next.part \in Nat
  <2> SUFFICES ASSUME old.linked PROVE Written(capfile', client.job, next.part) /\ next.part \in Nat
    OBVIOUS
  <2>1. capfile' = Append(capfile, rec) /\ Written(capfile, client.job, old.part)
        /\ From(rec, client.job, old.part)
    BY <1>1, <1>2
  <2>2. old.at < Len(Script(old.part)) => ~IsMarker(old.part)
    BY <1>1, <1>11
  <2>3. next.part \in Nat
    BY <1>3 DEF Process
  <2> HIDE DEF old, next
  <2> QED
    BY <1>1, <1>3, <2>1, <2>2, <2>3, WrittenAppend
<1>8. Position(r, tile')
  BY <1>2, <1>3, <1>4, <1>5 DEF Position
<1>9. capfile' = capfile \/ Partial(capfile', client.job)
  BY <1>2, <1>7 DEF Partial
<1> HIDE DEF r, next
<1>10. r.linked => Written(capfile', client.job, r.part)
  BY <1>5, <1>7
<1> QED
  BY <1>1, <1>2, <1>5, <1>6, <1>8, <1>9, <1>10, OwnByRunner

LEMMA CaptureOwn == ASSUME HostInv, OwnInv, NEW p \in Pid, Capture(p) PROVE OwnInv'
<1> DEFINE old == runners[p]
<1>1. At(p, "cap") /\ Write(p, [tag |-> CapTag(old.at - 2), value |-> tile])
  BY DEF Capture
<1>2. ~IsMarker(old.part) /\ old.at \in 3 .. Caps + 2 /\ Position(old, tile) /\ old.part \in Parts
  BY <1>1, AtRules
<1>3. old.at - 2 \in 1 .. Caps /\ old.at > 2 /\ old.part # 0
  BY <1>2, CapsAssumption, PartRules DEF Parts
<1>4. tile = {<<old.job, Number(old.part)>>}
  BY <1>2, <1>3 DEF Position
<1>5. From([tag |-> CapTag(old.at - 2), value |-> tile], old.job, old.part)
  BY <1>2, <1>3, <1>4 DEF From
<1> QED
  BY <1>1, <1>5, WriteOwn

LEMMA MarkOwn == ASSUME HostInv, OwnInv, NEW p \in Pid, Mark(p) PROVE OwnInv'
<1> DEFINE old == runners[p]
           rec == [tag |-> MarkTag(old.job, Number(old.part)), value |-> {}]
<1>1. At(p, "mark") /\ Write(p, rec)
  BY DEF Mark
<1>2. IsMarker(old.part)
  BY <1>1, AtRules
<1>3. From(rec, old.job, old.part)
  BY <1>2 DEF From
<1> QED
  BY <1>1, <1>3, WriteOwn

\* Steps after which the runner runs no job.
LEMMA LeaveOwn ==
  ASSUME HostInv, OwnInv, NEW p \in Pid, NEW r \in Process, RunnerOnly,
         runners' = [runners EXCEPT ![p] = r], UNCHANGED <<tile, capfile>>,
         r.pc \in {"idle", "gone"},
         \/ r.reply = runners[p].reply
         \/ Running(runners[p]) /\ r.reply.ran = runners[p].job
         \/ runners[p].pc = "attach"
  PROVE  OwnInv'
<1>1. Running(runners[p]) => runners[p].job = client.job
  BY DEF OwnInv, RunnersOwn
<1> QED
  BY <1>1, OwnByRunner DEF Running

LEMMA RunnerOwn ==
  ASSUME HostInv, OwnInv, NEW p \in Pid, Runner(p)
  PROVE  OwnInv'
<1> DEFINE old == runners[p]
<1>1. old \in Process
  BY RunningFacts
<1>2. CASE Attach(p)
  <2>1. PICK ok \in BOOLEAN :
          runners' = [runners EXCEPT ![p].pc = IF ok THEN "idle" ELSE "gone",
                                     ![p].reply = IF ok THEN Ready ELSE Silence]
    BY <1>2 DEF Attach
  <2> DEFINE r == [old EXCEPT !.pc = IF ok THEN "idle" ELSE "gone",
                              !.reply = IF ok THEN Ready ELSE Silence]
  <2>2. r \in Process /\ r.pc = (IF ok THEN "idle" ELSE "gone")
    BY <1>1, SilenceIsReply DEF Process
  <2>3. runners' = [runners EXCEPT ![p] = r]
    BY <2>1, <1>1
  <2>4. old.pc = "attach" /\ UNCHANGED <<tile, capfile>> /\ RunnerOnly
    BY <1>2 DEF Attach
  <2> HIDE DEF r
  <2> QED
    BY <2>2, <2>3, <2>4, LeaveOwn
<1>3. CASE Reset(p)
  <2>1. At(p, "reset") /\ tile' = {} /\ UNCHANGED capfile /\ RunnerOnly /\ old.pc = "run"
    BY <1>3 DEF Reset, At
  <2> QED
    BY <1>3, <2>1, AheadOwn, StopOwn DEF Reset
<1>4. CASE Reply(p)
  <2> DEFINE pc == IF transport = "daemon" THEN "idle" ELSE "gone"
             answer == [ran |-> old.job, rc |-> IF old.failed THEN 1 ELSE 0, n |-> old.n]
             r == [Fresh(pc, 0) EXCEPT !.reply = answer]
  <2>1. Running(old) /\ runners' = [runners EXCEPT ![p] = r] /\ UNCHANGED <<tile, capfile>>
        /\ RunnerOnly
    BY <1>4 DEF Reply, Running
  <2>2. answer \in Replies /\ answer.ran = old.job
    BY <1>1 DEF Process, Replies
  <2>3. pc \in {"idle", "gone"}
    OBVIOUS
  <2>4. r \in Process /\ r.pc = pc /\ r.reply = answer
    <3>1. Fresh(pc, 0) \in Process /\ Fresh(pc, 0).pc = pc
      BY <2>3, FreshIsProcess
    <3> HIDE DEF pc, answer
    <3> QED
      BY <2>2, <3>1 DEF Process
  <2> HIDE DEF r, answer, pc
  <2> QED
    BY <2>1, <2>2, <2>3, <2>4, LeaveOwn
<1>5. CASE Die(p)
  <2> DEFINE r == [Fresh("gone", 0) EXCEPT !.reply = old.reply]
  <2>1. runners' = [runners EXCEPT ![p] = r] /\ UNCHANGED <<tile, capfile>> /\ RunnerOnly
    BY <1>5 DEF Die
  <2>2. r \in Process /\ r.pc = "gone" /\ r.reply = old.reply
    <3>1. Fresh("gone", 0) \in Process /\ Fresh("gone", 0).pc = "gone"
      BY FreshIsProcess
    <3>2. old.reply \in Replies
      BY <1>1 DEF Process
    <3> HIDE DEF old
    <3> QED
      BY <3>1, <3>2 DEF Process
  <2> HIDE DEF r
  <2> QED
    BY <2>1, <2>2, LeaveOwn
<1>6. CASE Load(p)
  <2>1. At(p, "load") /\ RunnerOnly /\ runners' = Ahead(p) /\ UNCHANGED capfile
        /\ tile' = tile \cup {<<old.job, Number(old.part)>>}
    BY <1>6 DEF Load
  <2> QED
    BY <2>1, AheadOwn
<1> QED
  BY <1>2, <1>3, <1>4, <1>5, <1>6, OpenOwn, StallOwn, CaptureOwn, MarkOwn DEF Runner
-----------------------------------------------------------------------------
(* The session's steps keep the captures the job's own.                    *)

\* On the host, a runner runs only while the session waits for it.
LEMMA NothingRuns ==
  ASSUME OwnInv, transport # "remote", client.pc # "await"
  PROVE  \A q \in Pid : ~Running(runners[q])
  BY DEF OwnInv, RunnersOwn

LEMMA NothingLives ==
  ASSUME \A q \in Pid : ~Alive(q)
  PROVE  \A q \in Pid : ~Running(runners[q])
  BY DEF Alive, Running

LEMMA IdleOwn ==
  ASSUME \A q \in Pid' : ~Running(runners'[q])
  PROVE  RunnersOwn'
  BY DEF RunnersOwn

\* A step of the session that starts no runner, and no answer is in it.
LEMMA OwnByClient ==
  ASSUME OwnInv, UNCHANGED <<transport, capfile, input>>, client'.job = client.job,
         client'.answer = client.answer, RunnersOwn', client'.pc \notin {"await", "exec"},
         client'.pc \in {"fetch", "parse"} =>
           transport # "remote" \/ client.pc \in {"await", "fetch", "parse"},
         OkIsOwn'
  PROVE  OwnInv'
<1>1. FileOwn'
  BY DEF OwnInv, FileOwn
<1>2. AnswerOwn'
  BY DEF OwnInv, AnswerOwn
<1> QED
  BY <1>1, <1>2 DEF OwnInv

\* A step of the session that leaves the runners alone.
LEMMA SameOwn ==
  ASSUME OwnInv, UNCHANGED <<transport, tile, capfile, runners>>, client'.job = client.job,
         transport # "remote" => client.pc # "await"
  PROVE  RunnersOwn'
<1>1. Pid' = Pid
  BY DEF Pid
<1> QED
  BY <1>1 DEF OwnInv, RunnersOwn

\* Nothing is told of a run that raised, or whose capture file is not there.
LEMMA TellNothing ==
  ASSUME OwnInv, NEW raised, Tell(raised, << >>)
  PROVE  OkIsOwn'
<1>1. Partial(<< >>, client.job)
  BY WrittenOpen DEF Partial
<1> QED
  BY <1>1, TellOwn DEF OwnInv

LEMMA ToldSame == OwnInv /\ UNCHANGED told => OkIsOwn'
  BY DEF OwnInv, OkIsOwn

LEMMA GotoFields ==
  ASSUME client \in ClientStates, NEW pc, Goto(pc)
  PROVE  /\ client'.pc = pc /\ client'.job = client.job /\ client'.answer = client.answer
  BY DEF Goto, ClientStates

LEMMA TellFields ==
  ASSUME client \in ClientStates, NEW raised, NEW caps, Tell(raised, caps)
  PROVE  client'.pc = "ready" /\ client'.job = client.job /\ client'.answer = client.answer
  BY GotoFields DEF Tell

LEMMA SubmitOwn == ASSUME HostInv, OwnInv, Submit \/ SubmitRemote PROVE OwnInv'
<1>1. PICK pc \in {"acquire", "launch", "gate"} : Sends(pc) /\ (pc = "gate" <=> transport = "remote")
  BY DEF Submit, SubmitRemote
<1>2. /\ client.pc = "ready" /\ client'.pc = pc /\ client'.answer = NoAnswer
      /\ UNCHANGED <<transport, tile, told, input>>
  BY <1>1 DEF Sends, ClientOnly
<1>3. \A q \in Pid : ~Running(runners[q])
  BY <1>1, <1>2, NothingRuns, NothingLives DEF Sends, MayGoOn
<1>4. \A q \in Pid' : ~Running(runners'[q])
  <2>1. CASE runners' = runners
    BY <1>3, <2>1 DEF Pid
  <2>2. CASE runners' = Unlinked(runners)
    <3>1. /\ Len(Unlinked(runners)) = Len(runners) /\ Pid = 1 .. Len(runners)
          /\ Unlinked(runners) \in Seq(Process)
          /\ \A q \in 1 .. Len(runners) : Unlinked(runners)[q].pc = runners[q].pc
      BY UnlinkedRules, PidRules DEF HostInv, Typed
    <3>2. Pid' = Pid
      BY <2>2, <3>1, PidRulesPrime
    <3> QED
      BY <1>3, <2>2, <3>1, <3>2 DEF Running
  <2> QED
    BY <2>1, <2>2 DEF Submit, SubmitRemote
<1>5. RunnersOwn'
  BY <1>4, IdleOwn
<1>6. FileOwn'
  <2>1. CASE Submit
    BY <2>1 DEF Submit, FileOwn
  <2>2. CASE SubmitRemote
    BY <1>1, <1>2, <2>2 DEF SubmitRemote, FileOwn
  <2> QED
    BY <2>1, <2>2
<1>7. AnswerOwn'
  BY <1>2 DEF AnswerOwn, NoAnswer
<1>8. OkIsOwn'
  BY <1>2, ToldSame
<1> QED
  BY <1>5, <1>6, <1>7, <1>8 DEF OwnInv

\* A runner that is killed leaves none that runs.
LEMMA KilledOwn ==
  ASSUME HostInv, NEW p \in Pid, runners' = Killed(p), \A q \in Pid : Alive(q) => q = p
  PROVE  RunnersOwn'
<1>1. GoneRunner(p)
  BY KilledRules DEF HostInv
<1>2. Pid' = Pid
  BY <1>1, PidRules, PidRulesPrime DEF HostInv, GoneRunner
<1>3. \A q \in Pid' : ~Running(runners'[q])
  BY <1>1, <1>2 DEF GoneRunner, Alive, Running
<1> QED
  BY <1>3, IdleOwn

LEMMA AcquireOwn == ASSUME HostInv, OwnInv, Acquire PROVE OwnInv'
<1>1. /\ transport = "daemon" /\ client \in ClientStates /\ client.pc = "acquire"
      /\ UNCHANGED <<transport, tile, capfile, input, told>>
  BY DEF Acquire, HostInv, OnItsPath, Typed, ClientOnly
<1>2. \A q \in Pid : ~Running(runners[q])
  BY <1>1, NothingRuns
<1>3. OkIsOwn'
  BY <1>1, ToldSame
<1>4. \A q \in Pid' : ~Running(runners'[q])
  <2>1. CASE runners' = runners
    BY <1>2, <2>1 DEF Pid
  <2>2. CASE runners' = Append(runners, Fresh("attach", 0))
    <3>1. NewRunner("attach")
      BY <2>2, AppendRules DEF HostInv, Typed
    <3>2. Pid' = Pid \cup {Len(runners')}
      BY <3>1, PidRules, PidRulesPrime DEF HostInv, NewRunner
    <3> QED
      BY <1>2, <3>1, <3>2 DEF NewRunner, Running
  <2> QED
    BY <2>1, <2>2 DEF Acquire
<1>5. RunnersOwn'
  BY <1>4, IdleOwn
<1>6. client'.pc \in {"send", "hello"} /\ client'.job = client.job /\ client'.answer = client.answer
  BY <1>1, GotoFields DEF Acquire
<1> QED
  BY <1>1, <1>3, <1>5, <1>6, OwnByClient

LEMMA HelloOwn == ASSUME HostInv, OwnInv, Hello PROVE OwnInv'
<1>1. /\ transport = "daemon" /\ client \in ClientStates /\ client.pc = "hello"
      /\ UNCHANGED <<transport, tile, capfile, input>> /\ daemon # 0 /\ daemon \in Pid
  BY PidRules DEF Hello, HostInv, OnItsPath, Typed, ClientOnly, OnlyServer
<1>2. CASE Goto("send") /\ runners' = [runners EXCEPT ![daemon].reply = Silence] /\ UNCHANGED told
  <2>1. SameRunners
    BY <1>1, <1>2, HeardRules DEF HostInv
  <2>2. Pid' = Pid
    BY <2>1, PidRules, PidRulesPrime DEF HostInv, SameRunners
  <2>3. \A q \in Pid' : ~Running(runners'[q])
    BY <1>1, <2>1, <2>2, NothingRuns DEF SameRunners, Running
  <2>4. RunnersOwn' /\ OkIsOwn'
    BY <1>2, <2>3, IdleOwn, ToldSame
  <2>5. client'.pc = "send" /\ client'.job = client.job /\ client'.answer = client.answer
    BY <1>1, <1>2, GotoFields
  <2> QED
    BY <1>1, <2>4, <2>5, OwnByClient
<1>3. CASE runners' = Killed(daemon) /\ Tell(TRUE, << >>)
  <2>1. RunnersOwn'
    BY <1>1, <1>3, KilledOwn DEF HostInv, OnlyServer
  <2>2. client'.pc = "ready" /\ client'.job = client.job /\ client'.answer = client.answer
    BY <1>1, <1>3, TellFields
  <2>3. OkIsOwn'
    BY <1>3, TellNothing
  <2> QED
    BY <1>1, <2>1, <2>2, <2>3, OwnByClient
<1> QED
  BY <1>2, <1>3 DEF Hello

LEMMA DiedOwn ==
  ASSUME HostInv, OwnInv, Died, transport = "daemon", daemon # 0,
         UNCHANGED <<capfile, input>>, ClientOnly
  PROVE  OwnInv'
<1>1. /\ client \in ClientStates /\ daemon \in Pid /\ runners' = Killed(daemon)
      /\ UNCHANGED <<transport, tile, capfile, input>>
  BY PidRules DEF Died, HostInv, Typed, ClientOnly
<1>2. RunnersOwn'
  BY <1>1, KilledOwn DEF HostInv, OnlyServer
<1>3. CASE client.attempt = 1
  <2>1. client' = [client EXCEPT !.pc = "acquire", !.attempt = 2] /\ UNCHANGED told
    BY <1>3 DEF Died
  <2>2. client'.pc = "acquire" /\ client'.job = client.job /\ client'.answer = client.answer
    BY <1>1, <2>1 DEF ClientStates
  <2>3. OkIsOwn'
    BY <2>1, ToldSame
  <2> QED
    BY <1>1, <1>2, <2>2, <2>3, OwnByClient
<1>4. CASE client.attempt # 1
  <2>1. Tell(TRUE, << >>)
    BY <1>4 DEF Died
  <2>2. client'.pc = "ready" /\ client'.job = client.job /\ client'.answer = client.answer
    BY <1>1, <2>1, TellFields
  <2>3. OkIsOwn'
    BY <2>1, TellNothing
  <2> QED
    BY <1>1, <1>2, <2>2, <2>3, OwnByClient
<1> QED
  BY <1>3, <1>4

\* A runner starts on the session's job, where nothing else runs.
LEMMA StartOwn ==
  ASSUME OwnInv, UNCHANGED <<transport, input, told>>, client'.job = client.job,
         client'.answer = client.answer, client'.pc = "await",
         NEW p \in Pid', Mine' = p, runners'[p] = Fresh("run", client.job), client.job \in Nat,
         \A q \in Pid' : q # p => ~Running(runners'[q]),
         capfile' = None \/ (transport # "remote" /\ capfile' = capfile)
  PROVE  OwnInv'
<1> DEFINE r == runners'[p]
<1>1. /\ r.pc = "run" /\ r.job = client.job /\ r.reply = Silence /\ r.part = 0 /\ ~r.linked
  BY DEF Fresh
<1>2. \A t : Position(r, t)
  BY <1>1 DEF Position
<1>3. RunnersOwn'
  BY <1>1, <1>2 DEF RunnersOwn
<1>4. FileOwn'
  BY DEF OwnInv, FileOwn
<1>5. AnswerOwn'
  BY <1>1 DEF OwnInv, AnswerOwn
<1>6. OkIsOwn'
  BY ToldSame
<1> QED
  BY <1>3, <1>4, <1>5, <1>6 DEF OwnInv

LEMMA SendOwn == ASSUME HostInv, OwnInv, Send PROVE OwnInv'
<1>1. /\ transport = "daemon" /\ client \in ClientStates /\ client.pc = "send" /\ ClientOnly
      /\ UNCHANGED <<transport, capfile, input>> /\ daemon # 0 /\ daemon \in Pid
      /\ client.job \in Nat
  BY PidRules DEF Send, HostInv, OnItsPath, Typed, ClientOnly, OnlyServer, ClientStates
<1>2. CASE Alive(daemon)
  <2>1. Goto("await") /\ UNCHANGED <<daemon, told>>
        /\ runners' = [runners EXCEPT ![daemon] = Fresh("run", client.job)]
    BY <1>2 DEF Send
  <2>2. client'.pc = "await" /\ client'.job = client.job /\ client'.answer = client.answer
    BY <1>1, <2>1, GotoFields
  <2>3. Fresh("run", client.job) \in Process
    BY <1>1, FreshIsProcess
  <2>4. /\ Pid' = Pid /\ runners'[daemon] = Fresh("run", client.job)
        /\ \A q \in Pid : q # daemon => runners'[q] = runners[q]
    <3>1. /\ runners' \in Seq(Process) /\ Len(runners') = Len(runners)
          /\ \A q \in 1 .. Len(runners) :
               runners'[q] = IF q = daemon THEN Fresh("run", client.job) ELSE runners[q]
      BY <1>1, <2>1, <2>3, ExceptSeq, PidRules DEF HostInv, Typed
    <3> QED
      BY <1>1, <3>1, PidRules, PidRulesPrime DEF HostInv
  <2>5. Mine' = daemon
    BY <1>1, <2>1 DEF Mine
  <2>6. \A q \in Pid : ~Running(runners[q])
    BY <1>1, NothingRuns
  <2> QED
    BY <1>1, <2>1, <2>2, <2>4, <2>5, <2>6, StartOwn
<1>3. CASE ~Alive(daemon)
  BY <1>1, <1>3, DiedOwn DEF Send
<1> QED
  BY <1>2, <1>3

LEMMA AppendOwn ==
  ASSUME HostInv, OwnInv, UNCHANGED <<transport, input, told>>, Goto("await"),
         transport # "daemon", NEW rs \in Seq(Process), Len(rs) = Len(runners),
         \A q \in Pid : rs[q].pc = runners[q].pc /\ rs[q].reply = runners[q].reply,
         runners' = Append(rs, Fresh("run", client.job)),
         \A q \in Pid : ~Running(runners[q]),
         capfile' = None \/ (transport # "remote" /\ capfile' = capfile)
  PROVE  OwnInv'
<1>1. client \in ClientStates /\ client.job \in Nat
  BY DEF HostInv, Typed, ClientStates
<1>2. client'.pc = "await" /\ client'.job = client.job /\ client'.answer = client.answer
  BY <1>1, GotoFields
<1>3. NewRunner("run")
  BY <1>1, AppendRules DEF HostInv
<1>4. Pid' = Pid \cup {Len(runners')} /\ Mine' = Len(runners')
  BY <1>3, PidRules, PidRulesPrime DEF HostInv, NewRunner, Mine
<1>5. \A q \in Pid : ~Running(runners'[q])
  BY <1>3 DEF NewRunner, Running
<1>6. runners'[Len(runners')] = Fresh("run", client.job)
  BY <1>1, FreshIsProcess, AppendProperties
<1> QED
  BY <1>1, <1>2, <1>4, <1>5, <1>6, StartOwn

LEMMA LaunchOwn == ASSUME HostInv, OwnInv, Launch PROVE OwnInv'
<1>1. /\ transport = "oneshot" /\ client.pc = "launch" /\ Goto("await")
      /\ UNCHANGED <<transport, input, told, capfile>>
      /\ runners' = Append(runners, Fresh("run", client.job)) /\ runners \in Seq(Process)
  BY DEF Launch, HostInv, OnItsPath, Typed, ClientOnly
<1>2. \A q \in Pid : ~Running(runners[q])
  BY <1>1, NothingRuns
<1> QED
  BY <1>1, <1>2, AppendOwn

LEMMA ExecOwn == ASSUME HostInv, OwnInv, Exec PROVE OwnInv'
<1>1. /\ transport = "remote" /\ client.pc = "exec" /\ Goto("await")
      /\ UNCHANGED <<transport, input, told>> /\ capfile' = None
      /\ runners' = Append(Unlinked(runners), Fresh("run", input)) /\ runners \in Seq(Process)
  BY DEF Exec, HostInv, OnItsPath, Typed, ClientOnly
<1>2. input = client.job
  BY <1>1 DEF OwnInv, AnswerOwn
<1>3. \A q \in Pid : ~Running(runners[q])
  BY <1>1, NothingLives DEF HostInv, OnlyLast
<1>4. /\ Unlinked(runners) \in Seq(Process) /\ Len(Unlinked(runners)) = Len(runners)
      /\ \A q \in Pid : /\ Unlinked(runners)[q].pc = runners[q].pc
                        /\ Unlinked(runners)[q].reply = runners[q].reply
  BY <1>1, UnlinkedRules, PidRules DEF HostInv
<1> QED
  BY <1>1, <1>2, <1>3, <1>4, AppendOwn

\* The answer that is taken is the one to the session's job.
LEMMA AnsweredOwn == ASSUME HostInv, OwnInv, Answered PROVE OwnInv'
<1>1. /\ client \in ClientStates /\ client.pc = "await" /\ Mine \in Pid
      /\ \A q \in Pid : Alive(q) => q = Mine
  BY MineRules DEF Answered, HostInv, Typed
<1>2. /\ UNCHANGED <<transport, capfile, input, told>>
      /\ client' = [client EXCEPT !.pc = After, !.answer = runners[Mine].reply]
      /\ runners' = [runners EXCEPT ![Mine].reply = Silence]
      /\ runners[Mine].reply # Silence
  BY DEF Answered, ClientOnly
<1>3. ~Running(runners[Mine]) /\ runners[Mine].reply.ran = client.job
  BY <1>1, <1>2 DEF OwnInv, RunnersOwn, AnswerOwn
<1>4. SameRunners
  BY <1>1, <1>2, HeardRules DEF HostInv
<1>5. Pid' = Pid
  BY <1>4, PidRules, PidRulesPrime DEF HostInv, SameRunners
<1>6. \A q \in Pid' : ~Running(runners'[q])
  BY <1>1, <1>3, <1>4, <1>5 DEF SameRunners, Running, Alive
<1>7. /\ client'.pc \in {"fetch", "parse"} /\ client'.job = client.job
      /\ client'.answer = runners[Mine].reply
  BY <1>1, <1>2 DEF ClientStates, After
<1>8. RunnersOwn' /\ OkIsOwn'
  BY <1>2, <1>6, IdleOwn, ToldSame
<1>9. FileOwn'
  BY <1>1, <1>2, <1>7 DEF OwnInv, FileOwn
<1>10. AnswerOwn'
  BY <1>3, <1>7 DEF AnswerOwn
<1> QED
  BY <1>8, <1>9, <1>10 DEF OwnInv

LEMMA EofOwn == ASSUME HostInv, OwnInv, Eof PROVE OwnInv'
<1>1. client \in ClientStates /\ client.pc = "await" /\ ~Alive(Mine) /\ ClientOnly
      /\ UNCHANGED <<transport, tile, capfile, input>>
  BY DEF Eof, HostInv, Typed, ClientOnly
<1>2. CASE transport = "daemon"
  <2>1. daemon # 0 /\ Died
    BY <1>1, <1>2 DEF Eof, HostInv, OnlyServer
  <2> QED
    BY <1>1, <1>2, <2>1, DiedOwn
<1>3. CASE transport # "daemon"
  <2>1. Goto(After) /\ UNCHANGED <<runners, told>>
    BY <1>3 DEF Eof
  <2>2. \A q \in Pid : ~Running(runners[q])
    BY <1>1, MineRules, NothingLives
  <2>3. RunnersOwn' /\ OkIsOwn'
    BY <2>1, <2>2, IdleOwn, ToldSame DEF Pid
  <2>4. client'.pc \in {"fetch", "parse"} /\ client'.job = client.job
        /\ client'.answer = client.answer
    BY <1>1, <2>1, GotoFields DEF After
  <2> QED
    BY <1>1, <2>3, <2>4, OwnByClient
<1> QED
  BY <1>2, <1>3

LEMMA TimedOutOwn == ASSUME HostInv, OwnInv, TimedOut PROVE OwnInv'
<1>1. /\ client \in ClientStates /\ client.pc = "await" /\ transport # "remote" /\ Mine \in Pid
      /\ \A q \in Pid : Alive(q) => q = Mine
  BY MineRules DEF TimedOut, HostInv, Typed
<1>2. /\ UNCHANGED <<transport, capfile, input, told>>
      /\ client' = [client EXCEPT !.pc = After, !.late = TRUE]
      /\ runners' = Killed(Mine)
  BY DEF TimedOut, ClientOnly
<1>3. RunnersOwn' /\ OkIsOwn'
  BY <1>1, <1>2, KilledOwn, ToldSame
<1>4. client'.pc = "parse" /\ client'.job = client.job /\ client'.answer = client.answer
  BY <1>1, <1>2 DEF ClientStates, After
<1> QED
  BY <1>1, <1>2, <1>3, <1>4, OwnByClient

\* Over ssh, a runner may go on after the session stopped waiting for it.
LEMMA RemoteWaitOwn == ASSUME HostInv, OwnInv, TimedOutRemote \/ Truncated PROVE OwnInv'
<1>1. /\ client \in ClientStates /\ transport = "remote" /\ client.pc = "await" /\ After = "fetch"
      /\ UNCHANGED <<transport, tile, capfile, input, told, runners>>
  BY DEF TimedOutRemote, Truncated, HostInv, Typed, ClientOnly, After
<1>2. CASE TimedOutRemote
  <2>1. client'.pc = "fetch" /\ client'.job = client.job /\ client'.answer = client.answer
    BY <1>1, <1>2 DEF TimedOutRemote, ClientStates
  <2>2. RunnersOwn' /\ OkIsOwn'
    BY <1>1, <2>1, SameOwn, ToldSame
  <2> QED
    BY <1>1, <2>1, <2>2, OwnByClient
<1>3. CASE Truncated
  <2>1. PICK n \in {-1, 0} :
          client' = [client EXCEPT !.pc = "fetch", !.answer = [ran |-> 0, rc |-> 1, n |-> n]]
    BY <1>3 DEF Truncated
  <2>2. client'.pc = "fetch" /\ client'.job = client.job /\ client'.answer.rc = 1
    BY <1>1, <2>1 DEF ClientStates
  <2>3. RunnersOwn' /\ OkIsOwn'
    BY <1>1, <2>2, SameOwn, ToldSame
  <2>4. FileOwn'
    BY <1>1, <2>2 DEF OwnInv, FileOwn
  <2>5. AnswerOwn'
    BY <2>2 DEF AnswerOwn
  <2> QED
    BY <2>3, <2>4, <2>5 DEF OwnInv
<1> QED
  BY <1>2, <1>3

\* Gate, Upload, Fetch and the parsing of the answer.
LEMMA PathOwn ==
  ASSUME HostInv, OwnInv, Gate \/ Upload \/ Fetch \/ Parse \/ ParseRemote
  PROVE  OwnInv'
<1>1. /\ client \in ClientStates /\ client.pc \in {"gate", "upload", "fetch", "parse"}
      /\ UNCHANGED <<transport, tile, capfile, runners>>
  BY DEF Gate, Upload, Fetch, Parse, ParseRemote, Parsed, Fail, HostInv, Typed, ClientOnly
<1>2. client'.job = client.job /\ client'.answer = client.answer
  BY <1>1, GotoFields
     DEF Gate, Upload, Fetch, Parse, ParseRemote, Parsed, Fail, Tell
<1>3. RunnersOwn'
  BY <1>1, <1>2, SameOwn
<1>4. ASSUME NEW raised, Tell(raised, << >>), UNCHANGED input
      PROVE  OwnInv'
  <2>1. OkIsOwn' /\ client'.pc = "ready"
    BY <1>1, <1>4, TellNothing, TellFields
  <2> QED
    BY <1>1, <1>2, <1>3, <1>4, <2>1, OwnByClient
<1>5. CASE Gate
  <2>1. CASE Goto("upload") /\ UNCHANGED <<input, told>>
    <3>1. client'.pc = "upload" /\ OkIsOwn'
      BY <1>1, <2>1, GotoFields, ToldSame
    <3> QED
      BY <1>1, <1>2, <1>3, <2>1, <3>1, OwnByClient
  <2> QED
    BY <1>4, <1>5, <2>1 DEF Gate, Fail
<1>6. CASE Upload
  <2>1. CASE Goto("exec") /\ input' = client.job /\ UNCHANGED told
    <3>1. client'.pc = "exec" /\ OkIsOwn' /\ transport = "remote"
      BY <1>1, <1>6, <2>1, GotoFields, ToldSame DEF Upload, HostInv, OnItsPath
    <3>2. FileOwn'
      BY <1>1, <3>1 DEF FileOwn
    <3>3. AnswerOwn'
      BY <1>2, <2>1, <3>1 DEF OwnInv, AnswerOwn
    <3> QED
      BY <1>3, <3>1, <3>2, <3>3 DEF OwnInv
  <2> QED
    BY <1>4, <1>6, <2>1 DEF Upload, Fail
<1>7. CASE Fetch
  <2>1. CASE Goto("parse") /\ UNCHANGED <<told, input>>
    <3>1. client'.pc = "parse" /\ OkIsOwn' /\ client.pc = "fetch"
      BY <1>1, <1>7, <2>1, GotoFields, ToldSame DEF Fetch
    <3> QED
      BY <1>1, <1>2, <1>3, <2>1, <3>1, OwnByClient
  <2> QED
    BY <1>4, <1>7, <2>1 DEF Fetch
<1>8. CASE Parsed
  <2>1. CASE capfile = None
    BY <1>4, <1>8, <2>1 DEF Parsed
  <2>2. CASE capfile # None
    <3>1. Tell(~client.late /\ client.answer.n = -1, capfile) /\ UNCHANGED input
          /\ client.pc = "parse"
      BY <1>8, <2>2 DEF Parsed
    <3>2. Partial(capfile, client.job)
      BY <2>2, <3>1 DEF OwnInv, FileOwn
    <3>3. OkIsOwn' /\ client'.pc = "ready"
      BY <1>1, <3>1, <3>2, TellOwn, TellFields DEF OwnInv
    <3> QED
      BY <1>1, <1>2, <1>3, <3>1, <3>3, OwnByClient
  <2> QED
    BY <2>1, <2>2
<1> QED
  BY <1>5, <1>6, <1>7, <1>8 DEF Parse, ParseRemote

LEMMA NextOwn == HostInv /\ OwnInv /\ [Next]_vars => OwnInv'
<1> SUFFICES ASSUME HostInv, OwnInv, [Next]_vars PROVE OwnInv'
  OBVIOUS
<1>1. ASSUME UNCHANGED <<transport, client, runners, daemon, tile, capfile, input, told>>
      PROVE  OwnInv'
  BY <1>1 DEF OwnInv, RunnersOwn, FileOwn, AnswerOwn, OkIsOwn, Mine, Pid
<1>2. CASE UNCHANGED vars \/ LoseClock
  BY <1>1, <1>2 DEF vars, LoseClock
<1>3. CASE Client
  BY <1>3, SubmitOwn, AcquireOwn, HelloOwn, SendOwn, LaunchOwn, AnsweredOwn, EofOwn, TimedOutOwn,
     RemoteWaitOwn, PathOwn, ExecOwn DEF Client
<1>4. CASE \E p \in Pid : Runner(p)
  BY <1>4, RunnerOwn
<1> QED
  BY <1>2, <1>3, <1>4 DEF Next

\* A job reported ok was answered by its own run, every value in it was read from
\* a tile that held that job's file and nothing else, and what is attributed to a
\* file of a batch is that file's: for every number of files, captures and jobs,
\* whatever transport is used and whatever times out, dies, hangs or is cut off
\* (run_job, run_job_remote, _execute_job, demux_captures).
THEOREM OkIsOwnHolds == Spec => []OkIsOwn
<1>1. Init => HostInv /\ OwnInv
  BY InitHost, InitOwn
<1>2. HostInv /\ OwnInv /\ [Next]_vars => (HostInv /\ OwnInv)'
  BY NextStep, NextOwn
<1>3. OwnInv => OkIsOwn
  BY DEF OwnInv
<1> QED
  BY <1>1, <1>2, <1>3, PTL DEF Spec
-----------------------------------------------------------------------------
(* MultiRun: what the rebindable names resolve to.                         *)

\* The arms in which contexts are open.
OpenArms == ArmNames \cup {"red"}

\* What an arm enters is one of these.
LEMMA ContextsOf ==
  ASSUME NEW a
  PROVE  \/ Contexts(a) = << >>
         \/ \E c \in {Census, BusOnly, Geometry, OneHead, Offload} : Contexts(a) = <<c>>
         \/ Contexts(a) = <<Emission, Offload>>
         \/ Contexts(a) = <<Emission, Offload, HeadSeam>>
<1>1. \/ TileContexts = <<OneHead>> \/ TileContexts = <<Offload>>
      \/ TileContexts = <<Emission, Offload>> \/ TileContexts = <<Emission, Offload, HeadSeam>>
  BY DEF TileContexts
<1>2. \/ Contexts(a) = TileContexts \/ Contexts(a) = << >> \/ Contexts(a) = <<Census>>
      \/ Contexts(a) = <<BusOnly>> \/ Contexts(a) = <<Geometry>>
  BY Zenon DEF Contexts
<1> QED
  BY <1>1, <1>2

\* Every arm enters at most three contexts.
LEMMA ContextsAreFew ==
  ASSUME NEW a
  PROVE  /\ Len(Contexts(a)) \in 0 .. 3
         /\ \A i \in 1 .. Len(Contexts(a)) : Contexts(a)[i].attrs \subseteq Attrs
<1>1. \A c \in {Census, BusOnly, Geometry, OneHead, Offload, Emission, HeadSeam} : c.attrs \subseteq Attrs
  BY DEF OneHead, Geometry, Emission, Offload, HeadSeam, Census, BusOnly, Attrs
<1> HIDE DEF Attrs
<1>2. CASE Contexts(a) = << >>
  BY <1>2
<1>3. CASE \E c \in {Census, BusOnly, Geometry, OneHead, Offload} : Contexts(a) = <<c>>
  BY <1>3, <1>1
<1>4. CASE Contexts(a) = <<Emission, Offload>>
  BY <1>4, <1>1
<1>5. CASE Contexts(a) = <<Emission, Offload, HeadSeam>>
  BY <1>5, <1>1
<1> QED
  BY <1>2, <1>3, <1>4, <1>5, ContextsOf

\* A nonempty set of the first three indices has a largest and a smallest one.
LEMMA ExtremesOfThree ==
  ASSUME NEW S, S \subseteq 1 .. 3, S # {}
  PROVE  /\ Max(S) \in S /\ \A x \in S : x <= Max(S)
         /\ Min(S) \in S /\ \A x \in S : Min(S) <= x
<1>1. \E x \in S : \A y \in S : x >= y
  <2>1. CASE 3 \in S
    BY <2>1
  <2>2. CASE 3 \notin S /\ 2 \in S
    BY <2>2
  <2>3. CASE 3 \notin S /\ 2 \notin S
    <3>1. \A x \in S : x = 1
      BY <2>3
    <3>2. PICK x \in S : TRUE
      OBVIOUS
    <3> QED
      BY <3>1, <3>2
  <2> QED
    BY <2>1, <2>2, <2>3
<1>2. \E x \in S : \A y \in S : x <= y
  <2>1. CASE 1 \in S
    BY <2>1
  <2>2. CASE 1 \notin S /\ 2 \in S
    BY <2>2
  <2>3. CASE 1 \notin S /\ 2 \notin S
    <3>1. \A x \in S : x = 3
      BY <2>3
    <3>2. PICK x \in S : TRUE
      OBVIOUS
    <3> QED
      BY <3>1, <3>2
  <2> QED
    BY <2>1, <2>2, <2>3
<1>3. Max(S) \in S /\ \A x \in S : x <= Max(S)
  BY <1>1 DEF Max
<1>4. Min(S) \in S /\ \A x \in S : Min(S) <= x
  BY <1>2 DEF Min
<1> QED
  BY <1>3, <1>4

\* Leaving the contexts of an arm undoes entering them.
LEMMA LeaveUndoesEnter ==
  ASSUME NEW a
  PROVE  Leave(Rebound(Pure, Contexts(a), Len(Contexts(a))), Saved(Pure, Contexts(a))) = Pure
<1> DEFINE cs == Contexts(a)
           s == Saved(Pure, cs)
           b == Rebound(Pure, cs, Len(cs))
           by(n) == {i \in 1 .. Len(cs) : n \in cs[i].attrs}
<1> HIDE DEF cs
<1>1. /\ Len(cs) \in 0 .. 3
      /\ \A i \in 1 .. Len(cs) : cs[i].attrs \subseteq Attrs
  BY ContextsAreFew DEF cs
<1>2. /\ Len(s) = Len(cs)
      /\ \A i \in 1 .. Len(cs) : /\ DOMAIN s[i].saved = cs[i].attrs
                                 /\ \A n \in cs[i].attrs : s[i].saved[n] = Rebound(Pure, cs, i - 1)[n]
  BY <1>1 DEF Saved
<1>3. \A n \in Attrs : {i \in 1 .. Len(s) : n \in DOMAIN s[i].saved} = by(n)
  BY <1>2
<1>4. ASSUME NEW n \in Attrs
      PROVE  Leave(b, s)[n] = Pure[n]
  <2>1. Leave(b, s)[n] = IF by(n) = {} THEN b[n] ELSE s[Min(by(n))].saved[n]
    BY <1>3, <1>4 DEF Leave
  <2>2. CASE by(n) = {}
    BY <2>1, <2>2, <1>4 DEF Rebound
  <2>3. CASE by(n) # {}
    <3>1. by(n) \subseteq 1 .. 3
      BY <1>1
    <3> DEFINE i == Min(by(n))
    <3>2. i \in by(n) /\ \A x \in by(n) : i <= x
      BY <3>1, <2>3, ExtremesOfThree
    <3> HIDE DEF i
    <3>3. {j \in 1 .. i - 1 : n \in cs[j].attrs} = {}
      BY <3>2, <1>1
    <3>4. Rebound(Pure, cs, i - 1)[n] = Pure[n]
      BY <3>3, <1>4 DEF Rebound
    <3>5. s[i].saved[n] = Pure[n]
      BY <3>2, <3>4, <1>2
    <3> QED
      BY <3>5, <2>1, <2>3 DEF i
  <2> QED
    BY <2>2, <2>3
<1>5. Leave(b, s) = [n \in Attrs |-> Leave(b, s)[n]]
  BY DEF Leave
<1>6. Pure = [n \in Attrs |-> Pure[n]]
  BY DEF Pure
<1> QED
  BY <1>4, <1>5, <1>6 DEF cs

\* A name an arm has rebound belongs to one of the contexts it has open.
LEMMA OwnersAreOpen ==
  ASSUME NEW a, NEW n \in Attrs,
         Rebound(Pure, Contexts(a), Len(Contexts(a)))[n] # "golden"
  PROVE  \E i \in 1 .. Len(Saved(Pure, Contexts(a))) :
           Saved(Pure, Contexts(a))[i].owner = Rebound(Pure, Contexts(a), Len(Contexts(a)))[n]
<1> DEFINE cs == Contexts(a)
           by == {i \in 1 .. Len(cs) : n \in cs[i].attrs}
<1>1. Len(cs) \in 0 .. 3
  BY ContextsAreFew
<1> HIDE DEF cs
<1>2. Rebound(Pure, cs, Len(cs))[n] = IF by = {} THEN Pure[n] ELSE cs[Max(by)].owner
  BY DEF Rebound
<1>3. Pure[n] = "golden"
  BY DEF Pure
<1>4. by # {}
  BY <1>2, <1>3 DEF cs
<1>5. Max(by) \in by
  <2>1. by \subseteq 1 .. 3
    BY <1>1
  <2> QED
    BY <2>1, <1>4, ExtremesOfThree
<1>6. Len(Saved(Pure, cs)) = Len(cs) /\ \A i \in 1 .. Len(cs) : Saved(Pure, cs)[i].owner = cs[i].owner
  BY <1>1 DEF Saved
<1> QED
  BY <1>2, <1>4, <1>5, <1>6 DEF cs

\* What the names resolve to in the arms that are to be golden's, in the red
\* arm, and in the head: both seams of it are one offloader's.
LEMMA ArmsResolve ==
  LET b(a) == Rebound(Pure, Contexts(a), Len(Contexts(a)))
  IN  /\ \A n \in Attrs : b("host")[n] \in {"golden", "census"}
      /\ b("bus").layer = "busonly"
      /\ b("red")["norm_builder"] = "golden"
      /\ \A a \in OpenArms : b(a).head = "lmhead" => b(a).cpgemm = "lmhead"
<1> DEFINE r(cs, n) == LET by == {i \in 1 .. Len(cs) : n \in cs[i].attrs}
                       IN  IF by = {} THEN "golden" ELSE cs[Max(by)].owner
<1>1. ASSUME NEW a, NEW n \in Attrs
      PROVE  Rebound(Pure, Contexts(a), Len(Contexts(a)))[n] = r(Contexts(a), n)
  BY DEF Rebound, Pure
<1> HIDE DEF r
<1>2. \A n : r(<< >>, n) = "golden"
  BY DEF r
<1>3. ASSUME NEW c, NEW n
      PROVE  r(<<c>>, n) = IF n \in c.attrs THEN c.owner ELSE "golden"
  <2> DEFINE by == {i \in 1 .. Len(<<c>>) : n \in <<c>>[i].attrs}
  <2>1. by = IF n \in c.attrs THEN {1} ELSE {}
    OBVIOUS
  <2>2. n \in c.attrs => Max(by) = 1
    BY <2>1, ExtremesOfThree
  <2>3. r(<<c>>, n) = IF by = {} THEN "golden" ELSE <<c>>[Max(by)].owner
    BY DEF r
  <2> HIDE DEF by
  <2> QED
    BY <2>1, <2>2, <2>3
<1>4. "layer" \in Attrs /\ "norm_builder" \in Attrs /\ "head" \in Attrs /\ "cpgemm" \in Attrs
  BY DEF Attrs
<1>5. \A n \in Attrs : r(Contexts("host"), n) \in {"golden", "census"}
  <2>1. Contexts("host") \in {<<Census>>, << >>}
    BY DEF Contexts
  <2> QED
    BY <2>1, <1>2, <1>3 DEF Census
<1>6. r(Contexts("bus"), "layer") = "busonly"
  <2>1. Contexts("bus") = <<BusOnly>>
    BY DEF Contexts
  <2> QED
    BY <2>1, <1>3 DEF BusOnly
<1>7. r(Contexts("red"), "norm_builder") = "golden"
  <2>1. Contexts("red") = <<Geometry>>
    BY DEF Contexts
  <2> QED
    BY <2>1, <1>3 DEF Geometry
<1>8. ASSUME NEW a
      PROVE  r(Contexts(a), "head") = "lmhead" => r(Contexts(a), "cpgemm") = "lmhead"
  <2>1. CASE Contexts(a) = <<Emission, Offload, HeadSeam>>
    <3> DEFINE cs == Contexts(a)
               by == {i \in 1 .. Len(cs) : "cpgemm" \in cs[i].attrs}
    <3>1. by = {3}
      BY <2>1 DEF Emission, Offload, HeadSeam
    <3>2. Max(by) = 3
      BY <3>1, ExtremesOfThree
    <3>3. cs[3].owner = "lmhead"
      BY <2>1 DEF HeadSeam
    <3> QED
      BY <3>1, <3>2, <3>3 DEF r
  <2>2. CASE Contexts(a) = <<Emission, Offload>>
    <3> DEFINE cs == Contexts(a)
               by == {i \in 1 .. Len(cs) : "head" \in cs[i].attrs}
    <3>1. by = {}
      BY <2>2 DEF Emission, Offload
    <3> QED
      BY <3>1 DEF r
  <2>3. CASE \E c \in {Census, BusOnly, Geometry, OneHead, Offload} : Contexts(a) = <<c>>
    BY <2>3, <1>3 DEF Census, BusOnly, Geometry, OneHead, Offload
  <2>4. CASE Contexts(a) = << >>
    BY <2>4, <1>2
  <2> QED
    BY <2>1, <2>2, <2>3, <2>4, ContextsOf
<1> QED
  BY <1>1, <1>4, <1>5, <1>6, <1>7, <1>8

\* The names of what a decode keeps.
DecFields == {"step", "layer", "phase", "hidden", "slice", "pass", "heads", "ids", "ran", "served",
              "bad", "lost", "fired"}

\* In an arm the names resolve as its contexts leave them, and each context
\* holds what it replaced; outside the arms nothing is rebound.  The pure arm
\* has golden's hidden state, the bus arm the composition's, and the red arm
\* came back wrong.
ArmInv ==
  /\ DOMAIN dec = DecFields
  /\ arm \in OpenArms =>
       /\ bound = Rebound(Pure, Contexts(arm), Len(Contexts(arm)))
       /\ stack = Saved(Pure, Contexts(arm))
  /\ arm \notin OpenArms => bound = Pure /\ stack = << >>
  /\ arm = "host" => dec.hidden = "golden"
  /\ arm = "bus" => dec.hidden \in {"golden", Composed}
  /\ dec.phase = "red" => dec.hidden = "wrong"

\* The arms are apart where the invariant holds.
LEMMA ArmInvApart == ArmInv => ArmsApart
<1> SUFFICES ASSUME ArmInv
             PROVE  ArmsApart
  OBVIOUS
<1>1. ASSUME NEW n \in Attrs, bound[n] # "golden"
      PROVE  \E i \in 1 .. Len(stack) : stack[i].owner = bound[n]
  <2>1. CASE arm \in OpenArms
    BY <2>1, <1>1, OwnersAreOpen DEF ArmInv
  <2>2. CASE arm \notin OpenArms
    BY <2>2, <1>1 DEF ArmInv, Pure
  <2> QED
    BY <2>1, <2>2
<1>2. arm = "host" => \A n \in Attrs : bound[n] \in {"golden", "census"}
  BY ArmsResolve DEF ArmInv, OpenArms, ArmNames
<1>3. dec.phase = "red" => dec.hidden # "golden"
  BY DEF ArmInv
<1> QED
  BY <1>1, <1>2, <1>3 DEF ArmInv, ArmsApart, OpenArms, RedExact

\* At the start no context is open.
LEMMA ArmInvInit == MultiInit => ArmInv
BY DEF MultiInit, ArmInv, OpenArms, ArmNames, Cursor0, DecFields

\* What leaves the contexts of the arm, if it was in one, keeps the invariant.
LEMMA LeavesPure ==
  ASSUME ArmInv, arm \in OpenArms
  PROVE  Leave(bound, stack) = Pure
BY LeaveUndoesEnter DEF ArmInv

\* Entering an arm from outside all of them.
LEMMA EnterKeeps ==
  ASSUME ArmInv, arm \notin OpenArms, NEW a \in OpenArms, Enter(a), UNCHANGED args
  PROVE  ArmInv'
<1>1. bound = Pure
  BY DEF ArmInv
<1>2. /\ arm' = a /\ stack' = Saved(Pure, Contexts(a))
      /\ bound' = Rebound(Pure, Contexts(a), Len(Contexts(a)))
      /\ dec' = Cursor0
  BY <1>1 DEF Enter
<1>3. Contexts(a)' = Contexts(a)
  BY DEF Contexts, TileContexts, Driver
<1>4. dec'.hidden = "golden" /\ dec'.phase = "layers" /\ DOMAIN dec' = DecFields
  BY <1>2 DEF Cursor0, DecFields
<1> QED
  BY <1>2, <1>3, <1>4 DEF ArmInv, Contexts, TileContexts, Driver

\* A refusal unwinds the contexts.
LEMMA RefuseKeeps ==
  ASSUME ArmInv, arm \in OpenArms \/ (bound = Pure /\ stack = << >>), Refuse,
         args' = args, dec' = dec
  PROVE  ArmInv'
<1>1. Leave(bound, stack) = Pure
  <2>1. CASE arm \in OpenArms
    BY <2>1, LeavesPure
  <2>2. CASE bound = Pure /\ stack = << >>
    BY <2>2 DEF Leave, Pure
  <2> QED
    BY <2>1, <2>2
<1>2. arm' = "end" /\ bound' = Pure /\ stack' = << >> /\ dec' = dec
  BY <1>1 DEF Refuse
<1> QED
  BY <1>2 DEF ArmInv, OpenArms, ArmNames

\* A step within an arm: the names and the arm stay; the hidden state of the
\* pure arm stays, the bus arm's is the composition's.
LEMMA WithinKeeps ==
  ASSUME ArmInv, UNCHANGED <<args, arm, bound, stack>>, DOMAIN dec' = DOMAIN dec,
         arm = "host" => dec'.hidden = dec.hidden,
         arm = "bus" => dec'.hidden \in {dec.hidden, Composed},
         dec'.phase = "red" => dec.phase = "red" /\ dec'.hidden = dec.hidden
  PROVE  ArmInv'
<1>1. Contexts(arm)' = Contexts(arm) /\ Composed' = Composed
  BY DEF Contexts, TileContexts, Driver, Composed
<1> QED
  BY <1>1 DEF ArmInv

\* A layer keeps the invariant, or ends the run and leaves the contexts.
LEMMA LayerKeeps ==
  ASSUME ArmInv, Layer
  PROVE  ArmInv'
<1>1. /\ arm \in OpenArms /\ dec.phase = "layers" /\ args' = args
      /\ DOMAIN dec = DecFields
  BY DEF Layer, Decoding, OpenArms, ArmInv
<1> USE DEF DecFields
<1>2. arm = "host" => bound.layer \in {"golden", "census"}
  BY <1>1, ArmsResolve DEF ArmInv, Attrs
<1>3. arm = "bus" => bound.layer = "busonly"
  BY <1>1, ArmsResolve DEF ArmInv
<1>4. CASE bound.layer = "offload"
  <2>1. PICK fault \in LayerFaults : OffloadLayer(fault)
    BY <1>4 DEF Layer
  <2>2. CASE fault = "refused"
    <3>1. Refuse /\ dec' = dec
      BY <2>1, <2>2 DEF OffloadLayer
    <3> QED
      BY <3>1, <1>1, RefuseKeeps
  <2>3. CASE fault # "refused"
    <3>1. UNCHANGED <<arm, bound, stack>> /\ DOMAIN dec' = DOMAIN dec /\ dec'.phase = dec.phase
      BY <2>1, <2>3, <1>1 DEF OffloadLayer
    <3> QED
      BY <3>1, <1>1, <1>2, <1>3, <1>4, WithinKeeps
  <2> QED
    BY <2>2, <2>3
<1>5. CASE bound.layer = "onehead"
  <2>1. PICK fault \in LayerFaults : OffloadHead(fault)
    BY <1>5 DEF Layer
  <2>2. CASE fault = "refused"
    <3>1. Refuse /\ dec' = dec
      BY <2>1, <2>2 DEF OffloadHead
    <3> QED
      BY <3>1, <1>1, RefuseKeeps
  <2>3. CASE fault # "refused"
    <3>1. UNCHANGED <<arm, bound, stack>> /\ DOMAIN dec' = DOMAIN dec /\ dec'.phase = dec.phase
      BY <2>1, <2>3, <1>1 DEF OffloadHead
    <3> QED
      BY <3>1, <1>1, <1>2, <1>3, <1>5, WithinKeeps
  <2> QED
    BY <2>2, <2>3
<1>6. CASE bound.layer = "census"
  <2>1. CensusLayer
    BY <1>6 DEF Layer
  <2>2. /\ UNCHANGED <<arm, bound, stack>> /\ DOMAIN dec' = DOMAIN dec
        /\ dec'.phase = dec.phase /\ dec'.hidden = dec.hidden
    BY <2>1, <1>1 DEF CensusLayer
  <2> QED
    BY <2>2, <1>1, WithinKeeps
<1>7. CASE bound.layer = "busonly"
  <2>1. BusLayer
    BY <1>7 DEF Layer
  <2>2. /\ UNCHANGED <<arm, bound, stack>> /\ DOMAIN dec' = DOMAIN dec /\ dec'.phase = dec.phase
    BY <2>1, <1>1 DEF BusLayer
  <2>3. \A b \in BOOLEAN : HiddenAfter(b, FALSE, "no") \in {dec.hidden, Composed}
    BY DEF HiddenAfter
  <2>4. dec'.hidden \in {dec.hidden, Composed}
    BY <2>1, <2>3, <1>1 DEF BusLayer, Armed
  <2> QED
    BY <2>2, <2>4, <1>1, <1>2, <1>7, WithinKeeps
<1>8. CASE bound.layer \notin {"offload", "onehead", "census", "busonly"}
  <2>1. dec' = [dec EXCEPT !.layer = @ + 1] /\ UNCHANGED <<arm, bound, stack>>
    BY <1>8 DEF Layer
  <2>2. DOMAIN dec' = DOMAIN dec /\ dec'.phase = dec.phase /\ dec'.hidden = dec.hidden
    BY <2>1, <1>1
  <2> QED
    BY <2>1, <2>2, <1>1, WithinKeeps
<1> QED
  BY <1>4, <1>5, <1>6, <1>7, <1>8

\* The steps of the head and of the decode keep the hidden state.
LEMMA DecodeKeeps ==
  ASSUME ArmInv, StepDone \/ HeadGemm \/ NextPass \/ Token
  PROVE  ArmInv'
<1> USE DEF DecFields
<1>1. arm \in OpenArms /\ args' = args /\ DOMAIN dec = DecFields
  BY DEF StepDone, HeadGemm, NextPass, Token, Decoding, OpenArms, ArmInv
<1>2. CASE StepDone
  <2>1. /\ UNCHANGED <<arm, bound, stack>> /\ DOMAIN dec' = DOMAIN dec
        /\ dec'.phase \in {"layers", "head"} /\ dec'.hidden = dec.hidden
    BY <1>1, <1>2 DEF StepDone
  <2> QED
    BY <2>1, <1>1, WithinKeeps
<1>3. CASE HeadGemm
  <2>1. CASE head'.refused
    <3>1. Refuse /\ dec' = dec
      BY <1>3, <2>1 DEF HeadGemm
    <3> QED
      BY <3>1, <1>1, RefuseKeeps
  <2>2. CASE ~head'.refused
    <3>1. /\ UNCHANGED <<arm, bound, stack>> /\ DOMAIN dec' = DOMAIN dec
          /\ dec'.phase = "head" /\ dec'.hidden = dec.hidden
      BY <1>1, <1>3, <2>2 DEF HeadGemm
    <3> QED
      BY <3>1, <1>1, WithinKeeps
  <2> QED
    BY <2>1, <2>2
<1>4. CASE NextPass
  <2>1. /\ UNCHANGED <<arm, bound, stack>> /\ DOMAIN dec' = DOMAIN dec
        /\ dec'.phase = "head" /\ dec'.hidden = dec.hidden
    BY <1>1, <1>4 DEF NextPass
  <2> QED
    BY <2>1, <1>1, WithinKeeps
<1>5. CASE Token
  <2>1. /\ UNCHANGED <<arm, bound, stack>> /\ DOMAIN dec' = DOMAIN dec
        /\ dec'.phase \in {"over", "layers"} /\ dec'.hidden = dec.hidden
    BY <1>1, <1>5 DEF Token
  <2> QED
    BY <2>1, <1>1, WithinKeeps
<1> QED
  BY <1>2, <1>3, <1>4, <1>5

\* What follows an arm is an arm or the report.
LEMMA AfterArmIs ==
  ASSUME NEW a
  PROVE  AfterArm(a) \in OpenArms \cup {"report"}
<1>1. AfterOne(a) \in {"host", "bus", "poison", "red", "report"}
  BY DEF AfterOne
<1>2. AfterArm(a) \in {AfterOne(a), "host", "bus", "control", "poison", "report"}
  BY DEF AfterArm
<1> QED
  BY <1>1, <1>2 DEF OpenArms, ArmNames

\* Between the arms: an arm left, the next one entered, the red arm.
LEMMA BetweenKeeps ==
  ASSUME ArmInv, Admit \/ ArmOver \/ NextArm \/ RedArm \/ Report
  PROVE  ArmInv'
<1> USE DEF DecFields
<1>0. args' = args /\ DOMAIN dec = DecFields
  BY DEF Admit, ArmOver, NextArm, RedArm, Report, ReportHead, ReportLayer, ReportLayer05B, ReportMulti,
         Conclude, ArmInv
<1>1. CASE Admit
  <2>1. arm \notin OpenArms
    BY <1>1 DEF Admit, OpenArms, ArmNames
  <2>2. CASE Enter("on")
    BY <2>1, <2>2, <1>0, EnterKeeps DEF OpenArms, ArmNames
  <2>3. CASE ~Enter("on")
    <3>1. arm' = "end" /\ UNCHANGED <<bound, stack, dec>>
      BY <1>1, <2>3 DEF Admit
    <3> QED
      BY <3>1, <2>1, <1>0 DEF ArmInv, OpenArms, ArmNames
  <2> QED
    BY <2>2, <2>3
<1>2. CASE ArmOver
  <2>1. arm \in OpenArms
    BY <1>2 DEF ArmOver, Decoding, OpenArms
  <2>2. CASE bound.layer = "census" /\ ~CensusHolds
    <3>1. Refuse /\ dec' = dec
      BY <1>2, <2>2 DEF ArmOver
    <3> QED
      BY <3>1, <2>1, <1>0, RefuseKeeps
  <2>3. CASE ~(bound.layer = "census" /\ ~CensusHolds)
    <3>1. /\ bound' = Pure /\ stack' = << >> /\ arm' = "between"
          /\ dec' = [dec EXCEPT !.phase = arm]
      BY <1>2, <2>1, <2>3, LeavesPure DEF ArmOver
    <3>2. arm # "red"
      BY <1>2 DEF ArmOver, Decoding, ArmNames
    <3>3. DOMAIN dec' = DecFields /\ dec'.phase # "red"
      BY <3>1, <3>2, <1>0
    <3> QED
      BY <3>1, <3>3 DEF ArmInv, OpenArms, ArmNames
  <2> QED
    BY <2>2, <2>3
<1>3. CASE NextArm
  <2>1. arm = "between" /\ bound = Pure /\ stack = << >> /\ arm \notin OpenArms
    BY <1>3 DEF NextArm, ArmInv, OpenArms, ArmNames
  <2>2. CASE Refuse /\ dec' = dec
    BY <2>1, <2>2, <1>0, RefuseKeeps
  <2>3. CASE arm' = "report" /\ UNCHANGED <<bound, stack, dec>>
    BY <2>1, <2>3, <1>0 DEF ArmInv, OpenArms, ArmNames
  <2>4. CASE Enter(AfterArm(dec.phase)) /\ AfterArm(dec.phase) # "report"
    BY <2>1, <2>4, <1>0, AfterArmIs, EnterKeeps
  <2> QED
    BY <1>3, <2>2, <2>3, <2>4 DEF NextArm
<1>4. CASE RedArm
  <2>1. arm = "red" /\ arm \in OpenArms
    BY <1>4 DEF RedArm, OpenArms
  <2>2. bound["norm_builder"] = "golden"
    BY <2>1, ArmsResolve DEF ArmInv
  <2>3. /\ bound' = Pure /\ stack' = << >> /\ arm' = "between"
        /\ DOMAIN dec' = DecFields /\ dec'.hidden = "wrong"
    BY <1>0, <1>4, <2>1, <2>2, LeavesPure DEF RedArm
  <2> QED
    BY <2>3 DEF ArmInv, OpenArms, ArmNames
<1>5. CASE Report
  <2>1. arm = "report" /\ arm' = "end" /\ UNCHANGED <<bound, stack, dec>>
    BY <1>5 DEF Report, ReportHead, ReportLayer, ReportLayer05B, ReportMulti, Conclude
  <2> QED
    BY <2>1, <1>0 DEF ArmInv, OpenArms, ArmNames
<1> QED
  BY <1>1, <1>2, <1>3, <1>4, <1>5

\* Every step keeps it.
LEMMA ArmInvStep == ArmInv /\ [MultiNext]_multi => ArmInv'
<1>1. ASSUME ArmInv, UNCHANGED multi
      PROVE  ArmInv'
  BY <1>1 DEF multi, ArmInv, Composed, Contexts, TileContexts, Driver
<1> QED
  BY <1>1, LayerKeeps, DecodeKeeps, BetweenKeeps DEF MultiNext

\* ArmsApart, of every run of the four drivers.
THEOREM ArmsApartHolds == MultiSpec => []ArmsApart
<1>1. MultiSpec => []ArmInv
  BY ArmInvInit, ArmInvStep, PTL DEF MultiSpec
<1> QED
  BY <1>1, ArmInvApart, PTL

-----------------------------------------------------------------------------
(* LmHead: the slices of the head, and what the tile gives for one.        *)

\* The names of the offloader's fields.
HeadFields == {"armed", "rows", "pass", "serve", "recording", "cursor", "thisPass", "servedRows", "depth",
               "memo", "flown", "exact", "files", "evidence", "reclaimed", "poisonRow", "calls",
               "invocations", "gold", "tile", "poisoned", "refused"}

\* The rows of a slice, and golden's values of them.
SliceRows(v0) == v0 .. v0 + Height(v0) - 1
HostRows(acc, v0) == [v \in SliceRows(v0) |-> acc[v]]

\* A slice is not empty and ends within the vocabulary.
LEMMA HeightBounds ==
  ASSUME NEW v0 \in Nat, v0 < Vocab
  PROVE  Height(v0) \in Nat \ {0} /\ Height(v0) <= DimMax /\ v0 + Height(v0) <= Vocab
BY LmHeadAssumption DEF Height, Smaller

\* What a slice outside the rows asked for leaves: golden's values.
LEMMA ServeOutside ==
  ASSUME NEW h, DOMAIN h = HeadFields, NEW md, NEW acc, NEW v0 \in Nat, v0 < Vocab, NEW wrong,
         NEW k, NEW keepJobs, h.cursor = v0, h.thisPass \in Int, Budget(h, Height(v0)) = 0
  PROVE  LET r == Serve(h, md, acc, v0, wrong, k, keepJobs)
         IN  /\ DOMAIN r = HeadFields
             /\ \A f \in HeadFields \ {"cursor", "calls", "thisPass", "tile", "poisoned"} : r[f] = h[f]
             /\ r.cursor = v0 + Height(v0) /\ r.thisPass = h.thisPass
             /\ h.pass = 3 => r.tile = h.tile /\ r.poisoned = Overlay(h.poisoned, HostRows(acc, v0))
             /\ h.pass # 3 => r.poisoned = h.poisoned /\ r.tile = Overlay(h.tile, HostRows(acc, v0))
<1> DEFINE m == Height(v0)
           host == [v \in v0 .. v0 + m - 1 |-> acc[v]]
           next == [h EXCEPT !.cursor = v0 + m, !.calls = @ + 1, !.thisPass = @ + 0]
<1>1. ExpectHeadSlice(h, v0)
  BY HeightBounds DEF ExpectHeadSlice
<1>2. Serve(h, md, acc, v0, wrong, k, keepJobs) = Keep(next, host)
  BY <1>1 DEF Serve
<1>3. /\ DOMAIN next = HeadFields
      /\ \A f \in HeadFields \ {"cursor", "calls", "thisPass"} : next[f] = h[f]
      /\ next.cursor = v0 + m /\ next.thisPass = h.thisPass
  <2>1. DOMAIN next = HeadFields
    OBVIOUS
  <2>2. ASSUME NEW f \in HeadFields \ {"cursor", "calls", "thisPass"}
        PROVE  next[f] = h[f]
    BY <2>2
  <2>3. "cursor" \in HeadFields /\ "thisPass" \in HeadFields
    BY DEF HeadFields
  <2>4. next.cursor = v0 + m /\ next.thisPass = h.thisPass + 0
    BY <2>3
  <2> QED
    BY <2>1, <2>2, <2>4
<1>4. host = HostRows(acc, v0)
  BY DEF HostRows, SliceRows
<1> HIDE DEF next, host
<1>5. next.pass = h.pass /\ next.tile = h.tile /\ next.poisoned = h.poisoned
  BY <1>3 DEF HeadFields
<1>6. CASE h.pass = 3
  <2>1. Keep(next, host) = [next EXCEPT !.poisoned = Overlay(h.poisoned, host)]
    BY <1>5, <1>6 DEF Keep
  <2> QED
    BY <2>1, <1>2, <1>3, <1>4, <1>6 DEF HeadFields
<1>7. CASE h.pass # 3
  <2>1. Keep(next, host) = [next EXCEPT !.tile = Overlay(h.tile, host)]
    BY <1>5, <1>7 DEF Keep
  <2> QED
    BY <2>1, <1>2, <1>3, <1>4, <1>7 DEF HeadFields
<1> QED
  BY <1>6, <1>7

\* The values one offered slice puts among the logits: the tile's rows t over
\* golden's, the row of the discriminator scaled.
Offered(h, k, acc, v0, t) == Poisoned(h, k, Overlay(HostRows(acc, v0), t))

\* What a slice of n asked-for rows does to the offloader's books.
ServedBooks(h, r, v0, n, hit, flies, keepJobs) ==
  /\ DOMAIN r = HeadFields
  /\ \A f \in {"armed", "rows", "pass", "serve", "recording", "gold", "poisonRow"} : r[f] = h[f]
  /\ r.cursor = v0 + Height(v0) /\ r.thisPass = h.thisPass + n
  /\ r.servedRows = h.servedRows + IF h.recording THEN n ELSE 0
  /\ r.memo = h.memo \cup {<<v0, n>>}
  /\ r.flown = [v \in Rows |-> h.flown[v] + IF ~hit /\ v \in v0 .. v0 + n - 1 THEN 1 ELSE 0]
  /\ ~flies => r.files = h.files /\ r.evidence = h.evidence
  /\ flies /\ ~keepJobs =>
       r.evidence = TRUE /\ \E f : r.files = h.files \cup IF h.evidence THEN {} ELSE {f}

\* And to the logits: the tile's values for rows t of the budget, those of the
\* memo if this operand was already run.
ServedValues(h, r, v0, n, hit, acc, k) ==
  \E t : /\ DOMAIN t \subseteq v0 .. v0 + n - 1
         /\ hit => t = [v \in v0 .. v0 + n - 1 |-> h.tile[v]]
         /\ r.exact = (h.exact /\ (h.recording => \A v \in DOMAIN t : t[v] = acc[v]))
         /\ h.pass = 3 => r.tile = h.tile /\ r.poisoned = Overlay(h.poisoned, Offered(h, k, acc, v0, t))
         /\ h.pass # 3 => r.poisoned = h.poisoned /\ r.tile = Overlay(h.tile, Offered(h, k, acc, v0, t))

\* What a slice with rows asked for leaves.
LEMMA ServeInside ==
  ASSUME NEW h, DOMAIN h = HeadFields, NEW md, NEW acc, NEW v0 \in Nat, v0 < Vocab, NEW wrong,
         NEW k, NEW keepJobs, h.cursor = v0, NEW n \in Nat \ {0}, n = Budget(h, Height(v0)),
         NEW r, r = Serve(h, md, acc, v0, wrong, k, keepJobs)
  PROVE  /\ ServedBooks(h, r, v0, n, MemoHit(h, v0, n), ~MemoHit(h, v0, n) /\ md # "golden", keepJobs)
         /\ ServedValues(h, r, v0, n, MemoHit(h, v0, n), acc, k)
<1> DEFINE m == Height(v0)
           hit == MemoHit(h, v0, n)
           host == [v \in v0 .. v0 + m - 1 |-> acc[v]]
           t == IF hit THEN [v \in v0 .. v0 + n - 1 |-> h.tile[v]]
                ELSE IF md = "golden" THEN [v \in v0 .. v0 + n - 1 |-> acc[v]]
                ELSE Accumulated(acc, v0, n, wrong)
           values == Poisoned(h, k, Overlay(host, t))
           flies == ~hit /\ md # "golden"
           flown == IF flies THEN Reclaim(h, ProgramFiles(v0, n), keepJobs) ELSE h
           next == [flown EXCEPT !.cursor = v0 + m, !.calls = @ + 1, !.thisPass = @ + n]
           last == [next EXCEPT
             !.memo = @ \cup {<<v0, n>>},
             !.flown = [v \in Rows |-> @[v] + IF ~hit /\ v \in v0 .. v0 + n - 1 THEN 1 ELSE 0],
             !.invocations = @ + IF flies THEN Invocations(n) ELSE 0,
             !.servedRows = @ + IF h.recording THEN n ELSE 0,
             !.exact = @ /\ (h.recording => \A v \in DOMAIN t : t[v] = acc[v])]
<1>1. ExpectHeadSlice(h, v0)
  BY HeightBounds DEF ExpectHeadSlice
<1>2. Serve(h, md, acc, v0, wrong, k, keepJobs) = Keep(last, values)
  <2>1. n > 0 /\ n # 0
    OBVIOUS
  <2> QED
    BY <1>1, <2>1 DEF Serve
<1>3. DOMAIN t \subseteq v0 .. v0 + n - 1 /\ (hit => t = [v \in v0 .. v0 + n - 1 |-> h.tile[v]])
  BY DEF Accumulated
<1>4. values = Offered(h, k, acc, v0, t)
  BY DEF Offered, HostRows, SliceRows
<1> HIDE DEF t, values
<1>5. /\ DOMAIN flown = HeadFields
      /\ \A f \in HeadFields \ {"evidence", "files", "reclaimed"} : flown[f] = h[f]
      /\ ~flies => flown.files = h.files /\ flown.evidence = h.evidence
      /\ flies /\ ~keepJobs => /\ flown.evidence = TRUE
                               /\ \E f : flown.files = h.files \cup IF h.evidence THEN {} ELSE {f}
  <2>1. CASE ~flies
    BY <2>1
  <2>2. CASE flies /\ keepJobs
    <3>1. flown = [h EXCEPT !.files = @ \cup ProgramFiles(v0, n)]
      BY <2>2 DEF Reclaim
    <3> QED
      BY <2>2, <3>1
  <2>3. CASE flies /\ ~keepJobs
    <3> DEFINE paths == ProgramFiles(v0, n)
               first == CHOOSE p \in paths : \A q \in paths : p[2] * Vocab + p[3] <= q[2] * Vocab + q[3]
               kept == IF h.evidence THEN {} ELSE {first}
               gone == Cardinality(paths \ kept)
    <3>1. flown = [h EXCEPT !.evidence = TRUE, !.files = @ \cup kept, !.reclaimed = @ + gone]
      BY <2>3 DEF Reclaim
    <3> HIDE DEF gone, first
    <3> QED
      BY <2>3, <3>1 DEF HeadFields
  <2> QED
    BY <2>1, <2>2, <2>3
<1> HIDE DEF flown, flies, hit
<1>6. /\ DOMAIN next = HeadFields
      /\ \A f \in HeadFields \ {"cursor", "calls", "thisPass"} : next[f] = flown[f]
      /\ next.cursor = v0 + m /\ next.thisPass = flown.thisPass + n
  <2>1. DOMAIN next = HeadFields
    BY <1>5
  <2>2. ASSUME NEW f \in HeadFields \ {"cursor", "calls", "thisPass"}
        PROVE  next[f] = flown[f]
    BY <2>2, <1>5
  <2>3. "cursor" \in HeadFields /\ "thisPass" \in HeadFields
    BY DEF HeadFields
  <2> QED
    BY <2>1, <2>2, <2>3, <1>5
<1> HIDE DEF next
<1>7. /\ DOMAIN last = HeadFields
      /\ \A f \in HeadFields \ {"memo", "flown", "invocations", "servedRows", "exact"} : last[f] = next[f]
      /\ last.memo = next.memo \cup {<<v0, n>>}
      /\ last.flown = [v \in Rows |-> next.flown[v] + IF ~hit /\ v \in v0 .. v0 + n - 1 THEN 1 ELSE 0]
      /\ last.servedRows = next.servedRows + IF h.recording THEN n ELSE 0
      /\ last.exact = (next.exact /\ (h.recording => \A v \in DOMAIN t : t[v] = acc[v]))
  <2>1. DOMAIN last = HeadFields
    BY <1>6
  <2>2. ASSUME NEW f \in HeadFields \ {"memo", "flown", "invocations", "servedRows", "exact"}
        PROVE  last[f] = next[f]
    BY <2>2, <1>6
  <2>3. {"memo", "flown", "servedRows", "exact"} \subseteq HeadFields
    BY DEF HeadFields
  <2>4. /\ last.memo = next.memo \cup {<<v0, n>>}
        /\ last.flown = [v \in Rows |-> next.flown[v] + IF ~hit /\ v \in v0 .. v0 + n - 1 THEN 1 ELSE 0]
        /\ last.servedRows = next.servedRows + IF h.recording THEN n ELSE 0
    BY <2>3, <1>6
  <2>5. last.exact = (next.exact /\ (h.recording => \A v \in DOMAIN t : t[v] = acc[v]))
    BY <2>3, <1>6
  <2> QED
    BY <2>1, <2>2, <2>4, <2>5
<1> HIDE DEF last
<1>8. /\ \A f \in {"armed", "rows", "pass", "serve", "recording", "gold", "poisonRow", "tile", "poisoned"} :
           last[f] = h[f]
      /\ last.cursor = v0 + m /\ last.thisPass = h.thisPass + n
      /\ last.servedRows = h.servedRows + IF h.recording THEN n ELSE 0
      /\ last.memo = h.memo \cup {<<v0, n>>}
      /\ last.flown = [v \in Rows |-> h.flown[v] + IF ~hit /\ v \in v0 .. v0 + n - 1 THEN 1 ELSE 0]
      /\ last.exact = (h.exact /\ (h.recording => \A v \in DOMAIN t : t[v] = acc[v]))
      /\ last.files = flown.files /\ last.evidence = flown.evidence
  <2>1. \A f \in HeadFields \ {"evidence", "files", "reclaimed", "cursor", "calls", "thisPass", "memo", "flown",
                               "invocations", "servedRows", "exact"} : last[f] = h[f]
    BY <1>5, <1>6, <1>7
  <2>2. \A f \in {"memo", "flown", "servedRows", "exact"} : next[f] = h[f]
    BY <1>5, <1>6 DEF HeadFields
  <2>3. \A f \in {"cursor", "thisPass"} : last[f] = next[f]
    BY <1>7 DEF HeadFields
  <2>4. flown.thisPass = h.thisPass
    BY <1>5 DEF HeadFields
  <2>5. \A f \in {"files", "evidence"} : last[f] = flown[f]
    BY <1>6, <1>7 DEF HeadFields
  <2>6. \A f \in {"armed", "rows", "pass", "serve", "recording", "gold", "poisonRow", "tile", "poisoned"} :
           last[f] = h[f]
    BY <2>1 DEF HeadFields
  <2> QED
    BY <2>2, <2>3, <2>4, <2>5, <2>6, <1>6, <1>7
<1>9a. r = Keep(last, values)
  BY <1>2
<1>9. /\ DOMAIN r = HeadFields
      /\ \A f \in HeadFields \ {"tile", "poisoned"} : r[f] = last[f]
      /\ h.pass = 3 => r.tile = h.tile /\ r.poisoned = Overlay(h.poisoned, values)
      /\ h.pass # 3 => r.poisoned = h.poisoned /\ r.tile = Overlay(h.tile, values)
  <2>1. last.pass = h.pass /\ last.tile = h.tile /\ last.poisoned = h.poisoned
    BY <1>8
  <2>2. CASE h.pass = 3
    <3>1. r = [last EXCEPT !.poisoned = Overlay(h.poisoned, values)]
      BY <2>1, <2>2, <1>9a DEF Keep
    <3> QED
      BY <3>1, <2>1, <2>2, <1>7 DEF HeadFields
  <2>3. CASE h.pass # 3
    <3>1. r = [last EXCEPT !.tile = Overlay(h.tile, values)]
      BY <2>1, <2>3, <1>9a DEF Keep
    <3> QED
      BY <3>1, <2>1, <2>3, <1>7 DEF HeadFields
  <2> QED
    BY <2>2, <2>3
<1>10. \A f \in {"armed", "rows", "pass", "serve", "recording", "gold", "poisonRow", "cursor", "thisPass",
                "servedRows", "memo", "flown", "exact", "files", "evidence"} : r[f] = last[f]
  BY <1>9 DEF HeadFields
<1>12. /\ \A f \in {"armed", "rows", "pass", "serve", "recording", "gold", "poisonRow"} : r[f] = h[f]
       /\ r.cursor = v0 + m /\ r.thisPass = h.thisPass + n
       /\ r.servedRows = h.servedRows + IF h.recording THEN n ELSE 0
       /\ r.memo = h.memo \cup {<<v0, n>>}
       /\ r.flown = [v \in Rows |-> h.flown[v] + IF ~hit /\ v \in v0 .. v0 + n - 1 THEN 1 ELSE 0]
  BY <1>8, <1>10
<1>13. /\ ~flies => r.files = h.files /\ r.evidence = h.evidence
       /\ flies /\ ~keepJobs =>
            /\ r.evidence = TRUE
            /\ \E f : r.files = h.files \cup IF h.evidence THEN {} ELSE {f}
  BY <1>5, <1>8, <1>10
<1>14. r.exact = (h.exact /\ (h.recording => \A v \in DOMAIN t : t[v] = acc[v]))
  BY <1>8, <1>10
<1>15. ServedBooks(h, r, v0, n, MemoHit(h, v0, n), ~MemoHit(h, v0, n) /\ md # "golden", keepJobs)
  BY <1>9, <1>12, <1>13 DEF flies, hit, ServedBooks
<1>16. ServedValues(h, r, v0, n, MemoHit(h, v0, n), acc, k)
  BY <1>3, <1>4, <1>9, <1>14 DEF hit, ServedValues
<1> QED
  BY <1>15, <1>16

-----------------------------------------------------------------------------
(* LmHead: golden's pass and the tile's, one slice.                        *)

\* Where golden starts a GEMM of the head.
Start(v) == \E q \in Nat : v = q * DimMax

\* The next slice starts where this one ends, and no slice starts within one.
LEMMA StartsAreApart ==
  ASSUME NEW v0 \in Nat, v0 < Vocab, Start(v0)
  PROVE  /\ v0 + Height(v0) < Vocab => Start(v0 + Height(v0))
         /\ \A v \in Nat : Start(v) /\ v < v0 + Height(v0) => v <= v0
<1> USE LmHeadAssumption
<1>1. PICK q \in Nat : v0 = q * DimMax
  BY DEF Start
<1>2. ASSUME v0 + Height(v0) < Vocab
      PROVE  Start(v0 + Height(v0))
  <2>1. Height(v0) = DimMax
    BY <1>2 DEF Height, Smaller
  <2>2. v0 + Height(v0) = (q + 1) * DimMax
    BY <2>1, <1>1
  <2> QED
    BY <2>2 DEF Start
<1>3. ASSUME NEW v \in Nat, Start(v), v < v0 + Height(v0)
      PROVE  v <= v0
  <2>1. PICK p \in Nat : v = p * DimMax
    BY <1>3 DEF Start
  <2>2. SUFFICES ASSUME p > q
                 PROVE  FALSE
    <3>1. CASE p = q
      BY <3>1, <1>1, <2>1
    <3>2. CASE p < q
      <4> DEFINE r == q - p
      <4>1. r \in Nat /\ q = p + r
        BY <3>2
      <4> HIDE DEF r
      <4>2. q * DimMax = p * DimMax + r * DimMax
        BY <4>1
      <4>3. r * DimMax \in Nat
        BY <4>1
      <4> QED
        BY <4>2, <4>3, <1>1, <2>1, <1>3
    <3> QED
      BY <3>1, <3>2
  <2> DEFINE r == p - q - 1
  <2>3. r \in Nat /\ p = q + 1 + r
    BY <2>2
  <2> HIDE DEF r
  <2>4. p * DimMax = q * DimMax + DimMax + r * DimMax
    BY <2>3
  <2>5. r * DimMax \in Nat
    BY <2>3
  <2>6. Height(v0) <= DimMax /\ Height(v0) \in Nat
    BY HeightBounds
  <2> QED
    BY <2>4, <2>5, <2>6, <1>1, <2>1, <1>3
<1> QED
  BY <1>2, <1>3

\* A head nothing of which was offered yet.
Unserved(h) ==
  /\ h.servedRows = 0 /\ h.memo = {} /\ h.exact = TRUE /\ h.files = {} /\ h.evidence = FALSE
  /\ \A v \in Rows : h.flown[v] = 0

\* What the second pass has done for the rows before s: those asked for flown
\* once each and kept in the memo, the others golden's, the comparison with
\* golden exact, and, where files are to be deleted, one left.
Tiled(h, s, acc, one) ==
  /\ h.servedRows = Smaller(h.rows, s)
  /\ \A v \in Rows : v < s /\ v < h.rows /\ Start(v) => <<v, Smaller(Height(v), h.rows - v)>> \in h.memo
  /\ \A e \in h.memo : e[1] \in Nat /\ e[1] < s
  /\ \A v \in Rows : h.flown[v] = IF v < s /\ v < h.rows THEN 1 ELSE 0
  /\ \A v \in Rows : v < s /\ v >= h.rows => h.tile[v] = acc[v]
  /\ h.exact <=> \A v \in Rows : v < s => h.tile[v] = acc[v]
  /\ one /\ s = 0 => h.files = {} /\ h.evidence = FALSE
  /\ one /\ s > 0 => h.evidence = TRUE /\ \E f : h.files = {f}

LogitsAreRows(h) ==
  /\ h.gold = [v \in Rows |-> h.gold[v]]
  /\ h.tile = [v \in Rows |-> h.tile[v]]
  /\ h.poisoned = [v \in Rows |-> h.poisoned[v]]

\* The third pass gives the model's row of the discriminator alone another
\* value.
Discriminated(h, s) ==
  /\ h.poisonRow = PoisonRow(h)
  /\ \A v \in Rows : v < s /\ v # h.poisonRow => h.poisoned[v] = h.tile[v]

\* The offloader while a head with these accumulators is computed up to row s.
HeadInv(h, s, acc, one) ==
  /\ DOMAIN h = HeadFields /\ LogitsAreRows(h) /\ h.rows \in Nat /\ h.pass \in 0 .. 3
  /\ h.armed => h.pass = 0 /\ h.rows > 0 /\ Unserved(h)
  /\ h.pass = 0 => h.serve = FALSE
  /\ h.pass = 1 => /\ h.serve = FALSE /\ h.rows > 0 /\ Unserved(h)
                   /\ \A v \in Rows : v < s => h.gold[v] = acc[v]
  /\ h.pass \in {2, 3} => /\ h.serve = TRUE /\ h.rows > 0 /\ h.cursor = s /\ h.thisPass = Smaller(h.rows, s)
                          /\ \A v \in Rows : h.gold[v] = acc[v]
  /\ h.pass = 2 => h.recording = TRUE /\ h.poisonRow = -1 /\ Tiled(h, s, acc, one)
  /\ h.pass = 3 => h.recording = FALSE /\ Tiled(h, Vocab, acc, one) /\ Discriminated(h, s)

\* Putting some rows in among the logits.
LEMMA OverlayRows ==
  ASSUME NEW x, x = [v \in Rows |-> x[v]], NEW values
  PROVE  /\ Overlay(x, values) = [v \in Rows |-> Overlay(x, values)[v]]
         /\ \A v \in Rows : Overlay(x, values)[v] = IF v \in DOMAIN values THEN values[v] ELSE x[v]
<1>1. DOMAIN x = Rows
  BY Zenon
<1> QED
  BY <1>1 DEF Overlay

\* The budget of a slice, as far as the pass has come.
LEMMA BudgetIs ==
  ASSUME NEW h, NEW s \in Nat, s < Vocab, h.rows \in Nat, h.thisPass = Smaller(h.rows, s)
  PROVE  /\ h.rows <= s => Budget(h, Height(s)) = 0
         /\ h.rows > s => Budget(h, Height(s)) = Smaller(Height(s), h.rows - s)
BY HeightBounds DEF Budget, Larger, Smaller

\* The pass that computes golden's logits.
LEMMA GoldenGemm ==
  ASSUME NEW h, NEW s \in Nat, s < Vocab, NEW acc, NEW one, HeadInv(h, s, acc, one), h.pass \in {0, 1},
         NEW md, NEW wrong, NEW k, NEW keepJobs
  PROVE  LET r == GemmCall(h, md, acc, s, wrong, k, keepJobs)
         IN  HeadInv(r, s + Height(s), acc, one) /\ r.pass = h.pass
<1> DEFINE r == GemmCall(h, md, acc, s, wrong, k, keepJobs)
           values == [v \in s .. s + Height(s) - 1 |-> acc[v]]
<1>1. h.serve = FALSE /\ DOMAIN h = HeadFields /\ LogitsAreRows(h)
  BY DEF HeadInv
<1>2. r = [h EXCEPT !.gold = Overlay(h.gold, values)]
  BY <1>1 DEF GemmCall
<1> HIDE DEF r
<1>3. /\ DOMAIN r = HeadFields /\ r.gold = Overlay(h.gold, values)
      /\ \A f \in HeadFields \ {"gold"} : r[f] = h[f]
  <2>1. "gold" \in HeadFields
    BY DEF HeadFields
  <2> QED
    BY <1>1, <1>2, <2>1
<1>4. \A f \in {"armed", "rows", "pass", "serve", "recording", "cursor", "thisPass", "servedRows", "memo",
              "flown", "exact", "files", "evidence", "poisonRow", "tile", "poisoned"} : r[f] = h[f]
  BY <1>3 DEF HeadFields
<1>5. /\ r.gold = [v \in Rows |-> r.gold[v]]
      /\ \A v \in Rows : r.gold[v] = IF v \in s .. s + Height(s) - 1 THEN acc[v] ELSE h.gold[v]
  <2>1. h.gold = [v \in Rows |-> h.gold[v]]
    BY <1>1 DEF LogitsAreRows
  <2> HIDE DEF values
  <2> DEFINE o == Overlay(h.gold, values)
  <2>2. /\ o = [v \in Rows |-> o[v]]
        /\ \A v \in Rows : o[v] = IF v \in DOMAIN values THEN values[v] ELSE h.gold[v]
    BY <2>1, OverlayRows
  <2>3. r.gold = o
    BY <1>3
  <2> HIDE DEF o
  <2> QED
    BY <2>2, <2>3 DEF values
<1>6. LogitsAreRows(r)
  BY <1>1, <1>4, <1>5 DEF LogitsAreRows
<1>7. Unserved(h) => Unserved(r)
  BY <1>4 DEF Unserved
<1>8. h.pass = 1 => \A v \in Rows : v < s + Height(s) => r.gold[v] = acc[v]
  BY <1>5, HeightBounds DEF HeadInv, Rows
<1> QED
  BY <1>3, <1>4, <1>6, <1>7, <1>8 DEF HeadInv, r

\* A slice of the pass that is the tile's, outside the rows asked for.
LEMMA TileGemmOutside ==
  ASSUME NEW h, NEW s \in Nat, s < Vocab, NEW acc, NEW one, HeadInv(h, s, acc, one), h.pass = 2,
         NEW md, NEW wrong, NEW k, NEW keepJobs, h.rows <= s
  PROVE  LET r == GemmCall(h, md, acc, s, wrong, k, keepJobs)
         IN  HeadInv(r, s + Height(s), acc, one) /\ r.pass = h.pass
<1> DEFINE r == GemmCall(h, md, acc, s, wrong, k, keepJobs)
<1>1. /\ h.serve = TRUE /\ DOMAIN h = HeadFields /\ LogitsAreRows(h) /\ h.cursor = s
      /\ h.thisPass = Smaller(h.rows, s) /\ h.rows \in Nat \ {0} /\ Tiled(h, s, acc, one)
  BY DEF HeadInv
<1>2. r = Serve(h, md, acc, s, wrong, k, keepJobs)
  BY <1>1 DEF GemmCall
<1>3. Budget(h, Height(s)) = 0 /\ h.thisPass = h.rows
  BY <1>1, BudgetIs DEF Smaller
<1>4. /\ DOMAIN r = HeadFields
      /\ \A f \in HeadFields \ {"cursor", "calls", "thisPass", "tile", "poisoned"} : r[f] = h[f]
      /\ r.cursor = s + Height(s) /\ r.thisPass = h.thisPass
      /\ r.poisoned = h.poisoned /\ r.tile = Overlay(h.tile, HostRows(acc, s))
  BY <1>1, <1>2, <1>3, ServeOutside
<1> HIDE DEF r
<1>5. \A f \in {"armed", "rows", "pass", "serve", "recording", "servedRows", "memo",
              "flown", "exact", "files", "evidence", "poisonRow", "gold"} : r[f] = h[f]
  BY <1>4 DEF HeadFields
<1>6. /\ r.tile = [v \in Rows |-> r.tile[v]]
      /\ \A v \in Rows : r.tile[v] = IF v \in s .. s + Height(s) - 1 THEN acc[v] ELSE h.tile[v]
  <2>1. h.tile = [v \in Rows |-> h.tile[v]]
    BY <1>1 DEF LogitsAreRows
  <2> DEFINE o == Overlay(h.tile, HostRows(acc, s))
  <2>2. /\ o = [v \in Rows |-> o[v]]
        /\ \A v \in Rows : o[v] = IF v \in DOMAIN HostRows(acc, s) THEN HostRows(acc, s)[v] ELSE h.tile[v]
    BY <2>1, OverlayRows
  <2>3. r.tile = o
    BY <1>4
  <2> HIDE DEF o
  <2> QED
    BY <2>2, <2>3 DEF HostRows, SliceRows
<1>7. LogitsAreRows(r)
  BY <1>1, <1>4, <1>5, <1>6 DEF LogitsAreRows
<1>8. Height(s) \in Nat \ {0} /\ s + Height(s) <= Vocab
  BY HeightBounds
<1>9. Tiled(r, s + Height(s), acc, one)
  <2>1. r.servedRows = Smaller(r.rows, s + Height(s))
    BY <1>1, <1>5, <1>8 DEF Tiled, Smaller
  <2>2. \A v \in Rows : v < s + Height(s) /\ v < r.rows /\ Start(v) =>
                          <<v, Smaller(Height(v), r.rows - v)>> \in r.memo
    BY <1>1, <1>5 DEF Tiled, Rows
  <2>3. \A e \in r.memo : e[1] \in Nat /\ e[1] < s + Height(s)
    <3>1. ASSUME NEW e \in r.memo
          PROVE  e[1] \in Nat /\ e[1] < s + Height(s)
      <4>1. e[1] \in Nat /\ e[1] < s
        BY <1>1, <1>5, <3>1 DEF Tiled
      <4> QED
        BY <4>1, <1>8
    <3> QED
      BY <3>1
  <2>4. \A v \in Rows : r.flown[v] = IF v < s + Height(s) /\ v < r.rows THEN 1 ELSE 0
    BY <1>1, <1>5, <1>8 DEF Tiled, Rows
  <2>5. \A v \in Rows : v < s + Height(s) /\ v >= r.rows => r.tile[v] = acc[v]
    BY <1>1, <1>5, <1>6, <1>8 DEF Tiled, Rows
  <2>6. r.exact <=> \A v \in Rows : v < s + Height(s) => r.tile[v] = acc[v]
    BY <1>1, <1>5, <1>6, <1>8 DEF Tiled, Rows
  <2>7. one => r.evidence = TRUE /\ \E f : r.files = {f}
    <3>1. s > 0
      BY <1>1
    <3>2. one => h.evidence = TRUE /\ \E f : h.files = {f}
      BY <1>1, <3>1 DEF Tiled
    <3>3. r.evidence = h.evidence /\ r.files = h.files
      BY <1>5
    <3> QED
      BY <3>2, <3>3
  <2>8. ~(s + Height(s) = 0)
    BY <1>8
  <2> QED
    BY <2>1, <2>2, <2>3, <2>4, <2>5, <2>6, <2>7, <2>8 DEF Tiled
<1>10. r.thisPass = Smaller(r.rows, s + Height(s))
  BY <1>1, <1>3, <1>4, <1>5, <1>8 DEF Smaller
<1> QED
  BY <1>1, <1>4, <1>5, <1>7, <1>9, <1>10 DEF HeadInv, r

\* What the tile's pass gives a row of the slice, whichever rows t the tile
\* brought: its value, or golden's.
LEMMA OfferedRows ==
  ASSUME NEW h, NEW k, NEW acc, NEW s, NEW t, NEW out1, out1 = Offered(h, k, acc, s, t)
  PROVE  /\ DOMAIN out1 = SliceRows(s)
         /\ \A v \in SliceRows(s) : v # h.poisonRow => out1[v] = IF v \in DOMAIN t THEN t[v] ELSE acc[v]
<1> DEFINE o == Overlay(HostRows(acc, s), t)
<1>1. DOMAIN HostRows(acc, s) = SliceRows(s) /\ \A v \in SliceRows(s) : HostRows(acc, s)[v] = acc[v]
  BY DEF HostRows
<1>2. DOMAIN o = SliceRows(s) /\ \A v \in SliceRows(s) : o[v] = IF v \in DOMAIN t THEN t[v] ELSE acc[v]
  BY <1>1 DEF Overlay
<1> HIDE DEF o
<1>3. out1 = Poisoned(h, k, o)
  BY DEF Offered, o
<1> QED
  BY <1>2, <1>3 DEF Poisoned

\* A slice of the tile's pass with rows asked for.
LEMMA TileGemm ==
  ASSUME NEW h, NEW s \in Nat, s < Vocab, Start(s), NEW acc, NEW md, NEW keepJobs,
         HeadInv(h, s, acc, md # "golden" /\ ~keepJobs), h.pass = 2,
         NEW wrong, NEW k, h.rows > s
  PROVE  LET r == GemmCall(h, md, acc, s, wrong, k, keepJobs)
         IN  HeadInv(r, s + Height(s), acc, md # "golden" /\ ~keepJobs) /\ r.pass = h.pass
<1> DEFINE r == GemmCall(h, md, acc, s, wrong, k, keepJobs)
           one == md # "golden" /\ ~keepJobs
           n == Budget(h, Height(s))
<1>1. /\ h.serve = TRUE /\ DOMAIN h = HeadFields /\ LogitsAreRows(h) /\ h.cursor = s
      /\ h.thisPass = Smaller(h.rows, s) /\ h.rows \in Nat \ {0} /\ Tiled(h, s, acc, one)
      /\ h.recording = TRUE /\ h.poisonRow = -1
  BY DEF HeadInv
<1>2. r = Serve(h, md, acc, s, wrong, k, keepJobs)
  BY <1>1 DEF GemmCall
<1>3. n = Smaller(Height(s), h.rows - s) /\ h.thisPass = s
  BY <1>1, BudgetIs DEF Smaller
<1>4. Height(s) \in Nat \ {0} /\ s + Height(s) <= Vocab
  BY HeightBounds
<1>5. n \in Nat \ {0} /\ n <= Height(s) /\ s + n <= h.rows /\ (n < Height(s) => s + n = h.rows)
  BY <1>1, <1>3, <1>4 DEF Smaller
<1> HIDE DEF n
<1>6. ~MemoHit(h, s, n)
  <2>1. \A e \in h.memo : e[1] \in Nat /\ e[1] < s
    BY <1>1 DEF Tiled
  <2>2. <<s, n>>[1] = s
    OBVIOUS
  <2> QED
    BY <2>1, <2>2 DEF MemoHit
<1> DEFINE flies == md # "golden"
<1> HIDE DEF r
<1>S1. n = Budget(h, Height(s)) /\ h.cursor = s /\ n \in Nat \ {0} /\ DOMAIN h = HeadFields
  BY <1>1, <1>5 DEF n
<1>S2. /\ ServedBooks(h, r, s, n, MemoHit(h, s, n), ~MemoHit(h, s, n) /\ md # "golden", keepJobs)
       /\ ServedValues(h, r, s, n, MemoHit(h, s, n), acc, k)
  BY <1>2, <1>S1, ServeInside
<1>7. /\ DOMAIN r = HeadFields
      /\ \A f \in {"armed", "rows", "pass", "serve", "recording", "gold", "poisonRow"} : r[f] = h[f]
      /\ r.cursor = s + Height(s) /\ r.thisPass = h.thisPass + n
      /\ r.servedRows = h.servedRows + n
      /\ r.memo = h.memo \cup {<<s, n>>}
      /\ r.flown = [v \in Rows |-> h.flown[v] + IF v \in s .. s + n - 1 THEN 1 ELSE 0]
      /\ ~flies => r.files = h.files /\ r.evidence = h.evidence
      /\ flies /\ ~keepJobs =>
           /\ r.evidence = TRUE
           /\ \E f : r.files = h.files \cup IF h.evidence THEN {} ELSE {f}
  BY <1>1, <1>6, <1>S2 DEF ServedBooks
<1>8. PICK t : /\ DOMAIN t \subseteq s .. s + n - 1
               /\ r.exact = (h.exact /\ (h.recording => \A v \in DOMAIN t : t[v] = acc[v]))
               /\ r.poisoned = h.poisoned
               /\ r.tile = Overlay(h.tile, Offered(h, k, acc, s, t))
  <2>1. \E t : /\ DOMAIN t \subseteq s .. s + n - 1
               /\ r.exact = (h.exact /\ (h.recording => \A v \in DOMAIN t : t[v] = acc[v]))
               /\ r.poisoned = h.poisoned
               /\ r.tile = Overlay(h.tile, Offered(h, k, acc, s, t))
    <3>1. PICK t :
            /\ DOMAIN t \subseteq s .. s + n - 1
            /\ MemoHit(h, s, n) => t = [v \in s .. s + n - 1 |-> h.tile[v]]
            /\ r.exact = (h.exact /\ (h.recording => \A v \in DOMAIN t : t[v] = acc[v]))
            /\ h.pass = 3 => r.tile = h.tile /\ r.poisoned = Overlay(h.poisoned, Offered(h, k, acc, s, t))
            /\ h.pass # 3 => r.poisoned = h.poisoned /\ r.tile = Overlay(h.tile, Offered(h, k, acc, s, t))
      BY <1>S2, Zenon DEF ServedValues
    <3>2. h.pass # 3
      OBVIOUS
    <3> QED
      BY <3>1, <3>2
  <2> QED
    BY <2>1
<1> HIDE DEF one
<1>9. h.rows = r.rows /\ h.pass = r.pass /\ r.gold = h.gold
  BY <1>7
<1>10. /\ r.tile = [v \in Rows |-> r.tile[v]]
       /\ \A v \in Rows : r.tile[v] = IF v \in SliceRows(s)
                                      THEN IF v \in DOMAIN t THEN t[v] ELSE acc[v] ELSE h.tile[v]
  <2> DEFINE o == Offered(h, k, acc, s, t)
             z == Overlay(h.tile, o)
  <2>1. h.tile = [v \in Rows |-> h.tile[v]]
    BY <1>1 DEF LogitsAreRows
  <2>2. /\ DOMAIN o = SliceRows(s)
        /\ \A v \in SliceRows(s) : v # h.poisonRow => o[v] = IF v \in DOMAIN t THEN t[v] ELSE acc[v]
    <3>1. o = Offered(h, k, acc, s, t)
      OBVIOUS
    <3> HIDE DEF o
    <3> QED
      BY <3>1, OfferedRows
  <2>3. \A v \in SliceRows(s) : v # h.poisonRow
    BY <1>1 DEF SliceRows
  <2> HIDE DEF o
  <2>4. /\ z = [v \in Rows |-> z[v]]
        /\ \A v \in Rows : z[v] = IF v \in DOMAIN o THEN o[v] ELSE h.tile[v]
    BY <2>1, OverlayRows
  <2>5. r.tile = z
    BY <1>8 DEF o
  <2> HIDE DEF z
  <2> QED
    BY <2>2, <2>3, <2>4, <2>5
<1>11. LogitsAreRows(r)
  BY <1>1, <1>8, <1>9, <1>10 DEF LogitsAreRows
<1>12. Tiled(r, s + Height(s), acc, one)
  <2>1. r.servedRows = Smaller(r.rows, s + Height(s))
    BY <1>1, <1>3, <1>4, <1>5, <1>7, <1>9 DEF Tiled, Smaller
  <2>2. ASSUME NEW v \in Rows, v < s + Height(s), v < r.rows, Start(v)
        PROVE  <<v, Smaller(Height(v), r.rows - v)>> \in r.memo
    <3>1. v \in Nat /\ v <= s
      BY <2>2, StartsAreApart DEF Rows
    <3>2. CASE v < s
      BY <2>2, <3>2, <1>1, <1>7, <1>9 DEF Tiled
    <3>3. CASE v = s
      BY <3>3, <1>3, <1>7, <1>9
    <3> QED
      BY <3>1, <3>2, <3>3
  <2>3. \A e \in r.memo : e[1] \in Nat /\ e[1] < s + Height(s)
    <3>1. ASSUME NEW e \in r.memo
          PROVE  e[1] \in Nat /\ e[1] < s + Height(s)
      <4>1. CASE e \in h.memo
        <5>1. e[1] \in Nat /\ e[1] < s
          BY <1>1, <4>1 DEF Tiled
        <5> QED
          BY <5>1, <1>4
      <4>2. CASE e = <<s, n>>
        BY <4>2, <1>4
      <4> QED
        BY <3>1, <4>1, <4>2, <1>7
    <3> QED
      BY <3>1
  <2>4. ASSUME NEW v \in Rows
        PROVE  r.flown[v] = IF v < s + Height(s) /\ v < r.rows THEN 1 ELSE 0
    <3>1. r.flown[v] = h.flown[v] + IF v \in s .. s + n - 1 THEN 1 ELSE 0
      BY <1>7
    <3>2. h.flown[v] = IF v < s /\ v < h.rows THEN 1 ELSE 0
      BY <1>1 DEF Tiled
    <3> QED
      BY <3>1, <3>2, <1>1, <1>4, <1>5, <1>9 DEF Rows
  <2>5. ASSUME NEW v \in Rows, v < s + Height(s), v >= r.rows
        PROVE  r.tile[v] = acc[v]
    <3>1. v \in SliceRows(s)
      BY <2>5, <1>1, <1>4, <1>9 DEF Rows, SliceRows
    <3>2. v \notin DOMAIN t
      BY <2>5, <1>5, <1>8, <1>9, <1>1 DEF Rows
    <3> QED
      BY <3>1, <3>2, <1>10
  <2>6. r.exact <=> \A v \in Rows : v < s + Height(s) => r.tile[v] = acc[v]
    <3>1. h.exact <=> \A v \in Rows : v < s => h.tile[v] = acc[v]
      BY <1>1 DEF Tiled
    <3>2. r.exact <=> h.exact /\ \A v \in DOMAIN t : t[v] = acc[v]
      BY <1>8, <1>1
    <3>3. \A v \in Rows : v < s => (v < s + Height(s) /\ r.tile[v] = h.tile[v])
      BY <1>4, <1>10 DEF Rows, SliceRows
    <3>4. \A v \in DOMAIN t : v \in Rows /\ v < s + Height(s) /\ v \in SliceRows(s) /\ r.tile[v] = t[v]
      <4>1. ASSUME NEW v \in DOMAIN t
            PROVE  v \in Rows /\ v < s + Height(s) /\ v \in SliceRows(s)
        BY <1>4, <1>5, <1>8, LmHeadAssumption DEF Rows, SliceRows
      <4> QED
        BY <4>1, <1>10
    <3>5. \A v \in Rows : (v < s + Height(s) /\ ~(v < s) /\ v \notin DOMAIN t) => r.tile[v] = acc[v]
      BY <1>4, <1>10 DEF Rows, SliceRows
    <3>6. ASSUME r.exact
          PROVE  \A v \in Rows : v < s + Height(s) => r.tile[v] = acc[v]
      BY <3>1, <3>2, <3>3, <3>4, <3>5, <3>6
    <3>7. ASSUME \A v \in Rows : v < s + Height(s) => r.tile[v] = acc[v]
          PROVE  r.exact
      BY <3>1, <3>2, <3>3, <3>4, <3>7
    <3> QED
      BY <3>6, <3>7
  <2>7. one => r.evidence = TRUE /\ \E f : r.files = {f}
    <3> SUFFICES ASSUME one
                 PROVE  r.evidence = TRUE /\ \E f : r.files = {f}
      OBVIOUS
    <3>1. r.evidence = TRUE /\ \E f : r.files = h.files \cup IF h.evidence THEN {} ELSE {f}
      BY <1>7 DEF one
    <3>2. CASE s = 0
      <4>1. h.files = {} /\ h.evidence = FALSE
        BY <1>1, <3>2 DEF Tiled
      <4> QED
        BY <3>1, <4>1
    <3>3. CASE s > 0
      <4>1. h.evidence = TRUE /\ \E f : h.files = {f}
        BY <1>1, <3>3 DEF Tiled
      <4> QED
        BY <3>1, <4>1
    <3>4. s = 0 \/ s > 0
      OBVIOUS
    <3> QED
      BY <3>2, <3>3, <3>4
  <2>8. ~(s + Height(s) = 0)
    BY <1>4
  <2> QED
    BY <2>1, <2>2, <2>3, <2>4, <2>5, <2>6, <2>7, <2>8 DEF Tiled
<1>13. r.thisPass = Smaller(r.rows, s + Height(s))
  BY <1>1, <1>3, <1>4, <1>5, <1>7, <1>9 DEF Smaller
<1>14. r.armed = h.armed /\ r.serve = TRUE /\ r.recording = TRUE /\ r.poisonRow = -1
  BY <1>1, <1>7
<1>15. \A v \in Rows : r.gold[v] = acc[v]
  BY <1>9 DEF HeadInv
<1>16. ~h.armed
  BY DEF HeadInv
<1> QED
  BY <1>1, <1>7, <1>9, <1>11, <1>12, <1>13, <1>14, <1>15, <1>16 DEF HeadInv, r, one

-----------------------------------------------------------------------------
(* LmHead: the discriminator's pass, one slice; one slice of any pass.     *)

\* The tile's pass, its books and its logits, is what it was.
LEMMA TiledStays ==
  ASSUME NEW h, NEW r, NEW acc, NEW one, Tiled(h, Vocab, acc, one),
         \A f \in {"rows", "servedRows", "memo", "files", "evidence", "tile"} : r[f] = h[f],
         r.exact <=> h.exact,
         \A v \in Rows : r.flown[v] = h.flown[v]
  PROVE  Tiled(r, Vocab, acc, one)
<1>1. /\ r.rows = h.rows /\ r.servedRows = h.servedRows /\ r.memo = h.memo
      /\ r.files = h.files /\ r.evidence = h.evidence /\ r.tile = h.tile
  OBVIOUS
<1> QED
  BY <1>1 DEF Tiled

\* A slice of the discriminator's pass, outside the rows asked for.
LEMMA PoisonGemmOutside ==
  ASSUME NEW h, NEW s \in Nat, s < Vocab, NEW acc, NEW one, HeadInv(h, s, acc, one), h.pass = 3,
         NEW md, NEW wrong, NEW k, NEW keepJobs, h.rows <= s
  PROVE  LET r == GemmCall(h, md, acc, s, wrong, k, keepJobs)
         IN  HeadInv(r, s + Height(s), acc, one) /\ r.pass = h.pass
<1> DEFINE r == GemmCall(h, md, acc, s, wrong, k, keepJobs)
<1>1. /\ h.serve = TRUE /\ DOMAIN h = HeadFields /\ LogitsAreRows(h) /\ h.cursor = s
      /\ h.thisPass = Smaller(h.rows, s) /\ h.rows \in Nat \ {0} /\ Tiled(h, Vocab, acc, one)
      /\ h.recording = FALSE /\ Discriminated(h, s) /\ ~h.armed
  BY DEF HeadInv
<1>2. r = Serve(h, md, acc, s, wrong, k, keepJobs)
  BY <1>1 DEF GemmCall
<1>3. Budget(h, Height(s)) = 0 /\ h.thisPass = h.rows
  BY <1>1, BudgetIs DEF Smaller
<1>4. /\ DOMAIN r = HeadFields
      /\ \A f \in HeadFields \ {"cursor", "calls", "thisPass", "tile", "poisoned"} : r[f] = h[f]
      /\ r.cursor = s + Height(s) /\ r.thisPass = h.thisPass
      /\ r.tile = h.tile /\ r.poisoned = Overlay(h.poisoned, HostRows(acc, s))
  BY <1>1, <1>2, <1>3, ServeOutside
<1> HIDE DEF r
<1>5. \A f \in {"armed", "rows", "pass", "serve", "recording", "servedRows", "memo",
              "flown", "exact", "files", "evidence", "poisonRow", "gold"} : r[f] = h[f]
  BY <1>4 DEF HeadFields
<1>6. /\ r.poisoned = [v \in Rows |-> r.poisoned[v]]
      /\ \A v \in Rows : r.poisoned[v] = IF v \in s .. s + Height(s) - 1 THEN acc[v] ELSE h.poisoned[v]
  <2>1. h.poisoned = [v \in Rows |-> h.poisoned[v]]
    BY <1>1 DEF LogitsAreRows
  <2> DEFINE o == Overlay(h.poisoned, HostRows(acc, s))
  <2>2. /\ o = [v \in Rows |-> o[v]]
        /\ \A v \in Rows : o[v] = IF v \in DOMAIN HostRows(acc, s) THEN HostRows(acc, s)[v] ELSE h.poisoned[v]
    BY <2>1, OverlayRows
  <2>3. r.poisoned = o
    BY <1>4
  <2> HIDE DEF o
  <2> QED
    BY <2>2, <2>3 DEF HostRows, SliceRows
<1>7. LogitsAreRows(r)
  BY <1>1, <1>4, <1>5, <1>6 DEF LogitsAreRows
<1>8. Height(s) \in Nat \ {0} /\ s + Height(s) <= Vocab
  BY HeightBounds
<1>9. Tiled(r, Vocab, acc, one)
  BY <1>1, <1>4, <1>5, TiledStays
<1>10. r.thisPass = Smaller(r.rows, s + Height(s))
  BY <1>1, <1>3, <1>4, <1>5, <1>8 DEF Smaller
<1>11. Discriminated(r, s + Height(s))
  <2>1. r.poisonRow = PoisonRow(r)
    BY <1>1, <1>5 DEF Discriminated, PoisonRow
  <2>2. ASSUME NEW v \in Rows, v < s + Height(s), v # r.poisonRow
        PROVE  r.poisoned[v] = r.tile[v]
    <3>1. CASE v < s
      <4>1. h.poisoned[v] = h.tile[v]
        BY <1>1, <1>5, <2>2, <3>1 DEF Discriminated
      <4> QED
        BY <4>1, <3>1, <1>4, <1>6, <2>2 DEF Rows
    <3>2. CASE v >= s
      <4>1. r.poisoned[v] = acc[v]
        BY <1>6, <1>8, <2>2, <3>2 DEF Rows
      <4>2. v >= h.rows /\ v < Vocab
        BY <1>1, <2>2, <3>2, LmHeadAssumption DEF Rows
      <4>3. h.tile[v] = acc[v]
        BY <1>1, <4>2, <2>2 DEF Tiled
      <4> QED
        BY <4>1, <4>3, <1>4
    <3> QED
      BY <3>1, <3>2, <2>2 DEF Rows
  <2> QED
    BY <2>1, <2>2 DEF Discriminated
<1>12. \A v \in Rows : r.gold[v] = acc[v]
  BY <1>5 DEF HeadInv
<1> QED
  BY <1>1, <1>4, <1>5, <1>7, <1>9, <1>10, <1>11, <1>12 DEF HeadInv, r

\* A slice of the discriminator's pass with rows asked for: nothing is flown
\* again.
LEMMA PoisonGemm ==
  ASSUME NEW h, NEW s \in Nat, s < Vocab, Start(s), NEW acc, NEW one, HeadInv(h, s, acc, one), h.pass = 3,
         NEW md, NEW wrong, NEW k, NEW keepJobs, h.rows > s
  PROVE  LET r == GemmCall(h, md, acc, s, wrong, k, keepJobs)
         IN  HeadInv(r, s + Height(s), acc, one) /\ r.pass = h.pass
<1> DEFINE r == GemmCall(h, md, acc, s, wrong, k, keepJobs)
           n == Budget(h, Height(s))
<1>1. /\ h.serve = TRUE /\ DOMAIN h = HeadFields /\ LogitsAreRows(h) /\ h.cursor = s
      /\ h.thisPass = Smaller(h.rows, s) /\ h.rows \in Nat \ {0} /\ Tiled(h, Vocab, acc, one)
      /\ h.recording = FALSE /\ Discriminated(h, s) /\ ~h.armed
  BY DEF HeadInv
<1>2. r = Serve(h, md, acc, s, wrong, k, keepJobs)
  BY <1>1 DEF GemmCall
<1>3. n = Smaller(Height(s), h.rows - s) /\ h.thisPass = s
  BY <1>1, BudgetIs DEF Smaller
<1>4. Height(s) \in Nat \ {0} /\ s + Height(s) <= Vocab
  BY HeightBounds
<1>5. n \in Nat \ {0} /\ n <= Height(s) /\ s + n <= h.rows /\ (n < Height(s) => s + n = h.rows)
  BY <1>1, <1>3, <1>4 DEF Smaller
<1> HIDE DEF n, r
<1>6. MemoHit(h, s, n)
  <2>1. s \in Rows
    BY LmHeadAssumption DEF Rows
  <2>2. <<s, Smaller(Height(s), h.rows - s)>> \in h.memo
    BY <1>1, <2>1 DEF Tiled
  <2> QED
    BY <2>2, <1>3 DEF MemoHit
<1>7. n = Budget(h, Height(s)) /\ h.cursor = s /\ n \in Nat \ {0} /\ DOMAIN h = HeadFields
  BY <1>1, <1>5 DEF n
<1>8. /\ ServedBooks(h, r, s, n, MemoHit(h, s, n), ~MemoHit(h, s, n) /\ md # "golden", keepJobs)
      /\ ServedValues(h, r, s, n, MemoHit(h, s, n), acc, k)
  BY <1>2, <1>7, ServeInside
<1>9. /\ DOMAIN r = HeadFields
      /\ \A f \in {"armed", "rows", "pass", "serve", "recording", "gold", "poisonRow"} : r[f] = h[f]
      /\ r.cursor = s + Height(s) /\ r.thisPass = h.thisPass + n
      /\ r.servedRows = h.servedRows + 0
      /\ r.memo = h.memo \cup {<<s, n>>}
      /\ r.flown = [v \in Rows |-> h.flown[v] + 0]
      /\ r.files = h.files /\ r.evidence = h.evidence
  BY <1>1, <1>6, <1>8 DEF ServedBooks
<1>10. PICK t : /\ DOMAIN t \subseteq s .. s + n - 1
                /\ MemoHit(h, s, n) => t = [v \in s .. s + n - 1 |-> h.tile[v]]
                /\ r.exact = (h.exact /\ (h.recording => \A v \in DOMAIN t : t[v] = acc[v]))
                /\ h.pass = 3 => r.tile = h.tile /\ r.poisoned = Overlay(h.poisoned, Offered(h, k, acc, s, t))
                /\ h.pass # 3 => r.poisoned = h.poisoned /\ r.tile = Overlay(h.tile, Offered(h, k, acc, s, t))
  BY <1>8, Zenon DEF ServedValues
<1>11. /\ t = [v \in s .. s + n - 1 |-> h.tile[v]]
       /\ r.tile = h.tile /\ r.poisoned = Overlay(h.poisoned, Offered(h, k, acc, s, t))
  BY <1>6, <1>10
<1>12. r.exact <=> h.exact
  BY <1>1, <1>10
<1>13. /\ r.poisoned = [v \in Rows |-> r.poisoned[v]]
       /\ \A v \in Rows : v # h.poisonRow =>
            r.poisoned[v] = IF v \in SliceRows(s)
                            THEN IF v \in DOMAIN t THEN t[v] ELSE acc[v] ELSE h.poisoned[v]
  <2> DEFINE o == Offered(h, k, acc, s, t)
             z == Overlay(h.poisoned, o)
  <2>1. h.poisoned = [v \in Rows |-> h.poisoned[v]]
    BY <1>1 DEF LogitsAreRows
  <2>2. /\ DOMAIN o = SliceRows(s)
        /\ \A v \in SliceRows(s) : v # h.poisonRow => o[v] = IF v \in DOMAIN t THEN t[v] ELSE acc[v]
    <3>1. o = Offered(h, k, acc, s, t)
      OBVIOUS
    <3> HIDE DEF o
    <3> QED
      BY <3>1, OfferedRows
  <2> HIDE DEF o
  <2>4. /\ z = [v \in Rows |-> z[v]]
        /\ \A v \in Rows : z[v] = IF v \in DOMAIN o THEN o[v] ELSE h.poisoned[v]
    BY <2>1, OverlayRows
  <2>5. r.poisoned = z
    BY <1>11 DEF o
  <2> HIDE DEF z
  <2> QED
    BY <2>2, <2>4, <2>5
<1>14. r.servedRows = h.servedRows /\ r.memo = h.memo
  <2>1. h.servedRows \in Nat
    BY <1>1, LmHeadAssumption DEF Tiled, Smaller
  <2> QED
    BY <2>1, <1>6, <1>9 DEF MemoHit
<1>15. ASSUME NEW v \in Rows
       PROVE  r.flown[v] = h.flown[v]
  <2>1. h.flown[v] \in Nat
    BY <1>1 DEF Tiled
  <2> QED
    BY <2>1, <1>9
<1>16. Tiled(r, Vocab, acc, one)
  <2>1. r.rows = h.rows
    BY <1>9
  <2> QED
    BY <2>1, <1>1, <1>9, <1>11, <1>12, <1>14, <1>15, TiledStays
<1>17. r.rows = h.rows /\ r.gold = h.gold /\ r.poisonRow = h.poisonRow /\ r.pass = h.pass
       /\ r.serve = TRUE /\ r.recording = FALSE /\ r.armed = h.armed
  BY <1>1, <1>9
<1>18. LogitsAreRows(r)
  BY <1>1, <1>11, <1>13, <1>17 DEF LogitsAreRows
<1>19. r.thisPass = Smaller(r.rows, s + Height(s))
  BY <1>1, <1>3, <1>4, <1>5, <1>9, <1>17 DEF Smaller
<1>20. Discriminated(r, s + Height(s))
  <2>1. r.poisonRow = PoisonRow(r)
    BY <1>1, <1>14, <1>17 DEF Discriminated, PoisonRow
  <2>2. ASSUME NEW v \in Rows, v < s + Height(s), v # r.poisonRow
        PROVE  r.poisoned[v] = r.tile[v]
    <3>0. v \in Nat /\ v < Vocab
      BY LmHeadAssumption DEF Rows
    <3>1. CASE v < s
      <4>1. h.poisoned[v] = h.tile[v]
        BY <1>1, <1>17, <2>2, <3>1 DEF Discriminated
      <4>2. v \notin SliceRows(s)
        BY <3>0, <3>1, <1>4 DEF SliceRows
      <4> QED
        BY <4>1, <4>2, <1>11, <1>13, <1>17, <2>2
    <3>2. CASE v >= s /\ v < s + n
      <4>1. v \in SliceRows(s) /\ v \in s .. s + n - 1
        BY <3>0, <3>2, <1>4, <1>5, <2>2 DEF SliceRows
      <4>2. v \in DOMAIN t /\ t[v] = h.tile[v]
        BY <4>1, <1>11
      <4> QED
        BY <4>1, <4>2, <1>11, <1>13, <1>17, <2>2
    <3>3. CASE v >= s + n
      <4>1. v >= h.rows
        BY <3>0, <3>3, <1>1, <1>4, <1>5, <2>2
      <4>2. h.tile[v] = acc[v]
        BY <4>1, <3>0, <1>1, <2>2 DEF Tiled
      <4>3. v \in SliceRows(s) /\ v \notin DOMAIN t
        BY <3>0, <3>3, <1>4, <1>5, <1>10, <2>2 DEF SliceRows
      <4> QED
        BY <4>2, <4>3, <1>11, <1>13, <1>17, <2>2
    <3> QED
      BY <3>0, <3>1, <3>2, <3>3, <1>5
  <2> QED
    BY <2>1, <2>2 DEF Discriminated
<1>21. \A v \in Rows : r.gold[v] = acc[v]
  BY <1>17 DEF HeadInv
<1> QED
  BY <1>1, <1>9, <1>16, <1>17, <1>18, <1>19, <1>20, <1>21 DEF HeadInv, r

\* Every GEMM of a head keeps the invariant, one slice further.
LEMMA GemmKeeps ==
  ASSUME NEW h, NEW s \in Nat, s < Vocab, Start(s), NEW acc, NEW md, NEW keepJobs,
         HeadInv(h, s, acc, md # "golden" /\ ~keepJobs), NEW wrong, NEW k
  PROVE  LET r == GemmCall(h, md, acc, s, wrong, k, keepJobs)
         IN  HeadInv(r, s + Height(s), acc, md # "golden" /\ ~keepJobs) /\ r.pass = h.pass
<1>1. h.pass \in {0, 1, 2, 3} /\ h.rows \in Nat
  BY DEF HeadInv
<1>2. CASE h.pass \in {0, 1}
  BY <1>2, GoldenGemm
<1>3. CASE h.pass = 2 /\ h.rows <= s
  BY <1>3, TileGemmOutside
<1>4. CASE h.pass = 2 /\ h.rows > s
  BY <1>4, TileGemm
<1>5. CASE h.pass = 3 /\ h.rows <= s
  BY <1>5, PoisonGemmOutside
<1>6. CASE h.pass = 3 /\ h.rows > s
  BY <1>6, PoisonGemm
<1> QED
  BY <1>1, <1>2, <1>3, <1>4, <1>5, <1>6

-----------------------------------------------------------------------------
(* MultiRun: the invariant of a head, in and after a decode.               *)

\* The fields of what a finished arm gave.
OutFields == {"ids", "hidden", "ran", "served", "bad", "lost", "head"}

\* HeadExact, of one offloader.
HeadGood(h) ==
  h.pass > 1 =>
    /\ h.servedRows = Smaller(h.rows, Vocab)
    /\ \A v \in Rows : h.flown[v] = IF v < h.servedRows THEN 1 ELSE 0
    /\ \A v \in Rows : v >= h.servedRows => h.tile[v] = h.gold[v]
    /\ h.exact <=> h.tile = h.gold
    /\ h.pass = 3 => \A v \in Rows : v # PoisonRow(h) => h.poisoned[v] = h.tile[v]
    /\ Tile /\ {v \in Rows : h.flown[v] = 1} # {} /\ ~args.keep => Cardinality(h.files) = 1

\* Where a decode is in the head, and that the head's seams are open while an
\* offloader is at work.
DecodeInv ==
  /\ HeadInv(head, dec.slice, HeadAcc(dec.hidden), Tile /\ ~args.keep)
  /\ head.pass > 0 => dec.phase = "head" /\ bound.cpgemm = "lmhead"
  /\ dec.phase = "head" => /\ dec.slice \in Nat /\ dec.slice <= Vocab
                           /\ dec.slice < Vocab => Start(dec.slice)

\* The inductive invariant: what the running arm's offloader has done, and
\* that those of the finished arms are exact.
MultiInv ==
  /\ ArmInv
  /\ args.rows \in Int
  /\ DOMAIN out = ArmNames
  /\ \A a \in ArmNames : DOMAIN out[a] = OutFields /\ HeadGood(out[a].head)
  /\ Decoding => DecodeInv

\* A head of which every slice was computed is exact.
LEMMA WholeHeadGood ==
  ASSUME NEW h, NEW acc, HeadInv(h, Vocab, acc, Tile /\ ~args.keep)
  PROVE  HeadGood(h)
<1> SUFFICES ASSUME h.pass > 1
             PROVE  /\ h.servedRows = Smaller(h.rows, Vocab)
                    /\ \A v \in Rows : h.flown[v] = IF v < h.servedRows THEN 1 ELSE 0
                    /\ \A v \in Rows : v >= h.servedRows => h.tile[v] = h.gold[v]
                    /\ h.exact <=> h.tile = h.gold
                    /\ h.pass = 3 => \A v \in Rows : v # PoisonRow(h) => h.poisoned[v] = h.tile[v]
                    /\ Tile /\ {v \in Rows : h.flown[v] = 1} # {} /\ ~args.keep => Cardinality(h.files) = 1
  BY DEF HeadGood
<1>1. /\ h.pass \in {2, 3} /\ h.rows \in Nat /\ LogitsAreRows(h)
      /\ \A v \in Rows : h.gold[v] = acc[v]
      /\ Tiled(h, Vocab, acc, Tile /\ ~args.keep)
      /\ h.pass = 3 => Discriminated(h, Vocab)
  BY DEF HeadInv
<1>2. \A v \in Rows : v \in Nat /\ v < Vocab
  BY LmHeadAssumption DEF Rows
<1>3. Vocab \in Nat /\ Vocab > 0
  BY LmHeadAssumption
<1>4. h.servedRows = Smaller(h.rows, Vocab)
  BY <1>1 DEF Tiled
<1>5. \A v \in Rows : v < h.servedRows <=> v < h.rows
  BY <1>1, <1>2, <1>3, <1>4 DEF Smaller
<1>6. h.exact <=> h.tile = h.gold
  <2>1. h.exact <=> \A v \in Rows : h.tile[v] = h.gold[v]
    BY <1>1, <1>2 DEF Tiled
  <2>2. h.gold = [v \in Rows |-> h.gold[v]] /\ h.tile = [v \in Rows |-> h.tile[v]]
    BY <1>1 DEF LogitsAreRows
  <2> QED
    BY <2>1, <2>2
<1>7. h.pass = 3 => \A v \in Rows : v # PoisonRow(h) => h.poisoned[v] = h.tile[v]
  BY <1>1, <1>2 DEF Discriminated
<1>8. Tile /\ ~args.keep => Cardinality(h.files) = 1
  <2> SUFFICES ASSUME Tile /\ ~args.keep
               PROVE  Cardinality(h.files) = 1
    OBVIOUS
  <2>1. PICK f : h.files = {f}
    BY <1>1, <1>3 DEF Tiled
  <2> QED
    BY <2>1, FS_Singleton
<1>9. \A v \in Rows : h.flown[v] = IF v < h.servedRows THEN 1 ELSE 0
  BY <1>1, <1>2, <1>5 DEF Tiled
<1>10. \A v \in Rows : v >= h.servedRows => h.tile[v] = h.gold[v]
  <2>1. ASSUME NEW v \in Rows, v >= h.servedRows
        PROVE  h.tile[v] = h.gold[v]
    <3>1. v >= h.rows
      BY <2>1, <1>1, <1>2, <1>3, <1>4 DEF Smaller
    <3> QED
      BY <3>1, <1>1, <1>2 DEF Tiled
  <2> QED
    BY <2>1
<1> QED
  BY <1>4, <1>6, <1>7, <1>8, <1>9, <1>10

\* HeadExact follows.
LEMMA MultiInvExact == MultiInv => HeadExact
BY DEF MultiInv, HeadExact, HeadGood

\* A fresh offloader.
LEMMA FreshGood ==
  ASSUME NEW r \in Nat, NEW s, NEW acc, NEW one
  PROVE  HeadInv(FreshHead(r), s, acc, one) /\ FreshHead(r).pass = 0 /\ HeadGood(FreshHead(r))
<1> DEFINE h == FreshHead(r)
<1>1. /\ DOMAIN h = HeadFields /\ h.rows = r /\ h.pass = 0 /\ h.serve = FALSE
      /\ h.armed = (r > 0) /\ h.servedRows = 0 /\ h.memo = {} /\ h.exact = TRUE /\ h.files = {}
      /\ h.evidence = FALSE /\ h.flown = NoLogits /\ h.gold = NoLogits /\ h.tile = NoLogits
      /\ h.poisoned = NoLogits
  BY DEF FreshHead, HeadFields
<1> HIDE DEF h
<1>2. NoLogits = [v \in Rows |-> NoLogits[v]] /\ \A v \in Rows : NoLogits[v] = 0
  BY DEF NoLogits
<1>3. LogitsAreRows(h) /\ Unserved(h)
  BY <1>1, <1>2 DEF LogitsAreRows, Unserved
<1>4. HeadInv(h, s, acc, one)
  <2>1. h.armed => h.rows > 0
    BY <1>1
  <2>2. h.pass \in 0 .. 3 /\ h.pass # 1 /\ h.pass # 2 /\ h.pass # 3
    BY <1>1
  <2> QED
    BY <1>1, <1>3, <2>1, <2>2 DEF HeadInv
<1>5. HeadGood(h)
  BY <1>1 DEF HeadGood
<1> QED
  BY <1>1, <1>4, <1>5 DEF h

\* It holds before the first arm.
LEMMA MultiInvInit == MultiInit => MultiInv
<1> SUFFICES ASSUME MultiInit
             PROVE  MultiInv
  OBVIOUS
<1>1. ArmInv
  BY ArmInvInit
<1>2. args.rows \in Int
  <2>1. args \in Requests
    BY DEF MultiInit
  <2>2. Vocab \in Nat
    BY LmHeadAssumption
  <2> QED
    <3>1. args \in ShareRequests => args.rows \in -1 .. Vocab + 1
      BY DEF ShareRequests
    <3>2. args \in FitRequests => args.rows = 0
      BY DEF FitRequests
    <3>3. args \in OneLayerRequests => args.rows = 0
      BY DEF OneLayerRequests
    <3> QED
      BY <2>1, <2>2, <3>1, <3>2, <3>3 DEF Requests
<1>3. out = [a \in ArmNames |-> NoOut]
  BY DEF MultiInit
<1>4. DOMAIN NoOut = OutFields /\ NoOut.head = FreshHead(0)
  BY DEF NoOut, OutFields
<1>5. HeadGood(FreshHead(0))
  BY FreshGood
<1>6. ~Decoding
  BY DEF MultiInit, Decoding, ArmNames
<1> QED
  BY <1>1, <1>2, <1>3, <1>4, <1>5, <1>6 DEF MultiInv

\* What does not touch the outputs keeps them exact.
LEMMA OutputsStay ==
  ASSUME MultiInv, UNCHANGED <<mode, args>>, DOMAIN out' = ArmNames,
         \A a \in ArmNames : DOMAIN out'[a] = OutFields /\ out'[a].head = out[a].head
  PROVE  \A a \in ArmNames : DOMAIN out'[a] = OutFields /\ HeadGood(out[a].head)'
<1>1. \A a \in ArmNames : HeadGood(out[a].head)
  BY DEF MultiInv
<1>2. Tile' = Tile /\ args' = args
  BY DEF Tile
<1> QED
  BY <1>1, <1>2 DEF HeadGood

\* Steps that stop the decode, or stay outside one.
LEMMA OutsideKeeps ==
  ASSUME MultiInv, ArmInv', UNCHANGED <<mode, args, out>>, ~Decoding'
  PROVE  MultiInv'
<1>1. \A a \in ArmNames : DOMAIN out'[a] = OutFields /\ HeadGood(out[a].head)'
  BY OutputsStay DEF MultiInv
<1> QED
  BY <1>1 DEF MultiInv

\* An offloader at rest has no claim on the step.
LEMMA RestInv ==
  ASSUME NEW h, NEW s, NEW t, NEW acc, NEW acd, NEW one, HeadInv(h, s, acc, one), h.pass = 0
  PROVE  HeadInv(h, t, acd, one)
BY DEF HeadInv

\* A layer does not touch the head offloader.
LEMMA LayerHead ==
  ASSUME MultiInv, Layer, ArmInv'
  PROVE  MultiInv'
<1>1. UNCHANGED <<mode, args, out, head>> /\ Decoding /\ dec.phase = "layers" /\ DOMAIN dec = DecFields
  BY DEF Layer, MultiInv, ArmInv
<1>2. DecodeInv /\ head.pass = 0 /\ HeadInv(head, dec.slice, HeadAcc(dec.hidden), Tile /\ ~args.keep)
  BY <1>1 DEF MultiInv, DecodeInv, HeadInv
<1>3. arm' = "end" \/ (arm' = arm /\ dec'.phase = "layers")
  <2> USE DEF DecFields
  <2>1. CASE \E fault \in LayerFaults : OffloadLayer(fault)
    BY <1>1, <2>1 DEF OffloadLayer, Refuse
  <2>2. CASE \E fault \in LayerFaults : OffloadHead(fault)
    BY <1>1, <2>2 DEF OffloadHead, Refuse
  <2>3. CASE CensusLayer
    BY <1>1, <2>3 DEF CensusLayer
  <2>4. CASE BusLayer
    BY <1>1, <2>4 DEF BusLayer
  <2>5. CASE dec' = [dec EXCEPT !.layer = @ + 1] /\ UNCHANGED <<census, arm, bound, stack, verdict>>
    BY <1>1, <2>5
  <2> QED
    BY <2>1, <2>2, <2>3, <2>4, <2>5 DEF Layer
<1>4. CASE arm' = "end"
  BY <1>1, <1>4, OutsideKeeps DEF Decoding, ArmNames
<1>5. CASE arm' = arm /\ dec'.phase = "layers"
  <2>1. HeadInv(head, dec'.slice, HeadAcc(dec'.hidden), Tile /\ ~args.keep)
    BY <1>2, RestInv
  <2>2. DecodeInv'
    BY <1>1, <1>2, <1>5, <2>1 DEF DecodeInv, Tile
  <2>3. \A a \in ArmNames : DOMAIN out'[a] = OutFields /\ HeadGood(out[a].head)'
    BY <1>1, OutputsStay DEF MultiInv
  <2> QED
    BY <1>1, <2>2, <2>3 DEF MultiInv
<1> QED
  BY <1>3, <1>4, <1>5

-----------------------------------------------------------------------------
(* MultiRun: every step keeps it.                                          *)

\* Starting a pass moves the offloader's cursor, not its books.
LEMMA BeginPassIs ==
  ASSUME NEW h, DOMAIN h = HeadFields, NEW p, NEW row, NEW r, r = BeginPass(h, p, row)
  PROVE  /\ DOMAIN r = HeadFields
         /\ r.pass = p /\ r.poisonRow = row
         /\ r.cursor = 0 /\ r.thisPass = 0
         /\ \A f \in HeadFields \ {"pass", "serve", "recording", "poisonRow", "cursor", "thisPass"} :
              r[f] = h[f]
BY DEF BeginPass, HeadFields

\* The head of the last prefill step is offered: the first pass begins.
LEMMA FirstPass ==
  ASSUME NEW h, NEW s, NEW acc, NEW acd, NEW one, HeadInv(h, s, acc, one), h.armed
  PROVE  HeadInv(BeginPass([h EXCEPT !.armed = FALSE], 1, -1), 0, acd, one)
<1> DEFINE g == [h EXCEPT !.armed = FALSE]
           r == BeginPass(g, 1, -1)
<1>1. DOMAIN h = HeadFields /\ LogitsAreRows(h) /\ h.rows \in Nat /\ h.rows > 0 /\ Unserved(h)
  BY DEF HeadInv
<1>2. DOMAIN g = HeadFields /\ g.armed = FALSE /\ \A f \in HeadFields \ {"armed"} : g[f] = h[f]
  BY <1>1 DEF HeadFields
<1> HIDE DEF g
<1>10. r = BeginPass(g, 1, -1)
  OBVIOUS
<1> HIDE DEF r
<1>3. /\ DOMAIN r = HeadFields
      /\ r.pass = 1
      /\ \A f \in HeadFields \ {"pass", "serve", "recording", "poisonRow", "cursor", "thisPass"} : r[f] = g[f]
  BY <1>2, <1>10, BeginPassIs
<1>11. r.serve = FALSE
  <2>1. r.serve = (1 > 1)
    BY <1>2, <1>10 DEF BeginPass, HeadFields
  <2>2. (1 > 1) = FALSE
    OBVIOUS
  <2> QED
    BY <2>1, <2>2
<1>4. /\ r.armed = FALSE
      /\ \A f \in {"rows", "servedRows", "memo", "flown", "exact", "files", "evidence", "gold", "tile",
                  "poisoned"} : r[f] = h[f]
  BY <1>2, <1>3 DEF HeadFields
<1>5. LogitsAreRows(r) /\ Unserved(r)
  BY <1>1, <1>4 DEF LogitsAreRows, Unserved
<1>6. \A v \in Rows : ~(v < 0)
  BY LmHeadAssumption DEF Rows
<1> QED
  BY <1>1, <1>3, <1>11, <1>4, <1>5, <1>6 DEF HeadInv, r, g

\* Golden's pass is over: the tile's begins.
LEMMA SecondPass ==
  ASSUME NEW h, NEW acc, NEW one, HeadInv(h, Vocab, acc, one), h.pass = 1
  PROVE  HeadInv(BeginPass(h, 2, -1), 0, acc, one) /\ BeginPass(h, 2, -1).pass = 2
<1> DEFINE r == BeginPass(h, 2, -1)
<1>1. /\ DOMAIN h = HeadFields /\ LogitsAreRows(h) /\ h.rows \in Nat /\ h.rows > 0 /\ Unserved(h)
      /\ ~h.armed /\ \A v \in Rows : v < Vocab => h.gold[v] = acc[v]
  BY DEF HeadInv
<1>10. r = BeginPass(h, 2, -1)
  OBVIOUS
<1> HIDE DEF r
<1>2. /\ DOMAIN r = HeadFields
      /\ r.pass = 2 /\ r.poisonRow = -1
      /\ r.cursor = 0 /\ r.thisPass = 0
      /\ \A f \in HeadFields \ {"pass", "serve", "recording", "poisonRow", "cursor", "thisPass"} : r[f] = h[f]
  BY <1>1, <1>10, BeginPassIs
<1>11. r.serve = TRUE /\ r.recording = TRUE
  <2>1. r.serve = (2 > 1) /\ r.recording = (2 # 3)
    BY <1>1, <1>10 DEF BeginPass, HeadFields
  <2>2. (2 > 1) = TRUE /\ (2 # 3) = TRUE
    OBVIOUS
  <2> QED
    BY <2>1, <2>2
<1>3. \A f \in {"armed", "rows", "servedRows", "memo", "flown", "exact", "files", "evidence", "gold", "tile",
               "poisoned"} : r[f] = h[f]
  BY <1>2 DEF HeadFields
<1>4. LogitsAreRows(r)
  BY <1>1, <1>3 DEF LogitsAreRows
<1>5. \A v \in Rows : v \in Nat /\ v < Vocab /\ ~(v < 0)
  BY LmHeadAssumption DEF Rows
<1>6. Smaller(r.rows, 0) = 0
  BY <1>1, <1>3 DEF Smaller
<1>7. Tiled(r, 0, acc, one)
  BY <1>1, <1>3, <1>5, <1>6 DEF Tiled, Unserved
<1> QED
  BY <1>1, <1>2, <1>11, <1>3, <1>4, <1>5, <1>6, <1>7 DEF HeadInv, r

\* The tile's pass is over: the discriminator's begins.
LEMMA ThirdPass ==
  ASSUME NEW h, NEW acc, NEW one, HeadInv(h, Vocab, acc, one), h.pass = 2
  PROVE  HeadInv(BeginPass(h, 3, PoisonRow(h)), 0, acc, one) /\ BeginPass(h, 3, PoisonRow(h)).pass = 3
<1> DEFINE r == BeginPass(h, 3, PoisonRow(h))
<1>1. /\ DOMAIN h = HeadFields /\ LogitsAreRows(h) /\ h.rows \in Nat /\ h.rows > 0
      /\ ~h.armed /\ (\A v \in Rows : h.gold[v] = acc[v]) /\ Tiled(h, Vocab, acc, one)
  BY DEF HeadInv
<1>10. r = BeginPass(h, 3, PoisonRow(h))
  OBVIOUS
<1> HIDE DEF r
<1>2. /\ DOMAIN r = HeadFields
      /\ r.pass = 3 /\ r.poisonRow = PoisonRow(h)
      /\ r.cursor = 0 /\ r.thisPass = 0
      /\ \A f \in HeadFields \ {"pass", "serve", "recording", "poisonRow", "cursor", "thisPass"} : r[f] = h[f]
  BY <1>1, <1>10, BeginPassIs
<1>11. r.serve = TRUE /\ r.recording = FALSE
  <2>1. r.serve = (3 > 1) /\ r.recording = (3 # 3)
    BY <1>1, <1>10 DEF BeginPass, HeadFields
  <2>2. (3 > 1) = TRUE /\ (3 # 3) = FALSE
    OBVIOUS
  <2> QED
    BY <2>1, <2>2
<1>3. \A f \in {"armed", "rows", "servedRows", "memo", "flown", "exact", "files", "evidence", "gold", "tile",
               "poisoned"} : r[f] = h[f]
  BY <1>2 DEF HeadFields
<1>4. LogitsAreRows(r)
  BY <1>1, <1>3 DEF LogitsAreRows
<1>5. \A v \in Rows : ~(v < 0)
  BY LmHeadAssumption DEF Rows
<1>6. Smaller(r.rows, 0) = 0
  BY <1>1, <1>3 DEF Smaller
<1>7. Tiled(r, Vocab, acc, one)
  BY <1>1, <1>3, TiledStays
<1>8. Discriminated(r, 0)
  <2>1. PoisonRow(r) = PoisonRow(h)
    BY <1>3 DEF PoisonRow
  <2> QED
    BY <2>1, <1>2, <1>5 DEF Discriminated
<1> QED
  BY <1>1, <1>2, <1>11, <1>3, <1>4, <1>6, <1>7, <1>8 DEF HeadInv, r

\* A head that is over, or that was not offered, leaves the offloader at rest.
LEMMA AtRest ==
  ASSUME NEW h, NEW s, NEW t, NEW acc, NEW acd, NEW one, HeadInv(h, s, acc, one),
         NEW r, DOMAIN r = HeadFields, r.pass = 0, r.serve = FALSE,
         \A f \in HeadFields \ {"pass", "serve", "poisonRow"} : r[f] = h[f]
  PROVE  HeadInv(r, t, acd, one)
<1>1. \A f \in {"armed", "rows", "servedRows", "memo", "flown", "exact", "files", "evidence", "gold", "tile",
               "poisoned"} : r[f] = h[f]
  BY DEF HeadFields
<1>2. LogitsAreRows(h) /\ h.rows \in Nat /\ (h.armed => h.rows > 0 /\ Unserved(h))
  BY DEF HeadInv
<1>3. LogitsAreRows(r)
  BY <1>1, <1>2 DEF LogitsAreRows
<1>4. r.armed => r.rows > 0 /\ Unserved(r)
  BY <1>1, <1>2 DEF Unserved
<1>5. r.rows \in Nat
  BY <1>1, <1>2
<1> QED
  BY <1>3, <1>4, <1>5 DEF HeadInv

\* The end of a step: the head is offered, or the offloader stays at rest.
LEMMA StepDoneHead ==
  ASSUME MultiInv, StepDone, ArmInv'
  PROVE  MultiInv'
<1> USE DEF DecFields
<1>1. /\ UNCHANGED <<mode, args, arm, bound, out>> /\ Decoding /\ dec.phase = "layers"
      /\ DOMAIN dec = DecFields
  BY DEF StepDone, MultiInv, ArmInv
<1>2. /\ HeadInv(head, dec.slice, HeadAcc(dec.hidden), Tile /\ ~args.keep) /\ head.pass = 0
      /\ DOMAIN head = HeadFields
  BY <1>1 DEF MultiInv, DecodeInv, HeadInv
<1>3. Tile' = Tile /\ args' = args
  BY <1>1 DEF Tile
<1>4. dec'.phase = "head" => dec'.slice = 0
  BY <1>1 DEF StepDone
<1>5. Start(0) /\ Vocab \in Nat
  BY LmHeadAssumption DEF Start
<1>6. ASSUME ~(dec.step < PromptLen - 1) /\ bound.head = "lmhead" /\ head.armed
      PROVE  DecodeInv'
  <2>1. head' = BeginPass([head EXCEPT !.armed = FALSE], 1, -1)
    BY <1>6 DEF StepDone
  <2>2. dec'.phase = "head" /\ dec'.slice = 0
    BY <1>1, <1>6 DEF StepDone
  <2>3. HeadInv(head', 0, HeadAcc(dec'.hidden), Tile /\ ~args.keep)
    <3> DEFINE t == Tile /\ ~args.keep
               acd == HeadAcc(dec'.hidden)
    <3>1. HeadInv(head, dec.slice, HeadAcc(dec.hidden), t)
      BY <1>2
    <3>2. HeadInv(head', 0, acd, t)
      <4> HIDE DEF acd, t
      <4> QED
        BY <2>1, <3>1, <1>6, FirstPass
    <3> QED
      BY <3>2
  <2>4. arm \in OpenArms
    BY <1>1 DEF Decoding, OpenArms
  <2>5. bound.cpgemm = "lmhead"
    BY <2>4, <1>6, ArmsResolve DEF MultiInv, ArmInv
  <2>6. dec'.slice \in Nat /\ dec'.slice <= Vocab /\ Start(dec'.slice)
    BY <2>2, <1>5
  <2>7. bound' = bound
    BY <1>1
  <2>8. HeadInv(head, dec.slice, HeadAcc(dec.hidden), Tile /\ ~args.keep)'
    BY <2>2, <2>3, <1>3
  <2>9. (head.pass > 0 => dec.phase = "head" /\ bound.cpgemm = "lmhead")'
    BY <2>2, <2>5, <2>7
  <2>10. (dec.phase = "head" => /\ dec.slice \in Nat /\ dec.slice <= Vocab
                                /\ dec.slice < Vocab => Start(dec.slice))'
    BY <2>6
  <2> QED
    BY <2>8, <2>9, <2>10 DEF DecodeInv
<1>7. ASSUME ~(~(dec.step < PromptLen - 1) /\ bound.head = "lmhead" /\ head.armed)
      PROVE  DecodeInv'
  <2>1. head' = [head EXCEPT !.serve = FALSE]
    BY <1>7 DEF StepDone
  <2>2. /\ DOMAIN head' = HeadFields /\ head'.pass = 0 /\ head'.serve = FALSE
        /\ \A f \in HeadFields \ {"pass", "serve", "poisonRow"} : head'[f] = head[f]
    BY <2>1, <1>2 DEF HeadFields
  <2>3. HeadInv(head', dec'.slice, HeadAcc(dec'.hidden), Tile /\ ~args.keep)
    <3> DEFINE t == Tile /\ ~args.keep
               acc == HeadAcc(dec.hidden)
               acd == HeadAcc(dec'.hidden)
               s == dec.slice
               r == head'
    <3>1. HeadInv(head, s, acc, t)
      BY <1>2
    <3>2. /\ DOMAIN r = HeadFields /\ r.pass = 0 /\ r.serve = FALSE
          /\ \A f \in HeadFields \ {"pass", "serve", "poisonRow"} : r[f] = head[f]
      BY <2>2
    <3>3. HeadInv(r, dec'.slice, acd, t)
      <4> HIDE DEF t, acc, acd, s, r
      <4> QED
        BY <3>1, <3>2, AtRest
    <3> QED
      BY <3>3
  <2>4. dec'.phase = "head" => dec'.slice \in Nat /\ dec'.slice <= Vocab /\ Start(dec'.slice)
    BY <1>4, <1>5
  <2>5. HeadInv(head, dec.slice, HeadAcc(dec.hidden), Tile /\ ~args.keep)'
    BY <2>3, <1>3
  <2>6. (head.pass > 0 => dec.phase = "head" /\ bound.cpgemm = "lmhead")'
    BY <2>2
  <2>7. (dec.phase = "head" => /\ dec.slice \in Nat /\ dec.slice <= Vocab
                               /\ dec.slice < Vocab => Start(dec.slice))'
    BY <2>4
  <2> QED
    BY <2>5, <2>6, <2>7 DEF DecodeInv
<1>8. \A a \in ArmNames : DOMAIN out'[a] = OutFields /\ HeadGood(out[a].head)'
  BY <1>1, OutputsStay DEF MultiInv
<1> QED
  BY <1>1, <1>3, <1>6, <1>7, <1>8 DEF MultiInv

\* One slice of the head.
LEMMA HeadGemmHead ==
  ASSUME MultiInv, HeadGemm, ArmInv'
  PROVE  MultiInv'
<1> USE DEF DecFields
<1>1. /\ UNCHANGED <<mode, args, out>> /\ Decoding /\ dec.phase = "head" /\ dec.slice < Vocab
      /\ DOMAIN dec = DecFields
  BY DEF HeadGemm, MultiInv, ArmInv
<1>2. CASE head'.refused
  <2>1. arm' = "end"
    BY <1>2 DEF HeadGemm, Refuse
  <2> QED
    BY <2>1, <1>1, OutsideKeeps DEF Decoding, ArmNames
<1>3. CASE ~head'.refused
  <2>1. UNCHANGED <<arm, bound>> /\ dec' = [dec EXCEPT !.slice = @ + Height(@)]
    BY <1>3 DEF HeadGemm
  <2> DEFINE s == dec.slice
             acc == HeadAcc(dec.hidden)
  <2>2. dec'.slice = s + Height(s) /\ dec'.hidden = dec.hidden /\ dec'.phase = "head"
    BY <2>1, <1>1
  <2>3. /\ HeadInv(head, s, acc, Tile /\ ~args.keep) /\ s \in Nat /\ s < Vocab /\ Start(s)
        /\ head.pass > 0 => bound.cpgemm = "lmhead"
    BY <1>1 DEF MultiInv, DecodeInv
  <2>4. PICK wrong : head' = IF bound.cpgemm = "lmhead"
                             THEN GemmCall(head, mode, acc, s, wrong, args.scale, args.keep) ELSE head
    BY DEF HeadGemm
  <2>5. HeadInv(head', s + Height(s), acc, Tile /\ ~args.keep) /\ head'.pass = head.pass
    <3>1. CASE bound.cpgemm = "lmhead"
      <4>1. head' = GemmCall(head, mode, acc, s, wrong, args.scale, args.keep)
        BY <2>4, <3>1
      <4> HIDE DEF s, acc
      <4> QED
        BY <4>1, <2>3, GemmKeeps DEF Tile
    <3>2. CASE bound.cpgemm # "lmhead"
      <4>1. head' = head /\ head.pass = 0
        BY <2>3, <2>4, <3>2 DEF HeadInv
      <4> QED
        BY <4>1, <2>3, RestInv
    <3> QED
      BY <3>1, <3>2
  <2>6. s + Height(s) \in Nat /\ s + Height(s) <= Vocab /\ (s + Height(s) < Vocab => Start(s + Height(s)))
    BY <2>3, HeightBounds, StartsAreApart
  <2>7. Tile' = Tile /\ args' = args
    BY <1>1 DEF Tile
  <2> HIDE DEF s, acc
  <2>8. HeadAcc(dec'.hidden) = acc
    BY <2>2 DEF acc
  <2>9. DecodeInv'
    BY <2>1, <2>2, <2>3, <2>5, <2>6, <2>7, <2>8 DEF DecodeInv
  <2>10. \A a \in ArmNames : DOMAIN out'[a] = OutFields /\ HeadGood(out[a].head)'
    BY <1>1, OutputsStay DEF MultiInv
  <2> QED
    BY <1>1, <2>7, <2>9, <2>10 DEF MultiInv
<1> QED
  BY <1>2, <1>3

\* The next pass over a head.
LEMMA NextPassHead ==
  ASSUME MultiInv, NextPass, ArmInv'
  PROVE  MultiInv'
<1> USE DEF DecFields
<1>1. /\ UNCHANGED <<mode, args, arm, bound, out>> /\ Decoding /\ dec.phase = "head" /\ dec.slice >= Vocab
      /\ DOMAIN dec = DecFields /\ head.pass \in {1, 2}
      /\ head' = BeginPass(head, head.pass + 1, IF head.pass = 2 THEN PoisonRow(head) ELSE -1)
      /\ dec' = [dec EXCEPT !.slice = 0]
  BY DEF NextPass, MultiInv, ArmInv
<1>2. dec'.slice = 0 /\ dec'.hidden = dec.hidden /\ dec'.phase = "head"
  BY <1>1
<1>3. Vocab \in Nat /\ Start(0)
  BY LmHeadAssumption DEF Start
<1>4. dec.slice = Vocab /\ HeadInv(head, dec.slice, HeadAcc(dec.hidden), Tile /\ ~args.keep)
      /\ bound.cpgemm = "lmhead"
  BY <1>1, <1>3 DEF MultiInv, DecodeInv
<1>5. HeadInv(head', 0, HeadAcc(dec.hidden), Tile /\ ~args.keep)
  <2>1. CASE head.pass = 1
    <3>1. head' = BeginPass(head, 2, -1)
      BY <1>1, <2>1
    <3> QED
      BY <3>1, <2>1, <1>4, SecondPass
  <2>2. CASE head.pass = 2
    <3>1. head' = BeginPass(head, 3, PoisonRow(head))
      BY <1>1, <2>2
    <3> QED
      BY <3>1, <2>2, <1>4, ThirdPass
  <2> QED
    BY <2>1, <2>2, <1>1
<1>6. Tile' = Tile /\ args' = args
  BY <1>1 DEF Tile
<1>7. DecodeInv'
  BY <1>1, <1>2, <1>3, <1>4, <1>5, <1>6 DEF DecodeInv
<1>8. \A a \in ArmNames : DOMAIN out'[a] = OutFields /\ HeadGood(out[a].head)'
  BY <1>1, OutputsStay DEF MultiInv
<1> QED
  BY <1>1, <1>6, <1>7, <1>8 DEF MultiInv

\* The token: the arm's output takes the offloader's books as they stand.
LEMMA TokenHead ==
  ASSUME MultiInv, Token, ArmInv'
  PROVE  MultiInv'
<1> USE DEF DecFields
<1>1. /\ UNCHANGED <<mode, args, arm, bound>> /\ Decoding /\ dec.phase = "head" /\ dec.slice >= Vocab
      /\ DOMAIN dec = DecFields
      /\ head' = [head EXCEPT !.pass = 0, !.serve = FALSE, !.poisonRow = -1]
      /\ out' = [out EXCEPT ![arm].head = IF head.pass > 1 THEN head ELSE @]
  BY DEF Token, MultiInv, ArmInv
<1>2. dec'.phase \in {"layers", "over"}
  BY <1>1 DEF Token
<1>3. dec.slice = Vocab /\ HeadInv(head, dec.slice, HeadAcc(dec.hidden), Tile /\ ~args.keep)
  BY <1>1, LmHeadAssumption DEF MultiInv, DecodeInv
<1>4. HeadGood(head) /\ DOMAIN head = HeadFields
  BY <1>3, WholeHeadGood DEF HeadInv
<1>5. Tile' = Tile /\ args' = args
  BY <1>1 DEF Tile
<1>6. DOMAIN out' = ArmNames /\ \A a \in ArmNames : DOMAIN out'[a] = OutFields
                             /\ out'[a].head \in {out[a].head, head}
  BY <1>1 DEF MultiInv, OutFields, Decoding
<1>7. \A a \in ArmNames : HeadGood(out[a].head)'
  <2>1. \A a \in ArmNames : HeadGood(out'[a].head)
    BY <1>4, <1>6 DEF MultiInv
  <2> QED
    BY <2>1, <1>5 DEF HeadGood
<1>8. /\ DOMAIN head' = HeadFields /\ head'.pass = 0 /\ head'.serve = FALSE
      /\ \A f \in HeadFields \ {"pass", "serve", "poisonRow"} : head'[f] = head[f]
  BY <1>1, <1>4 DEF HeadFields
<1>9. HeadInv(head', dec'.slice, HeadAcc(dec'.hidden), Tile /\ ~args.keep)
  <2> DEFINE t == Tile /\ ~args.keep
             acc == HeadAcc(dec.hidden)
             acd == HeadAcc(dec'.hidden)
             s == dec.slice
             r == head'
  <2>1. HeadInv(head, s, acc, t)
    BY <1>3
  <2>2. /\ DOMAIN r = HeadFields /\ r.pass = 0 /\ r.serve = FALSE
        /\ \A f \in HeadFields \ {"pass", "serve", "poisonRow"} : r[f] = head[f]
    BY <1>8
  <2>3. HeadInv(r, dec'.slice, acd, t)
    <3> HIDE DEF t, acc, acd, s, r
    <3> QED
      BY <2>1, <2>2, AtRest
  <2> QED
    BY <2>3
<1>10. DecodeInv'
  BY <1>2, <1>5, <1>8, <1>9 DEF DecodeInv
<1> QED
  BY <1>1, <1>5, <1>6, <1>7, <1>10 DEF MultiInv

\* Entering an arm starts it with a fresh offloader.
LEMMA EnterHead ==
  ASSUME MultiInv, ArmInv', UNCHANGED <<mode, args, out>>, NEW a, Enter(a)
  PROVE  MultiInv'
<1>1. head' = FreshHead(IF a = "on" THEN HeadRows ELSE 0) /\ dec' = Cursor0
  BY DEF Enter
<1>2. HeadRows \in Nat
  BY LmHeadAssumption DEF HeadRows, MultiInv
<1>3. HeadInv(head', dec'.slice, HeadAcc(dec'.hidden), Tile /\ ~args.keep) /\ head'.pass = 0
  BY <1>1, <1>2, FreshGood
<1>4. dec'.phase = "layers"
  BY <1>1 DEF Cursor0
<1>5. Tile' = Tile /\ args' = args
  BY DEF Tile
<1>6. DecodeInv'
  BY <1>3, <1>4, <1>5 DEF DecodeInv
<1>7. \A b \in ArmNames : DOMAIN out'[b] = OutFields /\ HeadGood(out[b].head)'
  BY OutputsStay DEF MultiInv
<1> QED
  BY <1>5, <1>6, <1>7 DEF MultiInv

\* Before, between and after the arms.
LEMMA BetweenHead ==
  ASSUME MultiInv, Admit \/ ArmOver \/ NextArm \/ RedArm \/ Report, ArmInv'
  PROVE  MultiInv'
<1>1. CASE Admit
  <2>1. UNCHANGED <<mode, args, out>>
    BY <1>1 DEF Admit
  <2>2. CASE Enter("on")
    BY <2>1, <2>2, EnterHead
  <2>3. CASE ~Enter("on")
    <3>1. arm' = "end"
      BY <1>1, <2>3 DEF Admit
    <3> QED
      BY <3>1, <2>1, OutsideKeeps DEF Decoding, ArmNames
  <2> QED
    BY <2>2, <2>3
<1>2. CASE ArmOver
  <2>1. UNCHANGED <<mode, args>> /\ Decoding /\ arm' \in {"end", "between"}
    BY <1>2 DEF ArmOver, Refuse
  <2>2. DOMAIN out' = ArmNames /\ \A a \in ArmNames : DOMAIN out'[a] = OutFields /\ out'[a].head = out[a].head
    BY <1>2 DEF ArmOver, MultiInv, OutFields, Decoding
  <2>3. \A a \in ArmNames : DOMAIN out'[a] = OutFields /\ HeadGood(out[a].head)'
    BY <2>1, <2>2, OutputsStay
  <2>4. ~Decoding'
    BY <2>1 DEF Decoding, ArmNames
  <2> QED
    BY <2>1, <2>2, <2>3, <2>4 DEF MultiInv
<1>3. CASE NextArm
  <2>1. UNCHANGED <<mode, args, out>>
    BY <1>3 DEF NextArm
  <2>2. CASE Enter(AfterArm(dec.phase))
    BY <2>1, <2>2, EnterHead
  <2>3. CASE ~Enter(AfterArm(dec.phase))
    <3>1. arm' \in {"end", "report"}
      BY <1>3, <2>3 DEF NextArm, Refuse
    <3> QED
      BY <3>1, <2>1, OutsideKeeps DEF Decoding, ArmNames
  <2> QED
    BY <2>2, <2>3
<1>4. CASE RedArm
  <2>1. UNCHANGED <<mode, args, out>> /\ arm' = "between"
    BY <1>4 DEF RedArm
  <2> QED
    BY <2>1, OutsideKeeps DEF Decoding, ArmNames
<1>5. CASE Report
  <2>1. UNCHANGED <<mode, args, out>> /\ arm' = "end"
    BY <1>5 DEF Report, ReportHead, ReportLayer, ReportLayer05B, ReportMulti, Conclude
  <2> QED
    BY <2>1, OutsideKeeps DEF Decoding, ArmNames
<1> QED
  BY <1>1, <1>2, <1>3, <1>4, <1>5

\* Every step keeps it.
LEMMA MultiInvStep == MultiInv /\ [MultiNext]_multi => MultiInv'
<1> SUFFICES ASSUME MultiInv, [MultiNext]_multi
             PROVE  MultiInv'
  OBVIOUS
<1>1. ArmInv'
  BY ArmInvStep DEF MultiInv
<1>2. CASE UNCHANGED multi
  BY <1>1, <1>2 DEF multi, MultiInv, DecodeInv, Decoding, HeadGood, Tile
<1>3. CASE MultiNext
  BY <1>1, <1>3, LayerHead, StepDoneHead, HeadGemmHead, NextPassHead, TokenHead, BetweenHead DEF MultiNext
<1> QED
  BY <1>2, <1>3

\* HeadExact holds: in every run of prompt05b.py, at every vocabulary, slice
\* height, block and program size, what a finished arm's offloader gave for a
\* head is what was asked of the tile, each row flown once, the others golden's
\* (LmHeadOffloader._head, _serve, _run_call, _reclaim).
THEOREM HeadExactHolds == MultiSpec => []HeadExact
<1>1. MultiSpec => []MultiInv
  BY MultiInvInit, MultiInvStep, PTL DEF MultiSpec
<1> QED
  BY <1>1, MultiInvExact, PTL
-----------------------------------------------------------------------------
(* MultiRun: the hidden state the bus composition leaves, and the tokens a  *)
(* run of it gives.                                                        *)

\* The state the composition of the bus leaves behind.
Composition(g) == IF g.moves THEN "moved" ELSE "bus"

\* For the command line g: an armed layer at a step.
ArmedAt(g, s, l) ==
  /\ l \in g.layers
  /\ IF g.step >= 0 THEN s = g.step
     ELSE g.driver \in {"prompt_offload", "layer_offload"} \/ s = PromptLen - 1

\* A layer before this one, or at an earlier step, was armed.
FiredBefore(g, s, l) ==
  \E t \in 0 .. s : \E m \in 0 .. NLayers - 1 : ArmedAt(g, t, m) /\ (t < s \/ m < l)

\* The hidden state before layer l of step s when nothing but the composition
\* moves it.
Trace(g, s, l) == IF FiredBefore(g, s, l) THEN Composition(g) ELSE "golden"

\* The token a hidden state gives; the n-th is sampled after step n of these.
Word(x) == ArgMax([v \in Rows |-> HeadAcc(x)[v]], Rows)
StepOf(n) == PromptLen - 2 + n

\* The tokens of the composition's run, and those of the host's.
TraceIds(g, ids) == \A i \in 1 .. Len(ids) : ids[i] = Word(Trace(g, StepOf(i), NLayers))
HostIds(ids) == \A i \in 1 .. Len(ids) : ids[i] = Word("golden")

\* A run of tokens that has not ended at the n-th, and one that has ended.
GoesOn(g, ids, n) == \A i \in 1 .. n : ids[i] # Eos /\ i # g.tokens
Whole(g, ids) ==
  /\ \E S : ids \in Seq(S)
  /\ Len(ids) > 0 /\ GoesOn(g, ids, Len(ids) - 1)
  /\ ids[Len(ids)] = Eos \/ Len(ids) = g.tokens

\* One layer further.
LEMMA TraceNext ==
  ASSUME NEW g, NEW s \in Nat, NEW l \in 0 .. NLayers - 1
  PROVE  Trace(g, s, l + 1) = IF ArmedAt(g, s, l) THEN Composition(g) ELSE Trace(g, s, l)
<1>1. NLayers \in Nat
  BY MultiRunAssumption
<1>2. FiredBefore(g, s, l + 1) <=> ArmedAt(g, s, l) \/ FiredBefore(g, s, l)
  <2>1. ASSUME FiredBefore(g, s, l + 1)
        PROVE  ArmedAt(g, s, l) \/ FiredBefore(g, s, l)
    <3>1. PICK t \in 0 .. s, m \in 0 .. NLayers - 1 : ArmedAt(g, t, m) /\ (t < s \/ m < l + 1)
      BY <2>1 DEF FiredBefore
    <3>2. CASE t < s \/ m < l
      BY <3>1, <3>2 DEF FiredBefore
    <3>3. CASE ~(t < s \/ m < l)
      <4>1. t = s /\ m = l
        BY <3>1, <3>3, <1>1
      <4> QED
        BY <3>1, <4>1
    <3> QED
      BY <3>2, <3>3
  <2>2. ASSUME ArmedAt(g, s, l)
        PROVE  FiredBefore(g, s, l + 1)
    <3>1. s \in 0 .. s /\ l < l + 1
      BY <1>1
    <3> QED
      BY <3>1, <2>2 DEF FiredBefore
  <2>3. ASSUME FiredBefore(g, s, l)
        PROVE  FiredBefore(g, s, l + 1)
    <3>1. PICK t \in 0 .. s, m \in 0 .. NLayers - 1 : ArmedAt(g, t, m) /\ (t < s \/ m < l)
      BY <2>3 DEF FiredBefore
    <3>2. t < s \/ m < l + 1
      BY <3>1, <1>1
    <3> QED
      BY <3>1, <3>2 DEF FiredBefore
  <2> QED
    BY <2>1, <2>2, <2>3
<1> QED
  BY <1>2 DEF Trace

\* One step further.
LEMMA TraceTurn ==
  ASSUME NEW g, NEW s \in Nat
  PROVE  Trace(g, s + 1, 0) = Trace(g, s, NLayers)
<1>1. NLayers \in Nat
  BY MultiRunAssumption
<1>2. ASSUME FiredBefore(g, s + 1, 0)
      PROVE  FiredBefore(g, s, NLayers)
  <2>1. PICK t \in 0 .. s + 1, m \in 0 .. NLayers - 1 : ArmedAt(g, t, m) /\ (t < s + 1 \/ m < 0)
    BY <1>2 DEF FiredBefore
  <2>2. t \in 0 .. s /\ m < NLayers
    BY <2>1, <1>1
  <2> QED
    BY <2>1, <2>2 DEF FiredBefore
<1>3. ASSUME FiredBefore(g, s, NLayers)
      PROVE  FiredBefore(g, s + 1, 0)
  <2>1. PICK t \in 0 .. s, m \in 0 .. NLayers - 1 : ArmedAt(g, t, m)
    BY <1>3 DEF FiredBefore
  <2>2. t \in 0 .. s + 1 /\ t < s + 1
    OBVIOUS
  <2> QED
    BY <2>1, <2>2 DEF FiredBefore
<1> QED
  BY <1>2, <1>3 DEF Trace

\* What is golden in the end was golden before.
LEMMA TraceGolden ==
  ASSUME NEW g, NEW s \in Nat, NEW t \in Nat, s <= t, Trace(g, t, NLayers) = "golden"
  PROVE  Trace(g, s, NLayers) = "golden"
<1>1. NLayers \in Nat
  BY MultiRunAssumption
<1>2. ~FiredBefore(g, t, NLayers)
  BY DEF Trace, Composition
<1>3. ASSUME FiredBefore(g, s, NLayers)
      PROVE  FALSE
  <2>1. PICK u \in 0 .. s, m \in 0 .. NLayers - 1 : ArmedAt(g, u, m)
    BY <1>3 DEF FiredBefore
  <2>2. u \in 0 .. t /\ m < NLayers
    BY <1>1
  <2> QED
    BY <2>1, <2>2, <1>2 DEF FiredBefore
<1> QED
  BY <1>3 DEF Trace

\* Before the first layer of the first step.
LEMMA TraceStart ==
  ASSUME NEW g
  PROVE  Trace(g, 0, 0) = "golden"
<1>1. ~FiredBefore(g, 0, 0)
  BY MultiRunAssumption DEF FiredBefore
<1> QED
  BY <1>1 DEF Trace

\* Two ended runs of the same tokens are one.
LEMMA SameWhole ==
  ASSUME NEW g, NEW p, NEW q, Whole(g, p), Whole(g, q),
         \A i \in (1 .. Len(p)) \cap (1 .. Len(q)) : p[i] = q[i]
  PROVE  p = q
<1>1. PICK S : p \in Seq(S)
  BY DEF Whole
<1>2. PICK T : q \in Seq(T)
  BY DEF Whole
<1>3. Len(p) \in Nat \ {0} /\ Len(q) \in Nat \ {0}
  BY <1>1, <1>2 DEF Whole
<1>4. ASSUME Len(p) < Len(q)
      PROVE  FALSE
  <2>1. Len(p) \in 1 .. Len(p) /\ Len(p) \in 1 .. Len(q) - 1 /\ Len(p) \in 1 .. Len(q)
    BY <1>3, <1>4
  <2>2. q[Len(p)] # Eos /\ Len(p) # g.tokens
    BY <2>1 DEF Whole, GoesOn
  <2>3. p[Len(p)] = q[Len(p)]
    BY <2>1
  <2> QED
    BY <2>2, <2>3 DEF Whole
<1>5. ASSUME Len(q) < Len(p)
      PROVE  FALSE
  <2>1. Len(q) \in 1 .. Len(q) /\ Len(q) \in 1 .. Len(p) - 1 /\ Len(q) \in 1 .. Len(p)
    BY <1>3, <1>5
  <2>2. p[Len(q)] # Eos /\ Len(q) # g.tokens
    BY <2>1 DEF Whole, GoesOn
  <2>3. p[Len(q)] = q[Len(q)]
    BY <2>1
  <2> QED
    BY <2>2, <2>3 DEF Whole
<1>6. Len(p) = Len(q)
  BY <1>3, <1>4, <1>5
<1>7. \A i \in 1 .. Len(p) : p[i] = q[i]
  BY <1>6
<1>8. p = [i \in 1 .. Len(p) |-> p[i]] /\ q = [i \in 1 .. Len(q) |-> q[i]]
  BY <1>1, <1>2
<1> QED
  BY <1>6, <1>7, <1>8, Zenon

\* Two ended runs of the composition are one.
LEMMA SameTraces ==
  ASSUME NEW g, NEW p, NEW q, Whole(g, p), Whole(g, q), TraceIds(g, p), TraceIds(g, q)
  PROVE  p = q
<1>1. \A i \in (1 .. Len(p)) \cap (1 .. Len(q)) : p[i] = q[i]
  BY DEF TraceIds
<1> QED
  BY <1>1, SameWhole

\* A golden trace is the host's.
LEMMA SameAsGolden ==
  ASSUME NEW g, NEW p, NEW q, Whole(g, p), Whole(g, q), HostIds(p), TraceIds(g, q),
         Trace(g, StepOf(Len(q)), NLayers) = "golden"
  PROVE  p = q
<1>1. ASSUME NEW i \in (1 .. Len(p)) \cap (1 .. Len(q))
      PROVE  p[i] = q[i]
  <2>1. Len(q) \in Nat
    BY DEF Whole
  <2>2. PromptLen \in Nat \ {0}
    BY MultiRunAssumption
  <2>3. StepOf(i) \in Nat /\ StepOf(Len(q)) \in Nat /\ StepOf(i) <= StepOf(Len(q))
    BY <2>1, <2>2 DEF StepOf
  <2>4. Trace(g, StepOf(i), NLayers) = "golden"
    BY <2>3, TraceGolden
  <2>5. p[i] = Word("golden") /\ q[i] = Word(Trace(g, StepOf(i), NLayers))
    BY DEF HostIds, TraceIds
  <2> QED
    BY <2>4, <2>5
<1> QED
  BY <1>1, SameWhole
-----------------------------------------------------------------------------
(* LmHead: how many programs and invocations a slice takes.                *)

\* Every nonempty set of numbers has a least.
LEMMA LeastNumber ==
  ASSUME NEW T, T \subseteq Nat, T # {}
  PROVE  \E m \in T : \A n \in T : m <= n
<1>1. PICK m \in T : \A n \in T : ~(<<n, m>> \in OpToRel(<, Nat))
  BY NatLessThanWellFounded, WFMin, Zenon
<1>2. \A n \in T : ~(n < m)
  <2> SUFFICES ASSUME NEW n \in T, n < m PROVE <<n, m>> \in OpToRel(<, Nat)
    BY <1>1
  <2> QED
    BY DEF OpToRel
<1> QED
  BY <1>2

\* Pieces of one size: as soon as there is something, one of them.
LEMMA PiecesOfSize ==
  ASSUME NEW x \in Nat \ {0}, NEW d \in Nat \ {0}
  PROVE  (x + d - 1) \div d \in Nat \ {0}
<1> DEFINE q == (x + d - 1) \div d
           r == (x + d - 1) % d
<1>1. q \in Int /\ r \in 0 .. d - 1 /\ x + d - 1 = d * q + r
  OBVIOUS
<1> HIDE DEF q, r
<1>2. ASSUME q <= 0
      PROVE  FALSE
  <2>1. d * q <= 0
    BY <1>1, <1>2
  <2> QED
    BY <2>1, <1>1
<1> QED
  BY <1>1, <1>2 DEF q

\* _run_bounded: whatever the texts, there is a batch as soon as there is a
\* program.
LEMMA PackedCounts ==
  ASSUME NEW programs, Len(programs) \in Nat
  PROVE  /\ Packed(programs).batches \in Nat
         /\ Len(programs) > 0 => Packed(programs).batches > 0
<1> DEFINE N == Len(programs)
           Next_(done, text) == IF done.batches > 0 /\ done.text + text <= MaxBytes
                                THEN [done EXCEPT !.text = @ + text]
                                ELSE [batches |-> done.batches + 1, text |-> text]
           F(n, f) == f = [i \in 0 .. n |-> IF i = 0 THEN [batches |-> 0, text |-> 0]
                                            ELSE Next_(f[i - 1], Len(programs[i]))]
           packed == CHOOSE f : F(N, f)
<1>1. Packed(programs) = packed[N]
  BY DEF Packed
<1> HIDE DEF Next_
<1>2. ASSUME NEW n \in Nat
      PROVE  \E f : F(n, f)
  <2> DEFINE Bad == {k \in Nat : ~ \E f : F(k, f)}
  <2> SUFFICES ASSUME Bad # {}
               PROVE  FALSE
    BY <1>2
  <2>1. PICK m \in Bad : \A k \in Bad : m <= k
    <3> HIDE DEF Bad
    <3>1. Bad \subseteq Nat
      BY DEF Bad
    <3> QED
      BY <3>1, LeastNumber, Zenon
  <2>2. m # 0
    <3>1. F(0, [i \in 0 .. 0 |-> [batches |-> 0, text |-> 0]])
      OBVIOUS
    <3>2. \E f : F(0, f)
      <4> HIDE DEF F
      <4> QED
        BY <3>1
    <3>3. 0 \notin Bad
      <4> HIDE DEF F
      <4> QED
        BY <3>2
    <3> HIDE DEF Bad
    <3> QED
      BY <3>3, <2>1
  <2>3. m - 1 \in Nat /\ m - 1 \notin Bad
    <3>1. Bad \subseteq Nat
      BY DEF Bad
    <3> HIDE DEF Bad
    <3> QED
      BY <3>1, <2>1, <2>2
  <2>4. PICK f : F(m - 1, f)
    <3> HIDE DEF F
    <3> QED
      BY <2>3
  <2> DEFINE g == [i \in 0 .. m |-> IF i = m THEN Next_(f[m - 1], Len(programs[m])) ELSE f[i]]
  <2>5. (\A i \in 0 .. m - 1 : g[i] = f[i]) /\ g[m] = Next_(f[m - 1], Len(programs[m]))
    BY <2>2, <2>1
  <2>6. \A i \in 0 .. m : g[i] = IF i = 0 THEN [batches |-> 0, text |-> 0]
                                 ELSE Next_(g[i - 1], Len(programs[i]))
    <3> TAKE i \in 0 .. m
    <3>1. CASE i = m
      <4>1. g[m - 1] = f[m - 1]
        BY <2>5, <2>3
      <4> HIDE DEF g
      <4> QED
        BY <3>1, <4>1, <2>2, <2>5, Zenon
    <3>2. CASE i # m
      <4>1. i \in 0 .. m - 1
        BY <3>2, <2>1
      <4>2. g[i] = f[i] /\ (i # 0 => g[i - 1] = f[i - 1])
        <5>1. i # 0 => i - 1 \in 0 .. m - 1
          BY <4>1
        <5> HIDE DEF g
        <5> QED
          BY <4>1, <5>1, <2>5
      <4>3. f[i] = IF i = 0 THEN [batches |-> 0, text |-> 0] ELSE Next_(f[i - 1], Len(programs[i]))
        BY <4>1, <2>4
      <4> HIDE DEF g
      <4> QED
        BY <4>2, <4>3
    <3> QED
      BY <3>1, <3>2
  <2>7. g = [i \in 0 .. m |-> g[i]]
    OBVIOUS
  <2>8. F(m, g)
    <3> HIDE DEF g
    <3> QED
      BY <2>6, <2>7
  <2> QED
    BY <2>8, <2>1
<1>3. F(N, packed)
  <2>1. \E f : F(N, f)
    BY <1>2
  <2> HIDE DEF F
  <2> QED
    BY <2>1
<1>4. packed = [i \in 0 .. N |-> IF i = 0 THEN [batches |-> 0, text |-> 0]
                                 ELSE Next_(packed[i - 1], Len(programs[i]))]
  BY <1>3
<1> HIDE DEF packed, F
<1>5. packed[0].batches = 0
  BY <1>4
<1>6. ASSUME NEW i \in 1 .. N
      PROVE  packed[i] = Next_(packed[i - 1], Len(programs[i]))
  BY <1>4
<1>7. ASSUME NEW done, done.batches \in Nat, NEW text
      PROVE  Next_(done, text).batches \in Nat \ {0}
  BY <1>7 DEF Next_
<1>8. ASSUME NEW i \in 0 .. N
      PROVE  packed[i].batches \in Nat /\ (i > 0 => packed[i].batches > 0)
  <2> DEFINE Bad == {k \in 0 .. N : ~(packed[k].batches \in Nat /\ (k > 0 => packed[k].batches > 0))}
  <2> SUFFICES ASSUME Bad # {}
               PROVE  FALSE
    BY <1>8
  <2>1. PICK m \in Bad : \A k \in Bad : m <= k
    <3>1. Bad \subseteq Nat
      OBVIOUS
    <3> HIDE DEF Bad
    <3> QED
      BY <3>1, LeastNumber, Zenon
  <2>2. m \in 0 .. N /\ m # 0
    BY <2>1, <1>5
  <2>3. m - 1 \in 0 .. N /\ m - 1 \notin Bad /\ m \in 1 .. N
    BY <2>1, <2>2
  <2>4. packed[m - 1].batches \in Nat
    BY <2>3
  <2>5. packed[m].batches \in Nat \ {0}
    BY <2>3, <2>4, <1>6, <1>7
  <2> QED
    BY <2>5, <2>1
<1> QED
  BY <1>1, <1>8
-----------------------------------------------------------------------------
(* LmHead: the bill of an offloader.                                       *)

\* A slice with rows to serve writes files, finitely many, and its programs
\* take an invocation per K chunk at least.
LEMMA SliceCosts ==
  ASSUME NEW v0, NEW n \in Nat \ {0}
  PROVE  /\ IsFiniteSet(ProgramFiles(v0, n)) /\ ProgramFiles(v0, n) # {}
         /\ Invocations(n) \in Nat /\ Invocations(n) >= KChunks
<1> USE LmHeadAssumption
<1> DEFINE D == DOMAIN Programs(n)
           P == (1 .. KChunks) \X D
<1>1. (n + BlockRows - 1) \div BlockRows \in Nat \ {0}
  BY PiecesOfSize
<1>2. Len(Blocks(n)) = (n + BlockRows - 1) \div BlockRows
  BY <1>1 DEF Blocks
<1>3. (Len(Blocks(n)) + PerProgram - 1) \div PerProgram \in Nat \ {0}
  BY <1>1, <1>2, PiecesOfSize
<1>4. D = 1 .. Len(Programs(n)) /\ Len(Programs(n)) \in Nat \ {0}
  BY <1>3 DEF Programs
<1> HIDE DEF D
<1>5. IsFiniteSet(D) /\ IsFiniteSet(1 .. KChunks)
  BY <1>4, FS_Interval
<1>6. IsFiniteSet(P)
  BY <1>5, FS_Product
<1>7. ProgramFiles(v0, n) = {v0} \X (1 .. KChunks) \X D
  BY DEF ProgramFiles, D
<1>8. IsFiniteSet(ProgramFiles(v0, n))
  <2> DEFINE f == [p \in P |-> <<v0, p[1], p[2]>>]
  <2>1. \A p \in P : f[p] \in ProgramFiles(v0, n)
    BY <1>7
  <2>2. ASSUME NEW x \in ProgramFiles(v0, n)
        PROVE  \E p \in P : f[p] = x
    <3>1. x = <<v0, x[2], x[3]>> /\ x[2] \in 1 .. KChunks /\ x[3] \in D
      BY <1>7
    <3>2. <<x[2], x[3]>> \in P
      BY <3>1
    <3>3. f[<<x[2], x[3]>>] = x
      BY <3>1, <3>2
    <3> HIDE DEF f, P
    <3> QED
      BY <3>2, <3>3
  <2>3. f \in Surjection(P, ProgramFiles(v0, n))
    <3>1. f \in [P -> ProgramFiles(v0, n)]
      BY <2>1
    <3> HIDE DEF f, P
    <3> QED
      BY <2>2, <3>1 DEF Surjection
  <2> HIDE DEF f, P
  <2> QED
    BY <2>3, <1>6, FS_Surjection
<1>9. ProgramFiles(v0, n) # {}
  <2>1. 1 \in D /\ 1 \in 1 .. KChunks
    BY <1>4
  <2>2. <<v0, 1, 1>> \in ProgramFiles(v0, n)
    BY <1>7, <2>1
  <2> QED
    BY <2>2
<1>10. Packed(Programs(n)).batches \in Nat \ {0}
  BY <1>4, PackedCounts
<1>11. Invocations(n) \in Nat /\ Invocations(n) >= KChunks
  <2> DEFINE b == Packed(Programs(n)).batches
  <2>1. Invocations(n) = KChunks * b /\ b \in Nat \ {0}
    BY <1>10 DEF Invocations
  <2> HIDE DEF b
  <2>2. \A x \in Nat, y \in Nat \ {0} : x * y >= x /\ x * y \in Nat
    OBVIOUS
  <2> QED
    BY <2>1, <2>2
<1> QED
  BY <1>8, <1>9, <1>11

\* The bill of an offloader: what was served on a tile took invocations, and
\* left evidence.
CostGood(md, h) ==
  /\ h.invocations \in Nat /\ h.reclaimed \in Nat /\ h.servedRows \in Nat /\ IsFiniteSet(h.files)
  /\ h.evidence => h.files # {}
  /\ md # "golden" /\ h.servedRows > 0 => h.invocations >= KChunks /\ h.files # {}

\* Deleting the program files keeps one.
LEMMA ReclaimKeepsOne ==
  ASSUME NEW h, DOMAIN h = HeadFields, NEW paths, IsFiniteSet(paths), paths # {}, NEW keepJobs,
         IsFiniteSet(h.files), h.reclaimed \in Nat, h.evidence => h.files # {},
         NEW r, r = Reclaim(h, paths, keepJobs)
  PROVE  /\ DOMAIN r = HeadFields
         /\ \A f \in HeadFields \ {"files", "reclaimed", "evidence"} : r[f] = h[f]
         /\ IsFiniteSet(r.files) /\ r.files # {} /\ r.reclaimed \in Nat
<1>1. CASE keepJobs
  <2>1. r = [h EXCEPT !.files = h.files \cup paths]
    BY <1>1 DEF Reclaim, HeadFields
  <2>2. IsFiniteSet(h.files \cup paths)
    BY FS_Union
  <2> QED
    BY <2>1, <2>2 DEF HeadFields
<1>2. CASE ~keepJobs
  <2> DEFINE first == CHOOSE p \in paths : \A q \in paths : p[2] * Vocab + p[3] <= q[2] * Vocab + q[3]
             kept == IF h.evidence THEN {} ELSE {first}
             gone == Cardinality(paths \ kept)
  <2>1. r = [h EXCEPT !.evidence = TRUE, !.files = h.files \cup kept, !.reclaimed = h.reclaimed + gone]
    BY <1>2 DEF Reclaim, HeadFields
  <2>2. IsFiniteSet(kept) /\ (~h.evidence => kept # {})
    <3> HIDE DEF first
    <3> QED
      BY FS_EmptySet, FS_Singleton
  <2>3. gone \in Nat
    BY FS_Difference, FS_CardinalityType
  <2> HIDE DEF kept, gone
  <2>4. IsFiniteSet(h.files \cup kept) /\ h.files \cup kept # {}
    BY <2>2, FS_Union
  <2> DEFINE all == h.files \cup kept
             sum == h.reclaimed + gone
  <2>5. r = [h EXCEPT !.evidence = TRUE, !.files = all, !.reclaimed = sum]
    BY <2>1
  <2>6. IsFiniteSet(all) /\ all # {} /\ sum \in Nat
    BY <2>3, <2>4
  <2> HIDE DEF all, sum
  <2> QED
    BY <2>5, <2>6 DEF HeadFields
<1> QED
  BY <1>1, <1>2

\* A slice that is served keeps the bill good, if what is not in the memo is
\* what is recorded.
LEMMA ServeCost ==
  ASSUME NEW h, DOMAIN h = HeadFields, NEW md, NEW acc, NEW v0 \in Nat, v0 < Vocab, NEW wrong,
         NEW k, NEW keepJobs, h.cursor = v0, NEW n \in Nat \ {0}, n = Budget(h, Height(v0)),
         CostGood(md, h), h.recording => ~MemoHit(h, v0, n),
         NEW r, r = Serve(h, md, acc, v0, wrong, k, keepJobs)
  PROVE  CostGood(md, r)
<1> DEFINE m == Height(v0)
           hit == MemoHit(h, v0, n)
           host == [v \in v0 .. v0 + m - 1 |-> acc[v]]
           t == IF hit THEN [v \in v0 .. v0 + n - 1 |-> h.tile[v]]
                ELSE IF md = "golden" THEN [v \in v0 .. v0 + n - 1 |-> acc[v]]
                ELSE Accumulated(acc, v0, n, wrong)
           values == Poisoned(h, k, Overlay(host, t))
           flies == ~hit /\ md # "golden"
           flown == IF flies THEN Reclaim(h, ProgramFiles(v0, n), keepJobs) ELSE h
           next == [flown EXCEPT !.cursor = v0 + m, !.calls = @ + 1, !.thisPass = @ + n]
           last == [next EXCEPT
             !.memo = @ \cup {<<v0, n>>},
             !.flown = [v \in Rows |-> @[v] + IF ~hit /\ v \in v0 .. v0 + n - 1 THEN 1 ELSE 0],
             !.invocations = @ + IF flies THEN Invocations(n) ELSE 0,
             !.servedRows = @ + IF h.recording THEN n ELSE 0,
             !.exact = @ /\ (h.recording => \A v \in DOMAIN t : t[v] = acc[v])]
           Sums == {"invocations", "servedRows", "files", "evidence", "reclaimed"}
<1>1. ExpectHeadSlice(h, v0)
  BY HeightBounds DEF ExpectHeadSlice
<1>2. Serve(h, md, acc, v0, wrong, k, keepJobs) = Keep(last, values)
  <2>1. n > 0 /\ n # 0
    OBVIOUS
  <2> QED
    BY <1>1, <2>1 DEF Serve
<1> HIDE DEF t, values
<1>3. /\ DOMAIN flown = HeadFields
      /\ flown.invocations = h.invocations /\ flown.servedRows = h.servedRows
      /\ IsFiniteSet(flown.files) /\ flown.reclaimed \in Nat
      /\ (flies \/ h.files # {} => flown.files # {})
      /\ flown.evidence => flown.files # {}
  <2>1. CASE ~flies
    BY <2>1 DEF CostGood
  <2>2. CASE flies
    <3>1. flown = Reclaim(h, ProgramFiles(v0, n), keepJobs)
      BY <2>2
    <3> HIDE DEF flown, flies
    <3>2. /\ DOMAIN flown = HeadFields
          /\ \A f \in HeadFields \ {"files", "reclaimed", "evidence"} : flown[f] = h[f]
          /\ IsFiniteSet(flown.files) /\ flown.files # {} /\ flown.reclaimed \in Nat
      BY <3>1, SliceCosts, ReclaimKeepsOne DEF CostGood
    <3>3. flown.invocations = h.invocations /\ flown.servedRows = h.servedRows
      BY <3>2 DEF HeadFields
    <3> QED
      BY <3>2, <3>3
  <2> QED
    BY <2>1, <2>2
<1> HIDE DEF flown, hit
<1>4. /\ DOMAIN next = HeadFields
      /\ \A f \in Sums : next[f] = flown[f]
  BY <1>3 DEF HeadFields
<1> HIDE DEF next
<1>5. /\ DOMAIN last = HeadFields
      /\ \A f \in Sums \ {"invocations", "servedRows"} : last[f] = next[f]
      /\ last.invocations = next.invocations + IF flies THEN Invocations(n) ELSE 0
      /\ last.servedRows = next.servedRows + IF h.recording THEN n ELSE 0
  <2> HIDE DEF flies
  <2> QED
    BY <1>4 DEF HeadFields
<1> HIDE DEF last
<1>6. \A f \in Sums : Keep(last, values)[f] = last[f]
  BY <1>5 DEF Keep, HeadFields
<1>7. /\ r.files = flown.files /\ r.evidence = flown.evidence /\ r.reclaimed = flown.reclaimed
      /\ r.invocations = h.invocations + IF flies THEN Invocations(n) ELSE 0
      /\ r.servedRows = h.servedRows + IF h.recording THEN n ELSE 0
  BY <1>2, <1>3, <1>4, <1>5, <1>6
<1>8. KChunks \in Nat /\ Invocations(n) \in Nat /\ Invocations(n) >= KChunks
  BY LmHeadAssumption, SliceCosts
<1>9. ASSUME md # "golden", r.servedRows > 0
      PROVE  r.invocations >= KChunks /\ r.files # {}
  <2>1. CASE flies
    BY <2>1, <1>3, <1>7, <1>8 DEF CostGood
  <2>2. CASE ~flies
    <3>1. ~h.recording
      BY <2>2, <1>9 DEF hit
    <3>2. h.servedRows > 0
      BY <3>1, <1>7, <1>9 DEF CostGood
    <3> QED
      BY <3>2, <2>2, <1>3, <1>7, <1>9 DEF CostGood
  <2> QED
    BY <2>1, <2>2
<1>10. r.servedRows \in Nat /\ r.invocations \in Nat
  BY <1>7, <1>8 DEF CostGood
<1> QED
  BY <1>3, <1>7, <1>9, <1>10 DEF CostGood

\* One slice, in whichever pass.
LEMMA GemmCost ==
  ASSUME NEW h, NEW s \in Nat, s < Vocab, NEW acc, NEW md, NEW keepJobs, NEW one, HeadInv(h, s, acc, one),
         NEW wrong, NEW k, CostGood(md, h), NEW r, r = GemmCall(h, md, acc, s, wrong, k, keepJobs)
  PROVE  CostGood(md, r)
<1>1. DOMAIN h = HeadFields /\ h.rows \in Nat /\ h.pass \in 0 .. 3
  BY DEF HeadInv
<1>2. CASE ~h.serve
  <2>1. r = [h EXCEPT !.gold = Overlay(h.gold, [v \in s .. s + Height(s) - 1 |-> acc[v]])]
    BY <1>2, <1>1 DEF GemmCall, HeadFields
  <2>2. \A f \in {"invocations", "servedRows", "files", "evidence", "reclaimed"} : r[f] = h[f]
    BY <2>1, <1>1 DEF HeadFields
  <2> QED
    BY <2>2 DEF CostGood
<1>3. CASE h.serve
  <2>1. h.pass \in {2, 3} /\ h.cursor = s /\ h.thisPass = Smaller(h.rows, s)
    BY <1>1, <1>3 DEF HeadInv
  <2>2. r = Serve(h, md, acc, s, wrong, k, keepJobs)
    BY <1>3 DEF GemmCall
  <2>3. CASE h.rows <= s
    <3>1. Budget(h, Height(s)) = 0
      BY <2>1, <2>3, <1>1, BudgetIs
    <3>2. h.thisPass \in Int
      BY <2>1, <1>1 DEF Smaller
    <3>3. \A f \in HeadFields \ {"cursor", "calls", "thisPass", "tile", "poisoned"} : r[f] = h[f]
      BY <2>1, <2>2, <3>1, <3>2, <1>1, ServeOutside
    <3>4. \A f \in {"invocations", "servedRows", "files", "evidence", "reclaimed"} : r[f] = h[f]
      BY <3>3 DEF HeadFields
    <3> QED
      BY <3>4 DEF CostGood
  <2>4. CASE h.rows > s
    <3> DEFINE n == Budget(h, Height(s))
    <3>1. n = Smaller(Height(s), h.rows - s)
      BY <2>1, <2>4, <1>1, BudgetIs
    <3>2. n \in Nat \ {0}
      BY <3>1, <2>4, <1>1, HeightBounds DEF Smaller
    <3>3. h.recording => ~MemoHit(h, s, n)
      <4>1. h.pass = 3 => h.recording = FALSE
        BY DEF HeadInv
      <4>2. h.pass = 2 => <<s, n>> \notin h.memo
        BY DEF HeadInv, Tiled
      <4> QED
        BY <4>1, <4>2, <2>1 DEF MemoHit
    <3> HIDE DEF n
    <3> QED
      BY <2>1, <2>2, <3>2, <3>3, <1>1, ServeCost DEF n
  <2> QED
    BY <2>3, <2>4, <1>1
<1> QED
  BY <1>2, <1>3
-----------------------------------------------------------------------------
(* MultiRun: the two ledgers count the same.                               *)

\* What a family was worth in a layer that was served.
Worth(op) == IF op \in Ops THEN Units(op) ELSE 0

\* Every family has something to serve.
LEMMA UnitsArePositive == ASSUME NEW op PROVE Units(op) \in Nat \ {0}
BY MultiRunAssumption DEF Units, Projections

\* The line of a layer that ran.
LEMMA LineServes ==
  ASSUME NEW l \in On.ran, NEW op \in Families
  PROVE  Lines[l][op].served = IF l \in On.served THEN Worth(op) ELSE 0
<1>1. Lines[l] = LayerLine(l)
  BY DEF Lines
<1>2. LayerLine(l)[op].served = IF l \in On.served /\ op \in Ops THEN Units(op) ELSE 0
  BY DEF LayerLine
<1> QED
  BY <1>1, <1>2 DEF Worth

\* The total line adds the lines up, in whatever order.
LEMMA TotalIsSum ==
  ASSUME IsFiniteSet(On.ran), On.served \subseteq On.ran, NEW op \in Families
  PROVE  LayerTotal(op) = Cardinality(On.served) * Worth(op)
<1> DEFINE S == On.ran
           u == Worth(op)
           F(h) == h = [s \in SUBSET S |-> IF s = {} THEN 0
                                           ELSE Lines[CHOOSE x \in s : TRUE][op].served
                                                + h[s \ {CHOOSE x \in s : TRUE}]]
           g == CHOOSE h : F(h)
           count(s) == Cardinality(s \cap On.served)
           w == [s \in SUBSET S |-> count(s) * u]
           one(s) == CHOOSE x \in s : TRUE
<1>1. u \in Nat
  BY UnitsArePositive DEF Worth
<1>2. LayerTotal(op) = g[S]
  <2>1. DOMAIN Lines = S
    BY DEF Lines
  <2>2. MapThenSumSet(LAMBDA l : Lines[l][op].served, S) = g[S]
    BY DEF MapThenSumSet, MapThenFoldSet
  <2> QED
    BY <2>1, <2>2 DEF LayerTotal
<1> HIDE DEF u
<1>3. ASSUME NEW s \in SUBSET S
      PROVE  count(s) \in Nat /\ Cardinality(s) \in Nat
  <2>1. IsFiniteSet(s) /\ IsFiniteSet(s \cap On.served)
    BY FS_Subset, FS_Intersection
  <2> QED
    BY <2>1, FS_CardinalityType
<1>4. ASSUME NEW s \in SUBSET S, s # {}
      PROVE  /\ one(s) \in s /\ s \ {one(s)} \in SUBSET S
             /\ Cardinality(s \ {one(s)}) = Cardinality(s) - 1
             /\ count(s) = count(s \ {one(s)}) + IF one(s) \in On.served THEN 1 ELSE 0
             /\ Lines[one(s)][op].served = IF one(s) \in On.served THEN u ELSE 0
  <2> DEFINE x == one(s)
  <2>1. x \in s /\ x \in On.ran
    BY <1>4
  <2> HIDE DEF x
  <2>2. IsFiniteSet(s) /\ IsFiniteSet(s \cap On.served)
    BY FS_Subset, FS_Intersection
  <2>3. Cardinality(s \ {x}) = Cardinality(s) - 1
    BY <2>1, <2>2, FS_RemoveElement
  <2>4. count(s) = count(s \ {x}) + IF x \in On.served THEN 1 ELSE 0
    <3>1. CASE x \in On.served
      <4>1. (s \ {x}) \cap On.served = (s \cap On.served) \ {x}
        OBVIOUS
      <4>2. Cardinality((s \cap On.served) \ {x}) = Cardinality(s \cap On.served) - 1
        <5>1. x \in s \cap On.served
          BY <2>1, <3>1
        <5> QED
          BY <2>2, <5>1, FS_RemoveElement
      <4>3. Cardinality(s \cap On.served) \in Nat
        BY <1>3
      <4> QED
        BY <4>1, <4>2, <4>3, <3>1
    <3>2. CASE x \notin On.served
      <4>1. (s \ {x}) \cap On.served = s \cap On.served
        BY <3>2
      <4>2. Cardinality(s \cap On.served) \in Nat
        BY <1>3
      <4>3. count(s) = count(s \ {x})
        BY <4>1, Zenon
      <4>4. count(s) \in Nat
        BY <4>2
      <4> HIDE DEF count
      <4> QED
        BY <4>3, <4>4, <3>2
    <3> QED
      BY <3>1, <3>2
  <2>5. Lines[x][op].served = IF x \in On.served THEN u ELSE 0
    BY <2>1, LineServes DEF u
  <2> QED
    BY <2>1, <2>3, <2>4, <2>5 DEF x
<1>5. count({}) = 0
  <2>1. {} \cap On.served = {}
    OBVIOUS
  <2> QED
    BY <2>1, FS_EmptySet
<1>6. Cardinality({}) = 0
  BY FS_EmptySet
<1> HIDE DEF count, one
<1>7. F(w)
  <2>1. ASSUME NEW s \in SUBSET S
        PROVE  w[s] = IF s = {} THEN 0 ELSE Lines[one(s)][op].served + w[s \ {one(s)}]
    <3>1. CASE s = {}
      BY <3>1, <1>1, <1>5
    <3>2. CASE s # {}
      <4>1. w[s] = count(s) * u /\ w[s \ {one(s)}] = count(s \ {one(s)}) * u
        BY <3>2, <1>4
      <4>2. count(s \ {one(s)}) \in Nat
        BY <3>2, <1>3, <1>4
      <4> DEFINE c == count(s \ {one(s)})
      <4>3. (c + 1) * u = u + c * u /\ (c + 0) * u = 0 + c * u
        <5> HIDE DEF c
        <5> QED
          BY <1>1, <4>2 DEF c
      <4> QED
        BY <3>2, <4>1, <4>3, <1>4
    <3> QED
      BY <3>1, <3>2
  <2> HIDE DEF w
  <2>2. w = [s \in SUBSET S |-> w[s]]
    BY DEF w
  <2> QED
    BY <2>1, <2>2, Zenon DEF one
<1>8. F(g)
  <2>1. \E h : F(h)
    <3> HIDE DEF F, w
    <3> QED
      BY <1>7
  <2> HIDE DEF F
  <2> QED
    BY <2>1
<1>9. \A s \in SUBSET S : g[s] = IF s = {} THEN 0 ELSE Lines[one(s)][op].served + g[s \ {one(s)}]
  <2> HIDE DEF g
  <2> QED
    BY <1>8, Zenon DEF one
<1> HIDE DEF g, F
<1>10. ASSUME NEW s \in SUBSET S
       PROVE  g[s] = count(s) * u
  <2> DEFINE Bad == {s2 \in SUBSET S : g[s2] # count(s2) * u}
             Sizes == {Cardinality(s2) : s2 \in Bad}
  <2> SUFFICES ASSUME Bad # {}
               PROVE  FALSE
    BY <1>10
  <2>1. Sizes \subseteq Nat /\ Sizes # {}
    BY <1>3
  <2>2. PICK m \in Sizes : \A n \in Sizes : m <= n
    <3> HIDE DEF Sizes
    <3> QED
      BY <2>1, LeastNumber, Zenon
  <2>3. PICK b \in Bad : Cardinality(b) = m
    BY <2>2
  <2>4. b \in SUBSET S /\ g[b] # count(b) * u
    BY <2>3
  <2>5. b # {}
    <3>1. {} \in SUBSET S
      OBVIOUS
    <3>2. g[{}] = 0
      BY <3>1, <1>9, Zenon
    <3>3. count({}) * u = 0
      BY <1>5, <1>1
    <3> QED
      BY <3>2, <3>3, <2>4
  <2>6. b \ {one(b)} \in SUBSET S /\ Cardinality(b \ {one(b)}) = m - 1 /\ m \in Nat
    BY <2>3, <2>4, <2>5, <1>4, <1>3
  <2>7. b \ {one(b)} \notin Bad
    <3>1. ASSUME b \ {one(b)} \in Bad
          PROVE  FALSE
      <4>1. m - 1 \in Sizes
        BY <3>1, <2>6
      <4> QED
        BY <4>1, <2>2, <2>6
    <3> QED
      BY <3>1
  <2> DEFINE c == count(b \ {one(b)})
  <2>8. g[b \ {one(b)}] = c * u /\ c \in Nat
    BY <2>6, <2>7, <1>3
  <2>9. g[b] = Lines[one(b)][op].served + c * u
    BY <2>4, <2>5, <2>8, <1>9
  <2>10. count(b) = c + IF one(b) \in On.served THEN 1 ELSE 0
    BY <2>4, <2>5, <1>4
  <2>11. Lines[one(b)][op].served = IF one(b) \in On.served THEN u ELSE 0
    BY <2>4, <2>5, <1>4
  <2> HIDE DEF c
  <2>12. (c + 1) * u = u + c * u /\ (c + 0) * u = 0 + c * u
    BY <1>1, <2>8
  <2> QED
    BY <2>4, <2>9, <2>10, <2>11, <2>12
<1>11. count(S) = Cardinality(On.served)
  <2>1. S \cap On.served = On.served
    OBVIOUS
  <2> QED
    BY <2>1 DEF count
<1> QED
  BY <1>2, <1>10, <1>11 DEF u
-----------------------------------------------------------------------------
(* MultiRun: the verdict and its reasons.                                  *)

\* The families served: those the driver offers, if a layer was served at all.
LEMMA FamiliesServed ==
  ASSUME IsFiniteSet(On.ran), On.served \subseteq On.ran
  PROVE  /\ Cardinality(On.served) \in Nat /\ (On.served # {} <=> Cardinality(On.served) > 0)
         /\ Ops \subseteq Families /\ "attn" \in Ops
         /\ ServedOps = IF On.served = {} THEN {} ELSE Ops
         /\ \A op \in Families :
              /\ Aggregate(op).values = Cardinality(On.served) * Worth(op)
              /\ Aggregate(op).gradeOk <=> (op \in Ops /\ On.served # {} => On.bad = {})
<1> DEFINE c == Cardinality(On.served)
<1>1. c \in Nat /\ (On.served # {} <=> c > 0)
  <2>1. IsFiniteSet(On.served)
    BY FS_Subset
  <2>2. c \in Nat /\ (c = 0 <=> On.served = {})
    BY <2>1, FS_CardinalityType, FS_EmptySet
  <2> QED
    BY <2>2
<1>2. Ops \subseteq Families /\ "attn" \in Ops
  BY DEF Ops, Families, ExactFamilies, ReconFamilies
<1>3. ASSUME NEW op \in Families
      PROVE  /\ Aggregate(op).values = c * Worth(op)
             /\ Aggregate(op).gradeOk <=> (op \in Ops /\ On.served # {} => On.bad = {})
             /\ Aggregate(op).values > 0 <=> (op \in Ops /\ On.served # {})
  <2> DEFINE recs == {l \in On.ran : TRUE}
             served == {l \in recs : Lines[l][op].served > 0}
  <2>1. Worth(op) \in Nat /\ (Worth(op) > 0 <=> op \in Ops)
    BY UnitsArePositive DEF Worth
  <2>2. served = IF op \in Ops THEN On.served ELSE {}
    <3>1. \A l \in On.ran : Lines[l][op].served = IF l \in On.served THEN Worth(op) ELSE 0
      BY LineServes
    <3> QED
      BY <2>1, <3>1
  <2>3. /\ Aggregate(op).values = Cardinality(served) * Units(op)
        /\ Aggregate(op).gradeOk = (served # {} => On.bad = {})
    BY DEF Aggregate
  <2> HIDE DEF served, c
  <2>4. Aggregate(op).gradeOk <=> (op \in Ops /\ On.served # {} => On.bad = {})
    BY <2>2, <2>3
  <2>5. Aggregate(op).values = c * Worth(op)
    <3>1. CASE op \in Ops
      BY <3>1, <2>2, <2>3 DEF Worth, c
    <3>2. CASE op \notin Ops
      <4>1. Cardinality(served) = 0 /\ Units(op) \in Nat
        BY <3>2, <2>2, FS_EmptySet, UnitsArePositive
      <4>2. Worth(op) = 0
        BY <3>2 DEF Worth
      <4> QED
        BY <4>1, <4>2, <2>3, <1>1
    <3> QED
      BY <3>1, <3>2
  <2>6. c * Worth(op) > 0 <=> (op \in Ops /\ On.served # {})
    <3> DEFINE w == Worth(op)
    <3>1. c > 0 /\ w > 0 => c * w > 0
      <4> HIDE DEF w
      <4>1. w \in Nat
        BY <2>1 DEF w
      <4> QED
        BY <1>1, <4>1
    <3>2. c = 0 \/ w = 0 => c * w = 0
      BY <1>1, <2>1
    <3> QED
      BY <3>1, <3>2, <1>1, <2>1
  <2> QED
    BY <2>4, <2>5, <2>6
<1>4. ServedOps = IF On.served = {} THEN {} ELSE Ops
  BY <1>2, <1>3 DEF ServedOps
<1> QED
  BY <1>1, <1>2, <1>3, <1>4 DEF c

\* The verdict of the driver.
Passed ==
  CASE Driver = "prompt_offload" -> PassedHead [] Driver = "layer_offload" -> PassedLayer
    [] Driver = "layer05b" -> PassedLayer05B [] OTHER -> PassedMulti

\* The report prints a reason for every failure, and none for a pass.
LEMMA PassedHasNoReason ==
  ASSUME IsFiniteSet(On.ran), On.served \subseteq On.ran, On.bad \subseteq On.served,
         On.head.servedRows \in Nat, Driver \in Drivers, Driver # "prompt05b" => On.head.servedRows = 0
  PROVE  Passed <=> \A r \in Reasons : ~Told(r)
<1>1. Fired <=> On.served # {} \/ On.head.servedRows > 0
  BY FamiliesServed DEF Fired
<1>2. GradesOk <=> On.bad = {}
  BY FamiliesServed DEF GradesOk
<1>3. \A x \in Drivers : x \in {"prompt_offload", "layer_offload", "layer05b", "prompt05b"}
  BY DEF Drivers
<1>4. /\ Told("nothing served") <=> ~Fired
      /\ Told("not consumed") <=> ~ChecksOk
      /\ Told("differs") <=> ~GradesOk
      /\ Told("framing") <=> Driver \in {"layer05b", "prompt05b"} /\ ~GeomOk
      /\ Told("head") <=> Driver = "prompt05b" /\ ~HeadStage
      /\ Told("vacuous") <=> Driver \in {"layer05b", "prompt05b"} /\ ~PoisonSeen
      /\ Told("token") <=> Driver # "prompt05b" /\ ~SameAsHost
      /\ Told("tile defect") <=> Driver = "prompt05b" /\ ~args.recon /\ ~SameAsBus
  BY DEF Told
<1>5. (\A r \in Reasons : ~Told(r)) <=>
        /\ Fired /\ ChecksOk /\ GradesOk
        /\ Driver \in {"layer05b", "prompt05b"} => GeomOk /\ PoisonSeen
        /\ Driver = "prompt05b" => HeadStage /\ (args.recon \/ SameAsBus)
        /\ Driver # "prompt05b" => SameAsHost
  <2>1. (\A r \in Reasons : ~Told(r)) <=>
          /\ ~Told("nothing served") /\ ~Told("not consumed") /\ ~Told("differs") /\ ~Told("framing")
          /\ ~Told("head") /\ ~Told("vacuous") /\ ~Told("token") /\ ~Told("tile defect")
    BY DEF Reasons
  <2> QED
    BY <1>4, <2>1
<1>6. SameAsBus => SameAsHost \/ BusExplains
  BY DEF SameAsBus, SameAsHost, BusExplains, BusSameAsHost
<1>7. CASE Driver = "prompt_offload"
  BY <1>1, <1>2, <1>5, <1>7 DEF Passed, PassedHead
<1>8. CASE Driver = "layer_offload"
  BY <1>1, <1>2, <1>5, <1>8 DEF Passed, PassedLayer
<1>9. CASE Driver = "layer05b"
  BY <1>1, <1>2, <1>5, <1>9 DEF Passed, PassedLayer, PassedLayer05B
<1>10. CASE Driver = "prompt05b"
  BY <1>1, <1>2, <1>5, <1>6, <1>10 DEF Passed, PassedMulti
<1> QED
  BY <1>3, <1>7, <1>8, <1>9, <1>10
-----------------------------------------------------------------------------
(* MultiRun: the state a report is made in, and what the arms say of each  *)
(* other.                                                                  *)

\* The books of an offloaded decode: what is not golden is served, and the
\* hidden state tells what moved it.
OnBooks(g, d) ==
  /\ d.ran \subseteq g.layers /\ d.served \subseteq d.ran /\ d.bad \subseteq d.served
  /\ d.hidden \in {"golden", Composition(g), "recon", "wrong"}
  /\ d.hidden = "recon" => g.recon
  /\ d.hidden = "wrong" => d.bad # {}

\* Until a value of the tile moves it, the hidden state is the composition's,
\* and the tokens are, if those of the offered head are golden's.
FollowsTrace(g, d, s, l, exact) ==
  d.hidden \in {"golden", Composition(g)} /\ g.driver # "prompt_offload" =>
    d.hidden = Trace(g, s, l) /\ (exact => TraceIds(g, d.ids))

\* What a finished arm gave.
Fin(g, a, x, c) ==
  /\ Whole(g, x.ids)
  /\ a = "on" => OnBooks(g, x) /\ FollowsTrace(g, x, StepOf(Len(x.ids)), NLayers, x.head.exact)
  /\ a = "host" => /\ x.hidden = "golden" /\ HostIds(x.ids)
                   /\ g.driver = "prompt05b" => c.layers = 0 .. NLayers - 1 /\ c.outside = Vocab
  /\ a = "bus" => x.hidden = Trace(g, StepOf(Len(x.ids)), NLayers) /\ TraceIds(g, x.ids)

\* Some arms are finished.
Done(A, g, o, c) == \A a \in A : Fin(g, a, o[a], c)

\* The arms the verdict is read from, and those over before arm p.
Graded(g) == IF g.driver = "prompt_offload" THEN {"on", "host"} ELSE {"on", "host", "bus"}
Before(g, p) ==
  CASE p = "on" -> {} [] p = "host" -> {"on"} [] p = "bus" -> {"on", "host"} [] OTHER -> Graded(g)

\* The offloader of the offered head, as the first arm leaves it.
OnHead(g, md, h) ==
  /\ h = FreshHead(0) \/ (h.pass > 1 /\ g.driver = "prompt05b")
  /\ h.rows \in Nat /\ CostGood(md, h)

\* Where the run is in the script of its arms.
Order(g, a, p, v, o, c) ==
  /\ a \in OpenArms => Done(Before(g, a), g, o, c)
  /\ a = "between" => p \in OpenArms /\ Done(Before(g, p) \cup ({p} \cap Graded(g)), g, o, c)
  /\ a = "report" \/ v \in {"pass", "fail"} => Done(Graded(g), g, o, c)
  /\ v \in {"pass", "fail"} => a = "end"

\* What the command line asks for, and what has been admitted.
Asked(g, a, v) ==
  /\ g.driver \in Drivers /\ g.tokens \in Nat \ {0} /\ g.rows \in Int
  /\ g.driver # "prompt05b" => g.rows = 0
  /\ a \notin {"admit", "end"} \/ v \in {"pass", "fail"} => g.layers \subseteq 0 .. NLayers - 1

\* The state a report is made in, and stays in.
Reported ==
  /\ HeadGood(On.head) /\ Asked(args, arm, verdict) /\ OnHead(args, mode, On.head)
  /\ args.layers \subseteq 0 .. NLayers - 1 /\ Done(Graded(args), args, out, census)

\* What follows from the state alone.
LEMMA ReportedBooks ==
  ASSUME Reported
  PROVE  /\ IsFiniteSet(On.ran) /\ IsFiniteSet(args.layers) /\ On.served \subseteq On.ran
         /\ On.bad \subseteq On.served /\ On.ran \subseteq args.layers
         /\ Driver = args.driver /\ Driver \in Drivers
         /\ On.head.servedRows \in 0 .. Vocab
         /\ Driver # "prompt05b" => On.head.servedRows = 0 /\ On.head.exact = TRUE
<1>1. OnBooks(args, On)
  BY DEF Reported, Done, Graded, Fin, On
<1>2. IsFiniteSet(args.layers)
  <2>1. NLayers \in Nat
    BY MultiRunAssumption
  <2>2. IsFiniteSet(0 .. NLayers - 1)
    BY <2>1, FS_Interval
  <2> QED
    BY <2>2, FS_Subset DEF Reported
<1>3. IsFiniteSet(On.ran)
  BY <1>1, <1>2, FS_Subset DEF OnBooks
<1>4. FreshHead(0).servedRows = 0 /\ FreshHead(0).exact = TRUE
  BY DEF FreshHead
<1>5. On.head.servedRows \in 0 .. Vocab
  <2>1. Vocab \in Nat
    BY LmHeadAssumption
  <2>2. CASE On.head = FreshHead(0)
    BY <2>1, <2>2, <1>4
  <2>3. CASE On.head.pass > 1
    <3>1. On.head.servedRows = Smaller(On.head.rows, Vocab) /\ On.head.rows \in Nat
      BY <2>3 DEF Reported, HeadGood, OnHead
    <3> QED
      BY <2>1, <3>1 DEF Smaller
  <2> QED
    BY <2>2, <2>3 DEF Reported, OnHead
<1>6. Driver = args.driver /\ Driver \in Drivers
  BY DEF Driver, Reported, Asked
<1>7. Driver # "prompt05b" => On.head = FreshHead(0)
  BY <1>6 DEF Reported, OnHead
<1> QED
  BY <1>1, <1>2, <1>3, <1>4, <1>5, <1>6, <1>7 DEF OnBooks

\* What the tokens of the arms say of each other.
LEMMA ReportedTokens ==
  ASSUME Reported, Driver # "prompt_offload"
  PROVE  /\ On.hidden \in {"golden", Composition(args)} /\ On.head.exact => On.ids = out["bus"].ids
         /\ On.hidden \in {"golden", Composition(args)} /\ On.ids = out["bus"].ids => On.hidden = out["bus"].hidden
         /\ out["bus"].ids # out["host"].ids => out["bus"].hidden # out["host"].hidden
<1>1. Graded(args) = {"on", "host", "bus"} /\ args.driver # "prompt_offload"
  BY DEF Graded, Driver
<1>2. /\ Fin(args, "on", On, census) /\ Fin(args, "host", out["host"], census)
      /\ Fin(args, "bus", out["bus"], census)
  BY <1>1 DEF Reported, Done, On
<1>3. Whole(args, On.ids) /\ Whole(args, out["host"].ids) /\ Whole(args, out["bus"].ids)
  BY <1>2 DEF Fin
<1>4. TraceIds(args, out["bus"].ids) /\ HostIds(out["host"].ids) /\ out["host"].hidden = "golden"
      /\ out["bus"].hidden = Trace(args, StepOf(Len(out["bus"].ids)), NLayers)
  BY <1>2 DEF Fin
<1>5. ASSUME On.hidden \in {"golden", Composition(args)}
      PROVE  On.hidden = Trace(args, StepOf(Len(On.ids)), NLayers) /\ (On.head.exact => TraceIds(args, On.ids))
  BY <1>1, <1>2, <1>5 DEF Fin, FollowsTrace
<1>6. On.hidden \in {"golden", Composition(args)} /\ On.head.exact => On.ids = out["bus"].ids
  BY <1>3, <1>4, <1>5, SameTraces
<1>7. On.hidden \in {"golden", Composition(args)} /\ On.ids = out["bus"].ids => On.hidden = out["bus"].hidden
  BY <1>4, <1>5
<1>8. ASSUME out["bus"].hidden = out["host"].hidden
      PROVE  out["bus"].ids = out["host"].ids
  <2>1. Trace(args, StepOf(Len(out["bus"].ids)), NLayers) = "golden"
    BY <1>4, <1>8
  <2> QED
    BY <1>3, <1>4, <2>1, SameAsGolden
<1> QED
  BY <1>6, <1>7, <1>8
-----------------------------------------------------------------------------
(* MultiRun: a report made in that state is true.                          *)

\* A pass.
LEMMA PassIsEarned ==
  ASSUME Reported, Passed
  PROVE  /\ On.served # {} \/ On.head.servedRows > 0
         /\ On.bad = {} /\ On.lost = {} /\ On.hidden # "wrong"
         /\ Driver = "prompt05b" /\ HeadServed => On.head.tile = On.head.gold
         /\ Driver # "prompt_offload" /\ ~args.recon => ~Margin.vsBus
<1>1. /\ IsFiniteSet(On.ran) /\ On.served \subseteq On.ran /\ On.bad \subseteq On.served
      /\ Driver \in {"prompt_offload", "layer_offload", "layer05b", "prompt05b"}
      /\ Driver # "prompt05b" => On.head.servedRows = 0 /\ On.head.exact = TRUE
  BY ReportedBooks DEF Drivers
<1>2. /\ Fired <=> On.served # {} \/ On.head.servedRows > 0
      /\ GradesOk <=> On.bad = {}
  BY <1>1, FamiliesServed DEF Fired, GradesOk
<1>3. OnBooks(args, On)
  BY DEF Reported, Done, Graded, Fin, On
<1>4. /\ Driver = "prompt_offload" => PassedHead
      /\ Driver = "layer_offload" => PassedLayer
      /\ Driver = "layer05b" => PassedLayer05B
      /\ Driver = "prompt05b" => PassedMulti
  BY DEF Passed
<1>5. /\ On.served # {} \/ On.head.servedRows > 0
      /\ On.bad = {} /\ On.lost = {}
  BY <1>1, <1>2, <1>4 DEF PassedHead, PassedLayer, PassedLayer05B, PassedMulti, ChecksOk
<1>6. On.hidden # "wrong"
  BY <1>3, <1>5 DEF OnBooks
<1>7. Driver = "prompt05b" /\ HeadServed => On.head.tile = On.head.gold
  <2>1. Driver = "prompt05b" /\ HeadServed => HeadResult.logitsEqual
    BY <1>4 DEF PassedMulti, HeadStage, HeadOk
  <2>2. HeadResult.logitsEqual = (On.head.gold = On.head.tile)
    BY DEF HeadResult, Result
  <2> QED
    BY <2>1, <2>2
<1>8. ASSUME Driver # "prompt_offload", ~args.recon
      PROVE  ~Margin.vsBus
  <2>1. On.hidden \in {"golden", Composition(args)}
    BY <1>3, <1>6, <1>8 DEF OnBooks
  <2>2. On.ids = out["bus"].ids
    <3>1. CASE Driver = "prompt05b"
      BY <1>4, <1>8, <3>1 DEF PassedMulti, SameAsBus
    <3>2. CASE Driver # "prompt05b"
      BY <1>1, <1>8, <2>1, <3>2, ReportedTokens
    <3> QED
      BY <3>1, <3>2
  <2>3. On.hidden = out["bus"].hidden
    BY <1>8, <2>1, <2>2, ReportedTokens
  <2>4. Margin.vsBus = (On.hidden # out["bus"].hidden)
    BY DEF Margin
  <2> QED
    BY <2>3, <2>4
<1> QED
  BY <1>5, <1>6, <1>7, <1>8

\* What a changed token is put down to.
LEMMA BlameIsDue ==
  ASSUME Reported
  PROVE  /\ Told("tile defect") => On.bad # {} \/ ~On.head.exact
         /\ "tile value" \in Blames => On.hidden \in {"wrong", "recon"}
         /\ "composition alone" \in Blames => Margin.busVsHost
<1>1. Driver \in {"prompt_offload", "layer_offload", "layer05b", "prompt05b"}
  BY ReportedBooks DEF Drivers
<1>2. OnBooks(args, On)
  BY DEF Reported, Done, Graded, Fin, On
<1>3. ASSUME Told("tile defect"), On.bad = {}, On.head.exact
      PROVE  FALSE
  <2>1. Driver = "prompt05b" /\ ~args.recon /\ On.ids # out["bus"].ids
    BY <1>3 DEF Told, SameAsBus
  <2>2. On.hidden \in {"golden", Composition(args)}
    BY <2>1, <1>2, <1>3 DEF OnBooks
  <2> QED
    BY <2>1, <2>2, <1>3, ReportedTokens
<1>4. ASSUME "tile value" \in Blames
      PROVE  On.hidden \in {"wrong", "recon"}
  <2>1. /\ Driver # "prompt_offload" /\ Driver # "prompt05b"
        /\ On.ids # out["host"].ids /\ out["bus"].ids = out["host"].ids
    BY <1>4 DEF Blames, SameAsHost, BusSameAsHost
  <2>2. On.head.exact
    BY <2>1, ReportedBooks
  <2>3. On.hidden \notin {"golden", Composition(args)}
    BY <2>1, <2>2, ReportedTokens
  <2> QED
    BY <2>3, <1>2 DEF OnBooks
<1>5. ASSUME "composition alone" \in Blames
      PROVE  Margin.busVsHost
  <2>1. Driver # "prompt_offload" /\ out["bus"].ids # out["host"].ids
    BY <1>5 DEF Blames, BusExplains, BusSameAsHost
  <2>2. Margin.busVsHost = (out["bus"].hidden # out["host"].hidden)
    BY DEF Margin
  <2> QED
    BY <2>1, <2>2, ReportedTokens
<1> QED
  BY <1>3, <1>4, <1>5

\* What is said to have stayed on the host was not served.
LEMMA KeptWasNotServed ==
  ASSUME Reported
  PROVE  HostKept \cap ServedOps = {}
<1>1. ServedOps \subseteq {"proj", "rope", "attn", "resid", "norm", "swiglu"}
  BY DEF ServedOps, Families, ExactFamilies, ReconFamilies
<1>2. \A op \in ServedOps : Aggregate(op).values > 0
  BY DEF ServedOps
<1>3. \A op : Aggregate(op).values = 0 => op \notin ServedOps
  BY <1>2
<1>4. HostKept \subseteq {"head", "cached rope", "proj outside", "sum adds", "head floats", "head rows"}
                          \cup {op \in {"norm", "swiglu"} : Aggregate(op).values = 0}
  BY DEF HostKept, KeptOfLayer, KeptOfLayer05B, KeptMulti
<1> QED
  BY <1>1, <1>3, <1>4

\* Seven projections of each offloaded layer at the most.
LEMMA ShareOfLayers ==
  ASSUME NEW a \in Nat, NEW b \in Nat \ {0}, a <= b
  PROVE  (a * 7) \div b <= 7
<1> DEFINE q == (a * 7) \div b
           r == (a * 7) % b
<1>1. q \in Int /\ r \in 0 .. b - 1 /\ a * 7 = b * q + r
  OBVIOUS
<1> HIDE DEF q, r
<1>2. ASSUME q >= 8
      PROVE  FALSE
  <2>1. b * q >= b * 8
    BY <1>1, <1>2
  <2> QED
    BY <2>1, <1>1
<1> QED
  BY <1>1, <1>2 DEF q

\* The shares of prompt05b.py.
LEMMA SharesAreTrue ==
  ASSUME Reported, Driver = "prompt05b"
  PROVE  /\ TileShare.tile <= TileShare.step /\ TileShare.head <= TileShare.token
         /\ (ShareLabel.head = "full" <=> HeadLine.full) /\ (HeadLine.full <=> TileShare.head = TileShare.token)
         /\ (HeadLine.who = "host" <=> "head" \in HostKept) /\ (ShareLabel.head = "host" <=> HeadLine.who = "host")
         /\ HeadLine.rows = Cardinality({v \in Rows : On.head.flown[v] = 1})
         /\ Extrapolated <= NLayers * Projections
         /\ Tile /\ On.head.servedRows > 0 => PredictedHwWall >= SetupCost * KChunks
<1> DEFINE c == Cardinality(On.served)
           n == On.head.servedRows
<1>1. /\ IsFiniteSet(On.ran) /\ IsFiniteSet(args.layers) /\ On.served \subseteq On.ran
      /\ On.ran \subseteq args.layers /\ n \in 0 .. Vocab
  BY ReportedBooks
<1>2. census.layers = 0 .. NLayers - 1 /\ census.outside = Vocab
  BY DEF Reported, Done, Graded, Fin, Driver
<1>3. NLayers \in Nat \ {0} /\ Vocab \in Nat \ {0} /\ KChunks \in Nat \ {0}
  BY MultiRunAssumption, LmHeadAssumption
<1>4. c \in Nat /\ Cardinality(args.layers) \in Nat /\ c <= Cardinality(args.layers)
      /\ Cardinality(args.layers) <= NLayers /\ Cardinality(0 .. NLayers - 1) = NLayers
  <2>1. IsFiniteSet(0 .. NLayers - 1) /\ Cardinality(0 .. NLayers - 1) = NLayers
    BY <1>3, FS_Interval
  <2>2. args.layers \subseteq 0 .. NLayers - 1 /\ On.served \subseteq args.layers
    BY <1>1 DEF Reported
  <2> QED
    BY <2>1, <2>2, <1>1, FS_Subset, FS_CardinalityType
<1>5. Aggregate("proj").values = c * 7
  <2>1. "proj" \in Ops /\ "proj" \in Families /\ Worth("proj") = 7
    BY DEF Ops, Driver, Families, ExactFamilies, Worth, Units, Projections
  <2> QED
    BY <2>1, <1>1, FamiliesServed
<1>6. /\ TileShare.tile = c * 7 /\ TileShare.step = NLayers * 7
      /\ TileShare.head = n /\ TileShare.token = Vocab
  BY <1>2, <1>4, <1>5 DEF TileShare, Projections
<1>7. TileShare.tile <= TileShare.step /\ TileShare.head <= TileShare.token
  BY <1>1, <1>3, <1>4, <1>6
<1>8. /\ HeadLine.rows = n /\ HeadLine.full = (n = Vocab)
      /\ HeadLine.who = IF n > 0 THEN "tile" ELSE "host"
  BY DEF HeadLine
<1>9. ShareLabel.head = CASE n = 0 -> "host" [] n = Vocab -> "full" [] OTHER -> "sampled"
  BY DEF ShareLabel
<1> HIDE DEF n, c
<1>10. (ShareLabel.head = "full" <=> HeadLine.full) /\ (ShareLabel.head = "host" <=> HeadLine.who = "host")
  <2>1. /\ n = 0 => ShareLabel.head = "host"
        /\ n = Vocab => ShareLabel.head = "full"
        /\ n # 0 /\ n # Vocab => ShareLabel.head = "sampled"
    BY <1>3, <1>9
  <2>2. HeadLine.full <=> n = Vocab
    BY <1>8
  <2>3. HeadLine.who = "host" <=> n = 0
    <3>1. HeadLine.who = "host" <=> ~(n > 0)
      BY <1>8
    <3>2. ~(n > 0) <=> n = 0
      BY <1>1, <1>3
    <3> QED
      BY <3>1, <3>2
  <2> QED
    BY <2>1, <2>2, <2>3, <1>3
<1>11. HeadLine.full <=> TileShare.head = TileShare.token
  BY <1>6, <1>8
<1>12. HeadLine.who = "host" <=> "head" \in HostKept
  <2>1. HostKept = KeptMulti
    BY DEF HostKept
  <2>2. "head" \in KeptMulti <=> ~(n > 0)
    BY DEF KeptMulti, n
  <2> QED
    BY <2>1, <2>2, <1>8
<1>13. n = Cardinality({v \in Rows : On.head.flown[v] = 1})
  <2> DEFINE flown == {v \in Rows : On.head.flown[v] = 1}
  <2>1. flown = 0 .. n - 1
    <3>1. CASE On.head = FreshHead(0)
      <4>1. n = 0 /\ On.head.flown = NoLogits
        BY <3>1 DEF n, FreshHead
      <4> QED
        BY <4>1 DEF NoLogits
    <3>2. CASE On.head.pass > 1
      <4>1. \A v \in Rows : On.head.flown[v] = IF v < n THEN 1 ELSE 0
        BY <3>2 DEF Reported, HeadGood, n
      <4>2. Rows = 0 .. Vocab - 1
        BY DEF Rows
      <4> QED
        BY <4>1, <4>2, <1>1, <1>3
    <3> QED
      BY <3>1, <3>2 DEF Reported, OnHead
  <2> HIDE DEF flown
  <2>2. Cardinality(flown) = n
    BY <2>1, <1>1, FS_Interval
  <2> QED
    BY <2>2 DEF flown
<1>14. Extrapolated <= NLayers * Projections
  <2>1. CASE args.layers = {}
    BY <2>1, <1>3 DEF Extrapolated, Projections
  <2>2. CASE args.layers # {}
    <3> DEFINE b == Cardinality(args.layers)
    <3>1. b \in Nat \ {0}
      BY <2>2, <1>1, <1>4, FS_EmptySet
    <3>2. Extrapolated = ((c * 7) \div b) * NLayers
      BY <2>2, <1>6 DEF Extrapolated
    <3>3. c <= b
      BY <1>4
    <3> HIDE DEF b
    <3>4. (c * 7) \div b <= 7 /\ (c * 7) \div b \in Int
      BY <3>1, <3>3, <1>4, ShareOfLayers
    <3>5. \A x \in Int, y \in Nat : x <= 7 => x * y <= y * 7
      OBVIOUS
    <3> QED
      BY <3>2, <3>4, <3>5, <1>3 DEF Projections
  <2> QED
    BY <2>1, <2>2
<1>15. ASSUME Tile, n > 0
       PROVE  PredictedHwWall >= SetupCost * KChunks
  <2> DEFINE h == On.head
             left == h.reclaimed + Cardinality(h.files)
  <2>1. /\ h.invocations \in Nat /\ h.invocations >= KChunks /\ h.reclaimed \in Nat
        /\ IsFiniteSet(h.files) /\ h.files # {}
    BY <1>15 DEF Reported, OnHead, CostGood, Tile, n
  <2>2. left \in Nat \ {0}
    BY <2>1, FS_CardinalityType, FS_EmptySet
  <2>3. PredictedHwWall = 5 * h.invocations + 1 * left
    BY <2>2 DEF PredictedHwWall, SetupCost, ProgramCost
  <2> HIDE DEF left
  <2> QED
    BY <2>1, <2>2, <2>3, <1>3 DEF SetupCost
<1> QED
  BY <1>7, <1>8, <1>10, <1>11, <1>12, <1>13, <1>14, <1>15 DEF n

\* PassMeansServed, of a report made in such a state.
LEMMA ReportIsTrue ==
  ASSUME Reported, verdict = "pass" <=> Passed
  PROVE  PassMeansServed
<1>1. /\ IsFiniteSet(On.ran) /\ On.served \subseteq On.ran /\ On.bad \subseteq On.served /\ Driver \in Drivers
      /\ On.head.servedRows \in Nat /\ (Driver # "prompt05b" => On.head.servedRows = 0)
  <2>1. Vocab \in Nat
    BY LmHeadAssumption
  <2>2. On.head.servedRows \in 0 .. Vocab
    BY ReportedBooks
  <2>3. On.head.servedRows \in Nat
    BY <2>1, <2>2
  <2> QED
    BY <2>3, ReportedBooks, Zenon
<1>2. verdict = "pass" <=> \A r \in Reasons : ~Told(r)
  BY <1>1, PassedHasNoReason
<1>3. \A op \in Families : Aggregate(op).values = LayerTotal(op)
  BY <1>1, FamiliesServed, TotalIsSum
<1> QED
  BY <1>2, <1>3, PassIsEarned, BlameIsDue, KeptWasNotServed, SharesAreTrue DEF PassMeansServed
-----------------------------------------------------------------------------
(* MultiRun: the inductive invariant of a run up to its report.            *)

\* Where a decode is: the tokens it has are those of the steps it has done.
Place(g, d) ==
  /\ d.step \in Nat /\ d.layer \in 0 .. NLayers /\ \E S : d.ids \in Seq(S)
  /\ d.phase \in {"layers", "head", "over"}
  /\ d.phase # "layers" => d.layer = NLayers
  /\ d.phase = "layers" => IF Len(d.ids) = 0 THEN d.step <= PromptLen - 1
                           ELSE d.step = PromptLen - 1 + Len(d.ids)
  /\ d.phase = "head" => d.step = StepOf(Len(d.ids) + 1)
  /\ d.phase # "over" => GoesOn(g, d.ids, Len(d.ids))
  /\ d.phase = "over" => d.step = StepOf(Len(d.ids)) /\ Whole(g, d.ids)

\* What it has computed, in the arms the verdict is read from.
Course(g, a, d, exact) ==
  /\ a = "host" => HostIds(d.ids)
  /\ a = "bus" => d.hidden = Trace(g, d.step, d.layer) /\ TraceIds(g, d.ids)
  /\ a = "on" => OnBooks(g, d) /\ FollowsTrace(g, d, d.step, d.layer, exact)

\* The offloader of the first arm: the head of the first token is the one
\* offered, and only in prompt05b.py.
HeadOwn(g, d, h, md) ==
  /\ h.armed \/ h.pass > 0 => Len(d.ids) = 0 /\ g.driver = "prompt05b"
  /\ d.phase # "layers" => ~h.armed
  /\ CostGood(md, h)

\* The inductive invariant of a run, up to its report.
PassInv ==
  /\ MultiInv
  /\ Asked(args, arm, verdict)
  /\ OnHead(args, mode, On.head)
  /\ Order(args, arm, dec.phase, verdict, out, census)
  /\ verdict \in {"pass", "fail"} => (verdict = "pass" <=> Passed)
  /\ Decoding => Place(args, dec) /\ Course(args, arm, dec, On.head.exact)
  /\ arm = "on" => HeadOwn(args, dec, head, mode)

\* A run that is in it prints what PassMeansServed says.
LEMMA PassInvMeans == PassInv => PassMeansServed
<1> SUFFICES ASSUME PassInv
             PROVE  PassMeansServed
  OBVIOUS
<1>1. CASE verdict \notin {"pass", "fail"}
  BY <1>1 DEF PassMeansServed
<1>2. CASE verdict \in {"pass", "fail"}
  <2>1. HeadGood(On.head)
    BY DEF PassInv, MultiInv, On, ArmNames
  <2>2. Reported
    BY <1>2, <2>1 DEF PassInv, Asked, Order, Reported
  <2> QED
    BY <1>2, <2>2, ReportIsTrue DEF PassInv
<1> QED
  BY <1>1, <1>2

\* Which context each arm runs its layers and its head through.
LEMMA LayersThrough ==
  LET b(a) == Rebound(Pure, Contexts(a), Len(Contexts(a)))
  IN  /\ b("on").layer = IF Driver = "prompt_offload" THEN "onehead" ELSE "offload"
      /\ Driver = "prompt05b" => b("on").head = "lmhead"
      /\ b("bus").layer = "busonly" /\ b("bus").cpgemm = "golden"
      /\ b("host").layer = IF Driver = "prompt05b" THEN "census" ELSE "golden"
      /\ b("host").cpgemm # "lmhead"
      /\ \A a \in {"on", "bus", "control", "poison"} : b(a).layer # "census" /\ b(a).cpgemm # "census"
<1> DEFINE r(cs, n) == LET by == {i \in 1 .. Len(cs) : n \in cs[i].attrs}
                       IN  IF by = {} THEN "golden" ELSE cs[Max(by)].owner
<1>1. ASSUME NEW a, NEW n \in Attrs
      PROVE  Rebound(Pure, Contexts(a), Len(Contexts(a)))[n] = r(Contexts(a), n)
  BY DEF Rebound, Pure
<1> HIDE DEF r
<1>2. \A n : r(<< >>, n) = "golden"
  BY DEF r
<1>3. ASSUME NEW c, NEW n
      PROVE  r(<<c>>, n) = IF n \in c.attrs THEN c.owner ELSE "golden"
  <2> DEFINE by == {i \in 1 .. Len(<<c>>) : n \in <<c>>[i].attrs}
  <2>1. by = IF n \in c.attrs THEN {1} ELSE {}
    OBVIOUS
  <2>2. n \in c.attrs => Max(by) = 1
    BY <2>1, ExtremesOfThree
  <2>3. r(<<c>>, n) = IF by = {} THEN "golden" ELSE <<c>>[Max(by)].owner
    BY DEF r
  <2> HIDE DEF by
  <2> QED
    BY <2>1, <2>2, <2>3
<1>4. "layer" \in Attrs /\ "head" \in Attrs /\ "cpgemm" \in Attrs
  BY DEF Attrs
<1>6. ASSUME NEW cs, NEW n, NEW k \in 1 .. Len(cs), Len(cs) \in 0 .. 3, n \in cs[k].attrs,
             \A i \in 1 .. Len(cs) : i > k => n \notin cs[i].attrs
      PROVE  r(cs, n) = cs[k].owner
  <2> DEFINE by == {i \in 1 .. Len(cs) : n \in cs[i].attrs}
  <2>1. by \subseteq 1 .. 3 /\ k \in by /\ \A i \in by : i <= k
    BY <1>6
  <2>2. Max(by) \in by /\ k <= Max(by)
    BY <2>1, ExtremesOfThree
  <2>3. Max(by) = k
    BY <2>1, <2>2
  <2> QED
    BY <2>1, <2>3 DEF r
<1>7. ASSUME NEW cs, NEW n, \A i \in 1 .. Len(cs) : n \notin cs[i].attrs
      PROVE  r(cs, n) = "golden"
  BY <1>7 DEF r
<1>8. r(<<Emission, Offload>>, "layer") = "offload"
  <2>1. <<Emission, Offload>>[2].owner = "offload" /\ "layer" \in <<Emission, Offload>>[2].attrs
        /\ Len(<<Emission, Offload>>) = 2
    BY DEF Offload
  <2> QED
    BY <2>1, <1>6
<1>9. r(<<Emission, Offload, HeadSeam>>, "layer") = "offload"
  <2>1. <<Emission, Offload, HeadSeam>>[2].owner = "offload" /\ "layer" \in <<Emission, Offload, HeadSeam>>[2].attrs
        /\ Len(<<Emission, Offload, HeadSeam>>) = 3 /\ "layer" \notin <<Emission, Offload, HeadSeam>>[3].attrs
    BY DEF Offload, HeadSeam
  <2> QED
    BY <2>1, <1>6
<1>10. /\ r(<<Emission, Offload, HeadSeam>>, "head") = "lmhead"
       /\ r(<<Emission, Offload, HeadSeam>>, "cpgemm") = "lmhead"
  <2>1. /\ <<Emission, Offload, HeadSeam>>[3].owner = "lmhead" /\ Len(<<Emission, Offload, HeadSeam>>) = 3
        /\ {"head", "cpgemm"} \subseteq <<Emission, Offload, HeadSeam>>[3].attrs
    BY DEF HeadSeam
  <2> QED
    BY <2>1, <1>6
<1>11. r(<<Emission, Offload>>, "cpgemm") = "golden"
  <2>1. \A i \in 1 .. Len(<<Emission, Offload>>) : "cpgemm" \notin <<Emission, Offload>>[i].attrs
    BY DEF Emission, Offload
  <2> QED
    BY <2>1, <1>7
<1>12. /\ r(<<OneHead>>, "layer") = "onehead" /\ r(<<OneHead>>, "cpgemm") = "golden"
       /\ r(<<Offload>>, "layer") = "offload" /\ r(<<Offload>>, "cpgemm") = "golden"
       /\ r(<<BusOnly>>, "layer") = "busonly" /\ r(<<BusOnly>>, "cpgemm") = "golden"
       /\ r(<<Census>>, "layer") = "census" /\ r(<<Census>>, "cpgemm") = "census"
  BY <1>3 DEF OneHead, Offload, BusOnly, Census
<1>13. \A a \in {"on", "control", "poison"} : Contexts(a) = TileContexts
  BY DEF Contexts
<1>14. Contexts("bus") = <<BusOnly>> /\ Contexts("host") = IF Driver = "prompt05b" THEN <<Census>> ELSE << >>
  BY DEF Contexts
<1>15. /\ r(TileContexts, "layer") = IF Driver = "prompt_offload" THEN "onehead" ELSE "offload"
       /\ r(TileContexts, "cpgemm") \in {"golden", "lmhead"}
       /\ Driver = "prompt05b" => r(TileContexts, "head") = "lmhead"
  <2>1. CASE Driver = "prompt_offload"
    <3>1. TileContexts = <<OneHead>>
      BY <2>1 DEF TileContexts
    <3> QED
      BY <2>1, <3>1, <1>12
  <2>2. CASE Driver = "layer_offload"
    <3>1. TileContexts = <<Offload>>
      BY <2>2 DEF TileContexts
    <3> QED
      BY <2>2, <3>1, <1>12
  <2>3. CASE Driver = "layer05b"
    <3>1. TileContexts = <<Emission, Offload>>
      BY <2>3 DEF TileContexts
    <3> QED
      BY <2>3, <3>1, <1>8, <1>11
  <2>4. CASE Driver \notin {"prompt_offload", "layer_offload", "layer05b"}
    <3>1. TileContexts = <<Emission, Offload, HeadSeam>>
      BY <2>4 DEF TileContexts
    <3> QED
      BY <2>4, <3>1, <1>9, <1>10
  <2> QED
    BY <2>1, <2>2, <2>3, <2>4
<1> QED
  BY <1>1, <1>2, <1>4, <1>12, <1>13, <1>14, <1>15
-----------------------------------------------------------------------------
(* MultiRun: what a layer does to the books and to the hidden state.       *)

\* One layer further, and nothing else of the place.
LayerOn ==
  /\ dec'.layer = dec.layer + 1 /\ dec'.step = dec.step /\ dec'.phase = dec.phase /\ dec'.ids = dec.ids
  /\ UNCHANGED <<arm, bound, stack, verdict>>

\* A layer is armed where the trace says so.
LEMMA ArmedIs ==
  ASSUME NEW s, NEW l
  PROVE  l \in args.layers /\ Armed(s) <=> ArmedAt(args, s, l)
BY DEF Armed, ArmedAt, Driver

\* The hidden state a layer leaves behind.
LEMMA HiddenIs ==
  ASSUME NEW composed \in BOOLEAN, NEW recon \in BOOLEAN
  PROVE  /\ \A odd : odd # "no" => HiddenAfter(composed, recon, odd) = odd
         /\ LET h == HiddenAfter(composed, recon, "no")
                cool == dec.hidden \in {"golden", Composition(args)}
            IN  /\ composed /\ recon /\ cool => h = "recon"
                /\ composed /\ ~recon /\ cool => h = Composition(args)
                /\ ~composed \/ ~cool => h = dec.hidden
<1>1. Composed = Composition(args)
  BY DEF Composed, Composition
<1>2. HiddenAfter(composed, recon, "no") =
        IF composed /\ recon /\ dec.hidden \in {"golden", Composed} THEN "recon"
        ELSE IF composed /\ ~recon /\ dec.hidden = "golden" THEN Composed ELSE dec.hidden
  BY DEF HiddenAfter
<1>3. \A odd : odd # "no" => HiddenAfter(composed, recon, odd) = odd
  BY DEF HiddenAfter
<1> QED
  BY <1>1, <1>2, <1>3

\* What a layer of the first arm adds to the books, offloaded or not.
LEMMA BooksGrow ==
  ASSUME NEW d, OnBooks(args, d), NEW e, NEW l, NEW armed \in BOOLEAN, NEW served \in BOOLEAN,
         NEW wrong \in BOOLEAN, armed => l \in args.layers, served => armed, wrong => served,
         e.ran = d.ran \cup IF armed THEN {l} ELSE {},
         e.served = d.served \cup IF served THEN {l} ELSE {},
         e.bad = d.bad \cup IF wrong THEN {l} ELSE {},
         e.hidden \in {d.hidden, Composition(args)} \/ (e.hidden = "recon" /\ args.recon)
           \/ (e.hidden = "wrong" /\ wrong)
  PROVE  OnBooks(args, e)
<1>1. e.ran \subseteq args.layers /\ e.served \subseteq e.ran /\ e.bad \subseteq e.served
  BY DEF OnBooks
<1>2. d.bad \subseteq e.bad /\ (wrong => e.bad # {})
  OBVIOUS
<1>3. Composition(args) \in {"moved", "bus"}
  BY DEF Composition
<1> QED
  BY <1>1, <1>2, <1>3 DEF OnBooks

\* A layer through the offloader, in the first arm.
LEMMA OffloadOn ==
  ASSUME DOMAIN dec = DecFields, arm = "on", OnBooks(args, dec), dec.step \in Nat,
         dec.layer \in 0 .. NLayers - 1, NEW exact, FollowsTrace(args, dec, dec.step, dec.layer, exact),
         NEW fault, fault # "refused", OffloadLayer(fault)
  PROVE  /\ LayerOn /\ UNCHANGED census
         /\ OnBooks(args, dec') /\ FollowsTrace(args, dec', dec.step, dec.layer + 1, exact)
<1> USE DEF DecFields
<1> DEFINE armed == dec.layer \in Offloaded /\ Armed(dec.step)
           served == armed /\ fault # "unstaged"
           recon == served /\ args.recon
           odd == IF fault = "wrong" THEN "wrong" ELSE "no"
           cool == dec.hidden \in {"golden", Composition(args)}
<1>1. armed <=> ArmedAt(args, dec.step, dec.layer)
  BY ArmedIs DEF Offloaded
<1>2. /\ fault # "none" => armed
      /\ dec'.hidden = HiddenAfter(armed, recon, odd)
      /\ dec'.ran = dec.ran \cup IF armed THEN {dec.layer} ELSE {}
      /\ dec'.served = dec.served \cup IF served THEN {dec.layer} ELSE {}
      /\ dec'.bad = dec.bad \cup IF fault = "wrong" THEN {dec.layer} ELSE {}
      /\ LayerOn /\ UNCHANGED census
  BY DEF OffloadLayer, LayerOn
<1> HIDE DEF armed
<1>3. armed \in BOOLEAN /\ served \in BOOLEAN
  BY <1>1 DEF armed
<1>9. recon \in BOOLEAN
  OBVIOUS
<1> HIDE DEF recon
<1>4. /\ fault = "wrong" => dec'.hidden = "wrong"
      /\ fault # "wrong" =>
           /\ armed /\ recon /\ cool => dec'.hidden = "recon"
           /\ armed /\ ~recon /\ cool => dec'.hidden = Composition(args)
           /\ ~armed \/ ~cool => dec'.hidden = dec.hidden
  BY <1>2, <1>3, <1>9, HiddenIs
<1>5. OnBooks(args, dec')
  <2>1. (fault = "wrong") \in BOOLEAN
    OBVIOUS
  <2>2. armed => dec.layer \in args.layers
    BY <1>1 DEF ArmedAt
  <2>3. fault = "wrong" => served
    BY <1>2
  <2>4. recon => args.recon
    BY DEF recon
  <2>5. \/ dec'.hidden \in {dec.hidden, Composition(args)} \/ (dec'.hidden = "recon" /\ args.recon)
        \/ (dec'.hidden = "wrong" /\ fault = "wrong")
    BY <1>4, <2>4
  <2> DEFINE wrong == fault = "wrong"
             e == dec'
  <2>6. /\ e.ran = dec.ran \cup IF armed THEN {dec.layer} ELSE {}
        /\ e.served = dec.served \cup IF served THEN {dec.layer} ELSE {}
        /\ e.bad = dec.bad \cup IF wrong THEN {dec.layer} ELSE {}
        /\ e.hidden \in {dec.hidden, Composition(args)} \/ (e.hidden = "recon" /\ args.recon)
             \/ (e.hidden = "wrong" /\ wrong)
        /\ wrong \in BOOLEAN /\ (wrong => served) /\ (served => armed)
    BY <1>2, <2>1, <2>3, <2>5
  <2> HIDE DEF e, wrong, served
  <2>7. OnBooks(args, e)
    BY <2>2, <2>6, <1>3, BooksGrow
  <2> QED
    BY <2>7 DEF e
<1>6. ASSUME dec'.hidden \in {"golden", Composition(args)}, args.driver # "prompt_offload"
      PROVE  dec'.hidden = Trace(args, dec.step, dec.layer + 1) /\ (exact => TraceIds(args, dec'.ids))
  <2>1. Composition(args) \in {"moved", "bus"}
    BY DEF Composition
  <2>2. fault # "wrong" /\ cool
    BY <1>4, <1>6, <2>1
  <2>3. dec.hidden = Trace(args, dec.step, dec.layer) /\ (exact => TraceIds(args, dec.ids))
    BY <1>6, <2>2 DEF FollowsTrace
  <2>4. dec'.hidden = IF armed THEN Composition(args) ELSE dec.hidden
    BY <1>4, <1>6, <2>1, <2>2
  <2>5. Trace(args, dec.step, dec.layer + 1) =
          IF ArmedAt(args, dec.step, dec.layer) THEN Composition(args) ELSE Trace(args, dec.step, dec.layer)
    BY TraceNext
  <2> QED
    BY <2>3, <2>4, <2>5, <1>1, <1>2 DEF LayerOn
<1> QED
  BY <1>2, <1>5, <1>6 DEF FollowsTrace

\* A layer through the one-head offloader, in the first arm.
LEMMA OneHeadOn ==
  ASSUME DOMAIN dec = DecFields, arm = "on", OnBooks(args, dec), Driver = "prompt_offload",
         NEW fault, fault # "refused", OffloadHead(fault)
  PROVE  LayerOn /\ UNCHANGED census /\ OnBooks(args, dec')
<1> USE DEF DecFields
<1> DEFINE armed == dec.layer \in args.layers /\ Armed(dec.step)
           odd == IF fault = "wrong" THEN "wrong" ELSE "no"
           wrong == fault = "wrong"
           e == dec'
<1>1. /\ fault # "none" => armed
      /\ e.hidden = HiddenAfter(FALSE, FALSE, odd)
      /\ e.ran = dec.ran \cup IF armed THEN {dec.layer} ELSE {}
      /\ e.served = dec.served \cup IF armed THEN {dec.layer} ELSE {}
      /\ e.bad = dec.bad \cup IF wrong THEN {dec.layer} ELSE {}
      /\ LayerOn /\ UNCHANGED census
  BY DEF OffloadHead, LayerOn
<1>2. armed \in BOOLEAN /\ wrong \in BOOLEAN /\ (wrong => armed) /\ (armed => dec.layer \in args.layers)
  BY <1>1, ArmedIs
<1>3. e.hidden = IF wrong THEN "wrong" ELSE dec.hidden
  <2>1. FALSE \in BOOLEAN
    OBVIOUS
  <2> QED
    BY <2>1, <1>1, HiddenIs
<1> HIDE DEF armed, wrong, e
<1>4. OnBooks(args, e)
  BY <1>1, <1>2, <1>3, BooksGrow
<1> QED
  BY <1>1, <1>4 DEF e

\* A layer of the bus arm.
LEMMA BusOn ==
  ASSUME DOMAIN dec = DecFields, dec.step \in Nat, dec.layer \in 0 .. NLayers - 1,
         dec.hidden = Trace(args, dec.step, dec.layer), BusLayer
  PROVE  /\ LayerOn /\ UNCHANGED census
         /\ dec'.hidden = Trace(args, dec.step, dec.layer + 1)
<1> USE DEF DecFields
<1> DEFINE fires == dec.layer \in args.layers /\ Armed(dec.step)
<1>1. /\ dec'.hidden = HiddenAfter(fires, FALSE, "no")
      /\ LayerOn /\ UNCHANGED census
  BY DEF BusLayer, LayerOn
<1>2. fires <=> ArmedAt(args, dec.step, dec.layer)
  BY ArmedIs
<1>3. fires \in BOOLEAN
  BY <1>2
<1> HIDE DEF fires
<1>4. dec.hidden \in {"golden", Composition(args)}
  BY DEF Trace
<1>5. dec'.hidden = IF fires THEN Composition(args) ELSE dec.hidden
  BY <1>1, <1>3, <1>4, HiddenIs
<1>6. Trace(args, dec.step, dec.layer + 1) =
        IF ArmedAt(args, dec.step, dec.layer) THEN Composition(args) ELSE Trace(args, dec.step, dec.layer)
  BY TraceNext
<1> QED
  BY <1>1, <1>2, <1>5, <1>6
-----------------------------------------------------------------------------
(* MultiRun: the steps within an arm keep the invariant.                   *)

\* What a finished arm gave does not change in a later one.
LEMMA DoneStays ==
  ASSUME NEW g, NEW A, A \subseteq {"on", "host", "bus"}, NEW o, NEW p, NEW c, NEW d, Done(A, g, o, c),
         \A a \in A : p[a] = o[a], c = d \/ "host" \notin A
  PROVE  Done(A, g, p, d)
BY DEF Done, Fin

\* The arms over before one are of those the verdict is read from.
LEMMA BeforeIs ==
  ASSUME NEW g, NEW a \in ArmNames
  PROVE  /\ Before(g, a) \subseteq {"on", "host", "bus"} /\ a \notin Before(g, a)
         /\ a = "host" => "host" \notin Before(g, a)
BY DEF Before, Graded, ArmNames

\* A step within an arm.
LEMMA WithinPass ==
  ASSUME PassInv, MultiInv', Decoding, UNCHANGED <<mode, args, arm, verdict>>,
         \A a \in ArmNames \ {arm} : out'[a] = out[a],
         census' = census \/ arm = "host",
         OnHead(args, mode, On.head)', Place(args, dec'), Course(args, arm, dec', On.head.exact'),
         arm = "on" => HeadOwn(args, dec', head', mode)
  PROVE  PassInv'
<1>1. arm \in ArmNames /\ arm \in OpenArms /\ arm \notin {"between", "report", "end"}
  BY DEF Decoding, OpenArms, ArmNames
<1>2. verdict \notin {"pass", "fail"}
  BY <1>1 DEF PassInv, Order
<1>3. Done(Before(args, arm), args, out, census)
  BY <1>1 DEF PassInv, Order
<1>4. Done(Before(args, arm), args, out', census')
  <2>1. Before(args, arm) \subseteq {"on", "host", "bus"} /\ arm \notin Before(args, arm)
    BY <1>1, BeforeIs
  <2>2. \A a \in Before(args, arm) : out'[a] = out[a]
    BY <2>1 DEF ArmNames
  <2>3. census = census' \/ "host" \notin Before(args, arm)
    BY <1>1, BeforeIs
  <2> QED
    BY <2>1, <2>2, <2>3, <1>3, DoneStays
<1>5. Order(args, arm, dec.phase, verdict, out, census)'
  BY <1>1, <1>2, <1>4 DEF Order
<1>6. Asked(args, arm, verdict)'
  BY DEF PassInv, Asked
<1> QED
  BY <1>2, <1>5, <1>6 DEF PassInv

\* A run that ends without a verdict.
LEMMA EndsPass ==
  ASSUME PassInv, MultiInv', UNCHANGED <<mode, args>>, arm' = "end", verdict' \notin {"pass", "fail"},
         On.head' = On.head
  PROVE  PassInv'
<1>1. ~Decoding' /\ arm' \notin OpenArms /\ arm' # "on"
  BY DEF Decoding, OpenArms, ArmNames
<1>2. Asked(args, arm, verdict)'
  BY DEF PassInv, Asked
<1>3. OnHead(args, mode, On.head)'
  BY DEF PassInv
<1>4. Order(args, arm, dec.phase, verdict, out, census)'
  BY <1>1 DEF Order
<1> QED
  BY <1>1, <1>2, <1>3, <1>4 DEF PassInv

\* A layer within an arm.
LEMMA LayerStays ==
  ASSUME PassInv, Layer
  PROVE  (Refuse /\ dec' = dec) \/ LayerOn
<1> USE DEF DecFields
<1>1. DOMAIN dec = DecFields
  BY DEF PassInv, MultiInv, ArmInv
<1>2. ASSUME NEW fault, OffloadLayer(fault)
      PROVE  (Refuse /\ dec' = dec) \/ LayerOn
  <2>1. CASE fault = "refused"
    BY <1>2, <2>1 DEF OffloadLayer
  <2>2. CASE fault # "refused"
    <3>1. LayerOn
      BY <1>1, <1>2, <2>2 DEF OffloadLayer, LayerOn
    <3> QED
      BY <3>1
  <2> QED
    BY <2>1, <2>2
<1>3. ASSUME NEW fault, OffloadHead(fault)
      PROVE  (Refuse /\ dec' = dec) \/ LayerOn
  <2>1. CASE fault = "refused"
    BY <1>3, <2>1 DEF OffloadHead
  <2>2. CASE fault # "refused"
    <3>1. LayerOn
      BY <1>1, <1>3, <2>2 DEF OffloadHead, LayerOn
    <3> QED
      BY <3>1
  <2> QED
    BY <2>1, <2>2
<1>4. CensusLayer => LayerOn
  BY <1>1 DEF CensusLayer, LayerOn
<1>5. BusLayer => LayerOn
  BY <1>1 DEF BusLayer, LayerOn
<1>6. dec' = [dec EXCEPT !.layer = @ + 1] /\ UNCHANGED <<census, arm, bound, stack, verdict>> => LayerOn
  BY <1>1 DEF LayerOn
<1> QED
  BY <1>2, <1>3, <1>4, <1>5, <1>6 DEF Layer

\* A layer of any arm.
LEMMA LayerPass ==
  ASSUME PassInv, Layer, MultiInv'
  PROVE  PassInv'
<1> USE DEF DecFields
<1>1. /\ UNCHANGED <<mode, args, head, out>> /\ Decoding /\ dec.phase = "layers" /\ DOMAIN dec = DecFields
      /\ Place(args, dec) /\ Course(args, arm, dec, On.head.exact) /\ arm \in ArmNames
      /\ dec.step \in Nat /\ dec.layer \in 0 .. NLayers - 1
  <2>1. Place(args, dec) /\ Decoding /\ dec.layer < NLayers
    BY DEF Layer, PassInv
  <2>2. NLayers \in Nat
    BY MultiRunAssumption
  <2>3. dec.layer \in 0 .. NLayers - 1
    BY <2>1, <2>2 DEF Place
  <2> QED
    BY <2>1, <2>3 DEF Layer, PassInv, MultiInv, ArmInv, Place, Decoding
<1>2. On' = On
  BY <1>1 DEF On
<1>3. CASE Refuse
  BY <1>1, <1>2, <1>3, EndsPass DEF Refuse
<1>4. CASE LayerOn /\ ~Refuse
  <2>1. arm \in OpenArms /\ bound = Rebound(Pure, Contexts(arm), Len(Contexts(arm)))
    BY <1>1 DEF OpenArms, PassInv, MultiInv, ArmInv
  <2>2. Place(args, dec')
    <3>1. NLayers \in Nat
      BY MultiRunAssumption
    <3>2. dec'.layer \in 0 .. NLayers
      BY <1>1, <1>4, <3>1 DEF LayerOn
    <3> QED
      BY <1>1, <1>4, <3>2 DEF Place, LayerOn
  <2>3. CASE arm = "on"
    <3>1. OnBooks(args, dec) /\ FollowsTrace(args, dec, dec.step, dec.layer, On.head.exact)
      BY <1>1, <2>3 DEF Course
    <3>2. bound.layer = IF Driver = "prompt_offload" THEN "onehead" ELSE "offload"
      BY <2>1, <2>3, LayersThrough
    <3>3. /\ UNCHANGED census /\ OnBooks(args, dec')
          /\ FollowsTrace(args, dec', dec.step, dec.layer + 1, On.head.exact)
      <4>1. CASE Driver = "prompt_offload"
        <5>1. PICK fault : OffloadHead(fault)
          BY <3>2, <4>1 DEF Layer
        <5>2. fault # "refused"
          BY <5>1, <1>4 DEF OffloadHead
        <5>3. UNCHANGED census /\ OnBooks(args, dec')
          BY <1>1, <2>3, <3>1, <4>1, <5>1, <5>2, OneHeadOn
        <5> QED
          BY <5>3, <4>1 DEF FollowsTrace, Driver
      <4>2. CASE Driver # "prompt_offload"
        <5>1. PICK fault : OffloadLayer(fault)
          BY <3>2, <4>2 DEF Layer
        <5>2. fault # "refused"
          BY <5>1, <1>4 DEF OffloadLayer
        <5> DEFINE x == On.head.exact
        <5>3. FollowsTrace(args, dec, dec.step, dec.layer, x)
          BY <3>1
        <5>4. UNCHANGED census /\ OnBooks(args, dec') /\ FollowsTrace(args, dec', dec.step, dec.layer + 1, x)
          <6> HIDE DEF x
          <6> QED
            BY <1>1, <2>3, <3>1, <5>1, <5>2, <5>3, OffloadOn
        <5> QED
          BY <5>4
      <4> QED
        BY <4>1, <4>2
    <3>4. Course(args, arm, dec', On.head.exact')
      BY <2>3, <3>3, <1>2, <1>4 DEF Course, LayerOn
    <3>5. HeadOwn(args, dec', head', mode)
      <4>1. HeadOwn(args, dec, head, mode) /\ head' = head
        BY <2>3, <1>1 DEF PassInv
      <4> QED
        BY <4>1, <1>1, <1>4 DEF HeadOwn, LayerOn
    <3> QED
      BY <1>1, <1>2, <1>4, <2>2, <3>3, <3>4, <3>5, WithinPass DEF LayerOn, PassInv
  <2>4. CASE arm = "bus"
    <3>1. BusLayer
      <4>1. bound.layer = "busonly"
        BY <2>1, <2>4, LayersThrough
      <4> QED
        BY <4>1 DEF Layer
    <3>2. dec.hidden = Trace(args, dec.step, dec.layer) /\ TraceIds(args, dec.ids)
      BY <1>1, <2>4 DEF Course
    <3>3. UNCHANGED census /\ dec'.hidden = Trace(args, dec.step, dec.layer + 1)
      BY <1>1, <3>1, <3>2, BusOn
    <3>4. Course(args, arm, dec', On.head.exact')
      BY <2>4, <3>2, <3>3, <1>4 DEF Course, LayerOn
    <3> QED
      BY <1>1, <1>2, <1>4, <2>2, <2>4, <3>3, <3>4, WithinPass DEF LayerOn, PassInv
  <2>5. CASE arm \notin {"on", "bus"}
    <3>1. Course(args, arm, dec', On.head.exact')
      BY <2>5, <1>1, <1>4 DEF Course, LayerOn
    <3>2. census' = census \/ arm = "host"
      <4>1. arm # "host" => bound.layer # "census"
        BY <1>1, <2>1, <2>5, LayersThrough DEF ArmNames
      <4>2. bound.layer # "census" => census' = census
        BY DEF Layer, OffloadLayer, OffloadHead, BusLayer
      <4> QED
        BY <4>1, <4>2
    <3> QED
      BY <1>1, <1>2, <1>4, <2>2, <2>5, <3>1, <3>2, WithinPass DEF LayerOn, PassInv
  <2> QED
    BY <2>3, <2>4, <2>5
<1> QED
  BY <1>3, <1>4, LayerStays

\* The fields the bill is made of.
Bill == {"invocations", "reclaimed", "servedRows", "files", "evidence"}

\* A bill is good whatever else the offloader does.
LEMMA SameBill ==
  ASSUME NEW md, NEW h, CostGood(md, h), NEW r, \A f \in Bill : r[f] = h[f]
  PROVE  CostGood(md, r)
BY DEF Bill, CostGood

\* A GEMM of the head leaves the offer as it is.
LEMMA GemmArms ==
  ASSUME NEW h, NEW s \in Nat, s < Vocab, NEW acc, NEW md, NEW keepJobs, NEW one, HeadInv(h, s, acc, one),
         NEW wrong, NEW k, NEW r, r = GemmCall(h, md, acc, s, wrong, k, keepJobs)
  PROVE  r.armed = h.armed
<1>1. DOMAIN h = HeadFields /\ h.rows \in Nat /\ h.pass \in 0 .. 3
  BY DEF HeadInv
<1>2. CASE ~h.serve
  <2>1. r = [h EXCEPT !.gold = Overlay(h.gold, [v \in s .. s + Height(s) - 1 |-> acc[v]])]
    BY <1>2, <1>1 DEF GemmCall, HeadFields
  <2> QED
    BY <2>1, <1>1 DEF HeadFields
<1>3. CASE h.serve
  <2>1. h.pass \in {2, 3} /\ h.cursor = s /\ h.thisPass = Smaller(h.rows, s)
    BY <1>1, <1>3 DEF HeadInv
  <2>2. r = Serve(h, md, acc, s, wrong, k, keepJobs)
    BY <1>3 DEF GemmCall
  <2>3. CASE h.rows <= s
    <3>1. Budget(h, Height(s)) = 0
      BY <2>1, <2>3, <1>1, BudgetIs
    <3>2. h.thisPass \in Int
      BY <2>1, <1>1 DEF Smaller
    <3>3. \A f \in HeadFields \ {"cursor", "calls", "thisPass", "tile", "poisoned"} : r[f] = h[f]
      BY <2>1, <2>2, <3>1, <3>2, <1>1, ServeOutside
    <3> QED
      BY <3>3 DEF HeadFields
  <2>4. CASE h.rows > s
    <3> DEFINE n == Budget(h, Height(s))
    <3>1. n = Smaller(Height(s), h.rows - s)
      BY <2>1, <2>4, <1>1, BudgetIs
    <3>2. n \in Nat \ {0}
      BY <3>1, <2>4, <1>1, HeightBounds DEF Smaller
    <3>4. n = Budget(h, Height(s)) /\ h.cursor = s /\ DOMAIN h = HeadFields
      BY <2>1, <1>1
    <3> HIDE DEF n
    <3>3. /\ ServedBooks(h, r, s, n, MemoHit(h, s, n), ~MemoHit(h, s, n) /\ md # "golden", keepJobs)
          /\ ServedValues(h, r, s, n, MemoHit(h, s, n), acc, k)
      BY <2>2, <3>2, <3>4, ServeInside
    <3> QED
      BY <3>3 DEF ServedBooks
  <2> QED
    BY <2>3, <2>4, <1>1
<1> QED
  BY <1>2, <1>3

\* What a decode in an arm may be taken to be.
LEMMA InArm ==
  ASSUME PassInv, Decoding
  PROVE  /\ arm \in ArmNames /\ arm \in OpenArms /\ DOMAIN dec = DecFields
         /\ bound = Rebound(Pure, Contexts(arm), Len(Contexts(arm)))
         /\ Place(args, dec) /\ Course(args, arm, dec, On.head.exact)
         /\ HeadInv(head, dec.slice, HeadAcc(dec.hidden), Tile /\ ~args.keep) /\ DOMAIN head = HeadFields
         /\ arm = "on" => HeadOwn(args, dec, head, mode)
         /\ arm \in {"host", "bus"} => head.pass = 0
<1>1. /\ arm \in ArmNames /\ arm \in OpenArms /\ DOMAIN dec = DecFields
      /\ bound = Rebound(Pure, Contexts(arm), Len(Contexts(arm)))
  BY DEF PassInv, MultiInv, ArmInv, Decoding, OpenArms
<1>2. /\ HeadInv(head, dec.slice, HeadAcc(dec.hidden), Tile /\ ~args.keep) /\ DOMAIN head = HeadFields
      /\ head.pass > 0 => bound.cpgemm = "lmhead"
      /\ head.pass \in 0 .. 3
  BY DEF PassInv, MultiInv, DecodeInv, HeadInv
<1>3. arm \in {"host", "bus"} => bound.cpgemm # "lmhead"
  BY <1>1, LayersThrough
<1>4. arm \in {"host", "bus"} => head.pass = 0
  BY <1>2, <1>3
<1> QED
  BY <1>1, <1>2, <1>4 DEF PassInv

\* The end of a step.
LEMMA StepDonePass ==
  ASSUME PassInv, StepDone, MultiInv'
  PROVE  PassInv'
<1> USE DEF DecFields
<1> DEFINE prefill == dec.step < PromptLen - 1
<1>1. /\ UNCHANGED <<mode, args, arm, verdict, out, census>> /\ Decoding
      /\ dec.phase = "layers" /\ dec.layer = NLayers
      /\ dec' = IF prefill THEN [dec EXCEPT !.step = @ + 1, !.layer = 0]
                ELSE [dec EXCEPT !.phase = "head", !.slice = 0, !.pass = 1]
  BY DEF StepDone
<1>2. /\ arm \in ArmNames /\ DOMAIN dec = DecFields /\ Place(args, dec)
      /\ Course(args, arm, dec, On.head.exact) /\ DOMAIN head = HeadFields
      /\ arm = "on" => HeadOwn(args, dec, head, mode)
      /\ bound = Rebound(Pure, Contexts(arm), Len(Contexts(arm)))
  BY <1>1, InArm
<1>3. PromptLen \in Nat \ {0} /\ NLayers \in Nat \ {0}
  BY MultiRunAssumption
<1>4. On' = On
  BY <1>1 DEF On
<1>5. Len(dec.ids) \in Nat
  BY <1>2 DEF Place
<1>6. /\ dec'.ids = dec.ids /\ dec'.hidden = dec.hidden /\ dec'.ran = dec.ran /\ dec'.served = dec.served
      /\ dec'.bad = dec.bad
      /\ prefill => dec'.phase = "layers" /\ dec'.step = dec.step + 1 /\ dec'.layer = 0
      /\ ~prefill => dec'.phase = "head" /\ dec'.step = dec.step /\ dec'.layer = NLayers
  BY <1>1, <1>2
<1>7. Place(args, dec')
  <2>1. prefill => Len(dec.ids) = 0
    BY <1>1, <1>2, <1>3, <1>5 DEF Place
  <2>2. CASE prefill
    BY <1>1, <1>2, <1>3, <1>5, <1>6, <2>1, <2>2 DEF Place
  <2>3. CASE ~prefill
    <3>1. dec.step = StepOf(Len(dec.ids) + 1)
      BY <1>1, <1>2, <1>3, <1>5, <2>3 DEF Place, StepOf
    <3> QED
      BY <1>1, <1>2, <1>3, <1>5, <1>6, <2>3, <3>1 DEF Place
  <2> QED
    BY <2>2, <2>3
<1>8. Trace(args, dec'.step, dec'.layer) = Trace(args, dec.step, dec.layer)
  <2>1. dec.step \in Nat
    BY <1>2 DEF Place
  <2> QED
    BY <2>1, <1>1, <1>6, TraceTurn
<1>9. Course(args, arm, dec', On.head.exact')
  BY <1>2, <1>4, <1>6, <1>8 DEF Course, OnBooks, FollowsTrace
<1>10. ASSUME arm = "on"
       PROVE  HeadOwn(args, dec', head', mode)
  <2>1. HeadOwn(args, dec, head, mode)
    BY <1>2, <1>10
  <2>2. CASE ~prefill /\ bound.head = "lmhead" /\ head.armed
    <3> DEFINE h == [head EXCEPT !.armed = FALSE]
    <3>1. DOMAIN h = HeadFields /\ h.armed = FALSE /\ \A f \in HeadFields \ {"armed"} : h[f] = head[f]
      BY <1>2 DEF HeadFields
    <3>2. head' = BeginPass(h, 1, -1)
      BY <2>2 DEF StepDone
    <3> HIDE DEF h
    <3>3. /\ head'.pass = 1
          /\ \A f \in HeadFields \ {"pass", "serve", "recording", "poisonRow", "cursor", "thisPass"} :
               head'[f] = h[f]
      BY <3>1, <3>2, BeginPassIs
    <3>4. head'.armed = FALSE /\ \A f \in Bill : head'[f] = head[f]
      BY <3>1, <3>3 DEF Bill, HeadFields
    <3>5. CostGood(mode, head')
      BY <3>4, <2>1, SameBill DEF HeadOwn
    <3>6. Len(dec.ids) = 0 /\ args.driver = "prompt05b"
      BY <2>1, <2>2 DEF HeadOwn
    <3> QED
      BY <3>4, <3>5, <3>6, <1>6 DEF HeadOwn
  <2>3. CASE ~(~prefill /\ bound.head = "lmhead" /\ head.armed)
    <3>1. head' = [head EXCEPT !.serve = FALSE]
      BY <2>3 DEF StepDone
    <3>2. head'.armed = head.armed /\ head'.pass = head.pass /\ \A f \in Bill : head'[f] = head[f]
      BY <3>1, <1>2 DEF Bill, HeadFields
    <3>3. CostGood(mode, head')
      BY <3>2, <2>1, SameBill DEF HeadOwn
    <3>4. ~prefill => ~head.armed
      <4>1. ASSUME ~prefill, head.armed
            PROVE  FALSE
        <5>1. Driver = "prompt05b"
          BY <4>1, <2>1 DEF HeadOwn, Driver
        <5>2. bound.head = "lmhead"
          BY <5>1, <1>2, <1>10, LayersThrough
        <5> QED
          BY <4>1, <5>2, <2>3
      <4> QED
        BY <4>1
    <3> QED
      BY <2>1, <3>2, <3>3, <3>4, <1>6 DEF HeadOwn
  <2> QED
    BY <2>2, <2>3
<1>11. OnHead(args, mode, On.head)'
  BY <1>1, <1>4 DEF PassInv
<1> QED
  BY <1>1, <1>4, <1>7, <1>9, <1>10, <1>11, WithinPass

\* One slice of the head.
LEMMA HeadGemmPass ==
  ASSUME PassInv, HeadGemm, MultiInv'
  PROVE  PassInv'
<1> USE DEF DecFields
<1>1. UNCHANGED <<mode, args, out>> /\ Decoding /\ dec.phase = "head" /\ dec.slice < Vocab
  BY DEF HeadGemm
<1>2. /\ arm \in ArmNames /\ DOMAIN dec = DecFields /\ Place(args, dec)
      /\ Course(args, arm, dec, On.head.exact)
      /\ arm = "on" => HeadOwn(args, dec, head, mode)
      /\ bound = Rebound(Pure, Contexts(arm), Len(Contexts(arm)))
      /\ HeadInv(head, dec.slice, HeadAcc(dec.hidden), Tile /\ ~args.keep)
  BY <1>1, InArm
<1>3. On' = On
  BY <1>1 DEF On
<1>4. CASE head'.refused
  <2>1. Refuse
    BY <1>4 DEF HeadGemm
  <2> QED
    BY <2>1, <1>1, <1>3, EndsPass DEF Refuse
<1>5. CASE ~head'.refused
  <2>1. UNCHANGED <<arm, bound, stack, verdict>> /\ dec' = [dec EXCEPT !.slice = @ + Height(@)]
    BY <1>5 DEF HeadGemm
  <2>2. \A f \in DecFields \ {"slice"} : dec'[f] = dec[f]
    BY <2>1, <1>2
  <2>3. Place(args, dec')
    BY <2>2, <1>2 DEF Place
  <2>4. Course(args, arm, dec', On.head.exact')
    BY <2>2, <1>2, <1>3 DEF Course, OnBooks, FollowsTrace
  <2>5. census' = census \/ arm = "host"
    <3>1. arm # "host" => bound.cpgemm # "census"
      BY <1>2, LayersThrough DEF ArmNames
    <3> QED
      BY <3>1 DEF HeadGemm
  <2>6. ASSUME arm = "on"
        PROVE  HeadOwn(args, dec', head', mode)
    <3> DEFINE s == dec.slice
               acc == HeadAcc(dec.hidden)
               one == mode # "golden" /\ ~args.keep
    <3>1. HeadOwn(args, dec, head, mode)
      BY <2>6, <1>2
    <3>2. PICK wrong : head' = IF bound.cpgemm = "lmhead"
                               THEN GemmCall(head, mode, acc, s, wrong, args.scale, args.keep) ELSE head
      BY DEF HeadGemm
    <3>3. s \in Nat /\ s < Vocab /\ Start(s)
      BY <1>1 DEF PassInv, MultiInv, DecodeInv
    <3>4. HeadInv(head, s, acc, one)
      BY <1>2 DEF Tile
    <3>5. head'.pass = head.pass /\ head'.armed = head.armed /\ CostGood(mode, head')
      <4>1. CASE bound.cpgemm = "lmhead"
        <5>1. head' = GemmCall(head, mode, acc, s, wrong, args.scale, args.keep)
          BY <3>2, <4>1
        <5>2. CostGood(mode, head)
          BY <3>1 DEF HeadOwn
        <5> HIDE DEF s, acc
        <5>3. head'.pass = head.pass
          BY <5>1, <3>3, <3>4, GemmKeeps
        <5> HIDE DEF one
        <5>4. head'.armed = head.armed
          BY <5>1, <3>3, <3>4, GemmArms
        <5>5. CostGood(mode, head')
          BY <5>1, <5>2, <3>3, <3>4, GemmCost
        <5> QED
          BY <5>3, <5>4, <5>5
      <4>2. CASE bound.cpgemm # "lmhead"
        BY <3>1, <3>2, <4>2 DEF HeadOwn
      <4> QED
        BY <4>1, <4>2
    <3> QED
      BY <3>1, <3>5, <2>2 DEF HeadOwn
  <2>7. OnHead(args, mode, On.head)'
    BY <1>1, <1>3 DEF PassInv
  <2> QED
    BY <1>1, <1>3, <2>1, <2>3, <2>4, <2>5, <2>6, <2>7, WithinPass
<1> QED
  BY <1>4, <1>5

\* The next pass over a head.
LEMMA NextPassPass ==
  ASSUME PassInv, NextPass, MultiInv'
  PROVE  PassInv'
<1> USE DEF DecFields
<1>1. /\ UNCHANGED <<mode, args, arm, verdict, out, census>> /\ Decoding /\ head.pass > 0
      /\ head' = BeginPass(head, head.pass + 1, IF head.pass = 2 THEN PoisonRow(head) ELSE -1)
      /\ dec' = [dec EXCEPT !.slice = 0]
  BY DEF NextPass
<1>2. /\ DOMAIN dec = DecFields /\ Place(args, dec)
      /\ Course(args, arm, dec, On.head.exact) /\ DOMAIN head = HeadFields
      /\ arm = "on" => HeadOwn(args, dec, head, mode)
  BY <1>1, InArm
<1>3. On' = On
  BY <1>1 DEF On
<1>4. \A f \in DecFields \ {"slice"} : dec'[f] = dec[f]
  BY <1>1, <1>2
<1>5. Place(args, dec')
  BY <1>2, <1>4 DEF Place
<1>6. Course(args, arm, dec', On.head.exact')
  BY <1>2, <1>3, <1>4 DEF Course, OnBooks, FollowsTrace
<1>7. ASSUME arm = "on"
      PROVE  HeadOwn(args, dec', head', mode)
  <2>1. HeadOwn(args, dec, head, mode)
    BY <1>2, <1>7
  <2>2. \A f \in HeadFields \ {"pass", "serve", "recording", "poisonRow", "cursor", "thisPass"} :
          head'[f] = head[f]
    BY <1>1, <1>2, BeginPassIs
  <2>3. head'.armed = head.armed /\ \A f \in Bill : head'[f] = head[f]
    BY <2>2 DEF Bill, HeadFields
  <2>4. CostGood(mode, head')
    BY <2>1, <2>3, SameBill DEF HeadOwn
  <2> QED
    BY <2>1, <2>3, <2>4, <1>1, <1>4 DEF HeadOwn
<1>8. OnHead(args, mode, On.head)'
  BY <1>1, <1>3 DEF PassInv
<1> QED
  BY <1>1, <1>3, <1>5, <1>6, <1>7, <1>8, WithinPass

\* One token more.
LEMMA OneTokenMore ==
  ASSUME NEW S, NEW p \in Seq(S), NEW x
  PROVE  LET q == Append(p, x)
         IN  /\ q \in Seq(S \cup {x}) /\ Len(q) = Len(p) + 1 /\ Len(p) \in Nat
             /\ \A i \in 1 .. Len(p) : q[i] = p[i]
             /\ q[Len(p) + 1] = x
<1>1. p \in Seq(S \cup {x}) /\ Len(p) \in Nat
  OBVIOUS
<1> QED
  BY <1>1

\* Where a decode goes when its head has given a token: the end, or a step more.
AfterToken(g, d, e, id) ==
  IF id = Eos \/ Len(d.ids) + 1 = g.tokens
  THEN e.phase = "over" /\ e.step = d.step /\ e.layer = d.layer
  ELSE e.phase = "layers" /\ e.step = d.step + 1 /\ e.layer = 0

\* The token a head gives is that of golden's logits, if the offered head's
\* tile values were golden's.
LEMMA TokenIs ==
  ASSUME PassInv, Token
  PROVE  \E id :
           /\ head.pass = 0 \/ head.exact => id = Word(dec.hidden)
           /\ dec'.ids = Append(dec.ids, id) /\ dec'.hidden = dec.hidden
           /\ dec'.ran = dec.ran /\ dec'.served = dec.served /\ dec'.bad = dec.bad
           /\ AfterToken(args, dec, dec', id)
<1> USE DEF DecFields
<1> DEFINE golden == [v \in Rows |-> HeadAcc(dec.hidden)[v]]
           logits == IF head.pass > 1 THEN head.tile ELSE golden
           id == ArgMax(logits, Rows)
<1>1. Decoding /\ dec.phase = "head" /\ dec.slice >= Vocab /\ DOMAIN dec = DecFields
  BY DEF Token, PassInv, MultiInv, ArmInv
<1>2. dec' = IF id = Eos \/ Len(dec.ids) + 1 = args.tokens
             THEN [dec EXCEPT !.ids = Append(@, id), !.phase = "over"]
             ELSE [dec EXCEPT !.ids = Append(@, id), !.phase = "layers", !.step = @ + 1, !.layer = 0]
  BY DEF Token
<1>3. id = Word(dec.hidden) \/ (head.pass > 1 /\ ~head.exact)
  <2>1. CASE ~(head.pass > 1)
    BY <2>1 DEF Word
  <2>2. CASE head.pass > 1 /\ head.exact
    <3>1. dec.slice = Vocab /\ HeadInv(head, dec.slice, HeadAcc(dec.hidden), Tile /\ ~args.keep)
      BY <1>1, LmHeadAssumption DEF PassInv, MultiInv, DecodeInv
    <3> DEFINE acc == HeadAcc(dec.hidden)
               one == Tile /\ ~args.keep
    <3>2. HeadInv(head, Vocab, acc, one)
      BY <3>1
    <3> HIDE DEF acc, one
    <3>3. head.pass \in {2, 3} /\ LogitsAreRows(head)
      BY <3>2, <2>2 DEF HeadInv
    <3>4. Tiled(head, Vocab, acc, one)
      BY <3>2, <3>3 DEF HeadInv
    <3>5. \A v \in Rows : head.tile[v] = acc[v]
      BY <3>4, <2>2, LmHeadAssumption DEF Tiled, Rows
    <3>6. head.tile = [v \in Rows |-> acc[v]]
      BY <3>3, <3>5 DEF LogitsAreRows
    <3>7. logits = golden
      BY <2>2, <3>6 DEF acc
    <3> QED
      BY <3>7 DEF Word
  <2>3. CASE head.pass > 1 /\ ~head.exact
    BY <2>3
  <2> QED
    BY <2>1, <2>2, <2>3
<1>4. head.pass = 0 => ~(head.pass > 1)
  OBVIOUS
<1> HIDE DEF id, golden, logits
<1>5. /\ dec'.ids = Append(dec.ids, id) /\ dec'.hidden = dec.hidden
      /\ dec'.ran = dec.ran /\ dec'.served = dec.served /\ dec'.bad = dec.bad
      /\ AfterToken(args, dec, dec', id)
  BY <1>1, <1>2 DEF AfterToken
<1>6. head.pass = 0 \/ head.exact => id = Word(dec.hidden)
  BY <1>3, <1>4
<1> QED
  BY <1>5, <1>6

\* What a token adds to the place of a decode.
LEMMA PlaceOfToken ==
  ASSUME NEW g, NEW d, Place(g, d), d.phase = "head", NEW e, NEW id, e.ids = Append(d.ids, id),
         AfterToken(g, d, e, id)
  PROVE  /\ Place(g, e) /\ Len(d.ids) \in Nat /\ Len(e.ids) = Len(d.ids) + 1
         /\ \A i \in 1 .. Len(d.ids) : e.ids[i] = d.ids[i]
         /\ e.ids[Len(d.ids) + 1] = id
         /\ d.step = StepOf(Len(d.ids) + 1)
         /\ Trace(g, e.step, e.layer) = Trace(g, d.step, d.layer)
<1>1. PromptLen \in Nat \ {0} /\ NLayers \in Nat \ {0}
  BY MultiRunAssumption
<1>2. /\ d.step \in Nat /\ d.layer = NLayers /\ d.step = StepOf(Len(d.ids) + 1)
      /\ GoesOn(g, d.ids, Len(d.ids))
  BY DEF Place
<1>3. PICK S : d.ids \in Seq(S)
  BY DEF Place
<1>4. /\ e.ids \in Seq(S \cup {id}) /\ Len(e.ids) = Len(d.ids) + 1 /\ Len(d.ids) \in Nat
      /\ \A i \in 1 .. Len(d.ids) : e.ids[i] = d.ids[i]
      /\ e.ids[Len(d.ids) + 1] = id
  BY <1>3, OneTokenMore
<1>5. GoesOn(g, e.ids, Len(d.ids))
  BY <1>2, <1>4 DEF GoesOn
<1>6. CASE id = Eos \/ Len(d.ids) + 1 = g.tokens
  <2>1. e.phase = "over" /\ e.step = d.step /\ e.layer = d.layer
    BY <1>6 DEF AfterToken
  <2>2. Len(e.ids) - 1 = Len(d.ids) /\ Len(e.ids) > 0
    BY <1>4
  <2>3. e.ids[Len(e.ids)] = Eos \/ Len(e.ids) = g.tokens
    BY <1>4, <1>6
  <2>4. GoesOn(g, e.ids, Len(e.ids) - 1)
    BY <1>5, <2>2
  <2>5. Whole(g, e.ids)
    BY <1>4, <2>2, <2>3, <2>4 DEF Whole
  <2>6. Place(g, e)
    BY <1>1, <1>2, <1>4, <2>1, <2>5 DEF Place
  <2> QED
    BY <1>2, <1>4, <2>1, <2>6
<1>7. CASE ~(id = Eos \/ Len(d.ids) + 1 = g.tokens)
  <2>1. e.phase = "layers" /\ e.step = d.step + 1 /\ e.layer = 0
    BY <1>7 DEF AfterToken
  <2>2. GoesOn(g, e.ids, Len(e.ids))
    <3>1. ASSUME NEW i \in 1 .. Len(e.ids)
          PROVE  e.ids[i] # Eos /\ i # g.tokens
      <4>1. i \in 1 .. Len(d.ids) \/ i = Len(d.ids) + 1
        BY <1>4
      <4> QED
        BY <4>1, <1>4, <1>5, <1>7 DEF GoesOn
    <3> QED
      BY <3>1 DEF GoesOn
  <2>3. e.step = PromptLen - 1 + Len(e.ids)
    BY <1>1, <1>2, <1>4, <2>1 DEF StepOf
  <2>4. Len(e.ids) # 0 /\ e.step \in Nat /\ e.layer \in 0 .. NLayers
    BY <1>1, <1>2, <1>4, <2>1
  <2>5. Place(g, e)
    BY <1>4, <2>1, <2>2, <2>3, <2>4 DEF Place
  <2>6. Trace(g, e.step, e.layer) = Trace(g, d.step, d.layer)
    BY <1>2, <2>1, TraceTurn
  <2> QED
    BY <1>2, <1>4, <2>5, <2>6
<1> QED
  BY <1>6, <1>7

\* A token of an arm.
LEMMA TokenPass ==
  ASSUME PassInv, Token, MultiInv'
  PROVE  PassInv'
<1>1. /\ UNCHANGED <<mode, args, arm, verdict, census>> /\ Decoding /\ dec.phase = "head"
      /\ head' = [head EXCEPT !.pass = 0, !.serve = FALSE, !.poisonRow = -1]
      /\ out' = [out EXCEPT ![arm].head = IF head.pass > 1 THEN head ELSE @]
  BY DEF Token
<1>2. /\ arm \in ArmNames /\ DOMAIN dec = DecFields /\ Place(args, dec)
      /\ Course(args, arm, dec, On.head.exact)
      /\ HeadInv(head, dec.slice, HeadAcc(dec.hidden), Tile /\ ~args.keep)
      /\ DOMAIN head = HeadFields
      /\ arm = "on" => HeadOwn(args, dec, head, mode)
      /\ arm \in {"host", "bus"} => head.pass = 0
  BY <1>1, InArm
<1>3. head.pass \in 0 .. 3 /\ head.rows \in Nat /\ DOMAIN out = ArmNames /\ DOMAIN On = OutFields
  <2>1. head.pass \in 0 .. 3 /\ head.rows \in Nat
    BY <1>2 DEF HeadInv
  <2>2. DOMAIN out = ArmNames /\ \A a \in ArmNames : DOMAIN out[a] = OutFields
    BY DEF PassInv, MultiInv
  <2> QED
    BY <2>1, <2>2 DEF On, ArmNames
<1>4. PICK id :
        /\ head.pass = 0 \/ head.exact => id = Word(dec.hidden)
        /\ dec'.ids = Append(dec.ids, id) /\ dec'.hidden = dec.hidden
        /\ dec'.ran = dec.ran /\ dec'.served = dec.served /\ dec'.bad = dec.bad
        /\ AfterToken(args, dec, dec', id)
  BY TokenIs
<1>5. /\ Place(args, dec') /\ Len(dec.ids) \in Nat /\ Len(dec'.ids) = Len(dec.ids) + 1
      /\ \A i \in 1 .. Len(dec.ids) : dec'.ids[i] = dec.ids[i]
      /\ dec'.ids[Len(dec.ids) + 1] = id
      /\ dec.step = StepOf(Len(dec.ids) + 1) /\ dec.layer = NLayers
      /\ Trace(args, dec'.step, dec'.layer) = Trace(args, dec.step, dec.layer)
  <2>1. dec.layer = NLayers
    BY <1>1, <1>2 DEF Place
  <2> DEFINE e == dec'
  <2>2. /\ Place(args, e) /\ Len(dec.ids) \in Nat /\ Len(e.ids) = Len(dec.ids) + 1
        /\ \A i \in 1 .. Len(dec.ids) : e.ids[i] = dec.ids[i]
        /\ e.ids[Len(dec.ids) + 1] = id
        /\ dec.step = StepOf(Len(dec.ids) + 1)
        /\ Trace(args, e.step, e.layer) = Trace(args, dec.step, dec.layer)
    <3>1. /\ e.ids = Append(dec.ids, id)
          /\ AfterToken(args, dec, e, id)
      BY <1>4
    <3> HIDE DEF e
    <3> QED
      BY <1>1, <1>2, <3>1, PlaceOfToken
  <2> QED
    BY <2>1, <2>2
<1>6. On'.head = IF arm = "on" /\ head.pass > 1 THEN head ELSE On.head
  BY <1>1, <1>2, <1>3 DEF On, OutFields, ArmNames
<1>7. \A a \in ArmNames \ {arm} : out'[a] = out[a]
  BY <1>1, <1>3
<1>8. ASSUME id = Word(dec.hidden), dec.hidden = Trace(args, dec.step, dec.layer), TraceIds(args, dec.ids)
      PROVE  TraceIds(args, dec'.ids)
  <2>1. ASSUME NEW i \in 1 .. Len(dec'.ids)
        PROVE  dec'.ids[i] = Word(Trace(args, StepOf(i), NLayers))
    <3>1. i \in 1 .. Len(dec.ids) \/ i = Len(dec.ids) + 1
      BY <1>5
    <3>2. CASE i \in 1 .. Len(dec.ids)
      BY <3>2, <1>5, <1>8 DEF TraceIds
    <3>3. CASE i = Len(dec.ids) + 1
      <4>1. dec'.ids[i] = id /\ dec.step = StepOf(i) /\ dec.layer = NLayers
        BY <3>3, <1>5
      <4> QED
        BY <4>1, <1>8
    <3> QED
      BY <3>1, <3>2, <3>3
  <2> QED
    BY <2>1 DEF TraceIds
<1>9. ASSUME arm = "host"
      PROVE  HostIds(dec'.ids)
  <2>1. HostIds(dec.ids) /\ head.pass = 0 /\ dec.hidden = "golden"
    BY <1>2, <1>9 DEF Course, PassInv, MultiInv, ArmInv
  <2>2. id = Word("golden")
    BY <1>4, <2>1
  <2>3. ASSUME NEW i \in 1 .. Len(dec'.ids)
        PROVE  dec'.ids[i] = Word("golden")
    <3>1. i \in 1 .. Len(dec.ids) \/ i = Len(dec.ids) + 1
      BY <1>5
    <3> QED
      BY <3>1, <2>1, <2>2, <1>5 DEF HostIds
  <2> QED
    BY <2>3 DEF HostIds
<1>10. ASSUME arm = "bus"
       PROVE  dec'.hidden = Trace(args, dec'.step, dec'.layer) /\ TraceIds(args, dec'.ids)
  <2>1. dec.hidden = Trace(args, dec.step, dec.layer) /\ TraceIds(args, dec.ids) /\ head.pass = 0
    BY <1>2, <1>10 DEF Course
  <2>2. id = Word(dec.hidden)
    BY <1>4, <2>1
  <2> QED
    BY <2>1, <2>2, <1>4, <1>5, <1>8
<1>11. ASSUME arm = "on"
       PROVE  /\ OnBooks(args, dec') /\ FollowsTrace(args, dec', dec'.step, dec'.layer, On'.head.exact)
              /\ HeadOwn(args, dec', head', mode) /\ OnHead(args, mode, On'.head)
  <2>1. /\ OnBooks(args, dec) /\ FollowsTrace(args, dec, dec.step, dec.layer, On.head.exact)
        /\ HeadOwn(args, dec, head, mode)
    BY <1>2, <1>11 DEF Course
  <2>2. OnBooks(args, dec')
    BY <2>1, <1>4 DEF OnBooks
  <2>3. FollowsTrace(args, dec', dec'.step, dec'.layer, On'.head.exact)
    <3>1. SUFFICES ASSUME dec'.hidden \in {"golden", Composition(args)}, args.driver # "prompt_offload"
                   PROVE  /\ dec'.hidden = Trace(args, dec'.step, dec'.layer)
                          /\ On'.head.exact => TraceIds(args, dec'.ids)
      BY DEF FollowsTrace
    <3>2. /\ dec.hidden = Trace(args, dec.step, dec.layer)
          /\ On.head.exact => TraceIds(args, dec.ids)
      BY <2>1, <3>1, <1>4 DEF FollowsTrace
    <3>3. dec'.hidden = Trace(args, dec'.step, dec'.layer)
      BY <3>2, <1>4, <1>5
    <3>4. ASSUME On'.head.exact
          PROVE  TraceIds(args, dec'.ids)
      <4>1. CASE head.pass > 1
        <5>1. head.exact
          BY <3>4, <4>1, <1>6, <1>11
        <5>2. Len(dec.ids) = 0
          BY <2>1, <4>1, <1>3 DEF HeadOwn
        <5>3. TraceIds(args, dec.ids)
          BY <5>2 DEF TraceIds
        <5> QED
          BY <5>1, <5>3, <3>2, <1>4, <1>8
      <4>2. CASE ~(head.pass > 1)
        <5>1. On.head.exact
          BY <3>4, <4>2, <1>6
        <5>2. head.pass # 1
          BY DEF Token
        <5>3. head.pass = 0
          BY <5>2, <4>2, <1>3
        <5> QED
          BY <5>1, <5>3, <3>2, <1>4, <1>8
      <4> QED
        BY <4>1, <4>2
    <3> QED
      BY <3>3, <3>4
  <2>4. HeadOwn(args, dec', head', mode)
    <3>1. /\ head'.pass = 0 /\ head'.armed = head.armed /\ \A f \in Bill : head'[f] = head[f]
      BY <1>1, <1>2 DEF HeadFields, Bill
    <3>2. CostGood(mode, head')
      BY <3>1, <2>1, SameBill DEF HeadOwn
    <3>3. ~head.armed
      BY <2>1, <1>1 DEF HeadOwn
    <3> QED
      BY <3>1, <3>2, <3>3 DEF HeadOwn
  <2>5. OnHead(args, mode, On'.head)
    <3>1. CASE head.pass > 1
      <4>1. On'.head = head
        BY <3>1, <1>6, <1>11
      <4>2. args.driver = "prompt05b" /\ CostGood(mode, head)
        BY <3>1, <2>1, <1>3 DEF HeadOwn
      <4> QED
        BY <3>1, <4>1, <4>2, <1>3 DEF OnHead
    <3>2. CASE ~(head.pass > 1)
      BY <3>2, <1>6 DEF PassInv
    <3> QED
      BY <3>1, <3>2
  <2> QED
    BY <2>2, <2>3, <2>4, <2>5
<1>12. Course(args, arm, dec', On'.head.exact)
  BY <1>9, <1>10, <1>11 DEF Course
<1>13. OnHead(args, mode, On.head)'
  <2>1. arm # "on" => On'.head = On.head
    BY <1>6
  <2> QED
    BY <2>1, <1>1, <1>11 DEF PassInv
<1>14. On.head.exact' = On'.head.exact
  OBVIOUS
<1> QED
  BY <1>1, <1>5, <1>7, <1>11, <1>12, <1>13, <1>14, WithinPass
-----------------------------------------------------------------------------
(* MultiRun: so do the steps between the arms.                             *)

\* A fresh offloader has served nothing.
LEMMA FreshCost ==
  ASSUME NEW md, NEW n
  PROVE  CostGood(md, FreshHead(n)) /\ FreshHead(n).pass = 0 /\ FreshHead(n).armed = (n > 0)
<1>1. IsFiniteSet({})
  BY FS_EmptySet
<1>2. 0 \in Nat /\ ~(0 > 0)
  OBVIOUS
<1> QED
  BY <1>1, <1>2 DEF CostGood, FreshHead

\* A decode that has not begun.
LEMMA NotBegun ==
  ASSUME NEW g, g.tokens \in Nat \ {0}, NEW a, NEW exact
  PROVE  Place(g, Cursor0) /\ Course(g, a, Cursor0, exact)
<1>1. PromptLen \in Nat \ {0} /\ NLayers \in Nat \ {0}
  BY MultiRunAssumption
<1>2. /\ Cursor0.step = 0 /\ Cursor0.layer = 0 /\ Cursor0.phase = "layers" /\ Cursor0.hidden = "golden"
      /\ Cursor0.ids = << >> /\ Cursor0.ran = {} /\ Cursor0.served = {} /\ Cursor0.bad = {}
  BY DEF Cursor0
<1> DEFINE d == Cursor0
<1> HIDE DEF d
<1>3. Len(d.ids) = 0 /\ d.ids \in Seq({})
  BY <1>2 DEF d
<1>4. GoesOn(g, d.ids, Len(d.ids)) /\ HostIds(d.ids) /\ TraceIds(g, d.ids)
  BY <1>3 DEF GoesOn, HostIds, TraceIds
<1>5. Place(g, d)
  <2>1. d.step \in Nat /\ d.layer \in 0 .. NLayers /\ d.phase = "layers" /\ d.step <= PromptLen - 1
    BY <1>1, <1>2 DEF d
  <2> QED
    BY <2>1, <1>3, <1>4 DEF Place
<1>6. d.hidden = Trace(g, d.step, d.layer)
  BY <1>2, TraceStart DEF d
<1>7. OnBooks(g, d)
  BY <1>2 DEF OnBooks, d
<1>8. Course(g, a, d, exact)
  BY <1>4, <1>6, <1>7 DEF Course, FollowsTrace
<1> QED
  BY <1>5, <1>8 DEF d

\* An arm is entered.
LEMMA EnterPass ==
  ASSUME PassInv, MultiInv', UNCHANGED <<mode, args, out, census, verdict>>, NEW a \in OpenArms, Enter(a),
         Done(Before(args, a), args, out, census), verdict \notin {"pass", "fail"},
         args.layers \subseteq 0 .. NLayers - 1
  PROVE  PassInv'
<1>1. arm' = a /\ dec' = Cursor0 /\ head' = FreshHead(IF a = "on" THEN HeadRows ELSE 0)
  BY DEF Enter
<1>2. arm' \notin {"admit", "between", "report", "end"}
  BY <1>1 DEF OpenArms, ArmNames
<1>3. On' = On
  BY DEF On
<1>4. Asked(args, arm, verdict)'
  BY DEF PassInv, Asked
<1>5. OnHead(args, mode, On.head)'
  BY <1>3 DEF PassInv
<1>6. Order(args, arm, dec.phase, verdict, out, census)'
  BY <1>1, <1>2 DEF Order
<1>7. Place(args, dec') /\ Course(args, arm', dec', On'.head.exact)
  <2>1. args.tokens \in Nat \ {0}
    BY DEF PassInv, Asked
  <2> QED
    BY <2>1, <1>1, NotBegun
<1>8. ASSUME arm' = "on"
      PROVE  HeadOwn(args, dec', head', mode)
  <2>1. head' = FreshHead(HeadRows)
    BY <1>1, <1>8
  <2>2. CostGood(mode, head') /\ head'.pass = 0 /\ head'.armed = (HeadRows > 0)
    BY <2>1, FreshCost
  <2>3. HeadRows > 0 => args.driver = "prompt05b"
    <3>1. args.driver # "prompt05b" => args.rows = 0
      BY DEF PassInv, Asked
    <3>2. args.rows = 0 => ~(HeadRows > 0)
      BY DEF HeadRows
    <3> QED
      BY <3>1, <3>2
  <2>4. dec'.phase = "layers" /\ Len(dec'.ids) = 0
    BY <1>1 DEF Cursor0
  <2>5. ~(head'.pass > 0)
    BY <2>2
  <2>6. head'.armed => HeadRows > 0
    BY <2>2, Zenon
  <2> QED
    BY <2>2, <2>3, <2>4, <2>5, <2>6, Zenon DEF HeadOwn
<1>9. (Place(args, dec) /\ Course(args, arm, dec, On.head.exact))' /\ (arm = "on" => HeadOwn(args, dec, head, mode))'
  BY <1>7, <1>8
<1>10. (verdict \in {"pass", "fail"} => (verdict = "pass" <=> Passed))'
  OBVIOUS
<1> QED
  BY <1>4, <1>5, <1>6, <1>9, <1>10 DEF PassInv

\* What is over before the next arm.
LEMMA NextIs ==
  ASSUME NEW p \in OpenArms
  PROVE  /\ AfterArm(p) \in (OpenArms \ {"on"}) \cup {"report"}
         /\ Before(args, AfterArm(p)) \subseteq Before(args, p) \cup ({p} \cap Graded(args))
         /\ AfterArm(p) \in {"red", "report"} => Before(args, AfterArm(p)) = Graded(args)
<1>1. p \in {"on", "host", "bus", "control", "poison", "red"}
  BY DEF OpenArms, ArmNames
<1>2. /\ Before(args, "on") = {} /\ Before(args, "host") = {"on"} /\ Before(args, "bus") = {"on", "host"}
      /\ \A q \in {"control", "poison", "red", "report"} : Before(args, q) = Graded(args)
  BY DEF Before
<1>3. Graded(args) = IF Driver = "prompt_offload" THEN {"on", "host"} ELSE {"on", "host", "bus"}
  BY DEF Graded, Driver
<1>4. /\ p = "on" => AfterArm(p) = "host"
      /\ p = "host" /\ Driver # "prompt_offload" => AfterArm(p) = "bus"
      /\ p = "host" /\ Driver = "prompt_offload" => AfterArm(p) \in {"poison", "red", "report"}
      /\ p \notin {"on", "host"} => AfterArm(p) \in {"control", "poison", "red", "report"}
  <2>1. CASE Driver = "prompt05b"
    BY <2>1, <1>1 DEF AfterArm
  <2>2. CASE Driver # "prompt05b"
    <3>1. AfterArm(p) = AfterOne(p)
      BY <2>2 DEF AfterArm
    <3>2. p = "on" => AfterOne(p) = "host"
      BY DEF AfterOne
    <3>3. p = "host" /\ Driver # "prompt_offload" => AfterOne(p) = "bus"
      BY DEF AfterOne
    <3>4. p = "host" /\ Driver = "prompt_offload" => AfterOne(p) \in {"poison", "red", "report"}
      BY DEF AfterOne
    <3>5. p \notin {"on", "host"} => AfterOne(p) \in {"control", "poison", "red", "report"}
      BY DEF AfterOne
    <3> QED
      BY <3>1, <3>2, <3>3, <3>4, <3>5
  <2> QED
    BY <2>1, <2>2
<1>5. CASE p = "on"
  BY <1>2, <1>3, <1>4, <1>5 DEF OpenArms, ArmNames
<1>6. CASE p = "host" /\ Driver # "prompt_offload"
  BY <1>2, <1>3, <1>4, <1>6 DEF OpenArms, ArmNames
<1>7. CASE p = "host" /\ Driver = "prompt_offload"
  BY <1>2, <1>3, <1>4, <1>7 DEF OpenArms, ArmNames
<1>8. CASE p \notin {"on", "host"}
  <2>1. AfterArm(p) \in {"control", "poison", "red", "report"}
    BY <1>4, <1>8
  <2>2. Before(args, AfterArm(p)) = Graded(args)
    BY <1>2, <2>1
  <2>3. Graded(args) \subseteq Before(args, p) \cup ({p} \cap Graded(args))
    BY <1>1, <1>2, <1>3, <1>8
  <2> QED
    BY <2>1, <2>2, <2>3 DEF OpenArms, ArmNames
<1> QED
  BY <1>5, <1>6, <1>7, <1>8

\* The command line is admitted, or refused.
LEMMA AdmitPass ==
  ASSUME PassInv, Admit, MultiInv'
  PROVE  PassInv'
<1>1. UNCHANGED <<mode, args, census, out>> /\ arm = "admit"
  BY DEF Admit
<1>2. CASE ~Admitted(args)
  <2>1. verdict' = "refused" /\ arm' = "end"
    BY <1>2 DEF Admit
  <2>2. On'.head = On.head
    BY <1>1 DEF On
  <2> QED
    BY <1>1, <2>1, <2>2, EndsPass
<1>3. CASE Admitted(args)
  <2>1. Enter("on") /\ UNCHANGED verdict
    BY <1>3 DEF Admit
  <2>2. args.layers \subseteq 0 .. NLayers - 1
    BY <1>3 DEF Admitted, AdmittedHead, AdmittedLayer, AdmittedLayer05B, AdmittedMulti
  <2>3. verdict \notin {"pass", "fail"}
    BY <1>1 DEF PassInv, Order
  <2>4. Done(Before(args, "on"), args, out, census)
    BY DEF Done, Before
  <2>5. "on" \in OpenArms
    BY DEF OpenArms, ArmNames
  <2> QED
    BY <1>1, <2>1, <2>2, <2>3, <2>4, <2>5, EnterPass
<1> QED
  BY <1>2, <1>3

\* The next arm is entered, or the report made.
LEMMA NextArmPass ==
  ASSUME PassInv, NextArm, MultiInv'
  PROVE  PassInv'
<1> DEFINE next == AfterArm(dec.phase)
<1>1. UNCHANGED <<mode, args, census, out>> /\ arm = "between"
  BY DEF NextArm
<1>2. /\ dec.phase \in OpenArms
      /\ Done(Before(args, dec.phase) \cup ({dec.phase} \cap Graded(args)), args, out, census)
      /\ verdict \notin {"pass", "fail"} /\ args.layers \subseteq 0 .. NLayers - 1
  BY <1>1 DEF PassInv, Order, Asked
<1>3. /\ next \in (OpenArms \ {"on"}) \cup {"report"}
      /\ Done(Before(args, next), args, out, census)
      /\ next \in {"red", "report"} => Done(Graded(args), args, out, census)
  <2>1. /\ next \in (OpenArms \ {"on"}) \cup {"report"}
        /\ Before(args, next) \subseteq Before(args, dec.phase) \cup ({dec.phase} \cap Graded(args))
        /\ next \in {"red", "report"} => Before(args, next) = Graded(args)
    BY <1>2, NextIs
  <2>2. Done(Before(args, next), args, out, census)
    BY <2>1, <1>2 DEF Done
  <2> QED
    BY <2>1, <2>2
<1>4. On' = On
  BY <1>1 DEF On
<1>5. CASE arm' = "report" /\ UNCHANGED <<bound, stack, dec, head, verdict>> /\ next \in {"red", "report"}
  <2>1. Done(Graded(args), args, out, census)
    BY <1>3, <1>5
  <2>2. arm' \notin OpenArms /\ ~Decoding'
    BY <1>5 DEF Decoding, OpenArms, ArmNames
  <2>3. Order(args, arm, dec.phase, verdict, out, census)'
    BY <1>1, <1>2, <1>5, <2>1, <2>2 DEF Order
  <2>4. Asked(args, arm, verdict)'
    BY <1>1, <1>2 DEF PassInv, Asked
  <2>5. OnHead(args, mode, On.head)'
    BY <1>1, <1>4 DEF PassInv
  <2> QED
    BY <1>2, <1>5, <2>2, <2>3, <2>4, <2>5 DEF PassInv
<1>6. CASE Refuse
  BY <1>1, <1>4, <1>6, EndsPass DEF Refuse
<1>7. CASE Enter(next) /\ UNCHANGED verdict /\ next # "report"
  BY <1>1, <1>2, <1>3, <1>7, EnterPass
<1> QED
  BY <1>5, <1>6, <1>7 DEF NextArm

\* The red arm is over.
LEMMA RedArmPass ==
  ASSUME PassInv, RedArm, MultiInv'
  PROVE  PassInv'
<1>1. /\ UNCHANGED <<mode, args, census, out, verdict>> /\ arm = "red" /\ arm' = "between"
      /\ dec'.phase = "red"
  BY DEF RedArm, PassInv, MultiInv, ArmInv, DecFields
<1>2. Done(Before(args, "red"), args, out, census) /\ "red" \in OpenArms /\ verdict \notin {"pass", "fail"}
      /\ args.layers \subseteq 0 .. NLayers - 1
  BY <1>1 DEF PassInv, Order, Asked, OpenArms
<1>3. "red" \notin Graded(args)
  BY DEF Graded
<1>4. Done(Before(args, "red") \cup ({"red"} \cap Graded(args)), args, out, census)
  BY <1>2, <1>3 DEF Done
<1>5. ~Decoding' /\ arm' \notin OpenArms
  BY <1>1 DEF Decoding, OpenArms, ArmNames
<1>6. Order(args, arm, dec.phase, verdict, out, census)'
  BY <1>1, <1>2, <1>4, <1>5 DEF Order
<1>7. Asked(args, arm, verdict)'
  BY <1>1, <1>2 DEF PassInv, Asked
<1>8. OnHead(args, mode, On.head)'
  BY <1>1 DEF PassInv, On
<1> QED
  BY <1>1, <1>2, <1>5, <1>6, <1>7, <1>8 DEF PassInv

\* An arm is over, and what it gave is kept.
LEMMA ArmOverPass ==
  ASSUME PassInv, ArmOver, MultiInv'
  PROVE  PassInv'
<1> USE DEF OutFields
<1>1. /\ UNCHANGED <<mode, args, census>> /\ Decoding /\ dec.phase = "over"
      /\ out' = [out EXCEPT ![arm] = [@ EXCEPT !.ids = dec.ids, !.hidden = dec.hidden,
                                               !.ran = dec.ran, !.served = dec.served, !.bad = dec.bad,
                                               !.lost = dec.lost]]
  BY DEF ArmOver
<1>2. /\ arm \in ArmNames /\ arm \in OpenArms /\ Place(args, dec)
      /\ Course(args, arm, dec, On.head.exact) /\ DOMAIN dec = DecFields
      /\ bound = Rebound(Pure, Contexts(arm), Len(Contexts(arm)))
  BY <1>1, InArm
<1>3. DOMAIN out = ArmNames /\ \A a \in ArmNames : DOMAIN out[a] = OutFields
  BY DEF PassInv, MultiInv
<1> DEFINE x == out'[arm]
<1>4. /\ x.ids = dec.ids /\ x.hidden = dec.hidden /\ x.ran = dec.ran /\ x.served = dec.served
      /\ x.bad = dec.bad /\ x.head = out[arm].head
      /\ \A a \in ArmNames \ {arm} : out'[a] = out[a]
  BY <1>1, <1>2, <1>3
<1>5. On'.head = On.head
  <2>1. "on" \in ArmNames
    BY DEF ArmNames
  <2>2. CASE arm = "on"
    BY <2>2, <1>4 DEF On
  <2>3. CASE arm # "on"
    BY <2>1, <2>3, <1>4 DEF On
  <2> QED
    BY <2>2, <2>3
<1>6. CASE bound.layer = "census" /\ ~CensusHolds
  <2>1. Refuse
    BY <1>6 DEF ArmOver
  <2> QED
    BY <2>1, <1>1, <1>5, EndsPass DEF Refuse
<1>7. CASE ~(bound.layer = "census" /\ ~CensusHolds)
  <2>1. arm' = "between" /\ dec' = [dec EXCEPT !.phase = arm] /\ UNCHANGED verdict
    BY <1>7 DEF ArmOver
  <2>2. dec'.phase = arm
    BY <2>1, <1>2 DEF DecFields
  <2>3. verdict \notin {"pass", "fail"} /\ args.layers \subseteq 0 .. NLayers - 1
        /\ Done(Before(args, arm), args, out, census)
    BY <1>2 DEF PassInv, Order, Asked, OpenArms, ArmNames
  <2>4. Done(Before(args, arm), args, out', census)
    <3>1. Before(args, arm) \subseteq {"on", "host", "bus"} /\ arm \notin Before(args, arm)
      BY <1>2, BeforeIs
    <3>2. \A a \in Before(args, arm) : out'[a] = out[a]
      BY <3>1, <1>4 DEF ArmNames
    <3> QED
      BY <3>1, <3>2, <2>3, DoneStays
  <2>5. Whole(args, dec.ids) /\ dec.step = StepOf(Len(dec.ids)) /\ dec.layer = NLayers
    BY <1>1, <1>2 DEF Place
  <2>6. ASSUME arm = "on"
        PROVE  OnBooks(args, x) /\ FollowsTrace(args, x, StepOf(Len(x.ids)), NLayers, x.head.exact)
    <3>1. OnBooks(args, dec) /\ FollowsTrace(args, dec, dec.step, dec.layer, On.head.exact)
      BY <1>2, <2>6 DEF Course
    <3>2. x.head = On.head
      BY <2>6, <1>4 DEF On
    <3>3. OnBooks(args, x)
      BY <3>1, <1>4 DEF OnBooks
    <3> HIDE DEF x
    <3>4. FollowsTrace(args, x, StepOf(Len(x.ids)), NLayers, x.head.exact)
      BY <3>1, <3>2, <1>4, <2>5 DEF FollowsTrace
    <3> QED
      BY <3>3, <3>4
  <2>7. ASSUME arm = "host"
        PROVE  /\ x.hidden = "golden" /\ HostIds(x.ids)
               /\ args.driver = "prompt05b" => census.layers = 0 .. NLayers - 1 /\ census.outside = Vocab
    <3>1. x.hidden = "golden"
      BY <2>7, <1>4 DEF PassInv, MultiInv, ArmInv
    <3>2. HostIds(x.ids)
      BY <2>7, <1>2, <1>4 DEF Course
    <3>3. args.driver = "prompt05b" => bound.layer = "census"
      BY <2>7, <1>2, LayersThrough DEF Driver
    <3>4. args.driver = "prompt05b" => CensusHolds
      BY <3>3, <1>7
    <3> QED
      BY <3>1, <3>2, <3>4 DEF CensusHolds
  <2>8. ASSUME arm = "bus"
        PROVE  x.hidden = Trace(args, StepOf(Len(x.ids)), NLayers) /\ TraceIds(args, x.ids)
    BY <2>8, <1>2, <1>4, <2>5 DEF Course
  <2>9. Fin(args, arm, x, census)
    <3>1. Whole(args, x.ids)
      BY <1>4, <2>5
    <3> HIDE DEF x
    <3> QED
      BY <3>1, <2>6, <2>7, <2>8 DEF Fin
  <2>10. Done(Before(args, arm) \cup ({arm} \cap Graded(args)), args, out', census)
    BY <2>4, <2>9 DEF Done
  <2>11. ~Decoding' /\ arm' \notin OpenArms
    BY <2>1 DEF Decoding, OpenArms, ArmNames
  <2>12. Order(args, arm, dec.phase, verdict, out, census)'
    BY <1>1, <1>2, <2>1, <2>2, <2>3, <2>10, <2>11 DEF Order
  <2>13. Asked(args, arm, verdict)'
    BY <1>1, <2>1, <2>3 DEF PassInv, Asked
  <2>14. OnHead(args, mode, On.head)'
    BY <1>1, <1>5 DEF PassInv
  <2> QED
    BY <2>1, <2>3, <2>11, <2>12, <2>13, <2>14 DEF PassInv
<1> QED
  BY <1>6, <1>7

\* The grounds of a verdict are what the arms gave.
LEMMA PassedStays ==
  ASSUME UNCHANGED <<mode, args, out>>
  PROVE  Passed' = Passed /\ Driver' = Driver
<1>1. On' = On /\ Driver' = Driver /\ Tile' = Tile /\ Ops' = Ops
  BY DEF On, Driver, Tile, Ops
<1>2. Lines' = Lines
  BY <1>1 DEF Lines, LayerLine, Units
<1>3. \A op : Aggregate(op)' = Aggregate(op)
  BY <1>1, <1>2 DEF Aggregate, Units
<1>4. ServedOps' = ServedOps /\ GradesOk' = GradesOk
  BY <1>3 DEF ServedOps, GradesOk
<1>5. HeadStage' = HeadStage
  BY <1>1 DEF HeadStage, HeadServed, HeadResult
<1>6. /\ Fired' = Fired /\ ChecksOk' = ChecksOk /\ GeomOk' = GeomOk /\ PoisonSeen' = PoisonSeen
      /\ SameAsHost' = SameAsHost /\ SameAsBus' = SameAsBus /\ BusExplains' = BusExplains
  BY <1>1, <1>4 DEF Fired, ChecksOk, GeomOk, PoisonSeen, PoisonMoved, SameAsHost, SameAsBus, BusExplains,
                    BusSameAsHost
<1>7. /\ PassedHead' = PassedHead /\ PassedLayer' = PassedLayer /\ PassedLayer05B' = PassedLayer05B
      /\ PassedMulti' = PassedMulti
  BY <1>1, <1>4, <1>5, <1>6 DEF PassedHead, PassedLayer, PassedLayer05B, PassedMulti
<1> QED
  BY <1>1, <1>7 DEF Passed

\* The report is made.
LEMMA ReportPass ==
  ASSUME PassInv, Report, MultiInv'
  PROVE  PassInv'
<1>1. /\ UNCHANGED <<mode, args, dec, head, census, out>> /\ arm = "report" /\ arm' = "end"
      /\ verdict' \in {"pass", "fail"}
  BY DEF Report, ReportHead, ReportLayer, ReportLayer05B, ReportMulti, Conclude
<1>2. verdict' = "pass" <=> Passed
  BY DEF Report, ReportHead, ReportLayer, ReportLayer05B, ReportMulti, Conclude, Passed
<1>3. Passed' = Passed
  BY <1>1, PassedStays
<1>4. Done(Graded(args), args, out, census) /\ args.layers \subseteq 0 .. NLayers - 1
  BY <1>1 DEF PassInv, Order, Asked
<1>5. ~Decoding' /\ arm' \notin OpenArms
  BY <1>1 DEF Decoding, OpenArms, ArmNames
<1>6. Order(args, arm, dec.phase, verdict, out, census)'
  BY <1>1, <1>4, <1>5 DEF Order
<1>7. Asked(args, arm, verdict)'
  BY <1>1, <1>4 DEF PassInv, Asked
<1>8. OnHead(args, mode, On.head)'
  BY <1>1 DEF PassInv, On
<1>9. (verdict \in {"pass", "fail"} => (verdict = "pass" <=> Passed))'
  BY <1>2, <1>3
<1> QED
  BY <1>1, <1>5, <1>6, <1>7, <1>8, <1>9 DEF PassInv

\* Every command line begins in it.
LEMMA PassInvInit == MultiInit => PassInv
<1> SUFFICES ASSUME MultiInit
             PROVE  PassInv
  OBVIOUS
<1>1. MultiInv
  BY MultiInvInit
<1>2. arm = "admit" /\ verdict = "none" /\ out = [a \in ArmNames |-> NoOut] /\ args \in Requests
  BY DEF MultiInit
<1>3. ~Decoding /\ arm \notin OpenArms
  BY <1>2 DEF Decoding, OpenArms, ArmNames
<1>4. On.head = FreshHead(0)
  <2>1. On = NoOut
    BY <1>2 DEF On, ArmNames
  <2> QED
    BY <2>1 DEF NoOut
<1>5. OnHead(args, mode, On.head)
  <2>1. FreshHead(0).rows = 0
    BY DEF FreshHead
  <2> QED
    BY <1>4, <2>1, FreshCost DEF OnHead
<1>6. Asked(args, arm, verdict)
  <2>1. args.rows \in Int
    BY <1>1 DEF MultiInv
  <2>2. /\ args \in ShareRequests => args.driver = "prompt05b" /\ args.tokens \in 1 .. 2
        /\ args \in FitRequests => args.driver = "prompt05b" /\ args.tokens \in 2 .. 3
        /\ args \in OneLayerRequests => args.driver \in Drivers \ {"prompt05b"} /\ args.tokens \in 1 .. 3
                                        /\ args.rows = 0
    <3>1. args \in ShareRequests => args.driver = "prompt05b" /\ args.tokens \in 1 .. 2
      BY DEF ShareRequests
    <3>2. args \in FitRequests => args.driver = "prompt05b" /\ args.tokens \in 2 .. 3
      BY DEF FitRequests
    <3>3. args \in OneLayerRequests => args.driver \in Drivers \ {"prompt05b"} /\ args.tokens \in 1 .. 3
                                       /\ args.rows = 0
      BY DEF OneLayerRequests
    <3> QED
      BY <3>1, <3>2, <3>3
  <2>3. args \in ShareRequests \/ args \in FitRequests \/ args \in OneLayerRequests
    BY <1>2 DEF Requests
  <2>4. args.driver \in Drivers /\ args.tokens \in Nat \ {0} /\ (args.driver # "prompt05b" => args.rows = 0)
    BY <2>2, <2>3 DEF Drivers
  <2> QED
    BY <1>2, <2>1, <2>4 DEF Asked
<1>7. Order(args, arm, dec.phase, verdict, out, census)
  BY <1>2, <1>3 DEF Order
<1> QED
  BY <1>1, <1>2, <1>3, <1>5, <1>6, <1>7 DEF PassInv

\* Every step keeps it.
LEMMA PassInvStep == PassInv /\ [MultiNext]_multi => PassInv'
<1> SUFFICES ASSUME PassInv, [MultiNext]_multi
             PROVE  PassInv'
  OBVIOUS
<1>1. MultiInv'
  BY MultiInvStep DEF PassInv
<1>2. CASE UNCHANGED multi
  <2>1. UNCHANGED <<mode, args, arm, dec, head, census, out, verdict>>
    BY <1>2 DEF multi
  <2>2. Passed' = Passed /\ On' = On /\ Decoding' = Decoding
    BY <2>1, PassedStays DEF On, Decoding
  <2> QED
    BY <1>1, <2>1, <2>2 DEF PassInv
<1>3. CASE MultiNext
  BY <1>1, <1>3, AdmitPass, LayerPass, StepDonePass, HeadGemmPass, NextPassPass, TokenPass, ArmOverPass,
     NextArmPass, RedArmPass, ReportPass DEF MultiNext
<1> QED
  BY <1>2, <1>3

\* A PASS is printed exactly when no reason against it is, and it means that the
\* tile served something of what was asked for and golden's values only; the
\* ledgers, the shares and the blame of the report agree with what was served:
\* for every model, prompt, vocabulary, block and program size, whatever goes
\* wrong on the tile (report of the four drivers, host_ledger, _agg, flop_share).
THEOREM PassMeansServedHolds == MultiSpec => []PassMeansServed
<1>1. MultiInit => PassInv
  BY PassInvInit
<1>2. PassInv /\ [MultiNext]_multi => PassInv'
  BY PassInvStep
<1>3. PassInv => PassMeansServed
  BY PassInvMeans
<1> QED
  BY <1>1, <1>2, <1>3, PTL DEF MultiSpec
=============================================================================
