------------------------------ MODULE HostExec ------------------------------
(***************************************************************************)
(* A host program sends jobs to the card through tile_exec_bridge.run_job, *)
(* which uses a long-lived f2_host_run.py --server, a process per job, or  *)
(* (remote_hw_exec.attach) ssh to the instance that holds the card.  Every *)
(* wait may time out, every process may die or hang, every transfer fail.  *)
(***************************************************************************)
EXTENDS CardJob

CONSTANTS Jobs,              \* bound of the model: jobs the session sends
          Transports         \* which of "daemon", "oneshot", "remote"

ASSUME JobsAssumption == Jobs \in Nat \ {0}
ASSUME TransportsAssumption == Transports \subseteq {"daemon", "oneshot", "remote"}

VARIABLES transport,
          client,    \* run_job: where it is, the job, the attempt, the answer so far
          runners,   \* the f2_host_run.py processes, by order of start
          daemon,    \* _DAEMONS: the registered server's process, 0 if none
          tile,      \* what has been loaded into the tile since its last reset
          capfile,   \* the capture file at the requested path: records, or None
          input,     \* job whose regops the instance holds (remote), 0 if none
          clock,     \* frequency of the tile's clock
          fly,       \* remote: the frequency the gate expects, and the limit
          told       \* what the session was told last

vars == <<transport, client, runners, daemon, tile, capfile, input, clock, fly, told>>

Untold == [job |-> 0, ran |-> 0, late |-> FALSE, raised |-> TRUE, ok |-> FALSE, batchOk |-> FALSE,
           values |-> {},
           files |-> Demux(<< >>, 0)]
None == <<[tag |-> <<"none">>, value |-> {}]>>   \* no file
Silence == [ran |-> 0, rc |-> 0, n |-> -2]        \* no line on the process's stdout
Ready == [ran |-> 0, rc |-> 0, n |-> -3]          \* the server's first line
NoAnswer == [ran |-> 0, rc |-> 1, n |-> -1]      \* n = -1: no summary line
-----------------------------------------------------------------------------
(* clock_key.py and the expectation remote_hw_exec.py enforces with it: an  *)
(* image is timed at one recipe of the clock generator, and may be flown    *)
(* at that recipe or, on request, at a slower one, never at a faster one.   *)
(* An argument that may be left out is a set of at most one value, and so   *)
(* is an expectation: the empty set is a ClockKeyRefusal.                   *)

Recipes == 0 .. 2

\* RECIPE_A_A1_MHZ, in eighths of a megahertz: 62.5, 125, 15.625.
Mhz == [r \in Recipes |-> CASE r = 0 -> 500 [] r = 1 -> 1000 [] r = 2 -> 125]
LoadDefault == Mhz[1]  \* an image load puts the generators back to recipe 1
Slowest == Mhz[2]

\* IMAGE_RECIPE: the recipe each registered image was built at, one image for
\* each recipe the table has.
ImageRecipe == [a0 |-> 0, a2 |-> 2]
Images == DOMAIN ImageRecipe

\* expected_clock: none for an image that is not registered, or for a recipe
\* that is none of the three or is above the image's own.
ExpectedClock(image, recipe) ==
  IF image \notin Images THEN {}
  ELSE LET own == ImageRecipe[image]
           run == IF recipe = {} THEN {own} ELSE recipe \cap Recipes
       IN  {Mhz[r] : r \in {r \in run : Mhz[r] <= Mhz[own]}}

\* resolve_clock_expectation: keyed to the image when one is named, and then no
\* other frequency may be asked for; a recipe needs an image; without either,
\* the frequency the caller asks for, or recipe 2's.
ResolveClockExpectation(agfi, recipe, mhz) ==
  IF agfi # {}
  THEN {m \in UNION {ExpectedClock(image, recipe) : image \in agfi} : mhz \subseteq {m}}
  ELSE IF recipe # {} THEN {}
  ELSE IF mhz = {} THEN {Slowest} ELSE mhz

-----------------------------------------------------------------------------
(* The processes on the card's host.                                       *)

Fresh(pc, job) ==
  [pc |-> pc, job |-> job, part |-> 0, at |-> 0, n |-> 0, failed |-> FALSE,
   linked |-> FALSE, reply |-> Silence]

\* remote_config: the frequency the arguments expect, and the fastest that is
\* right for them, which is never above what the image on the card was closed at.
\* A caller that names a frequency and no image is promised nothing of the image.
Flight(expect, top) ==
  [expect |-> expect,
   limit |-> IF expect = {} THEN Slowest ELSE CHOOSE m \in expect \cup {top} :
                                               \A o \in expect \cup {top} : m <= o]

\* The arguments a caller may give; recipe 3 is none of the table's.
RecipeArgs == {{}} \cup {{r} : r \in 0 .. 3}
MhzArgs == {{}, {500}}

KeyedFlight(image, recipe, mhz) ==
  Flight(ResolveClockExpectation({image}, recipe, mhz), Mhz[ImageRecipe[image]])

UnkeyedFlight(image, agfi, recipe, mhz) ==
  Flight(ResolveClockExpectation(agfi, recipe, mhz),
         IF agfi = {} /\ mhz # {} THEN LoadDefault ELSE Mhz[ImageRecipe[image]])

Flights ==
  {KeyedFlight(image, recipe, mhz) : image \in Images, recipe \in RecipeArgs, mhz \in MhzArgs}
  \cup
  {UnkeyedFlight(image, agfi, recipe, mhz) :
     image \in Images, agfi \in {{}, {"unregistered"}}, recipe \in {{}, {2}}, mhz \in MhzArgs}

Alive(p) == runners[p].pc # "gone"
Pid == DOMAIN runners

Init ==
  /\ transport \in Transports
  /\ client = [pc |-> "ready", job |-> 0, attempt |-> 1, answer |-> NoAnswer, late |-> FALSE]
  /\ runners = << >>
  /\ daemon = 0
  /\ tile = {}
  /\ capfile = None
  /\ input = 0
  /\ clock \in (IF transport = "remote" THEN {Mhz[r] : r \in Recipes} ELSE {Slowest})
  /\ fly \in (IF transport = "remote" THEN Flights ELSE {[expect |-> {}, limit |-> Slowest]})
  /\ told = Untold

RunnerOnly == UNCHANGED <<transport, client, daemon, input, clock, fly, told>>

\* A server attaches once, before its first job, and says so; a failure is
\* reported on the same line and ends the process.
Attach(p) ==
  /\ runners[p].pc = "attach"
  /\ \E ok \in BOOLEAN :
       runners' = [runners EXCEPT ![p].pc = IF ok THEN "idle" ELSE "gone",
                                  ![p].reply = IF ok THEN Ready ELSE Silence]
  /\ UNCHANGED <<tile, capfile>> /\ RunnerOnly

\* The files are compiled before the card is touched; a malformed one (or,
\* in a one-shot process, a failed attach) is an answer without a summary.
\* Then the capture file is truncated.
Open(p) ==
  /\ runners[p].pc = "run" /\ runners[p].part = 0
  /\ \/ /\ runners' = [runners EXCEPT ![p].part = 1, ![p].at = 1, ![p].linked = TRUE]
        /\ capfile' = << >>
     \/ /\ runners' = [runners EXCEPT ![p].pc = "reply", ![p].n = -1, ![p].failed = TRUE]
        /\ UNCHANGED capfile
  /\ UNCHANGED tile /\ RunnerOnly

At(p, op) == /\ runners[p].pc = "run"
             /\ runners[p].part \in Parts
             /\ Script(runners[p].part)[runners[p].at] = op

\* The next operation of the file, or the first of the next file.
Onward(r) == IF r.at < Len(Script(r.part)) THEN [r EXCEPT !.at = @ + 1]
             ELSE [r EXCEPT !.part = @ + 1, !.at = 1]

Ahead(p) == [runners EXCEPT ![p] = Onward(@)]

\* Mutant of Reset: the pulse leaves the tile's state.
ResetNothing(p) ==
  /\ At(p, "reset")
  /\ runners' = Ahead(p)
  /\ UNCHANGED <<tile, capfile>> /\ RunnerOnly

\* _tile_reset: the pulse empties the tile; a tile that does not come back
\* ready ends the job (SystemExit 2) before its summary is printed.
Reset(p) ==
  /\ At(p, "reset")
  /\ \/ runners' = Ahead(p)
     \/ runners' = [runners EXCEPT ![p].pc = "reply", ![p].n = -1, ![p].failed = TRUE]
  /\ tile' = {}
  /\ UNCHANGED capfile /\ RunnerOnly

\* The file's writes.
Load(p) ==
  /\ At(p, "load")
  /\ tile' = tile \cup {<<runners[p].job, Number(runners[p].part)>>}
  /\ runners' = Ahead(p)
  /\ UNCHANGED capfile /\ RunnerOnly

\* A poll or a FIFO wait of the file that runs out, before any of its captures:
\* it ends the file and not the job.
Stall(p) ==
  /\ At(p, "cap")
  /\ runners' = [runners EXCEPT ![p].part = @ + 1, ![p].at = 1, ![p].failed = TRUE]
  /\ UNCHANGED <<tile, capfile>> /\ RunnerOnly

\* The records go to the file the process opened, which may no longer be the
\* one at the requested path.
Write(p, rec) ==
  /\ capfile' = IF runners[p].linked THEN Append(capfile, rec) ELSE capfile
  /\ runners' = [Ahead(p) EXCEPT ![p].n = @ + 1]
  /\ UNCHANGED tile /\ RunnerOnly

Capture(p) ==
  /\ At(p, "cap")
  /\ Write(p, [tag |-> CapTag(runners[p].at - 2), value |-> tile])

\* A marker reads the bridge's ID register, which no tile state reaches.
Mark(p) ==
  /\ At(p, "mark")
  /\ Write(p, [tag |-> MarkTag(runners[p].job, Number(runners[p].part)), value |-> {}])

\* The summary line and the exit status; a server goes back to its stdin.
Reply(p) ==
  /\ \/ runners[p].pc = "reply"
     \/ runners[p].pc = "run" /\ runners[p].part > 2 * Files + 1
  /\ runners' = [runners EXCEPT
       ![p] = [Fresh(IF transport = "daemon" THEN "idle" ELSE "gone", 0) EXCEPT
                 !.reply = [ran |-> runners[p].job, rc |-> IF runners[p].failed THEN 1 ELSE 0,
                            n |-> runners[p].n]]]
  /\ UNCHANGED <<tile, capfile>> /\ RunnerOnly

Die(p) ==
  /\ Alive(p)
  /\ runners' = [runners EXCEPT ![p] = [Fresh("gone", 0) EXCEPT !.reply = runners[p].reply]]
  /\ UNCHANGED <<tile, capfile>> /\ RunnerOnly

Runner(p) ==
  \/ Attach(p) \/ Open(p) \/ Reset(p) \/ Load(p) \/ Stall(p) \/ Capture(p) \/ Mark(p)
  \/ Reply(p) \/ Die(p)
-----------------------------------------------------------------------------
(* run_job and what it calls, in the session's process.                    *)

ClientOnly == UNCHANGED <<transport, tile, clock, fly>>

\* A stale capture file is removed before the launch (on the instance: in
\* the command that starts the runner); who has it open keeps writing to
\* the removed one.
Unlinked(rs) == [p \in DOMAIN rs |-> [rs[p] EXCEPT !.linked = FALSE]]

\* A session waits for a runner it left on the instance before its next job:
\* an assumption on its operator, nothing in the code looks for one.
MayGoOn == transport # "remote" \/ \A p \in Pid : ~Alive(p)

Sends(pc) ==
  /\ client.pc = "ready" /\ client.job < Jobs /\ MayGoOn
  /\ client' = [pc |-> pc, job |-> client.job + 1, attempt |-> 1, answer |-> NoAnswer,
                late |-> FALSE]
  /\ UNCHANGED <<daemon, input, told>> /\ ClientOnly

Submit ==
  /\ transport # "remote"
  /\ Sends(IF transport = "daemon" THEN "acquire" ELSE "launch")
  /\ capfile' = None /\ runners' = Unlinked(runners)

\* run_job_remote before it contacts the instance: the capture file there is
\* another than the local one, which is removed here and fetched anew.
SubmitRemote ==
  /\ transport = "remote"
  /\ Sends("gate")
  /\ UNCHANGED <<capfile, runners>>

Goto(pc) == client' = [client EXCEPT !.pc = pc]

\* run_job's own verdict: rc, the summary, and as many records as it names.
Verdict(caps) ==
  /\ client.answer.rc = 0 /\ ~client.late
  /\ client.answer.n = Len(caps)

\* What the session is told of the job: an exception, or captures with a
\* verdict; run_jobs_batched splits them and raises if they do not split.
Tell(raised, caps) ==
  /\ told' = [job |-> client.job, ran |-> client.answer.ran, late |-> client.late,
              raised |-> raised \/ ~Splits(caps, client.job),
              ok |-> ~raised /\ Verdict(caps),
              batchOk |-> ~raised /\ Verdict(caps) /\ DemuxOk(caps, client.job),
              values |-> {caps[i].value : i \in {m \in DOMAIN caps : caps[m].tag[1] = "cap"}},
              files |-> Demux(caps, client.job)]
  /\ Goto("ready")

\* Parsing is strict unless the job timed out: a capture file that is not
\* there, or no summary line, raises.
Parsed ==
  /\ client.pc = "parse"
  /\ IF capfile = None
     THEN Tell(~client.late, << >>)
     ELSE Tell(~client.late /\ client.answer.n = -1, capfile)
  /\ UNCHANGED <<runners, daemon, capfile, input>> /\ ClientOnly

Parse == transport # "remote" /\ Parsed

Killed(p) == [runners EXCEPT ![p] = Fresh("gone", 0)]

\* _daemon_request, up to the request: the registered server if its process
\* lives, a new one otherwise.
Acquire ==
  /\ client.pc = "acquire"
  /\ IF daemon # 0 /\ Alive(daemon)
     THEN Goto("send") /\ UNCHANGED <<runners, daemon>>
     ELSE /\ runners' = Append(runners, Fresh("attach", 0))
          /\ daemon' = Len(runners) + 1
          /\ Goto("hello")
  /\ UNCHANGED <<capfile, input, told>> /\ ClientOnly

Hello ==
  /\ client.pc = "hello"
  /\ \/ /\ runners[daemon].reply = Ready
        /\ Goto("send")
        /\ runners' = [runners EXCEPT ![daemon].reply = Silence]
        /\ UNCHANGED <<daemon, told>>
     \/ /\ runners' = Killed(daemon) /\ daemon' = 0
        /\ Tell(TRUE, << >>)
  /\ UNCHANGED <<capfile, input>> /\ ClientOnly

\* The server died under the request: one restart, then an exception.
Died ==
  /\ runners' = Killed(daemon) /\ daemon' = 0
  /\ IF client.attempt = 1
     THEN client' = [client EXCEPT !.pc = "acquire", !.attempt = 2] /\ UNCHANGED told
     ELSE Tell(TRUE, << >>)

Send ==
  /\ client.pc = "send"
  /\ IF Alive(daemon)
     THEN /\ runners' = [runners EXCEPT ![daemon] = Fresh("run", client.job)]
          /\ Goto("await") /\ UNCHANGED <<daemon, told>>
     ELSE Died
  /\ UNCHANGED <<capfile, input>> /\ ClientOnly

\* One-shot: subprocess.run of the same runner.
Launch ==
  /\ client.pc = "launch"
  /\ runners' = Append(runners, Fresh("run", client.job))
  /\ Goto("await")
  /\ UNCHANGED <<daemon, capfile, input, told>> /\ ClientOnly

Mine == IF transport = "daemon" THEN daemon ELSE Len(runners)
After == IF transport = "remote" THEN "fetch" ELSE "parse"

Answered ==
  /\ client.pc = "await" /\ runners[Mine].reply # Silence
  /\ client' = [client EXCEPT !.pc = After, !.answer = runners[Mine].reply]
  /\ runners' = [runners EXCEPT ![Mine].reply = Silence]
  /\ UNCHANGED <<daemon, capfile, input, told>> /\ ClientOnly

\* The end of the process's output without an answer.
Eof ==
  /\ client.pc = "await" /\ ~Alive(Mine) /\ runners[Mine].reply = Silence
  /\ IF transport = "daemon" THEN Died
     ELSE Goto(After) /\ UNCHANGED <<runners, daemon, told>>
  /\ UNCHANGED <<capfile, input>> /\ ClientOnly

\* Mutant of TimedOut: the server is left registered and running.
TimedOutKeeps ==
  /\ client.pc = "await"
  /\ client' = [client EXCEPT !.pc = After, !.late = TRUE]
  /\ UNCHANGED <<runners, daemon, capfile, input, told>> /\ ClientOnly

\* Mutant of TimedOut: a request waits for ever.
TimedOutNever == client.pc = "await" /\ FALSE /\ UNCHANGED vars

\* No answer in time (one may be on its way): the process is killed.
TimedOut ==
  /\ client.pc = "await" /\ transport # "remote"
  /\ client' = [client EXCEPT !.pc = After, !.late = TRUE]
  /\ runners' = Killed(Mine)
  /\ daemon' = 0
  /\ UNCHANGED <<capfile, input, told>> /\ ClientOnly

\* _run_local: the ssh client is killed, and the runner on the instance is not.
TimedOutRemote ==
  /\ client.pc = "await" /\ transport = "remote"
  /\ client' = [client EXCEPT !.pc = After, !.late = TRUE]
  /\ UNCHANGED <<runners, daemon, capfile, input, told>> /\ ClientOnly
-----------------------------------------------------------------------------
(* run_job_remote's steps before and after the run.                        *)

Fail == Tell(FALSE, << >>) /\ UNCHANGED <<runners, daemon, capfile, input>> /\ ClientOnly

\* Mutant of Gate: a clock that cannot be read is taken for a good one.
GateOpen ==
  /\ client.pc = "gate"
  /\ Goto("upload") /\ UNCHANGED <<runners, daemon, capfile, input, told>> /\ ClientOnly

\* check_tile_clock: the frequency is read and compared before a byte is
\* shipped; no expectation, no answer, no number or the wrong number refuses.
ClockRight == clock \in fly.expect

Gate ==
  /\ client.pc = "gate"
  /\ \/ ClockRight /\ Goto("upload")
        /\ UNCHANGED <<runners, daemon, capfile, input, told>> /\ ClientOnly
     \/ Fail

\* mkdir (retried once without the shared connection), then scp or a tar
\* stream: only when all of it arrived is the job's input on the instance.
Upload ==
  /\ client.pc = "upload"
  /\ \/ /\ Goto("exec") /\ input' = client.job
        /\ UNCHANGED <<runners, daemon, capfile, told>> /\ ClientOnly
     \/ Fail

\* The ssh command: remove the old capture file, then the runner on what the
\* directory holds.
Exec ==
  /\ client.pc = "exec"
  /\ capfile' = None
  /\ runners' = Append(Unlinked(runners), Fresh("run", input))
  /\ Goto("await")
  /\ UNCHANGED <<daemon, input, told>> /\ ClientOnly

\* ssh ended without the sentinel, or with a status of its own: the run
\* counts as failed and the runner may go on.
Truncated ==
  /\ client.pc = "await" /\ transport = "remote"
  /\ \E n \in {-1, 0} :
       client' = [client EXCEPT !.pc = "fetch", !.answer = [ran |-> 0, rc |-> 1, n |-> n]]
  /\ UNCHANGED <<runners, daemon, capfile, input, told>> /\ ClientOnly

Fetch ==
  /\ client.pc = "fetch"
  /\ \/ Goto("parse") /\ UNCHANGED told
     \/ Tell(~client.late, << >>)
  /\ UNCHANGED <<runners, daemon, capfile, input>> /\ ClientOnly

\* run_job_remote judges the fetched file the same way.
ParseRemote == transport = "remote" /\ Parsed

Client ==
  Submit \/ SubmitRemote \/ Acquire \/ Hello \/ Send \/ Launch \/ Answered \/ Eof \/ TimedOut
  \/ TimedOutRemote \/ Gate \/ Upload \/ Exec \/ Truncated \/ Fetch \/ Parse \/ ParseRemote

\* An image load between two jobs puts the tile clock back to its default.
LoseClock ==
  /\ transport = "remote" /\ clock # LoadDefault /\ client.pc = "ready"
  /\ \A p \in Pid : ~Alive(p)
  /\ clock' = LoadDefault
  /\ UNCHANGED <<transport, client, runners, daemon, tile, capfile, input, fly, told>>

Next == Client \/ LoseClock \/ \E p \in Pid : Runner(p)

Spec == Init /\ [][Next]_vars

\* The session's process is scheduled; no runner is promised to make a step.
FairSpec == Spec /\ WF_vars(Client)
-----------------------------------------------------------------------------
Own(job) == {{<<job, k>>} : k \in Payload}

\* A job reported ok was answered by its own run, and every value in it was
\* read from a tile that held that job's file and nothing else (the per-file
\* reset, the truncated capture file, the summary count, the restart and the
\* refusal to run on a failed upload together).  What is attributed to a file of
\* a batch, in partial and timed-out runs too, is that file's (demux_captures).
OkIsOwn ==
  /\ told.ok => told.ran = told.job /\ told.values \subseteq Own(told.job)
  /\ told.batchOk => \A k \in Payload : told.files[k].values = {{<<told.job, k>>}}
  /\ ~told.raised => \A k \in Payload :
       told.files[k].attributed => told.files[k].values \subseteq {{<<told.job, k>>}}

\* Two runners never drive one card at a time, and none runs at a clock faster
\* than the one its image was closed at, unless the caller named a frequency and
\* no image, whatever recipe was asked for and whatever reloaded the image since.
OneRunner ==
  /\ Cardinality({p \in Pid : runners[p].pc \in {"run", "reply"}}) <= 1
  /\ \A p \in Pid : runners[p].pc = "run" => clock <= fly.limit

\* Every job is answered, by a result or by an exception, whatever dies or
\* hangs on the card's side.
EveryJobTold == told.job # client.job ~> told.job = client.job
=============================================================================
