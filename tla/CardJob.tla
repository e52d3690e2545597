------------------------------ MODULE CardJob -------------------------------
(***************************************************************************)
(* One job on the card: the batch batch_exec.py plans (boundary markers    *)
(* around the job's files), the script f2_host_run.py makes of it (a reset *)
(* before every file), and how the merged capture stream is split again.   *)
(***************************************************************************)
EXTENDS Naturals, Sequences, FiniteSets, SequencesExt

CONSTANTS Files,   \* regops files of a job
          Caps     \* captures each of them programs

ASSUME FilesAssumption == Files \in Nat \ {0}
ASSUME CapsAssumption == Caps \in Nat \ {0}

\* plan_batch: marker 0, file 1, marker 1, ..., file n, marker n.  The marker
\* carries the batch's nonce, for which the job's number stands.
Payload == 1 .. Files
Parts == 1 .. 2 * Files + 1
IsMarker(part) == part % 2 = 1
Number(part) == part \div 2    \* of the marker or of the file

\* _execute_job: every file, marker files too, starts from a tile reset.
Script(part) ==
  IF IsMarker(part) THEN <<"reset", "mark">>
  ELSE <<"reset", "load">> \o [i \in 1 .. Caps |-> "cap"]

\* Capture tags: a job's own counters restart, so the files of a batch and
\* the jobs of a session use the same tags; only markers are unique.
MarkTag(job, k) == <<"mark", job, k>>
CapTag(i) == <<"cap", i>>
Manifest == [i \in 1 .. Caps |-> CapTag(i)]

\* audit and parse work on [tag, value] records in execution order.
MarksOf(caps, job) == {i \in DOMAIN caps : caps[i].tag[1] = "mark" /\ caps[i].tag[2] = job}

MarksBefore(caps, job, i) == Cardinality({m \in MarksOf(caps, job) : m <= i})

\* demux_captures raises for a stream it cannot split: a marker out of its
\* turn, or a capture before the first marker or after the last.
Splits(caps, job) ==
  \A i \in DOMAIN caps :
    IF i \in MarksOf(caps, job)
    THEN caps[i].tag[3] = MarksBefore(caps, job, i) - 1
    ELSE MarksBefore(caps, job, i) \in 1 .. Files

\* Where a marker is in the stream; past its end when it is not there.
MarkAt(caps, job, k) ==
  CHOOSE i \in 1 .. Len(caps) + 1 :
    /\ i <= Len(caps) => caps[i].tag = MarkTag(job, k)
    /\ \A j \in 1 .. i - 1 : caps[j].tag # MarkTag(job, k)

\* Mutant of Segment: the window of the file before.
SegmentLate(caps, job, k) == SubSeq(caps, MarkAt(caps, job, k) + 1, MarkAt(caps, job, k + 1) - 1)

\* What came between a file's two markers.
Segment(caps, job, k) == SubSeq(caps, MarkAt(caps, job, k - 1) + 1, MarkAt(caps, job, k) - 1)

TagsOf(seg) == [n \in DOMAIN seg |-> seg[n].tag]

\* A file's result: its captures, whether they are all there, and whether
\* they are provably its own (its manifest, or a prefix of it).
FileResult(caps, job, k) ==
  LET seg == Segment(caps, job, k)
  IN  [values |-> {seg[n].value : n \in DOMAIN seg},
       complete |-> TagsOf(seg) = Manifest,
       attributed |-> IsPrefix(TagsOf(seg), Manifest)]

Demux(caps, job) == [k \in Payload |-> FileResult(caps, job, k)]

DemuxOk(caps, job) ==
  /\ Cardinality(MarksOf(caps, job)) = Files + 1
  /\ \A k \in Payload : Demux(caps, job)[k].complete
=============================================================================
