---------------------------- MODULE SkidChannel ----------------------------
(***************************************************************************)
(* A producer, one stream_skid and a consumer, clocked together.  The      *)
(* producer keeps the stream discipline (a beat offered and not accepted   *)
(* stays offered); the consumer's ready is arbitrary in every cycle.       *)
(***************************************************************************)
EXTENDS StreamSkid

CONSTANT MaxBeats   \* bound of the model: beats the producer ever offers

\* The empty register is none of the payloads: the theorems assume it.
NoBeatOutside == NoBeat \notin Beat

VARIABLES skid,     \* the two registers
          offer,    \* s_data under s_valid
          sent,     \* history: beats accepted upstream
          received  \* history: beats accepted downstream

vars == <<skid, offer, sent, received>>

Init ==
  /\ skid = EmptySkid
  /\ offer = NoBeat
  /\ sent = << >>
  /\ received = << >>

SAccept == offer # NoBeat /\ SReady(skid)

\* What the producer drives next: it may not retract a beat still waiting.
NextOffer ==
  IF offer # NoBeat /\ ~SReady(skid)
  THEN offer' = offer
  ELSE \/ offer' = NoBeat
       \/ Len(sent') < MaxBeats /\ offer' \in Beat

Clock(mReady) ==
  /\ skid' = Advance(skid, offer, mReady)
  /\ sent' = IF SAccept THEN Append(sent, offer) ELSE sent
  /\ received' = IF MValid(skid) /\ mReady THEN Append(received, skid.out) ELSE received
  /\ NextOffer

Stall == Clock(FALSE)
Drain == Clock(TRUE)

Next == Stall \/ Drain

Spec == Init /\ [][Next]_vars

\* A consumer that is ready again and again: every clock edge happens, and
\* ready is not withheld for ever.
FairSpec == Spec /\ WF_vars(Drain)

-----------------------------------------------------------------------------
TypeOK ==
  /\ skid \in SkidState
  /\ offer \in Slot
  /\ sent \in Seq(Beat)
  /\ received \in Seq(Beat)

\* No beat is lost, duplicated or reordered by any pattern of backpressure:
\* what was accepted upstream is what was delivered followed by what is held
\* (stream_skid's two load paths and its one drain path).
InOrder == sent = received \o Held(skid)

\* The backup register is used only behind a waiting output beat, so a
\* consumer that sees m_valid low has not been overtaken by a stored beat.
NoHiddenBeat == skid.back # NoBeat => skid.out # NoBeat

\* REQ-PROTO-002: a beat on the output is neither withdrawn nor changed
\* until the cycle in which it is accepted.
NoRetraction ==
  [][MValid(skid) /\ received' = received => skid'.out = skid.out]_vars

\* The skid is a two-deep FIFO: ready exactly while it holds fewer than two
\* beats, valid exactly while it holds one.
Fifo == INSTANCE StreamFifo WITH fifo <- Held(skid), Depth <- 2

FifoRefinement == Fifo!FifoSpec

=============================================================================
