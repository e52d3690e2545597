----------------------------- MODULE StreamSkid -----------------------------
(***************************************************************************)
(* The two-register skid buffer rtl/xbr/stream_skid.sv as a value: every   *)
(* external and inter-block stream of the tile crosses one, so the modules *)
(* that own a stream hold a record of this kind and step it with Advance.  *)
(*                                                                         *)
(* A register and its valid bit are one slot: a beat, or NoBeat when the   *)
(* valid bit is low (the stale payload under a low valid is never read).   *)
(***************************************************************************)
EXTENDS Sequences, Naturals

CONSTANTS Beat,    \* the payloads a stream carries
          NoBeat   \* an empty register: its valid bit is low

Slot == Beat \cup {NoBeat}

\* out is m_data under m_valid, back is skid_data under skid_valid.
SkidState == [out : Slot, back : Slot]

EmptySkid == [out |-> NoBeat, back |-> NoBeat]

SReady(q) == q.back = NoBeat
MValid(q) == q.out # NoBeat

\* One clock edge: s is the beat offered upstream (NoBeat when s_valid is
\* low), mReady is the consumer's ready in the cycle before the edge.
Advance(q, s, mReady) ==
  IF mReady \/ ~MValid(q)
  THEN IF SReady(q)
       THEN [out |-> s, back |-> NoBeat]
       ELSE [out |-> q.back, back |-> NoBeat]
  ELSE IF SReady(q) THEN [out |-> q.out, back |-> s] ELSE q

\* The beats inside, oldest first, and their number.  (A beat in the backup
\* register alone would be out of sight: NoHiddenBeat of SkidChannel.)
Held(q) ==
  IF ~MValid(q) THEN << >>
  ELSE IF SReady(q) THEN <<q.out>> ELSE <<q.out, q.back>>

Occupancy(q) == Len(Held(q))
=============================================================================
