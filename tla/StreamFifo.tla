---------------------------- MODULE StreamFifo ----------------------------
(***************************************************************************)
(* What a clocked valid/ready stream stage promises (ARCHITECTURE.md       *)
(* section 5): a first-in first-out queue of bounded depth.  In a cycle    *)
(* the producer may hand over a beat if the queue has room at the start of *)
(* the cycle, and the consumer may take the oldest beat, both at once.     *)
(***************************************************************************)
EXTENDS Sequences, Naturals

CONSTANTS Beat, Depth

VARIABLE fifo

FifoInit == fifo = << >>

Put(b) == Len(fifo) < Depth /\ fifo' = Append(fifo, b)

Take == fifo # << >> /\ fifo' = Tail(fifo)

PutAndTake(b) ==
  /\ fifo # << >>
  /\ Len(fifo) < Depth
  /\ fifo' = Append(Tail(fifo), b)

FifoNext == Take \/ \E b \in Beat : Put(b) \/ PutAndTake(b)

FifoSpec == FifoInit /\ [][FifoNext]_fifo
=============================================================================
