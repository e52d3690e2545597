------------------------------- MODULE MCMxe -------------------------------
(***************************************************************************)
(* A two-by-two array with two accumulator rows and jobs of up to three    *)
(* chunks: a ragged last chunk, a narrow tile, an accumulating job and an  *)
(* illegal descriptor, in every program of two.                            *)
(***************************************************************************)
EXTENDS Mxe

Tile(op, m, k, n, accumulate) ==
  [op |-> op, m |-> m, k |-> k, n |-> n, accumulate |-> accumulate, buf |-> 0]

MCDescs ==
  {Tile("WS", 2, 3, 1, FALSE),
   Tile("OS", 2, 6, 2, TRUE),
   Tile("OS", 1, 2, 2, FALSE),
   Tile("WS", 2, 7, 2, FALSE)}
=============================================================================
