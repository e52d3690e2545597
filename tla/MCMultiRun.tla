------------------------------ MODULE MCMultiRun ------------------------------
(***************************************************************************)
(* Three rows in slices of two.  The composition leaves the best row or    *)
(* moves it; a reconstructed family moves it elsewhere; a wrong value      *)
(* leaves it, so that only the grades can tell.                            *)
(***************************************************************************)
EXTENDS MultiRun

MCHeadAcc(h) == CASE h = "golden" -> (0 :> 3) @@ (1 :> 5) @@ (2 :> 4)
                  [] h = "bus" -> (0 :> 3) @@ (1 :> 6) @@ (2 :> 4)
                  [] h = "moved" -> (0 :> 3) @@ (1 :> 4) @@ (2 :> 6)
                  [] h = "recon" -> (0 :> 7) @@ (1 :> 4) @@ (2 :> 6)
                  [] OTHER -> (0 :> 2) @@ (1 :> 5) @@ (2 :> 1)
=============================================================================
