---------------------------- MODULE MCLayerReplay ----------------------------
(* Programs of the split projection are twice as long as the others.        *)
EXTENDS LayerReplay

MCBytes(p) == IF p[1] = "Wq" THEN 2 ELSE 1
MCLimits == {1, 3}
MCScopes == {OpTypes, {"proj", "rope", "attn", "resid"}, OpTypes \ {"proj"}}
MCRefusals == {{}, {"r1"}}
MCFaults == {{}, {"norm2"}, {"r1"}}
=============================================================================
