--------------------------- MODULE MCPromptSession ---------------------------
(* Three prompts: one that ends early, one the bus mode moves, one too long. *)
EXTENDS PromptSession

CONSTANTS short, moved, long

MCPrompts == {short, moved, long}
MCPromptLen(p) == CASE p = short -> 1 [] p = moved -> 2 [] p = long -> 4
MCEosAt(p) == IF p = short THEN 1 ELSE 2
MCBusMoves(p) == p = moved
MCStepChoices == {-2, LastStep, 0, 1}
=============================================================================
