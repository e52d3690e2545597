----------------------------- MODULE MCTokenLoop -----------------------------
(* Runs of token_loop.py that meet its gates, modes and limits.            *)
EXTENDS TokenLoop

Plain == [engine |-> "hw", mask |-> "b", tier |-> "kvq8", ffn |-> FALSE, fast |-> 0, probes |-> {},
          players |-> Layers, ddr |-> TRUE, ffnddr |-> TRUE, image |-> "built", chunks |-> 1,
          cache |-> "default", batch |-> TRUE,
          weights |-> "own", binary |-> TRUE, committed |-> TRUE, ids |-> 1, tokens |-> 3]

Plainly == {[Plain EXCEPT !.engine = e, !.mask = m, !.cache = c] :
            e \in {"host", "sim", "hw"}, m \in {"b", "e7"}, c \in {"default", "on", "verify"}}
         \cup {[Plain EXCEPT !.mask = m, !.batch = FALSE, !.tokens = 2] : m \in {"b", "e7"}}
Fast == {[Plain EXCEPT !.engine = e, !.fast = n, !.ddr = d, !.ffn = f, !.mask = m, !.tokens = 2] :
           e \in {"sim", "hw"}, n \in {1, 2}, d \in BOOLEAN, f \in BOOLEAN, m \in {"b", "e7"}}
Probes == {[Plain EXCEPT !.engine = e, !.probes = s, !.players = l, !.fast = n, !.mask = m] :
             e \in {"host", "sim", "hw"}, s \in {{2}, {1, 3}}, l \in {{1}, Layers},
             n \in {0, 1}, m \in {"b", "e7"}}
Ffn == {[Plain EXCEPT !.engine = e, !.ffn = TRUE, !.mask = m, !.image = i, !.ffnddr = d, !.chunks = c,
                      !.batch = b, !.tokens = 2] :
          e \in {"host", "sim", "hw"}, m \in {"b", "e7"}, i \in {"built", "rebuilt"}, d \in BOOLEAN,
          c \in {0, 1}, b \in BOOLEAN}
Limits == {[Plain EXCEPT !.engine = e, !.ids = p, !.tokens = n, !.mask = "e7"] :
             e \in {"host", "sim", "hw"}, p \in {2, 3}, n \in {1, 3}}
Substrate ==
  {[Plain EXCEPT !.engine = e, !.weights = "other", !.tokens = 1] : e \in {"host", "sim", "hw"}}
  \cup {[Plain EXCEPT !.engine = e, !.binary = FALSE, !.committed = FALSE, !.tokens = 1] :
          e \in {"sim", "hw"}}
  \cup {[Plain EXCEPT !.ffn = TRUE, !.image = "foreign", !.engine = e, !.tokens = 1] :
          e \in {"sim", "hw"}}
  \cup {[Plain EXCEPT !.players = {1}], [Plain EXCEPT !.probes = {1}, !.players = {1, 3}]}

TheRuns == Plainly \cup Fast \cup Probes \cup Ffn \cup Limits \cup Substrate
=============================================================================
