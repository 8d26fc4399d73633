--------------------------- MODULE MCRuntimeConfig ---------------------------
(* Layers with at most one override per layer, so that two settings meet.   *)
EXTENDS RuntimeConfig

MCNaN == -99999

\* Below, at and inside the band, its bounds, the thresholds, and the specials.
Ratios == {MCNaN, -5, 0, 5, 200, 225, 320, 350, 680, 800, 1000, 1205}
Counts == {-1, 0, 1, 5, 6, 100, 101}

ValuesOf(s) ==
  IF s \in Durations \union {"RelaxedConfirmations", "SuppressSmoothingSamples",
                             "Workers", "Quantum", "EstimatorInterval"}
  THEN Counts ELSE Ratios

Single(s, v) == [x \in {s} |-> v]

Layers(settings) ==
  {[Empty EXCEPT !.numbers = Single(p[1], p[2])] :
      p \in UNION {{s} \X ValuesOf(s) : s \in settings}}
  \union {[Empty EXCEPT !.texts = Single(s, v)] : s \in {"Bind", "Region"}, v \in {"", "x"}}
  \union {[Empty EXCEPT !.flags = Single("Offline", v)] : v \in BOOLEAN}
  \union {Empty}

MCFiles == Layers(Numbers)
MCEnvironments ==
  Layers(Numbers \ FileOnly)
    \union {[l EXCEPT !.bad = DOMAIN l.numbers] :
              l \in {l1 \in Layers({"TargetStart", "Workers"}) : DOMAIN l1.numbers # {}}}
=============================================================================
