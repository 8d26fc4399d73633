--------------------------- MODULE MCMetricsQuery ---------------------------
(* 41 datapoints, so that the rank leaves one and two of them above; ties,  *)
(* absent fields, timestamps out of order, empty pages and small windows.   *)
EXTENDS MetricsQuery

MCDatapoints == 1 .. 41
MCValue == [d \in MCDatapoints |->
  IF d = 41 THEN NoValue ELSE IF d > 37 THEN 100 + d ELSE (d * 7) % 5]
MCTime == [d \in MCDatapoints |-> IF d = 40 THEN NoValue ELSE (d * 11) % 43]

Cut(n, k) == <<1 .. k, (k + 1) .. n>>

MCLayouts ==
  {Cut(n, k) : n \in {1, 2, 19, 20, 21, 38, 39, 41}, k \in {0, 1, 20}}
    \union {<<1 .. 5, {}, 30 .. 41>>, <<36 .. 39, 1 .. 18, 20 .. 30>>,
            <<{}>>, <<{40}, {41}>>, <<{38}>>, <<{37, 38}, {39}, 1 .. 17>>}
=============================================================================
