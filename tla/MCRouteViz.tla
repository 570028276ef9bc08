----------------------------- MODULE MCRouteViz -----------------------------
(* Two routes of different lengths, the shorter one a single step.          *)
EXTENDS RouteViz

MCRoutes == {"short", "long"}

MCSteps == [r \in MCRoutes |-> IF r = "short" THEN 1 ELSE 2]
=============================================================================
