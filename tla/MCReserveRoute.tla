----------------------------- MODULE MCReserveRoute -----------------------------
(* An instance of ReserveRoute for TLC: an order of two lines and HTTP callers *)
(* compete for one product.  A behaviour has either two handlers of both       *)
(* events or the calls of the route beside one handler of one event.           *)
EXTENDS ReserveRoute, TLC

CONSTANTS o1, p1, d1, d2, r1

OneItem == [product |-> p1, quantity |-> 1]
TwoLines == o1 :> <<OneItem, OneItem>>
Wants == r1 :> OneItem

VARIABLE busy

Bounded ==
  /\ busy = "handlers" => calls = 0
  /\ busy = "calls" =>
       /\ consumer[d2] = "starting" /\ pc[d2] = "idle"
       /\ \A e \in Events : copies[e] > 0 => e.type = "ORDER_CREATED"

BoundedInit == RouteInit /\ busy \in {"handlers", "calls"}
BoundedNext == UNCHANGED busy /\ RouteNext /\ Bounded'

\* No step that fairness asks for is one that the bound forbids.
BoundedSpec == BoundedInit /\ [][BoundedNext]_<<allVars, busy>> /\ RouteFairness
=============================================================================
