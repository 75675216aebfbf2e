---------------------------- MODULE MCOrderFanout ----------------------------
(* An instance of OrderFanout for TLC: an order that is shipped and one that *)
(* is cancelled, as seen by a slow service and one with two consumers.       *)
EXTENDS OrderFanout

MCServices == {"payment", "notification"}
MCEvents == {"created", "shipped", "cancelled"}
MCType == [created |-> "ORDER_CREATED", shipped |-> "ORDER_SHIPPED",
           cancelled |-> "ORDER_CANCELLED"]
=============================================================================
