------------------------------ MODULE MCBroker ------------------------------
(* A finite instance of Broker: one lease with all three caps.  Requests    *)
(* through different leases share nothing but the clock.                    *)
EXTENDS Broker

Each(n) == [l \in Lease |-> n]
TwoUses == Each(2)
TwoPerWindow == Each(2)
TwoInFlight == Each(2)
=============================================================================
