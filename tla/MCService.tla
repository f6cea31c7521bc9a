------------------------------ MODULE MCService ------------------------------
(* The specs of a service that lead through different code. *)
EXTENDS ServiceInstance

Booted == [deferred |-> FALSE, needsBooted |-> FALSE, check |-> "logged",
           timeout |-> TRUE, parses |-> TRUE]
\* shutdown_timeout = "4d", one of the examples in the attribute's doc.
Unparsable == [Booted EXCEPT !.parses = FALSE, !.timeout = FALSE]
OnDemand == [Booted EXCEPT !.deferred = TRUE, !.needsBooted = TRUE]
Lone == [OnDemand EXCEPT !.needsBooted = FALSE]

BootedSpecs == {Booted}
AllSpecs == {Booted, Unparsable, OnDemand}
LoneSpecs == {Lone}
=============================================================================
