------------------------------- MODULE MCPorts -------------------------------
(* Five ports of services: three picked, one of them for an aware service, and two *)
(* with the same fixed number, again one of them aware; a group that re-exports    *)
(* ports, and one that re-exports those.                                           *)
EXTENDS Ports, TLC

CONSTANTS db, web, grpc, metrics, admin,\* ports of services
          pub, pubOfPub, dangling,      \* aliases
          added,                        \* a name nobody assigned at boot
          p1, p2, p3, p4, p5, p6

SomePorts == {p1, p2, p3, p4, p5, p6}
SomeNames == {db, web, grpc, metrics, admin, pub, pubOfPub, dangling, added}
FlagOf == [n \in {db, web, grpc, metrics, admin} |->
  IF n \in {metrics, admin} THEN p1 ELSE Zero]
AliasesOf == pub :> db @@ pubOfPub :> pub @@ dangling :> added

\* p1 is the port of a flag; the others are interchangeable.
Interchangeable == Permutations({p2, p3, p4, p5, p6})
=============================================================================
