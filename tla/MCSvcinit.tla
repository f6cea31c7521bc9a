------------------------------ MODULE MCSvcinit ------------------------------
(* A database and, in parallel, a task that makes fixtures; a group of both; an *)
(* application that needs the group; a deferred service that needs that.       *)
EXTENDS Svcinit

CONSTANTS db, fixtures, app, grp, lazy

BootTargets == {db, fixtures, grp, app, lazy}

TypeOf == [t \in Targets |->
  CASE t \in {db, app, lazy} -> "service"
    [] t = fixtures -> "task"
    [] t = grp -> "group"]
DepsOf == [t \in Targets |->
  CASE t = grp -> {db, fixtures}
    [] t = app -> {grp}
    [] t = lazy -> {app}
    [] OTHER -> {}]
TimeoutOf == [t \in Targets |-> IF t = app THEN "valid" ELSE "none"]
=============================================================================
