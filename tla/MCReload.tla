------------------------------ MODULE MCReload ------------------------------
(* A group over a service and a task, and a deferred, hot-reloadable service. *)
EXTENDS Reload

CONSTANTS grp, srv, job, lazy

Svc(deps, def, version, hot, deferred) ==
  [type |-> "service", deps |-> deps, def |-> def, version |-> version,
   hot |-> hot, deferred |-> deferred]
Task(deps, version) == [Svc(deps, "d1", version, FALSE, FALSE) EXCEPT !.type = "task"]
Group(deps) == [Svc(deps, "d1", "v1", FALSE, FALSE) EXCEPT !.type = "group"]

Map2(a, x, b, y) == [l \in {a, b} |-> IF l = a THEN x ELSE y]
Map4(g, s, j, z) ==
  [l \in {grp, srv, job, lazy} |->
     CASE l = grp -> g [] l = srv -> s [] l = job -> j [] l = lazy -> z]

\* The first file; the service rebuilt, the deferred one rebuilt; the deferred one
\* redefined as well.
File1 == Map4(Group({srv, job}), Svc({}, "d1", "v1", FALSE, FALSE), Task({srv}, "v1"),
              Svc({srv}, "d1", "v1", TRUE, TRUE))
File2 == Map4(Group({srv, job}), Svc({}, "d1", "v2", FALSE, FALSE), Task({srv}, "v1"),
              Svc({srv}, "d1", "v2", TRUE, TRUE))
File3 == Map4(Group({srv, job}), Svc({}, "d2", "v1", FALSE, FALSE), Task({srv}, "v2"),
              Svc({}, "d2", "v2", TRUE, TRUE))
\* Without the group, and without the task.
File4 == Map2(srv, Svc({}, "d1", "v3", FALSE, FALSE), job, Task({}, "v1"))
File5 == Map2(srv, Svc({}, "d2", "v2", FALSE, FALSE), lazy, Svc({}, "d2", "v1", TRUE, TRUE))

MCFiles == {File1, File2, File3, File4, File5}
Empty == [l \in {} |-> 0]
=============================================================================
