-------------------------------- MODULE Ports --------------------------------
(***************************************************************************)
(* The ports of cmd/svcinit/main.go: the listener of the svcctl server,    *)
(* assignPorts, and what specs, tests and clients are told afterwards;     *)
(* with the services that bind the ports, again after every restart, and   *)
(* the other processes of the machine.                                     *)
(*                                                                         *)
(* A name is a fully-qualified port name: a label, or a label and the name *)
(* of a port or of an alias.  Its two spellings, with "." and with ":",    *)
(* are set together, to the same value, and are one name here.  Only       *)
(* groups have aliases and only services have ports (private/itest.bzl),   *)
(* so no name is both.  A reload assigns nothing: it substitutes the ports *)
(* of the boot into the new specs.                                         *)
(***************************************************************************)
CONSTANTS
  PortNumbers,   \* the TCP ports of 127.0.0.1
  Names,         \* the names that specs, tests and clients mention
  Assigned,      \* those of the specs' autoassign_port and named_ports
  Flag,          \* the value of the build flag behind a name: a port, or Zero
  Aware,         \* the names of services with so_reuseport_aware
  AliasOf,       \* port_aliases: the name that each alias stands for
  Zero, Unset, Empty   \* "0"; no map entry, or no socket yet; the empty string

Aliases == DOMAIN AliasOf

ASSUME NamesAssumption ==
  /\ Assigned \subseteq Names /\ Aware \subseteq Assigned
  /\ Aliases \subseteq Names \ Assigned
  /\ AliasOf \in [Aliases -> Names]
  /\ Flag \in [Assigned -> PortNumbers \cup {Zero}]
ASSUME ValuesAssumption ==
  Zero \notin PortNumbers /\ Unset \notin PortNumbers /\ Empty \notin PortNumbers \cup {Unset}

VARIABLES
  pc,        \* main: "assign", "close" and "alias" are assignPorts' loops; "up";
             \* "panicked" (must)
  left,      \* the names the current loop has not come to
  ports,     \* the map svclib.Ports
  sock,      \* the port the listener of a name was bound to
  open,      \* the names whose listener is open
  svcctl,    \* the port of the svcctl server
  bound,     \* the names whose service listens on its port
  strangers  \* the ports held by processes svcinit does not know

vars == <<pc, left, ports, sock, open, svcctl, bound, strangers>>
kernel == <<sock, open, svcctl, bound, strangers>>

TypeOK ==
  /\ pc \in {"assign", "close", "alias", "up", "panicked"}
  /\ left \in SUBSET Names
  /\ ports \in [Names -> PortNumbers \cup {Unset, Empty}]
  /\ sock \in [Assigned -> PortNumbers \cup {Unset}]
  /\ open \in SUBSET Assigned
  /\ svcctl \in PortNumbers \cup {Unset}
  /\ bound \in SUBSET Assigned
  /\ strangers \in SUBSET PortNumbers

\* The machine may run anything before svcinit starts.
Init ==
  /\ pc = "assign" /\ left = Assigned
  /\ ports = [n \in Names |-> Unset]
  /\ sock = [n \in Assigned |-> Unset]
  /\ open = {} /\ bound = {}
  /\ svcctl = Unset
  /\ strangers \in SUBSET PortNumbers

-----------------------------------------------------------------------------
(* The kernel: which binds succeed. *)

\* No socket is bound to p: any bind to it succeeds, and a bind to port 0 may get it.
Free(p) ==
  /\ p # svcctl /\ p \notin strangers
  /\ \A n \in open : sock[n] # p
  /\ \A n \in bound : ports[n] # p

Sharable_NoReuseport(p) == Free(p)   \* mutant: assignPorts does not set SO_REUSEPORT

\* Every socket bound to p, if any, has SO_REUSEPORT: so does every listener of
\* assignPorts, but not the svcctl server's nor, it is assumed, a stranger's.
Sharable(p) ==
  /\ p # svcctl /\ p \notin strangers
  /\ \A n \in bound \ Aware : ports[n] # p

Running == pc # "panicked"

-----------------------------------------------------------------------------
(* svcinit. *)

\* net.Listen("tcp", "127.0.0.1:0"), for svcctl.
ListenSvcctl ==
  /\ Running /\ svcctl = Unset
  /\ \E p \in PortNumbers : Free(p) /\ svcctl' = p
  /\ UNCHANGED <<pc, left, ports, sock, open, bound, strangers>>

\* "Make sure we grab the svcctl port before we assign test ports".
SvcctlFirst_Dropped == TRUE   \* mutant
SvcctlFirst == svcctl # Unset

Offered_FlagKept(n) == {Flag[n]}   \* mutant: the flag's value, not the listener's port

\* The ports lc.Listen may return a listener on: SO_REUSEPORT is set before the bind,
\* but the kernel looks for an unused port when it is asked for any.
Offered(n) ==
  IF Flag[n] = Zero THEN {p \in PortNumbers : Free(p)}
  ELSE {p \in {Flag[n]} : Sharable(p)}

\* The listeners that are open once there is one for n.
Holding_Closed(n) == open   \* mutant: a listener is closed in its own turn of the loop
Holding(n) == open \cup {n}

\* One turn of the assignment loop; the maps are iterated in any order.
Assign(n) ==
  /\ pc = "assign" /\ SvcctlFirst
  /\ n \in left
  /\ \E p \in Offered(n) :
       /\ sock' = [sock EXCEPT ![n] = p]
       /\ ports' = [ports EXCEPT ![n] = p]
  /\ open' = Holding(n)
  /\ left' = left \ {n}
  /\ UNCHANGED <<pc, svcctl, bound, strangers>>

\* Listen fails: must(err).
AssignFails(n) ==
  /\ pc = "assign" /\ SvcctlFirst
  /\ n \in left /\ Offered(n) = {}
  /\ pc' = "panicked"
  /\ UNCHANGED <<left, ports, kernel>>

\* The listeners that assignPorts keeps, to close them at the end.
ToClose == Assigned \ Aware

\* Nothing keeps an aware name's: no variable refers to it after its turn of the loop,
\* and the finalizer net sets on every socket closes it at some garbage collection.
Collect(n) ==
  /\ Running /\ n \in open \ ToClose
  /\ open' = open \ {n}
  /\ UNCHANGED <<pc, left, ports, sock, svcctl, bound, strangers>>

\* Every port is assigned: on to the second loop.
AllAssigned ==
  /\ pc = "assign" /\ SvcctlFirst /\ left = {}
  /\ pc' = "close" /\ left' = ToClose
  /\ UNCHANGED <<ports, kernel>>

Close(n) ==
  /\ pc = "close" /\ n \in left
  /\ open' = open \ {n}
  /\ left' = left \ {n}
  /\ UNCHANGED <<pc, ports, sock, svcctl, bound, strangers>>

AllClosed ==
  /\ pc = "close" /\ left = {}
  /\ pc' = "alias" /\ left' = Aliases
  /\ UNCHANGED <<ports, kernel>>

\* ports[name] of a Go map: no entry is the empty string.  Also what $${PORT} becomes
\* and what get_assigned_port prints.
Lookup(n) == IF ports[n] = Unset THEN Empty ELSE ports[n]

Aliased_Swapped(a) ==   \* mutant: the arguments of Set are exchanged
  [ports EXCEPT ![AliasOf[a]] = Lookup(a)]
Aliased(a) == [ports EXCEPT ![a] = Lookup(AliasOf[a])]

\* One turn of the alias loop, in any order: an alias of an alias that comes first
\* gets the empty string.
Alias(a) ==
  /\ pc = "alias" /\ a \in left
  /\ ports' = Aliased(a)
  /\ left' = left \ {a}
  /\ UNCHANGED <<pc, kernel>>

\* ASSIGNED_PORTS is set, the ports are substituted into the specs, StartAll follows.
AllAliased ==
  /\ pc = "alias" /\ left = {}
  /\ pc' = "up"
  /\ UNCHANGED <<left, ports, kernel>>

\* What the placeholder of a name becomes (Unset: it stays), and what /v0/port answers
\* (Unset: 400, "port is not autoassigned").
Told(n) == ports[n]

-----------------------------------------------------------------------------
(* Services and other processes. *)

\* Whether the service of n can bind its port.
CanBind(n) == IF n \in Aware THEN Sharable(ports[n]) ELSE Free(ports[n])

\* A service that was started binds its port, if it can.
Bind(n) ==
  /\ pc = "up" /\ n \in Assigned \ bound
  /\ CanBind(n)
  /\ bound' = bound \cup {n}
  /\ UNCHANGED <<pc, left, ports, sock, open, svcctl, strangers>>

\* A service ends.
Unbind(n) ==
  /\ pc = "up" /\ n \in bound
  /\ bound' = bound \ {n}
  /\ UNCHANGED <<pc, left, ports, sock, open, svcctl, strangers>>

StrangerBinds ==
  /\ Running
  /\ \E p \in PortNumbers : Free(p) /\ strangers' = strangers \cup {p}
  /\ UNCHANGED <<pc, left, ports, sock, open, svcctl, bound>>

StrangerCloses ==
  /\ Running
  /\ \E p \in strangers : strangers' = strangers \ {p}
  /\ UNCHANGED <<pc, left, ports, sock, open, svcctl, bound>>

Terminated == ~Running /\ UNCHANGED vars

Next ==
  \/ ListenSvcctl
  \/ \E n \in Assigned : Assign(n) \/ AssignFails(n) \/ Close(n) \/ Collect(n)
  \/ \E n \in Assigned : Bind(n) \/ Unbind(n)
  \/ \E a \in Aliases : Alias(a)
  \/ AllAssigned \/ AllClosed \/ AllAliased
  \/ StrangerBinds \/ StrangerCloses
  \/ Terminated

Spec == Init /\ [][Next]_vars

-----------------------------------------------------------------------------
Picked(n) == Flag[n] = Zero

\* "the service manager will pick a free port and assign it to the service"
\* (private/itest.bzl:241): no two names for which it picks a port get the same one,
\* although nothing is bound to it again before the services start.  Except by way of
\* an aware name, whose listener may be collected while others are still assigned.
AssignedApart ==
  \A n, m \in Assigned :
    /\ Picked(n) /\ Picked(m) /\ n # m
    /\ sock[n] = sock[m] /\ sock[n] # Unset
    => {n, m} \cap Aware # {}

\* "otherwise we might steal an assigned port by accident" (main.go:120): no assigned
\* port, picked or fixed, is that of the svcctl server.
SvcctlApart == \A n \in Assigned : sock[n] # Unset => sock[n] # svcctl

\* While svcinit's listener is open an aware service can bind its port whenever it starts,
\* whatever it was stopped and restarted for and whatever others have bound meanwhile.
HeldCanBind == pc = "up" => \A n \in Aware \cap open : CanBind(n)

\* "the service manager will not release the autoassigned port" (private/itest.bzl:265):
\* so at any time.
AwareCanBind == pc = "up" => \A n \in Aware : CanBind(n)

\* Once services are started, a port is told to others as the one svcinit bound, and
\* an alias as the port it stands for: never as the port of another name.  An alias
\* of an alias may be empty.
NamesResolve ==
  pc = "up" =>
    /\ \A n \in Assigned : Told(n) = sock[n]
    /\ \A a \in Aliases :
         CASE AliasOf[a] \in Assigned -> Told(a) = sock[AliasOf[a]]
           [] AliasOf[a] \in Aliases -> Told(a) \in {Told(AliasOf[a]), Empty}
           [] OTHER -> Told(a) = Empty
    /\ \A n \in Names \ (Assigned \cup Aliases) : Told(n) = Unset /\ Lookup(n) = Empty

=============================================================================
