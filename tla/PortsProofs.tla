----------------------------- MODULE PortsProofs -----------------------------
(***************************************************************************)
(* Proofs about Ports, for any names, flags, aliases and port numbers.     *)
(*                                                                         *)
(* IInv relates main's program counter to the sockets: while the           *)
(* assignment loop runs, the names it has come to have a listener, and     *)
(* only an aware name's may be gone, collected; afterwards no other name   *)
(* has one.  A port with a listener no stranger has, and no service that   *)
(* is not aware.  In the alias loop the entries of the aliases it has not  *)
(* come to are unset.                                                      *)
(***************************************************************************)
EXTENDS Ports, TLAPS

\* Which listeners are open, from where main is.
Listeners ==
  /\ pc = "assign" =>
       /\ left \subseteq Assigned
       /\ ToClose \ left \subseteq open /\ open \subseteq Assigned \ left
       /\ \A n \in Assigned : sock[n] = Unset <=> n \in left
  /\ pc = "close" => left \subseteq ToClose /\ open \subseteq Aware \cup left
  /\ pc = "alias" => left \subseteq Aliases
  /\ pc \in {"alias", "up"} => open \subseteq Aware
  /\ pc \in {"close", "alias", "up"} => \A n \in Assigned : sock[n] # Unset
  /\ bound # {} => pc = "up"

\* What is known of the sockets.
Sockets ==
  /\ \A n \in Assigned : ports[n] = sock[n]
  /\ svcctl = Unset => \A n \in Assigned : sock[n] = Unset
  /\ \A n \in open : sock[n] # Unset /\ sock[n] \notin strangers
  /\ \A n \in open, m \in bound : ports[m] = sock[n] => m \in Aware

\* The entry of an alias, once the alias loop has come to it: the port it stands for,
\* or the empty string if that was not set yet.
AliasSet(a) ==
  /\ ports[a] # Unset
  /\ AliasOf[a] \in Assigned => ports[a] = sock[AliasOf[a]]
  /\ AliasOf[a] \in Aliases => ports[a] \in {ports[AliasOf[a]], Empty}
  /\ AliasOf[a] \notin Assigned \cup Aliases => ports[a] = Empty

\* Which names besides the assigned ones have an entry.
Entries ==
  /\ \A n \in Names \ (Assigned \cup Aliases) : ports[n] = Unset
  /\ pc \in {"assign", "close"} => \A a \in Aliases : ports[a] = Unset
  /\ pc = "alias" => \A a \in Aliases : IF a \in left THEN ports[a] = Unset ELSE AliasSet(a)
  /\ pc = "up" => \A a \in Aliases : AliasSet(a)

IInv == TypeOK /\ Listeners /\ Sockets /\ Entries /\ AssignedApart /\ SvcctlApart

-----------------------------------------------------------------------------

LEMMA InitIInv == Init => IInv
<1> SUFFICES ASSUME Init PROVE IInv
  OBVIOUS
<1> USE NamesAssumption, ValuesAssumption DEF Init
<1>1. TypeOK
  BY DEF TypeOK
<1>2. Listeners /\ Sockets /\ Entries
  BY DEF Listeners, Sockets, Entries, Aliases, ToClose
<1>3. AssignedApart /\ SvcctlApart
  BY DEF AssignedApart, SvcctlApart
<1> QED BY <1>1, <1>2, <1>3 DEF IInv

\* What the kernel offers for a name is a port that is neither svcctl's nor a
\* stranger's, and one no listener has if any port will do.
LEMMA OfferedPorts ==
  ASSUME IInv, NEW n \in Assigned, NEW p, p \in Offered(n)
  PROVE  /\ p \in PortNumbers /\ p # svcctl /\ p \notin strangers
         /\ Picked(n) => \A m \in open : sock[m] # p
<1>1. CASE Flag[n] = Zero
  BY <1>1 DEF Offered, Free
<1>2. CASE Flag[n] # Zero
  BY <1>2, NamesAssumption DEF Offered, Sharable, Picked
<1> QED BY <1>1, <1>2

LEMMA AssignIInv ==
  ASSUME IInv, NEW n \in Assigned, Assign(n) PROVE IInv'
<1>1. PICK p : /\ p \in Offered(n)
               /\ sock' = [sock EXCEPT ![n] = p]
               /\ ports' = [ports EXCEPT ![n] = p]
  BY DEF Assign
<1>2. /\ p \in PortNumbers /\ p # svcctl /\ p \notin strangers
      /\ Picked(n) => \A m \in open : sock[m] # p
  BY <1>1, OfferedPorts
<1>3. /\ pc = "assign" /\ n \in left /\ svcctl # Unset
      /\ open' = open \cup {n} /\ left' = left \ {n}
      /\ UNCHANGED <<pc, svcctl, bound, strangers>>
  BY DEF Assign, Holding, SvcctlFirst
<1>4. bound = {}
  BY <1>3 DEF IInv, Listeners
<1>5. \A m \in Assigned : sock'[m] = IF m = n THEN p ELSE sock[m]
  BY <1>1 DEF IInv, TypeOK
<1>6. \A m \in Assigned : ports'[m] = IF m = n THEN p ELSE ports[m]
  BY <1>1, NamesAssumption DEF IInv, TypeOK
<1>7. p # Unset
  BY <1>2, ValuesAssumption
<1>8. TypeOK'
  BY <1>1, <1>2, <1>3, NamesAssumption DEF IInv, TypeOK
<1>9. Listeners'
  BY <1>3, <1>4, <1>5, <1>7 DEF IInv, Listeners, ToClose
<1>10. Sockets'
  BY <1>2, <1>3, <1>4, <1>5, <1>6, <1>7 DEF IInv, TypeOK, Sockets
<1>11. AssignedApart'
  <2>1. \A m \in Assigned : m \notin open => sock[m] = Unset \/ m \in Aware
    BY <1>3 DEF IInv, Listeners, ToClose
  <2>2. ASSUME NEW m \in Assigned, Picked(n), m # n, p = sock[m] PROVE m \in Aware
    BY <2>1, <2>2, <1>2, <1>7
  <2> QED BY <2>2, <1>5 DEF IInv, AssignedApart
<1>12. SvcctlApart'
  BY <1>2, <1>3, <1>5 DEF IInv, SvcctlApart
<1>13. Entries'
  <2>1. \A m \in Names \ Assigned : ports'[m] = ports[m]
    BY <1>1, NamesAssumption DEF IInv, TypeOK
  <2> QED BY <1>3, <2>1, NamesAssumption DEF IInv, Entries
<1> QED BY <1>8, <1>9, <1>10, <1>11, <1>12, <1>13 DEF IInv

\* The svcctl server listens before any port is assigned.
LEMMA ListenSvcctlIInv == ASSUME IInv, ListenSvcctl PROVE IInv'
<1>1. Entries'
  BY DEF IInv, ListenSvcctl, Entries, AliasSet
<1> QED
  BY <1>1
     DEF IInv, ListenSvcctl, Free, TypeOK, Listeners, Sockets, AssignedApart, SvcctlApart

\* The ends of the loops, the turns of the second one, and the collector.
LEMMA LoopsIInv ==
  ASSUME IInv,
         \/ AllAssigned \/ AllClosed \/ AllAliased
         \/ \E n \in Assigned : AssignFails(n) \/ Close(n) \/ Collect(n)
  PROVE  IInv'
<1> USE NamesAssumption DEF IInv
<1>1. UNCHANGED <<ports, sock, svcctl, bound, strangers>>
  BY DEF AllAssigned, AllClosed, AllAliased, AssignFails, Close, Collect, kernel
<1>2. AssignedApart' /\ SvcctlApart'
  BY <1>1 DEF AssignedApart, SvcctlApart
<1>3. open' \subseteq open
  BY DEF AllAssigned, AllClosed, AllAliased, AssignFails, Close, Collect, kernel
<1>4. Sockets'
  BY <1>1, <1>3 DEF Sockets
<1> USE <1>1 DEF Entries, AliasSet
<1>5. CASE AllAssigned
  BY <1>1, <1>2, <1>4, <1>5 DEF AllAssigned, kernel, ToClose, TypeOK, Listeners
<1>6. CASE AllClosed
  BY <1>1, <1>2, <1>4, <1>6 DEF AllClosed, kernel, TypeOK, Listeners
<1>7. CASE AllAliased
  BY <1>1, <1>2, <1>4, <1>7 DEF AllAliased, kernel, TypeOK, Listeners
<1>8. ASSUME NEW n \in Assigned, AssignFails(n) PROVE IInv'
  BY <1>1, <1>2, <1>4, <1>8 DEF AssignFails, kernel, TypeOK, Listeners
<1>9. ASSUME NEW n \in Assigned, Close(n) PROVE IInv'
  BY <1>1, <1>2, <1>4, <1>9 DEF Close, ToClose, TypeOK, Listeners
<1>10. ASSUME NEW n \in Assigned, Collect(n) PROVE IInv'
  BY <1>1, <1>2, <1>4, <1>10 DEF Collect, ToClose, TypeOK, Listeners
<1> QED BY <1>5, <1>6, <1>7, <1>8, <1>9, <1>10

\* Aliases are no names of listeners: their entries disturb no socket.
LEMMA AliasIInv == ASSUME IInv, NEW a \in Aliases, Alias(a) PROVE IInv'
<1> USE DEF IInv
<1>1. /\ pc = "alias" /\ a \in left /\ pc' = pc /\ left' = left \ {a}
      /\ ports' = [ports EXCEPT ![a] = Lookup(AliasOf[a])]
      /\ UNCHANGED <<sock, open, svcctl, bound, strangers>>
  BY DEF Alias, Aliased, kernel
<1>2. AliasOf[a] \in Names /\ a \in Names /\ a \notin Assigned
  BY NamesAssumption DEF Aliases
<1>3. Lookup(AliasOf[a]) \in PortNumbers \cup {Empty}
  BY <1>2 DEF Lookup, TypeOK
<1>4. TypeOK'
  BY <1>1, <1>3 DEF TypeOK
<1>5. \A n \in Assigned : ports'[n] = ports[n]
  BY <1>1, <1>2, NamesAssumption DEF TypeOK
<1>6. Listeners'
  BY <1>1 DEF Listeners
<1>7. Sockets'
  BY <1>1, <1>5 DEF TypeOK, Sockets
<1>8. AssignedApart' /\ SvcctlApart'
  BY <1>1 DEF AssignedApart, SvcctlApart
<1>9. Entries'
  <2>1. \A n \in Names : ports'[n] = IF n = a THEN Lookup(AliasOf[a]) ELSE ports[n]
    BY <1>1, <1>2 DEF TypeOK
  <2>2. Aliases \subseteq Names /\ Aliases \cap Assigned = {} /\ Assigned \subseteq Names
    BY NamesAssumption
  <2>3. AliasSet(a)'
    <3>1. Lookup(AliasOf[a]) # Unset
      BY <1>3, ValuesAssumption
    <3>2. ASSUME AliasOf[a] \in Assigned PROVE Lookup(AliasOf[a]) = sock[AliasOf[a]]
      BY <1>1, <3>2 DEF Lookup, Listeners, Sockets
    <3>3. ASSUME AliasOf[a] \in Aliases
          PROVE  Lookup(AliasOf[a]) \in {ports'[AliasOf[a]], Empty}
      BY <1>2, <2>1, <3>3 DEF Lookup
    <3>4. ASSUME AliasOf[a] \notin Assigned \cup Aliases PROVE Lookup(AliasOf[a]) = Empty
      BY <1>2, <3>4 DEF Lookup, Entries
    <3> QED BY <1>1, <1>2, <2>1, <3>1, <3>2, <3>3, <3>4 DEF AliasSet
  <2>4. ASSUME NEW b \in Aliases, b # a, b \notin left PROVE AliasSet(b)'
    <3>1. AliasSet(b) /\ ports'[b] = ports[b]
      BY <1>1, <2>1, <2>2, <2>4 DEF Entries
    <3>2. ASSUME AliasOf[b] = a PROVE ports[b] = Empty
      BY <1>1, <3>1, <3>2 DEF AliasSet, Entries
    <3>3. AliasOf[b] \in Names
      BY NamesAssumption DEF Aliases
    <3> QED BY <1>1, <2>1, <3>1, <3>2, <3>3 DEF AliasSet
  <2>5. \A b \in Aliases : b \in left /\ b # a => ports'[b] = Unset
    BY <1>1, <2>1, <2>2 DEF Entries
  <2>6. \A n \in Names \ (Assigned \cup Aliases) : ports'[n] = Unset
    BY <2>1 DEF Entries
  <2> QED BY <1>1, <2>3, <2>4, <2>5, <2>6 DEF Entries
<1> QED BY <1>4, <1>6, <1>7, <1>8, <1>9

\* Nobody binds a port with a listener, but services with SO_REUSEPORT.
LEMMA OthersIInv ==
  ASSUME IInv,
         StrangerBinds \/ StrangerCloses \/ \E n \in Assigned : Bind(n) \/ Unbind(n)
  PROVE  IInv'
<1> USE DEF IInv
<1>1. UNCHANGED <<pc, left, ports, sock, open, svcctl>>
  BY DEF StrangerBinds, StrangerCloses, Bind, Unbind
<1>2. AssignedApart' /\ SvcctlApart' /\ Entries'
  BY <1>1 DEF AssignedApart, SvcctlApart, Entries, AliasSet
<1>3. CASE StrangerBinds
  BY <1>1, <1>2, <1>3 DEF StrangerBinds, Free, TypeOK, Listeners, Sockets
<1>4. CASE StrangerCloses
  BY <1>1, <1>2, <1>4 DEF StrangerCloses, TypeOK, Listeners, Sockets
<1>5. ASSUME NEW n \in Assigned, Bind(n) PROVE IInv'
  <2>1. /\ pc = "up" /\ bound' = bound \cup {n} /\ strangers' = strangers
        /\ n \notin Aware => \A m \in open : sock[m] # ports[n]
    BY <1>5 DEF Bind, CanBind, Free
  <2> QED BY <1>1, <1>2, <2>1 DEF TypeOK, Listeners, Sockets
<1>6. ASSUME NEW n \in Assigned, Unbind(n) PROVE IInv'
  BY <1>1, <1>2, <1>6 DEF Unbind, TypeOK, Listeners, Sockets
<1> QED BY <1>3, <1>4, <1>5, <1>6

LEMMA StepIInv == IInv /\ [Next]_vars => IInv'
<1> SUFFICES ASSUME IInv, [Next]_vars PROVE IInv'
  OBVIOUS
<1>1. CASE UNCHANGED vars
  BY <1>1 DEF vars, IInv, TypeOK, Listeners, Sockets, Entries, AliasSet, AssignedApart,
              SvcctlApart
<1>2. CASE Next
  BY <1>1, <1>2, AssignIInv, ListenSvcctlIInv, LoopsIInv, AliasIInv, OthersIInv
     DEF Next, Terminated
<1> QED BY <1>1, <1>2

-----------------------------------------------------------------------------
\* The inductive invariant holds in every reachable state.
THEOREM Invariance == Spec => []IInv
BY InitIInv, StepIInv, PTL DEF Spec

\* The variables keep their types (assignPorts and its maps).
THEOREM TypeCorrect == Spec => []TypeOK
<1>1. IInv => TypeOK BY DEF IInv
<1> QED BY <1>1, Invariance, PTL

\* No two names for which svcinit picks a port get the same one, unless one is aware:
\* toClose keeps the listeners of the others until the last port is assigned.
THEOREM PickedPortsDiffer == Spec => []AssignedApart
<1>1. IInv => AssignedApart BY DEF IInv
<1> QED BY <1>1, Invariance, PTL

\* No assigned port is the svcctl server's, which listens before any is assigned.
THEOREM SvcctlPortIsItsOwn == Spec => []SvcctlApart
<1>1. IInv => SvcctlApart BY DEF IInv
<1> QED BY <1>1, Invariance, PTL

\* A service with so_reuseport_aware can bind its port as long as svcinit's listener has
\* not been collected: nobody without SO_REUSEPORT gets hold of it.
THEOREM AwareServicesCanBind == Spec => []HeldCanBind
<1>1. IInv => HeldCanBind
  BY DEF IInv, TypeOK, Listeners, Sockets, SvcctlApart, HeldCanBind, CanBind, Sharable
<1> QED BY <1>1, Invariance, PTL

\* What others are told of a name is the port svcinit bound for it, or for the name an
\* alias stands for, and never the port of another name.
THEOREM NamesAreTold == Spec => []NamesResolve
<1>1. IInv => NamesResolve
  <2> SUFFICES ASSUME IInv, pc = "up" PROVE NamesResolve
    BY DEF NamesResolve
  <2>1. \A n \in Assigned : Told(n) = sock[n]
    BY DEF IInv, Sockets, Told
  <2>2. \A n \in Names \ (Assigned \cup Aliases) : Told(n) = Unset /\ Lookup(n) = Empty
    BY DEF IInv, Entries, Told, Lookup
  <2>3. \A a \in Aliases : AliasSet(a)
    BY DEF IInv, Entries
  <2>4. Aliases \cap Assigned = {}
    BY NamesAssumption
  <2> QED BY <2>1, <2>2, <2>3, <2>4, Zenon DEF NamesResolve, AliasSet, Told
<1> QED BY <1>1, Invariance, PTL

=============================================================================
