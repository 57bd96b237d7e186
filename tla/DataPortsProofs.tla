-------------------------- MODULE DataPortsProofs ---------------------------
(* Theorems about DataPorts, for any transfers, port range and faults.     *)
EXTENDS DataPorts, FiniteSetTheorems, TLAPS

Shape ==
  /\ listener \in [Port -> Listener]
  /\ registry \in [Port -> Transfer \cup {None}]
  /\ pc \in [Transfer -> PC]
  /\ cursor \in [Transfer -> FirstPort .. LastPort + 1]
  /\ socks \in [Transfer -> SUBSET Port]
  /\ told \in [Transfer -> SUBSET Port]
  /\ queue \in [Port -> SUBSET Transfer]
  /\ conn \in [Port -> Conn \cup {None}]
  /\ abandoned \in SUBSET Port

(* The sockets of a transfer are its own, for as long as it counts them    *)
(* and their accept tasks live.                                            *)
Live(t) == socks[t] \ abandoned

Bound ==
  /\ \A t \in Transfer : \A p \in Live(t) : listener[p] \in {"open", "served"}
  /\ \A t, u \in Transfer : t # u => Live(t) \cap Live(u) = {}

Responded == {"responded", "waiting", "closing", "done"}

(* A client is told of sockets of its transfer only, and not before they   *)
(* are registered.                                                         *)
Told == \A t \in Transfer : /\ told[t] \subseteq socks[t]
                            /\ told[t] # {} => pc[t] \in Responded

Registered ==
  \A t \in Transfer :
    /\ pc[t] \in {"registered", "responded", "waiting"} =>
         \A p \in Live(t) : registry[p] = t
    /\ pc[t] \in {"closing", "done"} => \A p \in Live(t) : registry[p] = None

Queued == \A p \in Port : \A t \in queue[p] : p \in told[t]

RouteInv == Shape /\ Bound /\ Told /\ Registered /\ Queued /\ RoutedToOwner

LEMMA RouteInit == Init => RouteInv
BY PortAssumption
   DEF Init, RouteInv, Shape, Bound, Live, Told, Registered, Queued, RoutedToOwner,
       Listener, PC, Port

LEMMA RouteStep ==
  ASSUME RouteInv, [Next]_vars
  PROVE  RouteInv'
<1> USE DEF RouteInv, Shape, Bound, Told, Registered, Queued, RoutedToOwner,
            Goto, Responded, Live, ghosts
<1>1. ASSUME NEW t \in Transfer, Reserve(t)
      PROVE  RouteInv'
  BY <1>1 DEF Reserve, PC
<1>2. ASSUME NEW t \in Transfer, PoolExhausted(t)
      PROVE  RouteInv'
  BY <1>2 DEF PoolExhausted, PC
<1>3. ASSUME NEW t \in Transfer, Bind(t)
      PROVE  RouteInv'
  <2>1. /\ pc[t] = "binding" /\ cursor[t] \in Port
        /\ cursor' \in [Transfer -> FirstPort .. LastPort + 1]
        /\ UNCHANGED <<registry, pc, told, queue, conn, abandoned>>
    BY <1>3, PortAssumption DEF Bind, Binding, Port
  <2>2. CASE listener[cursor[t]] = "none"
    <3>1. /\ listener' = [listener EXCEPT ![cursor[t]] = "open"]
          /\ socks' = [socks EXCEPT ![t] = @ \cup {cursor[t]}]
      BY <1>3, <2>2 DEF Bind
    <3>2. \A u \in Transfer : cursor[t] \notin Live(u)
      BY <2>2
    <3>3. Shape'
      BY <2>1, <3>1 DEF Listener
    <3>4. Bound'
      BY <2>1, <3>1, <3>2
    <3>5. Told' /\ Registered' /\ Queued' /\ RoutedToOwner'
      BY <2>1, <3>1
    <3> QED
      BY <3>3, <3>4, <3>5
  <2>3. CASE listener[cursor[t]] # "none"
    BY <1>3, <2>1, <2>3 DEF Bind
  <2> QED
    BY <2>2, <2>3
<1>4. ASSUME NEW t \in Transfer, BindFails(t)
      PROVE  RouteInv'
  BY <1>4 DEF BindFails, Binding, Drop, PC, Listener
<1>5. ASSUME NEW t \in Transfer, Register(t)
      PROVE  RouteInv'
  BY <1>5 DEF Register, PC
<1>6. ASSUME NEW t \in Transfer, Respond(t)
      PROVE  RouteInv'
  BY <1>6 DEF Respond, FirstOf, PC
<1>7. ASSUME NEW t \in Transfer, RespondFails(t)
      PROVE  RouteInv'
  BY <1>7 DEF RespondFails, Drop, PC, Listener
<1>8. ASSUME NEW t \in Transfer, SpawnDataServers(t)
      PROVE  RouteInv'
  BY <1>8 DEF SpawnDataServers, PC, Listener
<1>9. ASSUME NEW t \in Transfer, RemoveReceivers(t)
      PROVE  RouteInv'
  BY <1>9 DEF RemoveReceivers, PC
<1>10. ASSUME NEW t \in Transfer, ReleasePorts(t)
      PROVE  RouteInv'
  BY <1>10 DEF ReleasePorts, PC
<1>11. ASSUME NEW t \in Transfer, NEW p \in Port, Connect(t, p)
      PROVE  RouteInv'
  BY <1>11 DEF Connect
<1>12. ASSUME NEW t \in Transfer, NEW p \in Port, Accept(t, p)
      PROVE  RouteInv'
  BY <1>12 DEF Accept, Conn
<1>13. ASSUME NEW p \in Port, Hangup(p)
      PROVE  RouteInv'
  BY <1>13 DEF Hangup
<1>14. ASSUME NEW p \in Port, AcceptFails(p)
      PROVE  RouteInv'
  BY <1>14 DEF AcceptFails, Drop, Listener, Fault
<1>15. ASSUME NEW p \in Port, ForeignBind(p)
      PROVE  RouteInv'
  BY <1>15 DEF ForeignBind, Listener
<1>16. ASSUME NEW p \in Port, ForeignClose(p)
      PROVE  RouteInv'
  BY <1>16 DEF ForeignClose, Listener
<1>17. ASSUME UNCHANGED vars PROVE RouteInv'
  BY <1>17 DEF vars
<1> QED
  BY <1>1, <1>2, <1>3, <1>4, <1>5, <1>6, <1>7, <1>8, <1>9, <1>10, <1>11, <1>12, <1>13, <1>14, <1>15, <1>16, <1>17 DEF Next, Handler

(* No data connection ever feeds another client's transfer, whatever the   *)
(* interleaving of transfers, on a port whose accept has never failed.     *)
THEOREM Routing == Spec => []RoutedToOwner
<1>1. RouteInv => RoutedToOwner
  BY DEF RouteInv
<1> QED
  BY RouteInit, RouteStep, <1>1, PTL DEF Spec

(* Every port a client was told serves its transfer until the transfer is  *)
(* over or accept fails on the port.                                       *)
THEOREM Advertised == Spec => []AdvertisedIsServed
<1>1. RouteInv => AdvertisedIsServed
  BY DEF RouteInv, Shape, Bound, Live, Told, Registered, AdvertisedIsServed
<1> QED
  BY RouteInit, RouteStep, <1>1, PTL DEF Spec

-----------------------------------------------------------------------------
(* The pool                                                                *)

(* What a transfer has taken from the pool; a transfer has taken all that  *)
(* it wants or nothing.                                                    *)
Share(t) == {t} \X (1 .. Want[t])
Out      == Holding \cup {"unbound", "lost"}

LEMMA ShareSize ==
  ASSUME NEW t \in Transfer
  PROVE  /\ Want[t] \in Nat
         /\ IsFiniteSet(Share(t)) /\ Cardinality(Share(t)) = Want[t]
<1>1. Want[t] \in Nat
  BY PortAssumption
<1>2. IsFiniteSet({t}) /\ Cardinality({t}) = 1
  BY FS_Singleton
<1>3. IsFiniteSet(1 .. Want[t]) /\ Cardinality(1 .. Want[t]) = Want[t]
  BY <1>1, FS_Interval
<1>4. /\ IsFiniteSet({t} \X (1 .. Want[t]))
      /\ Cardinality({t} \X (1 .. Want[t])) = 1 * Want[t]
  BY <1>2, <1>3, FS_Product
<1> QED BY <1>1, <1>4 DEF Share

LEMMA TakenIs ==
  \A x : x \in Taken <=> \E t \in Transfer : pc[t] \in Out /\ x \in Share(t)
BY DEF Taken, Permit, Share, Out

LEMMA TakenNext ==
  \A x : x \in Taken' <=> \E t \in Transfer : pc'[t] \in Out /\ x \in Share(t)
BY DEF Taken, Permit, Share, Out

LEMMA SharesApart ==
  \A t, u \in Transfer : \A x : x \in Share(t) /\ x \in Share(u) => t = u
BY DEF Share

(* Between allocate_sockets and release_ports a transfer has one socket    *)
(* for every permit, whatever happens to the accept tasks.                 *)
Counted ==
  \A t \in Transfer :
    pc[t] \in {"registered", "responded", "waiting", "closing"} =>
      Cardinality(socks[t]) = Want[t]

Pool == /\ permits \in Nat
        /\ IsFiniteSet(Taken)
        /\ PermitsConserved

PoolInv == Counted /\ Pool

LEMMA PoolInit == Init => PoolInv
<1> SUFFICES ASSUME Init PROVE PoolInv
  OBVIOUS
<1>1. Taken = {}
  BY TakenIs DEF Init, Out, Holding
<1>2. TotalPorts \in Nat
  BY PortAssumption DEF TotalPorts
<1>3. Counted
  BY DEF Init, Counted
<1> QED
  BY <1>1, <1>2, <1>3, FS_EmptySet DEF Init, PoolInv, Pool, PermitsConserved

(* A transfer takes its share, or gives it back; nobody else's moves.      *)
LEMMA PoolTake ==
  ASSUME NEW t \in Transfer, Pool, pc[t] \notin Out, pc'[t] \in Out,
         \A u \in Transfer : u # t => pc'[u] = pc[u],
         permits >= Want[t], permits' = permits - Want[t]
  PROVE  Pool'
<1>1. /\ \A x : x \in Taken' <=> x \in Taken \/ x \in Share(t)
      /\ \A x : ~(x \in Taken /\ x \in Share(t))
  BY TakenIs, TakenNext, SharesApart
<1>2. Taken' = Taken \cup Share(t) /\ Taken \cap Share(t) = {}
  BY <1>1
<1>3. /\ Want[t] \in Nat
      /\ IsFiniteSet(Share(t)) /\ Cardinality(Share(t)) = Want[t]
  BY ShareSize
<1>4. IsFiniteSet(Taken) /\ Cardinality(Taken) \in Nat /\ permits \in Nat
  BY FS_CardinalityType DEF Pool
<1>5. /\ IsFiniteSet(Taken \cup Share(t))
      /\ Cardinality(Taken \cup Share(t)) =
           Cardinality(Taken) + Cardinality(Share(t))
             - Cardinality(Taken \cap Share(t))
  BY <1>3, <1>4, FS_Union
<1>6. Cardinality(Taken \cap Share(t)) = 0
  BY <1>2, FS_EmptySet
<1>7. /\ IsFiniteSet(Taken')
      /\ Cardinality(Taken') = Cardinality(Taken) + Want[t]
  BY <1>2, <1>3, <1>4, <1>5, <1>6
<1> QED BY <1>3, <1>4, <1>7 DEF Pool, PermitsConserved, TotalPorts

LEMMA PoolReturn ==
  ASSUME NEW t \in Transfer, Pool, pc[t] \in Out, pc'[t] \notin Out,
         \A u \in Transfer : u # t => pc'[u] = pc[u],
         permits' = permits + Want[t]
  PROVE  Pool'
<1>1. /\ \A x : x \in Taken' <=> x \in Taken /\ x \notin Share(t)
      /\ \A x : x \in Share(t) => x \in Taken
  BY TakenIs, TakenNext, SharesApart
<1>2. Taken' = Taken \ Share(t) /\ Taken \cap Share(t) = Share(t)
  BY <1>1
<1>3. Want[t] \in Nat /\ Cardinality(Share(t)) = Want[t]
  BY ShareSize
<1>4. IsFiniteSet(Taken) /\ Cardinality(Taken) \in Nat /\ permits \in Nat
  BY FS_CardinalityType DEF Pool
<1>5. /\ IsFiniteSet(Taken \ Share(t))
      /\ Cardinality(Taken \ Share(t)) =
           Cardinality(Taken) - Cardinality(Taken \cap Share(t))
  BY <1>4, FS_Difference
<1>6. /\ IsFiniteSet(Taken')
      /\ Cardinality(Taken') = Cardinality(Taken) - Want[t]
  BY <1>2, <1>3, <1>5
<1> QED BY <1>3, <1>4, <1>6 DEF Pool, PermitsConserved, TotalPorts

LEMMA PoolSame ==
  ASSUME Pool, permits' = permits,
         \A t \in Transfer : pc'[t] \in Out <=> pc[t] \in Out
  PROVE  Pool'
<1>1. Taken' = Taken
  BY TakenIs, TakenNext
<1> QED BY <1>1 DEF Pool, PermitsConserved, TotalPorts

LEMMA PoolStep ==
  ASSUME Shape, PoolInv, [Next]_vars
  PROVE  PoolInv'
<1> USE DEF PoolInv, Shape, Goto, ghosts
<1>1. ASSUME NEW t \in Transfer, Reserve(t) PROVE PoolInv'
  <2>1. Pool'
    BY <1>1, PoolTake DEF Reserve, Out, Holding
  <2>2. Counted'
    BY <1>1 DEF Reserve, Counted
  <2> QED BY <2>1, <2>2
<1>2. ASSUME NEW t \in Transfer, ReleasePorts(t) PROVE PoolInv'
  <2>1. permits' = permits + Want[t]
    BY <1>2 DEF ReleasePorts, Released, Counted
  <2>2. Pool'
    BY <1>2, <2>1, PoolReturn DEF ReleasePorts, Out, Holding
  <2>3. Counted'
    BY <1>2 DEF ReleasePorts, Counted
  <2> QED BY <2>2, <2>3
(* Every other step of a handler stays on its side of the pool.            *)
<1>3. ASSUME NEW t \in Transfer,
             \/ PoolExhausted(t) \/ Bind(t) \/ BindFails(t) \/ Register(t)
             \/ Respond(t) \/ RespondFails(t) \/ SpawnDataServers(t)
             \/ RemoveReceivers(t)
      PROVE  PoolInv'
  <2>1. /\ permits' = permits
        /\ \A u \in Transfer : pc'[u] \in Out <=> pc[u] \in Out
    BY <1>3 DEF PoolExhausted, Bind, Binding, BindFails, Register, Respond,
       RespondFails, SpawnDataServers, RemoveReceivers, Out, Holding
  <2>2. Counted'
    BY <1>3 DEF PoolExhausted, Bind, Binding, BindFails, Register, Respond,
       RespondFails, SpawnDataServers, RemoveReceivers, Counted
  <2> QED BY <2>1, <2>2, PoolSame
<1>4. ASSUME NEW p \in Port,
             \/ \E t \in Transfer : Connect(t, p) \/ Accept(t, p)
             \/ Hangup(p) \/ AcceptFails(p)
             \/ ForeignBind(p) \/ ForeignClose(p)
      PROVE  PoolInv'
  <2>1. UNCHANGED <<permits, pc, socks>>
    BY <1>4 DEF Connect, Accept, Hangup, AcceptFails, ForeignBind,
       ForeignClose
  <2> QED BY <2>1, PoolSame DEF Counted
<1>5. ASSUME UNCHANGED vars PROVE PoolInv'
  BY <1>5, PoolSame DEF vars, Counted
<1> QED
  BY <1>1, <1>2, <1>3, <1>4, <1>5 DEF Next, Handler

LEMMA PoolHolds == Spec => [](RouteInv /\ PoolInv)
<1>1. RouteInv => Shape
  BY DEF RouteInv
<1> QED
  BY RouteInit, RouteStep, PoolInit, PoolStep, <1>1, PTL DEF Spec

(* No permit of PORT_POOL is counted twice or vanishes unnoticed, however  *)
(* reservations, failures and cleanups of any number of transfers          *)
(* interleave; those of a handler that returns early stay taken.           *)
THEOREM PermitsAccounted == Spec => []PermitsConserved
<1>1. RouteInv /\ PoolInv => PermitsConserved
  BY DEF PoolInv, Pool
<1> QED BY PoolHolds, <1>1, PTL

(* The pool stays between 0 and the number of ports: the semaphore neither *)
(* underflows nor grows past the range it stands for.                      *)
THEOREM PortTypes == Spec => []TypeOK
<1> DEFINE Counter == faults \in 0 .. MaxFaults
<1>1. RouteInv /\ PoolInv /\ Counter => TypeOK
  <2> SUFFICES ASSUME RouteInv, PoolInv, Counter PROVE TypeOK
    OBVIOUS
  <2>1. Cardinality(Taken) \in Nat
    BY FS_CardinalityType DEF PoolInv, Pool
  <2>2. TotalPorts \in Nat
    BY PortAssumption DEF TotalPorts
  <2>3. permits \in 0 .. TotalPorts
    BY <2>1, <2>2 DEF PoolInv, Pool, PermitsConserved
  <2> QED BY <2>3 DEF RouteInv, Shape, TypeOK
<1>2. Init => Counter
  BY PortAssumption DEF Init
<1>3. [Next]_vars => Fault \/ UNCHANGED faults
  BY DEF Next, Handler, Reserve, PoolExhausted, Bind, BindFails, Register,
     Respond, RespondFails, SpawnDataServers, RemoveReceivers, ReleasePorts,
     Connect, Accept, Hangup, AcceptFails, ForeignBind, ForeignClose, ghosts,
     vars
<1>4. Counter /\ (Fault \/ UNCHANGED faults) => Counter'
  BY PortAssumption DEF Fault
<1> QED BY PoolHolds, <1>1, <1>2, <1>3, <1>4, PTL DEF Spec
=============================================================================
