----------------------------- MODULE DataPorts ------------------------------
(***************************************************************************)
(* The data ports of a bee-sync server and everything that is shared       *)
(* between its transfers because of them: the permits of PORT_POOL, the    *)
(* sockets bound in the port range, the registry ACTIVE_RECEIVERS that     *)
(* routes a data connection to a transfer, and the detached tasks that     *)
(* accept on each port.  A transfer is one run of                          *)
(* handle_control_connection that gets as far as allocate_sockets.         *)
(***************************************************************************)
EXTENDS Integers, FiniteSets

CONSTANTS Transfer,       \* the transfers of a server's life
          FirstPort,      \* DATA_PORT_START
          LastPort,       \* DATA_PORT_END
          Want,           \* transfer -> min(num_chunks, max_parallel)
          CountWidth,     \* values of the num_ports byte of the response
          MaxFaults,      \* bound on errors and on foreign sockets
          None            \* no transfer

Port == FirstPort .. LastPort

ASSUME PortAssumption ==
  /\ FirstPort \in Nat /\ LastPort \in Nat /\ FirstPort =< LastPort
  /\ Want \in [Transfer -> Nat]
  /\ CountWidth \in Nat \ {0}
  /\ MaxFaults \in Nat
  /\ None \notin Transfer

VARIABLES
  permits,    \* available permits of PORT_POOL
  listener,   \* who listens on each port
  registry,   \* ACTIVE_RECEIVERS
  pc,         \* where each control handler is
  cursor,     \* the port allocate_sockets tries next
  socks,      \* the ports each transfer has bound
  told,       \* the ports its client reads in the handshake response
  queue,      \* clients waiting in the accept queue of each port
  conn,       \* the connection each accept task is handling
  abandoned,  \* ghost: the ports whose accept task has ended on an error
  faults      \* ghost: faults so far

ghosts == <<abandoned, faults>>
vars   == <<permits, listener, registry, pc, cursor, socks, told, queue, conn,
            ghosts>>

TotalPorts == LastPort - FirstPort + 1

(* "open": bound, its task not spawned yet; "served": its task accepts.    *)
Listener == {"none", "foreign", "open", "served"}
Conn     == [client : Transfer, receiver : Transfer]
PC == {"start", "binding", "registered", "responded", "waiting", "closing",
       "done", "refused", "unbound", "lost"}

(* The handlers that still mean to give their permits back.                *)
Holding == {"binding", "registered", "responded", "waiting", "closing"}

Fault == faults < MaxFaults /\ faults' = faults + 1

TypeOK ==
  /\ permits \in 0 .. TotalPorts
  /\ listener \in [Port -> Listener]
  /\ registry \in [Port -> Transfer \cup {None}]
  /\ pc \in [Transfer -> PC]
  /\ cursor \in [Transfer -> FirstPort .. LastPort + 1]
  /\ socks \in [Transfer -> SUBSET Port]
  /\ told \in [Transfer -> SUBSET Port]
  /\ queue \in [Port -> SUBSET Transfer]
  /\ conn \in [Port -> Conn \cup {None}]
  /\ abandoned \in SUBSET Port
  /\ faults \in 0 .. MaxFaults

Init ==
  /\ permits = TotalPorts
  /\ listener = [p \in Port |-> "none"]
  /\ registry = [p \in Port |-> None]
  /\ pc = [t \in Transfer |-> "start"]
  /\ cursor = [t \in Transfer |-> FirstPort]
  /\ socks = [t \in Transfer |-> {}]
  /\ told = [t \in Transfer |-> {}]
  /\ queue = [p \in Port |-> {}]
  /\ conn = [p \in Port |-> None]
  /\ abandoned = {} /\ faults = 0

Goto(t, l) == pc' = [pc EXCEPT ![t] = l]

(* The sockets of S are dropped: their ports are free, their queues reset. *)
Drop(S) ==
  /\ listener' = [p \in Port |-> IF p \in S THEN "none" ELSE listener[p]]
  /\ queue' = [p \in Port |-> IF p \in S THEN {} ELSE queue[p]]

-----------------------------------------------------------------------------
(* allocate_sockets: the permits first, then one bind after the other.     *)

(* Mutant: the pool is not asked.                                          *)
Reserve_Unchecked(t) ==
  /\ pc[t] = "start"
  /\ permits' = permits - Want[t]
  /\ Goto(t, "binding")
  /\ UNCHANGED <<listener, registry, cursor, socks, told, queue, conn, ghosts>>

Reserve(t) ==
  /\ pc[t] = "start"
  /\ permits >= Want[t]
  /\ permits' = permits - Want[t]
  /\ Goto(t, "binding")
  /\ UNCHANGED <<listener, registry, cursor, socks, told, queue, conn, ghosts>>

PoolExhausted(t) ==
  /\ pc[t] = "start"
  /\ permits < Want[t]
  /\ Goto(t, "refused")
  /\ UNCHANGED <<permits, listener, registry, cursor, socks, told, queue, conn,
                 ghosts>>

Binding(t) == pc[t] = "binding" /\ Cardinality(socks[t]) < Want[t]

Bind(t) ==
  /\ Binding(t) /\ cursor[t] =< LastPort
  /\ cursor' = [cursor EXCEPT ![t] = @ + 1]
  /\ IF listener[cursor[t]] = "none"
       THEN /\ listener' = [listener EXCEPT ![cursor[t]] = "open"]
            /\ socks' = [socks EXCEPT ![t] = @ \cup {cursor[t]}]
       ELSE UNCHANGED <<listener, socks>>
  /\ UNCHANGED <<permits, registry, pc, told, queue, conn, ghosts>>

(* The range is exhausted: RESP_ERR.  The sockets are dropped; the permits *)
(* are not given back.                                                     *)
BindFails(t) ==
  /\ Binding(t) /\ cursor[t] > LastPort
  /\ Drop(socks[t])
  /\ socks' = [socks EXCEPT ![t] = {}]
  /\ Goto(t, "unbound")
  /\ UNCHANGED <<permits, registry, cursor, told, conn, ghosts>>

-----------------------------------------------------------------------------
(* handle_control_connection after allocate_sockets.                       *)

(* Mutant: the receivers are registered by a task that may come too late.  *)
Register_Late(t) ==
  /\ pc[t] = "binding"
  /\ Cardinality(socks[t]) = Want[t]
  /\ Goto(t, "registered")
  /\ UNCHANGED <<permits, listener, registry, cursor, socks, told, queue, conn,
                 ghosts>>

Register(t) ==
  /\ pc[t] = "binding"
  /\ Cardinality(socks[t]) = Want[t]
  /\ registry' = [p \in Port |-> IF p \in socks[t] THEN t ELSE registry[p]]
  /\ Goto(t, "registered")
  /\ UNCHANGED <<permits, listener, cursor, socks, told, queue, conn, ghosts>>

(* The response carries every port, after one byte that counts them; the   *)
(* client reads as many as the byte says.                                  *)
FirstOf(S, n) == {p \in S : Cardinality({q \in S : q =< p}) =< n}

Respond(t) ==
  /\ pc[t] = "registered"
  /\ told' = [told EXCEPT
       ![t] = FirstOf(socks[t], Cardinality(socks[t]) % CountWidth)]
  /\ Goto(t, "responded")
  /\ UNCHANGED <<permits, listener, registry, cursor, socks, queue, conn,
                 ghosts>>

(* The `?` after send_handshake_response: the handler returns, its sockets *)
(* are dropped, and neither registry nor permits are cleaned up.           *)
RespondFails(t) ==
  /\ pc[t] = "registered"
  /\ Fault
  /\ Drop(socks[t])
  /\ socks' = [socks EXCEPT ![t] = {}]
  /\ Goto(t, "lost")
  /\ UNCHANGED <<permits, registry, cursor, told, conn, abandoned>>

SpawnDataServers(t) ==
  /\ pc[t] = "responded"
  /\ listener' = [p \in Port |->
                    IF p \in socks[t] THEN "served" ELSE listener[p]]
  /\ Goto(t, "waiting")
  /\ UNCHANGED <<permits, registry, cursor, socks, told, queue, conn, ghosts>>

(* wait_for_completion returns, for whatever reason, and cleanup begins.   *)
RemoveReceivers(t) ==
  /\ pc[t] = "waiting"
  /\ registry' = [p \in Port |-> IF p \in socks[t] THEN None ELSE registry[p]]
  /\ Goto(t, "closing")
  /\ UNCHANGED <<permits, listener, cursor, socks, told, queue, conn, ghosts>>

(* Mutant: release_ports is called with one too many.                      *)
Released_OneMore(t) == Cardinality(socks[t]) + 1

(* The argument of release_ports.                                          *)
Released(t) == Cardinality(socks[t])

(* Mutant: the tasks are aborted instead of detached, so that the ports    *)
(* can be bound again while a client that was told of them still connects. *)
ReleasePorts_Aborting(t) ==
  /\ pc[t] = "closing"
  /\ permits' = permits + Released(t)
  /\ Drop(socks[t])
  /\ Goto(t, "done")
  /\ UNCHANGED <<registry, cursor, socks, told, conn, ghosts>>

(* The task handles are dropped, which detaches the tasks: they go on      *)
(* accepting.  The permits of the ports are released.                      *)
ReleasePorts(t) ==
  /\ pc[t] = "closing"
  /\ permits' = permits + Released(t)
  /\ Goto(t, "done")
  /\ UNCHANGED <<listener, registry, cursor, socks, told, queue, conn, ghosts>>

-----------------------------------------------------------------------------
(* Data connections.                                                       *)

(* A client connects to a port it was told; the kernel queues it as soon   *)
(* as the port is bound, and does so after the transfer is over, too.      *)
Connect(t, p) ==
  /\ p \in told[t]
  /\ listener[p] \in {"open", "served"}
  /\ queue' = [queue EXCEPT ![p] = @ \cup {t}]
  /\ UNCHANGED <<permits, listener, registry, pc, cursor, socks, told, conn,
                 ghosts>>

(* The accept task of p takes a connection and asks get_receiver; without  *)
(* a receiver it closes it at once.                                        *)
Accept(t, p) ==
  /\ listener[p] = "served"
  /\ conn[p] = None
  /\ t \in queue[p]
  /\ queue' = [queue EXCEPT ![p] = @ \ {t}]
  /\ conn' = [conn EXCEPT ![p] =
       IF registry[p] = None THEN None
                             ELSE [client |-> t, receiver |-> registry[p]]]
  /\ UNCHANGED <<permits, listener, registry, pc, cursor, socks, told, ghosts>>

Hangup(p) ==
  /\ conn[p] # None
  /\ conn' = [conn EXCEPT ![p] = None]
  /\ UNCHANGED <<permits, listener, registry, pc, cursor, socks, told, queue,
                 ghosts>>

(* accept returns an error (EMFILE, say): the task ends, its port is free. *)
AcceptFails(p) ==
  /\ listener[p] = "served" /\ conn[p] = None
  /\ Fault
  /\ Drop({p})
  /\ abandoned' = abandoned \cup {p}
  /\ UNCHANGED <<permits, registry, pc, cursor, socks, told, conn>>

(* Another process of the host uses a port of the range for a while.       *)
ForeignBind(p) ==
  /\ listener[p] = "none"
  /\ Fault
  /\ listener' = [listener EXCEPT ![p] = "foreign"]
  /\ UNCHANGED <<permits, registry, pc, cursor, socks, told, queue, conn,
                 abandoned>>

ForeignClose(p) ==
  /\ listener[p] = "foreign"
  /\ listener' = [listener EXCEPT ![p] = "none"]
  /\ UNCHANGED <<permits, registry, pc, cursor, socks, told, queue, conn,
                 ghosts>>

Handler(t) ==
  \/ Reserve(t) \/ PoolExhausted(t) \/ Bind(t) \/ BindFails(t) \/ Register(t)
  \/ Respond(t) \/ RespondFails(t) \/ SpawnDataServers(t)
  \/ RemoveReceivers(t) \/ ReleasePorts(t)

Next ==
  \/ \E t \in Transfer : Handler(t)
  \/ \E t \in Transfer, p \in Port : Connect(t, p) \/ Accept(t, p)
  \/ \E p \in Port : Hangup(p) \/ AcceptFails(p)
  \/ \E p \in Port : ForeignBind(p) \/ ForeignClose(p)

Spec == Init /\ [][Next]_vars

-----------------------------------------------------------------------------
(* Properties                                                              *)

(* A data connection feeds the transfer whose client opened it: "Used to   *)
(* route incoming data connections to the correct transfer".  Except on a  *)
(* port whose accept task has died: its entry of the registry outlives the *)
(* socket, and the next transfer to bind the port inherits the clients.    *)
(* (ACTIVE_RECEIVERS; register_receivers, get_receiver, remove_receiver.)  *)
RoutedToOwner ==
  \A p \in Port \ abandoned :
    conn[p] # None => conn[p].receiver = conn[p].client

(* From the response to the final status, every port a client was told is  *)
(* bound and leads to its transfer, unless accept has failed on it: no     *)
(* worker is turned away.  (The order bind, register, respond, spawn; and  *)
(* nobody else unregisters the port.)                                      *)
AdvertisedIsServed ==
  \A t \in Transfer : pc[t] \in {"responded", "waiting"} =>
    \A p \in told[t] \ abandoned : /\ registry[p] = t
                                   /\ listener[p] \in {"open", "served"}

(* The permits that transfers ask for, and those they have taken and not   *)
(* given back.                                                             *)
Permit == UNION {{t} \X (1 .. Want[t]) : t \in Transfer}
Taken  == {x \in Permit : pc[x[1]] \in Holding \cup {"unbound", "lost"}}

(* Every permit is in the pool, held by a transfer that will give it back, *)
(* or lost in one of two ways: no port could be bound for it, or the       *)
(* response could not be sent.  None is given back twice.                  *)
(* (try_reserve_ports in allocate_sockets, release_ports in cleanup, and   *)
(* the early returns between them.)                                        *)
PermitsConserved == permits + Cardinality(Taken) = TotalPorts

(* The semaphore tracks "available data ports" (PORT_POOL): a permit that  *)
(* can be taken stands for a port that can be bound.                       *)
PermitMeansPort ==
  permits =< Cardinality({p \in Port : listener[p] = "none"})
=============================================================================
