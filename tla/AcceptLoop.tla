----------------------------- MODULE AcceptLoop -----------------------------
(***************************************************************************)
(* The control port of a bee-sync server: the loop of run_server that      *)
(* accepts connections, refuses those beyond the limit and looks at the    *)
(* shutdown flag, and the tasks it spawns.  What a task does once it has   *)
(* its stream is handle_control_connection; here it is a connection that   *)
(* holds a permit until it ends, when it likes.                            *)
(***************************************************************************)
EXTENDS Integers, FiniteSets

CONSTANTS Client,           \* clients; each may come back
          MaxConnections    \* MAX_CONCURRENT_CONNECTIONS

ASSUME LoopAssumption == IsFiniteSet(Client) /\ MaxConnections \in Nat

VARIABLES
  tls,        \* the server was started with --cert and --key
  loop,       \* the accept loop
  shutdown,   \* its shutdown flag
  permits,    \* available permits of conn_semaphore
  conn        \* where the connection of each client is

vars == <<tls, loop, shutdown, permits, conn>>

(* "queued": in the backlog; "tls", "handler": a task of the server;       *)
(* "cut": the server's process has ended before the task did.              *)
Conn   == {"away", "queued", "tls", "handler", "rejected", "cut"}
Active == {c \in Client : conn[c] \in {"tls", "handler"}}

TypeOK ==
  /\ tls \in BOOLEAN /\ shutdown \in BOOLEAN
  /\ loop \in {"running", "stopped"}
  /\ permits \in 0 .. MaxConnections
  /\ conn \in [Client -> Conn]

Init ==
  /\ tls \in BOOLEAN
  /\ loop = "running" /\ shutdown = FALSE
  /\ permits = MaxConnections
  /\ conn = [c \in Client |-> "away"]

Moves(c, from, to) == conn[c] = from /\ conn' = [conn EXCEPT ![c] = to]

-----------------------------------------------------------------------------
(* Clients, and the user of the server.                                    *)

Arrive(c) ==
  /\ loop = "running"
  /\ Moves(c, "away", "queued")
  /\ UNCHANGED <<tls, loop, shutdown, permits>>

(* A client that was turned away may be run again.                         *)
Leave(c) ==
  /\ Moves(c, "rejected", "away")
  /\ UNCHANGED <<tls, loop, shutdown, permits>>

(* The handler swaps the flag; a second Ctrl+C changes nothing.            *)
CtrlC ==
  /\ loop = "running" /\ ~shutdown
  /\ shutdown' = TRUE
  /\ UNCHANGED <<tls, loop, permits, conn>>

-----------------------------------------------------------------------------
(* The arms of the select!.  Each starts the one-second timer anew.        *)

Accept(c) ==
  /\ loop = "running" /\ permits > 0
  /\ Moves(c, "queued", IF tls THEN "tls" ELSE "handler")
  /\ permits' = permits - 1
  /\ UNCHANGED <<tls, loop, shutdown>>

(* Mutant: the loop waits for a permit instead of turning the client away. *)
Reject_Waits(c) ==
  /\ loop = "running" /\ permits = 0 /\ Active = {}
  /\ Moves(c, "queued", "rejected")
  /\ UNCHANGED <<tls, loop, shutdown, permits>>

(* try_acquire_owned fails: the stream is dropped.                         *)
Reject(c) ==
  /\ loop = "running" /\ permits = 0
  /\ Moves(c, "queued", "rejected")
  /\ UNCHANGED <<tls, loop, shutdown, permits>>

(* accept returns an error: the connection was reset in the backlog.       *)
AcceptError(c) ==
  /\ loop = "running"
  /\ Moves(c, "queued", "away")
  /\ UNCHANGED <<tls, loop, shutdown, permits>>

(* Mutant: the flag is read and nothing comes of it.                       *)
Wake_Ignores ==
  /\ loop = "running" /\ shutdown
  /\ UNCHANGED vars

(* The timer: only here is the flag looked at.  run_server returns, main   *)
(* calls process::exit, and every task and every socket goes with it.      *)
Wake ==
  /\ loop = "running" /\ shutdown
  /\ loop' = "stopped"
  /\ conn' = [c \in Client |->
                IF c \in Active THEN "cut"
                ELSE IF conn[c] = "queued" THEN "rejected" ELSE conn[c]]
  /\ UNCHANGED <<tls, shutdown, permits>>

-----------------------------------------------------------------------------
(* The spawned task; its permit is released on drop, however it ends.      *)

TlsAccept(c) ==
  /\ loop = "running"
  /\ Moves(c, "tls", "handler")
  /\ UNCHANGED <<tls, loop, shutdown, permits>>

(* Mutant: the return of a failed TLS handshake forgets the permit.        *)
TlsFails_Leaks(c) ==
  /\ loop = "running"
  /\ Moves(c, "tls", "away")
  /\ UNCHANGED <<tls, loop, shutdown, permits>>

TlsFails(c) ==
  /\ loop = "running"
  /\ Moves(c, "tls", "away")
  /\ permits' = permits + 1
  /\ UNCHANGED <<tls, loop, shutdown>>

(* Mutant: the permit is released by the handler and again on drop.        *)
HandlerEnds_Twice(c) ==
  /\ loop = "running"
  /\ Moves(c, "handler", "away")
  /\ permits' = permits + 2
  /\ UNCHANGED <<tls, loop, shutdown>>

HandlerEnds(c) ==
  /\ loop = "running"
  /\ Moves(c, "handler", "away")
  /\ permits' = permits + 1
  /\ UNCHANGED <<tls, loop, shutdown>>

Answer(c) == Accept(c) \/ Reject(c)

Next ==
  \/ CtrlC \/ Wake
  \/ \E c \in Client :
       \/ Arrive(c) \/ Leave(c) \/ Answer(c) \/ AcceptError(c)
       \/ TlsAccept(c) \/ TlsFails(c) \/ HandlerEnds(c)

Spec == Init /\ [][Next]_vars

(* The backlog is a queue, so that no connection is passed over for ever.  *)
(* The timer is certain to win the select! only when nobody is waiting for *)
(* accept; nothing at all is assumed of the clients or of the tasks (the   *)
(* TLS handshake and wait_for_completion have no timeout).                 *)
Quiet == \A c \in Client : conn[c] # "queued"

FairSpec ==
  /\ Spec
  /\ WF_vars(Quiet /\ Wake)
  /\ \A c \in Client : WF_vars(Answer(c))

-----------------------------------------------------------------------------
(* Properties                                                              *)

(* A client is turned away for the limit only when that many connections   *)
(* are being served: no way a task can end loses its permit.               *)
(* (try_acquire_owned, and _permit "released on drop".)                    *)
RejectedOnlyWhenFull ==
  [][\A c \in Client :
       conn[c] = "queued" /\ conn'[c] = "rejected" /\ loop' = "running"
         => Cardinality(Active) = MaxConnections]_vars

(* Whoever has connected is served or turned away, even if no connection   *)
(* that holds a permit ever ends.  (try_acquire_owned, which never waits.) *)
EventuallyAnswered ==
  \A c \in Client : conn[c] = "queued" ~> conn[c] # "queued"

(* After Ctrl+C the server stops, once new connections cease; the tasks,   *)
(* which may hang, do not keep it.  (Connections that keep coming less     *)
(* than a second apart do: every one of them starts the timer anew.)       *)
StopsWhenQuiet ==
  <>[][\A c \in Client : ~Arrive(c)]_vars => (shutdown ~> loop = "stopped")

(* "on server stops accepting new connections and lets active transfers    *)
(* complete" (README.md, Graceful shutdown).                               *)
ActiveComplete == \A c \in Client : conn[c] # "cut"
=============================================================================
