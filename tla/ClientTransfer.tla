--------------------------- MODULE ClientTransfer ---------------------------
(***************************************************************************)
(* One run of the client (run_client and its workers) against one session  *)
(* of the server (handle_control_connection and its data connections):     *)
(* who waits for whom, what is retried, what is given up, and what the     *)
(* exit status says in the end.                                            *)
(*                                                                         *)
(* A worker and its data connection are one number.  Frames are kept in    *)
(* order, one queue per direction; an ACK carries no chunk number.  What   *)
(* the server does with a chunk on disk is the module FileReceiver; here   *)
(* it is one step.                                                         *)
(***************************************************************************)
EXTENDS Integers, Sequences, FiniteSets

CONSTANTS NumChunks,      \* chunks of the file
          MaxWorkers,     \* bound on the workers of the client
          Parallel,       \* values of the client's --parallel
          Retries,        \* values of the client's --retries
          MaxParallel,    \* values of the server's --max-parallel
          CountWidth      \* values of the num_ports byte of the response

ASSUME TransferAssumption ==
  /\ {NumChunks, CountWidth} \subseteq Nat \ {0}
  /\ MaxWorkers \in Nat /\ Parallel \subseteq 0 .. MaxWorkers
  /\ Retries \subseteq Nat /\ MaxParallel \subseteq Nat

Chunk  == 0 .. NumChunks - 1
Worker == 0 .. MaxWorkers - 1
Query  == -1                      \* the frame of QUERY_MAGIC

VARIABLES
  opts,       \* the command lines of both ends
  run,        \* where run_client is
  exit,       \* how it has ended
  flag,       \* shutdown_flag
  signalled,  \* ghost: the user has pressed Ctrl+C
  wst,        \* where each worker is
  todo,       \* its chunks that are still ahead; the least is the current one
  attempt,    \* the loop counter of send_chunk
  already,    \* the answer to query_received
  failList,   \* fail_list
  wire,       \* frames on their way to the server, per data connection
  reply,      \* frames on their way to the client
  sst,        \* the server's end of each data connection
  srv,        \* where handle_control_connection is
  resp,       \* the status of the handshake response
  ports,      \* the number of ports the client reads in it
  final,      \* the final status
  recorded,   \* received_chunks
  failed,     \* FileReceiver.failed
  held,       \* the output file holds what the client announced
  faulty      \* ghost: something has gone wrong that need not go wrong

main  == <<run, exit, flag, signalled>>
work  == <<wst, todo, attempt, failList>>
data  == <<already, wire, reply, sst>>
ctrl  == <<srv, resp, ports, final>>
store == <<recorded, failed, held>>
vars  == <<opts, main, work, data, ctrl, store, faulty>>

Run    == {"start", "handshake", "running", "confirm", "exit"}
Exit   == {"none", "ok", "failed", "interrupted", "killed"}
Wst    == {"start", "list", "loop", "send", "sent", "await", "done"}
Sst    == {"none", "queued", "top", "recv", "closed"}
Srv    == {"none", "asked", "waiting", "assemble", "over", "crashed"}
Status == {"none", "ok", "err", "exists", "complete"}
Answer == {"list", "ack", "nack"}

Options == [parallel : Parallel, retries : Retries, maxParallel : MaxParallel]

Smaller(a, b) == IF a < b THEN a ELSE b
Least(S) == CHOOSE c \in S : \A d \in S : c =< d
Current(w) == Least(todo[w])

TypeOK ==
  /\ opts \in Options
  /\ run \in Run /\ exit \in Exit
  /\ flag \in BOOLEAN /\ signalled \in BOOLEAN
  /\ wst \in [Worker -> Wst]
  /\ todo \in [Worker -> SUBSET Chunk]
  /\ attempt \in [Worker -> Nat]
  /\ \A w \in Worker : attempt[w] # 0 => attempt[w] < opts.retries
  /\ already \in [Worker -> SUBSET Chunk]
  /\ failList \in [Worker -> SUBSET Chunk]
  /\ wire \in [Worker -> Seq(Chunk \cup {Query})]
  /\ reply \in [Worker -> Seq(Answer)]
  /\ sst \in [Worker -> Sst]
  /\ srv \in Srv /\ resp \in Status /\ final \in Status
  /\ ports \in Nat
  /\ recorded \in SUBSET Chunk
  /\ failed \in BOOLEAN /\ held \in BOOLEAN /\ faulty \in BOOLEAN

(* Any command lines; an earlier run may have left chunks, or the file.    *)
Init ==
  /\ opts \in Options
  /\ run = "start" /\ exit = "none"
  /\ flag = FALSE /\ signalled = FALSE
  /\ wst = [w \in Worker |-> "done"]
  /\ todo = [w \in Worker |-> {}]
  /\ attempt = [w \in Worker |-> 0]
  /\ already = [w \in Worker |-> {}]
  /\ failList = [w \in Worker |-> {}]
  /\ wire = [w \in Worker |-> <<>>]
  /\ reply = [w \in Worker |-> <<>>]
  /\ sst = [w \in Worker |-> "none"]
  /\ srv = "none" /\ resp = "none" /\ final = "none"
  /\ ports = 0
  /\ recorded \in SUBSET Chunk
  /\ failed = FALSE /\ held \in BOOLEAN /\ faulty = FALSE

-----------------------------------------------------------------------------
(* run_client.                                                             *)

Ends(how) == run' = "exit" /\ exit' = how

(* The file is gone, or the server cannot be reached.                      *)
SetupFails ==
  /\ run = "start"
  /\ Ends("failed") /\ faulty' = TRUE
  /\ UNCHANGED <<opts, flag, signalled, work, data, ctrl, store>>

SendHandshake ==
  /\ run = "start"
  /\ run' = "handshake" /\ srv' = "asked"
  /\ UNCHANGED <<opts, exit, flag, signalled, work, data, resp, ports, final,
                 store, faulty>>

(* setup_workers: min(parallel, ports) workers, chunks dealt in turn.      *)
NumWorkers == IF ports = 0 THEN 0 ELSE Smaller(opts.parallel, ports)

(* Mutant: the chunks are dealt to as many workers as there are ports.     *)
Assigned_PerPort(w) ==
  {c \in Chunk : w < NumWorkers /\ c % ports = w}

Assigned(w) == {c \in Chunk : w < NumWorkers /\ c % NumWorkers = w}

(* Without ports the workers are skipped.                                  *)
StartWorkers ==
  /\ run = "handshake" /\ resp = "ok"
  /\ run' = IF ports = 0 THEN "confirm" ELSE "running"
  /\ todo' = [w \in Worker |-> Assigned(w)]
  /\ wst' = [w \in Worker |-> IF Assigned(w) = {} THEN "done" ELSE "start"]
  /\ UNCHANGED <<opts, exit, flag, signalled, attempt, failList, data, ctrl,
                 store, faulty>>

FileExists ==
  /\ run = "handshake" /\ resp = "exists"
  /\ Ends("ok")
  /\ UNCHANGED <<opts, flag, signalled, work, data, ctrl, store, faulty>>

AllOnServer ==
  /\ run = "handshake" /\ resp = "complete"
  /\ run' = "confirm"
  /\ UNCHANGED <<opts, exit, flag, signalled, work, data, ctrl, store, faulty>>

Rejected ==
  /\ run = "handshake" /\ resp = "err"
  /\ Ends("failed")
  /\ UNCHANGED <<opts, flag, signalled, work, data, ctrl, store, faulty>>

(* No response within 30 seconds: the server may be hashing the existing   *)
(* file, or the parts of an earlier run.                                   *)
ResponseTimeout ==
  /\ run = "handshake" /\ resp = "none"
  /\ Ends("failed") /\ faulty' = TRUE
  /\ UNCHANGED <<opts, flag, signalled, work, data, ctrl, store>>

(* run_workers has joined every worker.  Its flag decides, not its list.   *)
Join ==
  /\ run = "running"
  /\ \A w \in Worker : wst[w] = "done"
  /\ IF flag THEN Ends("interrupted")
     ELSE IF \E w \in Worker : failList[w] # {} THEN Ends("failed")
     ELSE run' = "confirm" /\ UNCHANGED exit
  /\ UNCHANGED <<opts, flag, signalled, work, data, ctrl, store, faulty>>

(* Mutant: any answer is taken for RESP_OK.                                *)
ReadFinal_AnyStatus ==
  /\ run = "confirm" /\ final # "none"
  /\ Ends("ok")
  /\ UNCHANGED <<opts, flag, signalled, work, data, ctrl, store, faulty>>

ReadFinal ==
  /\ run = "confirm" /\ final # "none"
  /\ Ends(IF final = "ok" THEN "ok" ELSE "failed")
  /\ UNCHANGED <<opts, flag, signalled, work, data, ctrl, store, faulty>>

(* The connection breaks, or the timeout of recv_final_status expires.  It *)
(* is nobody's fault only if the server is not going to answer at all.     *)
AnswerComing == \/ srv = "assemble"
                \/ srv = "waiting" /\ (failed \/ recorded = Chunk)

NoFinal ==
  /\ run = "confirm" /\ final = "none"
  /\ Ends("failed")
  /\ faulty' = (faulty \/ AnswerComing)
  /\ UNCHANGED <<opts, flag, signalled, work, data, ctrl, store>>

(* The handler that setup_workers installs.  Nothing reads the flag any    *)
(* more once the workers have ended.                                       *)
CtrlC ==
  /\ run \in {"running", "confirm"} /\ resp = "ok"
  /\ ~signalled
  /\ flag' = TRUE /\ signalled' = TRUE /\ faulty' = TRUE
  /\ UNCHANGED <<opts, run, exit, work, data, ctrl, store>>

(* The process is killed; before setup_workers, Ctrl+C does just that.     *)
Killed ==
  /\ run # "exit"
  /\ Ends("killed") /\ faulty' = TRUE
  /\ wst' = [w \in Worker |-> "done"]
  /\ UNCHANGED <<opts, flag, signalled, todo, attempt, failList, data, ctrl,
                 store>>

-----------------------------------------------------------------------------
(* worker.                                                                 *)

Go(w, l) == wst' = [wst EXCEPT ![w] = l]

(* A worker that finds the flag set reports nothing.                       *)
Stop(w) ==
  /\ wst[w] \in {"start", "loop"} /\ flag
  /\ Go(w, "done")
  /\ UNCHANGED <<opts, main, todo, attempt, failList, data, ctrl, store,
                 faulty>>

(* The query is sent at once; it waits where the connection waits.         *)
Connect(w) ==
  /\ wst[w] = "start" /\ ~flag /\ srv # "crashed"
  /\ Go(w, "list")
  /\ sst' = [sst EXCEPT ![w] = "queued"]
  /\ wire' = [wire EXCEPT ![w] = Append(@, Query)]
  /\ UNCHANGED <<opts, main, todo, attempt, failList, already, reply, ctrl,
                 store, faulty>>

(* All of a worker's chunks have failed; the flag is left alone.           *)
FailAll(w) ==
  /\ failList' = [failList EXCEPT ![w] = todo[w]]
  /\ Go(w, "done")
  /\ UNCHANGED <<opts, main, todo, attempt, data, ctrl, store>>

ConnectFails(w) == wst[w] = "start" /\ ~flag /\ FailAll(w) /\ faulty' = TRUE

ReadList(w) ==
  /\ wst[w] = "list" /\ reply[w] # <<>>
  /\ reply' = [reply EXCEPT ![w] = Tail(@)]
  /\ Go(w, "loop")
  /\ UNCHANGED <<opts, main, todo, attempt, failList, already, wire, sst, ctrl,
                 store, faulty>>

(* The connection is closed, or 30 seconds have passed.                    *)
QueryFails(w) ==
  /\ wst[w] = "list" /\ reply[w] = <<>>
  /\ FailAll(w)
  /\ faulty' = (faulty \/ sst[w] # "closed")

AllTried(w) ==
  /\ wst[w] = "loop" /\ ~flag /\ todo[w] = {}
  /\ Go(w, "done")
  /\ UNCHANGED <<opts, main, todo, attempt, failList, data, ctrl, store,
                 faulty>>

Skip(w) ==
  /\ wst[w] = "loop" /\ ~flag /\ todo[w] # {}
  /\ Current(w) \in already[w]
  /\ todo' = [todo EXCEPT ![w] = @ \ {Current(w)}]
  /\ UNCHANGED <<opts, main, wst, attempt, failList, data, ctrl, store, faulty>>

BeginChunk(w) ==
  /\ wst[w] = "loop" /\ ~flag /\ todo[w] # {}
  /\ Current(w) \notin already[w]
  /\ attempt' = [attempt EXCEPT ![w] = 0]
  /\ Go(w, "send")
  /\ UNCHANGED <<opts, main, todo, failList, data, ctrl, store, faulty>>

(* send_chunk returns Ok(true): with an ACK, or without one.               *)
Counted(w) ==
  /\ todo' = [todo EXCEPT ![w] = @ \ {Current(w)}]
  /\ Go(w, "loop")
  /\ UNCHANGED <<opts, main, attempt, failList>>

(* Mutant: a failed chunk does not stop the workers.                       *)
Failed_GoOn(w) ==
  /\ todo' = [todo EXCEPT ![w] = @ \ {Current(w)}]
  /\ failList' = [failList EXCEPT ![w] = @ \cup {Current(w)}]
  /\ Go(w, "loop")
  /\ UNCHANGED <<opts, run, exit, flag, signalled, attempt>>

(* send_chunk returns Ok(false) or Err: every worker is told to stop.      *)
Failed(w) ==
  /\ todo' = [todo EXCEPT ![w] = @ \ {Current(w)}]
  /\ failList' = [failList EXCEPT ![w] = @ \cup {Current(w)}]
  /\ flag' = TRUE
  /\ Go(w, "loop")
  /\ UNCHANGED <<opts, run, exit, signalled, attempt>>

(* --retries 0: the loop of send_chunk has no round.                       *)
NoAttempt(w) ==
  /\ wst[w] = "send" /\ opts.retries = 0
  /\ Failed(w)
  /\ UNCHANGED <<data, ctrl, store, faulty>>

(* The frame reaches the kernel; when the connection is closed already, it *)
(* goes nowhere.                                                           *)
Send(w) ==
  /\ wst[w] = "send" /\ opts.retries > 0
  /\ wire' = [wire EXCEPT ![w] =
                IF sst[w] = "closed" THEN @ ELSE Append(@, Current(w))]
  /\ Go(w, "sent")
  /\ UNCHANGED <<opts, main, todo, attempt, failList, already, reply, sst, ctrl,
                 store, faulty>>

SendFails(w) ==
  /\ wst[w] = "send" /\ opts.retries > 0
  /\ Failed(w)
  /\ faulty' = (faulty \/ sst[w] # "closed")
  /\ UNCHANGED <<data, ctrl, store>>

(* The flag, read between the send and the wait for the ACK.               *)
SkipAck(w) ==
  /\ wst[w] = "sent" /\ flag
  /\ Counted(w)
  /\ UNCHANGED <<data, ctrl, store, faulty>>

WaitForAck(w) ==
  /\ wst[w] = "sent" /\ ~flag
  /\ Go(w, "await")
  /\ UNCHANGED <<opts, main, todo, attempt, failList, data, ctrl, store, faulty>>

Takes(w, a) ==
  /\ wst[w] = "await" /\ reply[w] # <<>> /\ Head(reply[w]) = a
  /\ reply' = [reply EXCEPT ![w] = Tail(@)]
  /\ UNCHANGED <<already, wire, sst, ctrl, store, faulty>>

ReadAck(w) == Takes(w, "ack") /\ Counted(w)

(* Mutant: one retry too few.                                              *)
MayRetry_OneLess(w) == attempt[w] < opts.retries - 2

(* Mutant: one attempt too many.                                           *)
MayRetry_OneMore(w) == attempt[w] < opts.retries

MayRetry(w) == attempt[w] < opts.retries - 1

(* The pause before the next attempt does not look at the flag.            *)
ReadNack(w) ==
  /\ Takes(w, "nack")
  /\ IF MayRetry(w)
       THEN /\ attempt' = [attempt EXCEPT ![w] = @ + 1]
            /\ Go(w, "send")
            /\ UNCHANGED <<opts, main, todo, failList>>
       ELSE Failed(w)

(* The connection is closed, or the timeout expires: no retry.             *)
AckFails(w) ==
  /\ wst[w] = "await" /\ reply[w] = <<>>
  /\ Failed(w)
  /\ faulty' = (faulty \/ sst[w] # "closed")
  /\ UNCHANGED <<data, ctrl, store>>

-----------------------------------------------------------------------------
(* The data connections of the server.                                     *)

Goes(w, l) == sst' = [sst EXCEPT ![w] = l]

(* After cleanup there is no receiver for the port.                        *)
Accept(w) ==
  /\ sst[w] = "queued" /\ srv # "crashed"
  /\ Goes(w, IF srv = "over" THEN "closed" ELSE "top")
  /\ UNCHANGED <<opts, main, work, already, wire, reply, ctrl, store, faulty>>

LoopTop(w) ==
  /\ sst[w] = "top"
  /\ Goes(w, IF failed THEN "closed" ELSE "recv")
  /\ UNCHANGED <<opts, main, work, already, wire, reply, ctrl, store, faulty>>

Receives(w) ==
  /\ sst[w] = "recv" /\ wire[w] # <<>>
  /\ wire' = [wire EXCEPT ![w] = Tail(@)]
  /\ Goes(w, "top")

Says(w, a) == reply' = [reply EXCEPT ![w] = Append(@, a)]

(* The list is what the server had when it answered.                       *)
HandleQuery(w) ==
  /\ Receives(w) /\ Head(wire[w]) = Query
  /\ already' = [already EXCEPT ![w] = recorded]
  /\ Says(w, "list")
  /\ UNCHANGED <<opts, main, work, ctrl, store, faulty>>

StoreChunk(w) ==
  /\ Receives(w) /\ Head(wire[w]) # Query
  /\ recorded' = recorded \cup {Head(wire[w])}
  /\ Says(w, "ack")
  /\ UNCHANGED <<opts, main, work, already, ctrl, failed, held, faulty>>

(* The bytes do not match their hash.  The client retries, unless this was *)
(* the last attempt.                                                       *)
HashMismatch(w) ==
  /\ Receives(w) /\ Head(wire[w]) # Query
  /\ Says(w, "nack")
  /\ faulty' = (faulty \/ attempt[w] >= opts.retries - 1)
  /\ UNCHANGED <<opts, main, work, already, ctrl, store>>

(* The part or the metadata cannot be written.                             *)
StoreFails(w) ==
  /\ Receives(w) /\ Head(wire[w]) # Query
  /\ failed' = TRUE /\ faulty' = TRUE
  /\ Says(w, "nack")
  /\ UNCHANGED <<opts, main, work, already, ctrl, recorded, held>>

(* A chunk of an unexpected length gets no answer at all.                  *)
DropChunk(w) ==
  /\ Receives(w) /\ Head(wire[w]) # Query
  /\ faulty' = TRUE
  /\ UNCHANGED <<opts, main, work, already, reply, ctrl, store>>

Hangup(w) ==
  /\ sst[w] = "recv" /\ wire[w] = <<>> /\ wst[w] = "done"
  /\ Goes(w, "closed")
  /\ UNCHANGED <<opts, main, work, already, wire, reply, ctrl, store, faulty>>

(* The network, the limit on frames, or the server's own timeout.          *)
ConnectionLost(w) ==
  /\ sst[w] \notin {"none", "closed"}
  /\ Goes(w, "closed") /\ faulty' = TRUE
  /\ wire' = [wire EXCEPT ![w] = <<>>]
  /\ \/ reply' = [reply EXCEPT ![w] = <<>>]
     \/ UNCHANGED reply
  /\ UNCHANGED <<opts, main, work, already, ctrl, store>>

-----------------------------------------------------------------------------
(* handle_control_connection.                                              *)

RespondExists ==
  /\ srv = "asked" /\ held
  /\ resp' = "exists" /\ srv' = "over"
  /\ UNCHANGED <<opts, main, work, data, ports, final, store, faulty>>

RespondComplete ==
  /\ srv = "asked" /\ ~held /\ recorded = Chunk
  /\ resp' = "complete" /\ srv' = "assemble"
  /\ UNCHANGED <<opts, main, work, data, ports, final, store, faulty>>

(* allocate_sockets, the response, spawn_data_servers.                     *)
RespondOk ==
  /\ srv = "asked" /\ ~held /\ recorded # Chunk
  /\ resp' = "ok" /\ srv' = "waiting"
  /\ ports' = Smaller(NumChunks, opts.maxParallel) % CountWidth
  /\ UNCHANGED <<opts, main, work, data, final, store, faulty>>

RespondError ==
  /\ srv = "asked"
  /\ resp' = "err" /\ srv' = "over" /\ faulty' = TRUE
  /\ UNCHANGED <<opts, main, work, data, ports, final, store>>

(* Mutant: the control connection is not watched.                          *)
WaitDone_Blind ==
  /\ srv = "waiting"
  /\ recorded = Chunk \/ failed
  /\ IF failed \/ recorded # Chunk
       THEN srv' = "over" /\ final' = "err"
       ELSE srv' = "assemble" /\ UNCHANGED final
  /\ UNCHANGED <<opts, main, work, data, resp, ports, store, faulty>>

(* wait_for_completion, and the outcome.  A client that ends closes its    *)
(* control connection.                                                     *)
WaitDone ==
  /\ srv = "waiting"
  /\ recorded = Chunk \/ failed \/ run = "exit"
  /\ IF failed \/ recorded # Chunk
       THEN srv' = "over" /\ final' = "err"
       ELSE srv' = "assemble" /\ UNCHANGED final
  /\ UNCHANGED <<opts, main, work, data, resp, ports, store, faulty>>

Assemble ==
  /\ srv = "assemble"
  /\ held' = TRUE /\ final' = "ok" /\ srv' = "over"
  /\ UNCHANGED <<opts, main, work, data, resp, ports, recorded, failed, faulty>>

AssemblyFails ==
  /\ srv = "assemble"
  /\ final' = "err" /\ srv' = "over" /\ faulty' = TRUE
  /\ UNCHANGED <<opts, main, work, data, resp, ports, store>>

(* The server's process ends; what has been recorded is on its disk.       *)
ServerCrash ==
  /\ srv \in {"asked", "waiting", "assemble"}
  /\ srv' = "crashed" /\ faulty' = TRUE
  /\ sst' = [w \in Worker |-> IF sst[w] = "none" THEN "none" ELSE "closed"]
  /\ wire' = [w \in Worker |-> <<>>]
  /\ UNCHANGED <<opts, main, work, already, reply, resp, ports, final, store>>

-----------------------------------------------------------------------------
ClientStep ==
  \/ SendHandshake \/ StartWorkers \/ FileExists \/ AllOnServer \/ Rejected
  \/ ResponseTimeout \/ Join \/ ReadFinal \/ NoFinal

WorkerStep(w) ==
  \/ Stop(w) \/ Connect(w) \/ ConnectFails(w) \/ ReadList(w) \/ QueryFails(w)
  \/ AllTried(w) \/ Skip(w) \/ BeginChunk(w) \/ NoAttempt(w) \/ Send(w)
  \/ SkipAck(w) \/ WaitForAck(w) \/ ReadAck(w) \/ ReadNack(w)
  \/ AckFails(w)

DataStep(w) ==
  \/ Accept(w) \/ LoopTop(w) \/ HandleQuery(w) \/ StoreChunk(w) \/ Hangup(w)

ServerStep ==
  RespondExists \/ RespondComplete \/ RespondOk \/ WaitDone \/ Assemble

Fault ==
  \/ SetupFails \/ CtrlC \/ Killed \/ RespondError \/ AssemblyFails
  \/ ServerCrash
  \/ \E w \in Worker :
       \/ SendFails(w) \/ HashMismatch(w)
       \/ StoreFails(w) \/ DropChunk(w) \/ ConnectionLost(w)

Next ==
  \/ ClientStep \/ ServerStep \/ Fault
  \/ \E w \in Worker : WorkerStep(w) \/ DataStep(w)

Spec == Init /\ [][Next]_vars

(* Fairness: tokio runs every task that can run, and every wait of the     *)
(* client ends, if only by its timeout.  Nothing is assumed of faults.     *)
FairSpec ==
  /\ Spec
  /\ WF_vars(ClientStep) /\ WF_vars(ServerStep)
  /\ \A w \in Worker : WF_vars(WorkerStep(w)) /\ WF_vars(DataStep(w))

-----------------------------------------------------------------------------
(* Properties                                                              *)

(* The ACK a worker is about to read says that the server has the chunk it *)
(* is waiting for, although the byte names no chunk: a late ACK is never   *)
(* taken for the next chunk.  (send_chunk gives up at once on a timeout,   *)
(* and worker sets the flag, so that it sends nothing after it.)           *)
AckAnswersChunk ==
  \A w \in Worker :
    wst[w] = "await" /\ reply[w] # <<>> /\ Head(reply[w]) = "ack"
      => Current(w) \in recorded

(* "All chunks sent, waiting for server confirmation" is true: a client    *)
(* that had workers waits only when the server has every chunk.            *)
(* (setup_workers, the loop of worker, and the tests after run_workers.)   *)
AllSent ==
  run = "confirm" /\ resp = "ok" /\ NumWorkers > 0 => recorded = Chunk

(* A client that reports success has delivered: the file holds what it     *)
(* announced.  (run_client, recv_final_status and the server's outcome.)   *)
SuccessMeansHeld == exit = "ok" => held

(* Neither end waits for the other for ever, whatever fails and whatever   *)
(* the options are; --max-parallel 0 and --parallel 0 leave both waiting   *)
(* until the client's timeout.  (Timeouts of protocol.rs; EOF on the       *)
(* control connection in wait_for_completion.)                             *)
BothEnd ==
  <>[](/\ run = "exit"
       /\ srv \in {"none", "over", "crashed"}
       /\ \A w \in Worker : sst[w] \in {"none", "closed"})

(* Unless something goes wrong that retries do not cover, the file is      *)
(* delivered by the time the client ends; a hash mismatch is covered as    *)
(* long as attempts are left.  (The retry loop of send_chunk, the server's *)
(* outcome, and everything between them.)                                  *)
Usable == /\ opts.parallel > 0 /\ opts.retries > 0
          /\ Smaller(NumChunks, opts.maxParallel) % CountWidth > 0

DeliveredUnlessFaulty == Usable => <>(faulty \/ (run = "exit" /\ held))

(* "Atomic flag for graceful shutdown on signal" (client/mod.rs): the      *)
(* client calls itself interrupted, and exits with status 0, only if its   *)
(* user has interrupted it.                                                *)
InterruptedBySignal == exit = "interrupted" => signalled

(* "Workers query server for already-received chunks before sending,       *)
(* enabling transfer resumption" (client/mod.rs): a client that reports    *)
(* failed chunks for a file that the server has assembled has met a fault. *)
(* A worker whose chunks were all there is outrun when the others complete *)
(* the file first: its connection finds no receiver, and is closed.        *)
FailureMeansFault == exit = "failed" /\ held => faulty
=============================================================================
