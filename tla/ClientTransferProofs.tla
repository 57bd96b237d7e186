------------------------ MODULE ClientTransferProofs ------------------------
(***************************************************************************)
(* For any number of chunks and workers, any options and any faults: an    *)
(* ACK is never taken for the wrong chunk, "all chunks sent" is true when  *)
(* it is said, and a client that reports success has delivered its file.   *)
(***************************************************************************)
EXTENDS ClientTransfer, WellFoundedInduction, TLAPS

-----------------------------------------------------------------------------
(* The inductive invariant                                                 *)

(* Nobody answers a question that was not asked, and the answer stays.     *)
Asked ==
  /\ run = "start" => srv = "none"
  /\ srv \in {"none", "asked"} => resp = "none"
  /\ run \in {"running", "confirm"} => resp # "none"
  /\ run = "running" => resp = "ok"

(* There are no workers, and nothing on the data connections, before the   *)
(* response.                                                               *)
Fresh ==
  run \in {"start", "handshake"} =>
    \A w \in Worker : /\ wst[w] = "done" /\ failList[w] = {}
                      /\ wire[w] = <<>> /\ reply[w] = <<>>

(* Good news is true.                                                      *)
GoodNews == resp = "exists" \/ final = "ok" \/ exit = "ok" => held

(* At most one frame is on a worker's connection, in either direction, as  *)
(* long as the worker goes on: it is about the chunk that the worker is    *)
(* sending, and an ACK means that the chunk has been recorded.             *)
Idle(w) == wire[w] = <<>> /\ reply[w] = <<>>

InFlight(w) ==
  /\ wst[w] \in {"start", "send"} => Idle(w)
  /\ wst[w] = "loop" /\ ~flag => Idle(w)
  /\ wst[w] = "list" =>
       \/ Idle(w)
       \/ wire[w] = <<Query>> /\ reply[w] = <<>>
       \/ wire[w] = <<>> /\ reply[w] = <<"list">>
  /\ wst[w] \in {"sent", "await"} =>
       \/ Idle(w)
       \/ wire[w] = <<Current(w)>> /\ reply[w] = <<>>
       \/ wire[w] = <<>> /\ reply[w] = <<"nack">>
       \/ wire[w] = <<>> /\ reply[w] = <<"ack">> /\ Current(w) \in recorded
  /\ wst[w] \in {"send", "sent", "await"} => todo[w] # {}
  /\ wst[w] \in {"start", "list"} => failList[w] = {}

(* Until the flag is set, no chunk of a worker gets lost: it is ahead, or  *)
(* has been recorded, or is in the list of failures.                       *)
Covered(w) ==
  /\ Assigned(w) \subseteq todo[w] \cup recorded \cup failList[w]
  /\ wst[w] = "done" => todo[w] \subseteq failList[w]

Progress == run = "running" /\ ~flag => \A w \in Worker : Covered(w)

Known   == \A w \in Worker : already[w] \subseteq recorded
Flights == \A w \in Worker : InFlight(w)

TransferInv ==
  TypeOK /\ Asked /\ Fresh /\ GoodNews /\ Flights /\ Known /\ Progress /\ AllSent

-----------------------------------------------------------------------------
(* Frames and chunks                                                       *)

LEMMA OneFrame ==
  ASSUME NEW x
  PROVE  /\ Append(<<>>, x) = <<x>>
         /\ Head(<<x>>) = x /\ Tail(<<x>>) = <<>> /\ <<x>> # <<>>
OBVIOUS

(* A worker that has chunks ahead has a current one.                       *)
LEMMA LeastIn ==
  ASSUME NEW S \in SUBSET Nat, S # {}
  PROVE  Least(S) \in S
<1> DEFINE R == OpToRel(<, Nat)
<1>1. R = {p \in Nat \X Nat : p[1] < p[2]}
  BY DEF OpToRel
<1>2. IsWellFoundedOn(R, Nat)
  BY NatLessThanWellFounded
<1> HIDE DEF R
<1>3. PICK x \in S : \A y \in S : ~(<<y, x>> \in R)
  BY <1>2, WFMin
<1>4. \A y \in Nat : y < x => <<y, x>> \in R
  BY <1>1
<1>5. \A y \in S : ~(y < x)
  BY <1>3, <1>4
<1>6. \A y \in S : x =< y
  BY <1>5
<1> QED BY <1>6 DEF Least

LEMMA CurrentIn ==
  ASSUME TypeOK, NEW w \in Worker, todo[w] # {}
  PROVE  Current(w) \in todo[w] /\ Current(w) \in Chunk
<1>1. todo[w] \subseteq Chunk /\ Chunk \subseteq Nat
  BY TransferAssumption DEF TypeOK, Chunk
<1> QED BY <1>1, LeastIn DEF Current

(* Round robin leaves no chunk out.                                        *)
LEMMA EveryChunkAssigned ==
  ASSUME TypeOK, NumWorkers > 0, NEW c \in Chunk
  PROVE  \E w \in Worker : c \in Assigned(w)
<1>1. opts.parallel \in 0 .. MaxWorkers /\ MaxWorkers \in Nat /\ ports \in Nat
  BY TransferAssumption DEF TypeOK, Options
<1>2. NumWorkers \in Nat \ {0} /\ NumWorkers =< MaxWorkers
  BY <1>1 DEF NumWorkers, Smaller
<1>3. c \in Nat
  BY TransferAssumption DEF Chunk
<1>4. c % NumWorkers \in 0 .. NumWorkers - 1
  <2> HIDE DEF NumWorkers
  <2> QED BY <1>2, <1>3
<1>5. c % NumWorkers \in Worker /\ c % NumWorkers < NumWorkers
  BY <1>1, <1>2, <1>4 DEF Worker
<1>6. c \in Assigned(c % NumWorkers)
  BY <1>5 DEF Assigned
<1> QED BY <1>5, <1>6

-----------------------------------------------------------------------------
(* Who changes what                                                        *)

WorkerAct(w) == WorkerStep(w) \/ SendFails(w)

DataAct(w) == \/ DataStep(w) \/ HashMismatch(w) \/ StoreFails(w)
              \/ DropChunk(w) \/ ConnectionLost(w)

(* A worker touches what is its own, the flag, and the chunks of nobody    *)
(* else.                                                                   *)
LEMMA WorkerFrame ==
  ASSUME TypeOK, NEW w \in Worker, WorkerAct(w)
  PROVE  /\ UNCHANGED <<opts, run, exit, signalled, ctrl, store, already>>
         /\ flag => flag'
         /\ wst[w] # "done"
         /\ \A v \in Worker \ {w} :
              /\ wst'[v] = wst[v] /\ todo'[v] = todo[v]
              /\ attempt'[v] = attempt[v] /\ failList'[v] = failList[v]
              /\ wire'[v] = wire[v] /\ reply'[v] = reply[v]
<1> USE DEF TypeOK, Go, main, data, ctrl, store
<1>1. CASE Stop(w) \/ Connect(w) \/ ConnectFails(w) \/ ReadList(w)
           \/ QueryFails(w)
  BY <1>1 DEF Stop, Connect, ConnectFails, ReadList, QueryFails, FailAll
<1>2. CASE AllTried(w) \/ Skip(w) \/ BeginChunk(w) \/ Send(w)
           \/ WaitForAck(w)
  BY <1>2 DEF AllTried, Skip, BeginChunk, Send, WaitForAck
<1>3. CASE NoAttempt(w) \/ SendFails(w) \/ AckFails(w)
  BY <1>3 DEF NoAttempt, SendFails, AckFails, Failed
<1>4. CASE SkipAck(w) \/ ReadAck(w)
  BY <1>4 DEF SkipAck, ReadAck, Takes, Counted
<1>5. CASE ReadNack(w)
  BY <1>5 DEF ReadNack, Takes, Failed
<1> QED BY <1>1, <1>2, <1>3, <1>4, <1>5 DEF WorkerAct, WorkerStep

(* The server's end of a data connection records chunks, and leaves the    *)
(* client's variables and the other connections alone.                     *)
LEMMA DataFrame ==
  ASSUME TypeOK, NEW w \in Worker, DataAct(w)
  PROVE  /\ UNCHANGED <<opts, main, work, ctrl, held>>
         /\ recorded \subseteq recorded'
         /\ \A v \in Worker \ {w} :
              /\ wire'[v] = wire[v] /\ reply'[v] = reply[v]
              /\ already'[v] = already[v]
<1> USE DEF TypeOK, Goes, Says, Receives, store
<1>1. CASE Accept(w) \/ LoopTop(w) \/ Hangup(w) \/ ConnectionLost(w)
  BY <1>1 DEF Accept, LoopTop, Hangup, ConnectionLost
<1>2. CASE HandleQuery(w) \/ StoreChunk(w) \/ HashMismatch(w)
           \/ StoreFails(w) \/ DropChunk(w)
  BY <1>2 DEF HandleQuery, StoreChunk, HashMismatch, StoreFails, DropChunk
<1> QED BY <1>1, <1>2 DEF DataAct, DataStep

-----------------------------------------------------------------------------
(* Types                                                                   *)

LEMMA InitInv == Init => TransferInv
<1> SUFFICES ASSUME Init PROVE TransferInv
  OBVIOUS
<1>1. /\ opts \in Options /\ recorded \in SUBSET Chunk /\ ports \in Nat
      /\ attempt \in [Worker -> Nat]
      /\ \A w \in Worker : attempt[w] # 0 => attempt[w] < opts.retries
  BY DEF Init
<1>2. /\ flag \in BOOLEAN /\ signalled \in BOOLEAN /\ failed \in BOOLEAN
      /\ held \in BOOLEAN /\ faulty \in BOOLEAN
  BY Zenon DEF Init
<1>3. /\ run \in Run /\ exit \in Exit /\ wst \in [Worker -> Wst]
      /\ todo \in [Worker -> SUBSET Chunk]
      /\ already \in [Worker -> SUBSET Chunk]
      /\ failList \in [Worker -> SUBSET Chunk]
      /\ sst \in [Worker -> Sst]
      /\ srv \in Srv /\ resp \in Status /\ final \in Status
  BY DEF Init, Run, Exit, Wst, Sst, Srv, Status
<1>4. /\ wire \in [Worker -> Seq(Chunk \cup {Query})]
      /\ reply \in [Worker -> Seq(Answer)]
  BY DEF Init
<1>5. TypeOK
  BY <1>1, <1>2, <1>3, <1>4 DEF TypeOK
<1>6. Asked /\ Fresh /\ GoodNews /\ Flights /\ Known /\ Progress /\ AllSent
  BY DEF Init, Asked, Fresh, GoodNews, Flights, InFlight, Idle, Known,
         Progress, AllSent
<1> QED BY <1>5, <1>6 DEF TransferInv

(* What a worker does to its own variables.                                *)
LEMMA WorkerTypes ==
  ASSUME TypeOK, Flights, NEW w \in Worker, WorkerAct(w)
  PROVE  TypeOK'
<1> USE DEF TypeOK, Go, main, data, ctrl, store, Wst
<1>1. CASE Stop(w) \/ AllTried(w) \/ Skip(w) \/ BeginChunk(w)
           \/ WaitForAck(w)
  <2>1. CASE Stop(w)
    BY <2>1 DEF Stop
  <2>2. CASE AllTried(w)
    BY <2>2 DEF AllTried
  <2>3. CASE Skip(w)
    BY <2>3 DEF Skip
  <2>4. CASE BeginChunk(w)
    <3>1. /\ attempt' \in [Worker -> Nat]
          /\ \A v \in Worker : attempt'[v] # 0 => attempt'[v] < opts.retries
      BY <2>4 DEF BeginChunk
    <3> QED BY <2>4, <3>1 DEF BeginChunk
  <2>5. CASE WaitForAck(w)
    BY <2>5 DEF WaitForAck
  <2> QED BY <1>1, <2>1, <2>2, <2>3, <2>4, <2>5
<1>2. CASE Connect(w)
  <2>1. Append(wire[w], Query) \in Seq(Chunk \cup {Query})
    OBVIOUS
  <2>2. wire' \in [Worker -> Seq(Chunk \cup {Query})]
    BY <1>2, <2>1 DEF Connect
  <2> QED BY <1>2, <2>2 DEF Connect, Sst
<1>3. CASE ReadList(w)
  <2>1. Tail(reply[w]) \in Seq(Answer)
    BY <1>3 DEF ReadList
  <2>2. reply' \in [Worker -> Seq(Answer)]
    BY <1>3, <2>1 DEF ReadList
  <2> QED BY <1>3, <2>2 DEF ReadList
<1>4. CASE ConnectFails(w) \/ QueryFails(w)
  BY <1>4 DEF ConnectFails, QueryFails, FailAll
<1>5. CASE Send(w)
  <2>1. Current(w) \in Chunk
    BY <1>5, CurrentIn DEF Send, Flights, InFlight
  <2>2. wire' \in [Worker -> Seq(Chunk \cup {Query})]
    BY <1>5, <2>1 DEF Send
  <2> QED BY <1>5, <2>2 DEF Send
<1>6. ASSUME Failed(w), todo[w] # {} PROVE
        /\ todo' \in [Worker -> SUBSET Chunk]
        /\ failList' \in [Worker -> SUBSET Chunk]
        /\ flag' \in BOOLEAN /\ wst' \in [Worker -> Wst]
        /\ UNCHANGED <<opts, run, exit, signalled, attempt>>
  <2>1. Current(w) \in Chunk
    BY <1>6, CurrentIn
  <2> QED BY <1>6, <2>1 DEF Failed
<1>7. CASE NoAttempt(w) \/ SendFails(w) \/ AckFails(w)
  <2>1. Failed(w) /\ todo[w] # {} /\ UNCHANGED <<data, ctrl, store>>
    BY <1>7 DEF NoAttempt, SendFails, AckFails, Flights, InFlight
  <2>2. faulty' \in BOOLEAN
    BY <1>7 DEF NoAttempt, SendFails, AckFails
  <2> QED BY <1>6, <2>1, <2>2
<1>8. CASE SkipAck(w)
  BY <1>8 DEF SkipAck, Counted
<1>9. ASSUME NEW a, Takes(w, a) PROVE
        /\ reply' \in [Worker -> Seq(Answer)]
        /\ UNCHANGED <<already, wire, sst, ctrl, store, faulty>>
  BY <1>9 DEF Takes
<1>10. CASE ReadAck(w)
  BY <1>9, <1>10 DEF ReadAck, Counted
<1>11. CASE ReadNack(w)
  <2>1. todo[w] # {} /\ Takes(w, "nack")
    BY <1>11 DEF ReadNack, Takes, Flights, InFlight
  <2>2. CASE MayRetry(w)
    <3>1. opts.retries \in Nat
      BY TransferAssumption DEF Options
    <3>2. attempt' = [attempt EXCEPT ![w] = @ + 1] /\ UNCHANGED opts
      BY <1>11, <2>2 DEF ReadNack
    <3>3. attempt[w] \in Nat /\ attempt[w] + 1 < opts.retries
      BY <2>2, <3>1 DEF MayRetry
    <3>4. /\ attempt' \in [Worker -> Nat]
          /\ \A v \in Worker : attempt'[v] # 0 => attempt'[v] < opts.retries
      BY <3>2, <3>3
    <3> QED BY <1>9, <1>11, <2>1, <2>2, <3>4 DEF ReadNack
  <2>3. CASE ~MayRetry(w)
    <3>1. Failed(w)
      BY <1>11, <2>3 DEF ReadNack
    <3> QED BY <1>6, <1>9, <2>1, <3>1
  <2> QED BY <2>2, <2>3
<1> QED BY <1>1, <1>2, <1>3, <1>4, <1>5, <1>7, <1>8, <1>10, <1>11
        DEF WorkerAct, WorkerStep

LEMMA DataTypes ==
  ASSUME TypeOK, NEW w \in Worker, DataAct(w)
  PROVE  TypeOK'
<1> USE DEF TypeOK, Goes, main, work, ctrl, store, Sst
<1>1. CASE Accept(w) \/ LoopTop(w) \/ Hangup(w)
  BY <1>1 DEF Accept, LoopTop, Hangup
<1>2. CASE ConnectionLost(w)
  <2>1. wire' \in [Worker -> Seq(Chunk \cup {Query})]
    BY <1>2 DEF ConnectionLost
  <2>2. reply' \in [Worker -> Seq(Answer)]
    <3>1. CASE reply' = [reply EXCEPT ![w] = <<>>]
      BY <3>1
    <3> QED BY <1>2, <3>1 DEF ConnectionLost
  <2> QED BY <1>2, <2>1, <2>2 DEF ConnectionLost
<1>3. ASSUME Receives(w) PROVE
        /\ wire' \in [Worker -> Seq(Chunk \cup {Query})]
        /\ sst' \in [Worker -> Sst]
        /\ Head(wire[w]) \in Chunk \cup {Query}
  BY <1>3 DEF Receives
<1>4. ASSUME NEW a \in Answer, Says(w, a)
      PROVE  reply' \in [Worker -> Seq(Answer)]
  BY <1>4 DEF Says
<1>5. CASE HandleQuery(w)
  <2>1. reply' \in [Worker -> Seq(Answer)]
    BY <1>4, <1>5 DEF HandleQuery, Answer
  <2> QED BY <1>3, <1>5, <2>1 DEF HandleQuery
<1>6. CASE StoreChunk(w)
  <2>1. reply' \in [Worker -> Seq(Answer)]
    BY <1>4, <1>6 DEF StoreChunk, Answer
  <2> QED BY <1>3, <1>6, <2>1 DEF StoreChunk
<1>7. CASE HashMismatch(w)
  <2>1. reply' \in [Worker -> Seq(Answer)]
    BY <1>4, <1>7 DEF HashMismatch, Answer
  <2>2. faulty' \in BOOLEAN
    BY <1>7 DEF HashMismatch
  <2> QED BY <1>3, <1>7, <2>1, <2>2 DEF HashMismatch
<1>8. CASE StoreFails(w)
  <2>1. reply' \in [Worker -> Seq(Answer)]
    BY <1>4, <1>8 DEF StoreFails, Answer
  <2> QED BY <1>3, <1>8, <2>1 DEF StoreFails
<1>9. CASE DropChunk(w)
  BY <1>3, <1>9 DEF DropChunk
<1> QED BY <1>1, <1>2, <1>5, <1>6, <1>7, <1>8, <1>9 DEF DataAct, DataStep

(* Everything else: run_client, handle_control_connection, and faults.     *)
OtherAct ==
  \/ ClientStep \/ ServerStep
  \/ SetupFails \/ CtrlC \/ Killed \/ RespondError \/ AssemblyFails
  \/ ServerCrash

LEMMA NextSplit ==
  ASSUME Next
  PROVE  OtherAct \/ \E w \in Worker : WorkerAct(w) \/ DataAct(w)
BY DEF Next, Fault, OtherAct, WorkerAct, DataAct

LEMMA OtherTypes ==
  ASSUME TypeOK, OtherAct
  PROVE  TypeOK'
<1> USE DEF TypeOK, main, work, data, ctrl, store, Ends, Run, Exit, Srv, Status
<1>1. CASE SendHandshake
  BY <1>1 DEF SendHandshake
<1>2. CASE AllOnServer
  BY <1>2 DEF AllOnServer
<1>3. CASE FileExists \/ Rejected
  BY <1>3 DEF FileExists, Rejected
<1>4. CASE ResponseTimeout \/ SetupFails
  <2>1. faulty' \in BOOLEAN
    BY <1>4 DEF ResponseTimeout, SetupFails
  <2> QED BY <1>4, <2>1 DEF ResponseTimeout, SetupFails
<1>5. CASE StartWorkers
  <2>1. \A w \in Worker : Assigned(w) \in SUBSET Chunk
    BY DEF Assigned
  <2>2. todo' \in [Worker -> SUBSET Chunk] /\ wst' \in [Worker -> Wst]
    BY <1>5, <2>1 DEF StartWorkers, Wst
  <2> QED BY <1>5, <2>2 DEF StartWorkers
<1>6. CASE Join
  BY <1>6 DEF Join
<1>7. CASE ReadFinal
  BY <1>7 DEF ReadFinal
<1>8. CASE NoFinal
  <2>1. faulty' \in BOOLEAN
    BY <1>8 DEF NoFinal
  <2> QED BY <1>8, <2>1 DEF NoFinal
<1>9. CASE CtrlC
  <2>1. flag' \in BOOLEAN /\ signalled' \in BOOLEAN /\ faulty' \in BOOLEAN
    BY <1>9 DEF CtrlC
  <2> QED BY <1>9, <2>1 DEF CtrlC
<1>10. CASE Killed
  BY <1>10 DEF Killed, Wst
<1>11. CASE RespondExists \/ RespondComplete
  BY <1>11 DEF RespondExists, RespondComplete
<1>12. CASE RespondError \/ AssemblyFails
  <2>1. faulty' \in BOOLEAN
    BY <1>12 DEF RespondError, AssemblyFails
  <2> QED BY <1>12, <2>1 DEF RespondError, AssemblyFails
<1>13. CASE RespondOk
  <2>1. Smaller(NumChunks, opts.maxParallel) \in Nat
    BY TransferAssumption DEF Smaller, Options
  <2>2. ports' \in Nat
    BY <1>13, <2>1, TransferAssumption DEF RespondOk
  <2> QED BY <1>13, <2>2 DEF RespondOk
<1>14. CASE WaitDone
  BY <1>14 DEF WaitDone
<1>15. CASE Assemble
  BY <1>15 DEF Assemble
<1>16. CASE ServerCrash
  <2>1. wire' \in [Worker -> Seq(Chunk \cup {Query})]
    BY <1>16 DEF ServerCrash
  <2>2. sst' \in [Worker -> Sst]
    BY <1>16 DEF ServerCrash, Sst
  <2> QED BY <1>16, <2>1, <2>2 DEF ServerCrash
<1> QED BY <1>1, <1>2, <1>3, <1>4, <1>5, <1>6, <1>7, <1>8, <1>9, <1>10, <1>11,
           <1>12, <1>13, <1>14, <1>15, <1>16
        DEF OtherAct, ClientStep, ServerStep

-----------------------------------------------------------------------------
(* What is left alone stays true                                           *)

LEMMA FlightKept ==
  ASSUME NEW v \in Worker, InFlight(v),
         wst'[v] = wst[v], todo'[v] = todo[v], failList'[v] = failList[v],
         wire'[v] = wire[v], reply'[v] = reply[v],
         recorded \subseteq recorded', flag => flag'
  PROVE  InFlight(v)'
BY DEF InFlight, Idle, Current

LEMMA CoveredKept ==
  ASSUME NEW v \in Worker, Covered(v), UNCHANGED <<opts, ports>>,
         wst'[v] = wst[v], todo'[v] = todo[v], failList'[v] = failList[v],
         recorded \subseteq recorded'
  PROVE  Covered(v)'
<1>1. Assigned(v)' = Assigned(v)
  BY DEF Assigned, NumWorkers
<1> QED BY <1>1 DEF Covered

-----------------------------------------------------------------------------
(* A step of a worker                                                      *)

LEMMA WorkerFlight ==
  ASSUME TransferInv, NEW w \in Worker, WorkerAct(w)
  PROVE  InFlight(w)'
<1> USE DEF Go
<1>1. InFlight(w) /\ TypeOK
  BY DEF TransferInv, Flights
<1>2. CASE Stop(w) \/ AllTried(w) \/ ConnectFails(w) \/ QueryFails(w)
  <2>1. wst'[w] = "done"
    BY <1>1, <1>2 DEF Stop, AllTried, ConnectFails, QueryFails, FailAll, TypeOK
  <2> QED BY <2>1 DEF InFlight
<1>3. ASSUME Failed(w)
      PROVE  InFlight(w)'
  <2>1. wst'[w] = "loop" /\ flag'
    BY <1>1, <1>3 DEF Failed, TypeOK
  <2> QED BY <2>1 DEF InFlight
<1>4. CASE NoAttempt(w) \/ SendFails(w) \/ AckFails(w)
  BY <1>3, <1>4 DEF NoAttempt, SendFails, AckFails
<1>5. CASE Connect(w)
  <2>1. /\ wst'[w] = "list" /\ reply'[w] = <<>> /\ failList'[w] = {}
        /\ wire'[w] = Append(<<>>, Query)
    BY <1>1, <1>5 DEF Connect, InFlight, Idle, TypeOK
  <2> QED BY <2>1, OneFrame DEF InFlight
<1>6. CASE ReadList(w)
  <2>1. wire[w] = <<>> /\ reply[w] = <<"list">>
    BY <1>1, <1>6 DEF ReadList, InFlight, Idle
  <2>2. wst'[w] = "loop" /\ wire'[w] = <<>> /\ reply'[w] = <<>>
    BY <1>1, <1>6, <2>1, OneFrame DEF ReadList, TypeOK
  <2> QED BY <2>2 DEF InFlight, Idle
<1>7. CASE Skip(w)
  <2>1. /\ wst'[w] = "loop" /\ wire'[w] = wire[w] /\ reply'[w] = reply[w]
        /\ flag' = flag
    BY <1>7 DEF Skip, data, main
  <2> QED BY <1>1, <1>7, <2>1 DEF Skip, InFlight, Idle
<1>8. CASE BeginChunk(w)
  <2>1. /\ wst'[w] = "send" /\ wire'[w] = wire[w] /\ reply'[w] = reply[w]
        /\ todo'[w] # {} /\ Idle(w)
    BY <1>1, <1>8 DEF BeginChunk, data, TypeOK, InFlight
  <2> QED BY <2>1 DEF InFlight, Idle
<1>9. CASE Send(w)
  <2>1. /\ wst'[w] = "sent" /\ todo' = todo /\ todo[w] # {}
        /\ reply'[w] = <<>>
        /\ wire'[w] = <<>> \/ wire'[w] = Append(<<>>, Current(w))
    BY <1>1, <1>9 DEF Send, InFlight, Idle, TypeOK
  <2>2. Current(w)' = Current(w)
    BY <2>1 DEF Current
  <2> QED BY <2>1, <2>2, OneFrame DEF InFlight, Idle
<1>10. CASE SkipAck(w)
  <2>1. wst'[w] = "loop" /\ flag'
    BY <1>1, <1>10 DEF SkipAck, Counted, main, TypeOK
  <2> QED BY <2>1 DEF InFlight
<1>11. CASE WaitForAck(w)
  <2>1. /\ wst[w] = "sent" /\ wst'[w] = "await" /\ todo' = todo
        /\ wire'[w] = wire[w] /\ reply'[w] = reply[w] /\ recorded' = recorded
    BY <1>1, <1>11 DEF WaitForAck, data, store, TypeOK
  <2>2. Current(w)' = Current(w)
    BY <2>1 DEF Current
  <2> QED BY <1>1, <2>1, <2>2 DEF InFlight, Idle
<1>12. ASSUME NEW a \in {"ack", "nack"}, Takes(w, a)
       PROVE  wire'[w] = <<>> /\ reply'[w] = <<>>
  <2>1. wire[w] = <<>> /\ (reply[w] = <<"nack">> \/ reply[w] = <<"ack">>)
    BY <1>1, <1>12 DEF Takes, InFlight, Idle
  <2> QED BY <1>1, <1>12, <2>1, OneFrame DEF Takes, TypeOK
<1>13. CASE ReadAck(w)
  <2>1. wst'[w] = "loop"
    BY <1>1, <1>13 DEF ReadAck, Counted, TypeOK
  <2> QED BY <1>12, <1>13, <2>1 DEF ReadAck, InFlight, Idle
<1>14. CASE ReadNack(w)
  <2>1. CASE MayRetry(w)
    <3>1. wst[w] = "await" /\ wst'[w] = "send" /\ todo' = todo
      BY <1>1, <1>14, <2>1 DEF ReadNack, Takes, TypeOK
    <3>2. todo[w] # {}
      BY <1>1, <3>1 DEF InFlight
    <3> QED BY <1>12, <1>14, <3>1, <3>2 DEF ReadNack, InFlight, Idle
  <2> QED BY <1>3, <1>14, <2>1 DEF ReadNack
<1> QED BY <1>2, <1>4, <1>5, <1>6, <1>7, <1>8, <1>9, <1>10, <1>11, <1>13,
           <1>14 DEF WorkerAct, WorkerStep

LEMMA WorkerCovered ==
  ASSUME TransferInv, NEW w \in Worker, WorkerAct(w), Covered(w), ~flag'
  PROVE  Covered(w)'
<1> USE DEF Go
<1>1. InFlight(w) /\ TypeOK /\ ~flag
  BY WorkerFrame DEF TransferInv, Flights
<1>2. UNCHANGED <<opts, ports, recorded>>
  BY WorkerFrame DEF TransferInv, ctrl, store
<1>3. Assigned(w)' = Assigned(w)
  BY <1>2 DEF Assigned, NumWorkers
<1>4. CASE Stop(w) \/ SkipAck(w)
  BY <1>1, <1>4 DEF Stop, SkipAck
<1>5. ~Failed(w)
  BY DEF Failed
<1>6. CASE NoAttempt(w) \/ SendFails(w) \/ AckFails(w)
  BY <1>5, <1>6 DEF NoAttempt, SendFails, AckFails
<1>7. CASE ConnectFails(w) \/ QueryFails(w)
  <2>1. failList[w] = {} /\ failList'[w] = todo[w] /\ todo' = todo
    BY <1>1, <1>7 DEF ConnectFails, QueryFails, FailAll, InFlight, TypeOK
  <2> QED BY <1>2, <1>3, <2>1 DEF Covered
<1>8. CASE AllTried(w)
  <2>1. todo[w] = {} /\ todo' = todo /\ failList' = failList
    BY <1>8 DEF AllTried
  <2> QED BY <1>2, <1>3, <2>1 DEF Covered
<1>9. ASSUME todo'[w] = todo[w] \ {Current(w)}, failList' = failList,
             Current(w) \in recorded, wst'[w] # "done"
      PROVE  Covered(w)'
  BY <1>2, <1>3, <1>9 DEF Covered
<1>10. CASE Skip(w)
  <2>1. Current(w) \in recorded
    BY <1>10 DEF Skip, TransferInv, Known
  <2>2. /\ todo'[w] = todo[w] \ {Current(w)} /\ failList' = failList
        /\ wst'[w] # "done"
    BY <1>1, <1>10 DEF Skip, TypeOK
  <2> QED BY <1>9, <2>1, <2>2
<1>11. CASE ReadAck(w)
  <2>1. Current(w) \in recorded
    BY <1>1, <1>11, OneFrame DEF ReadAck, Takes, InFlight, Idle
  <2>2. /\ todo'[w] = todo[w] \ {Current(w)} /\ failList' = failList
        /\ wst'[w] # "done"
    BY <1>1, <1>11 DEF ReadAck, Counted, TypeOK
  <2> QED BY <1>9, <2>1, <2>2
<1>12. CASE Connect(w) \/ ReadList(w) \/ BeginChunk(w) \/ Send(w)
            \/ WaitForAck(w) \/ (ReadNack(w) /\ MayRetry(w))
  <2>1. todo' = todo /\ failList' = failList /\ wst'[w] # "done"
    BY <1>1, <1>12 DEF Connect, ReadList, BeginChunk, Send, WaitForAck,
                       ReadNack, TypeOK
  <2> QED BY <1>2, <1>3, <2>1 DEF Covered
<1>13. CASE ReadNack(w) /\ ~MayRetry(w)
  BY <1>5, <1>13 DEF ReadNack
<1> QED BY <1>4, <1>6, <1>7, <1>8, <1>10, <1>11, <1>12, <1>13
        DEF WorkerAct, WorkerStep

LEMMA WorkerKeeps ==
  ASSUME TransferInv, NEW w \in Worker, WorkerAct(w)
  PROVE  TransferInv'
<1>1. TypeOK'
  BY WorkerTypes DEF TransferInv
<1>2. /\ UNCHANGED <<opts, run, exit, signalled, ctrl, store, already>>
      /\ flag => flag'
      /\ wst[w] # "done"
      /\ \A v \in Worker \ {w} :
           /\ wst'[v] = wst[v] /\ todo'[v] = todo[v]
           /\ attempt'[v] = attempt[v] /\ failList'[v] = failList[v]
           /\ wire'[v] = wire[v] /\ reply'[v] = reply[v]
  BY WorkerFrame DEF TransferInv
<1>3. Asked' /\ GoodNews' /\ Known' /\ AllSent'
  BY <1>2 DEF TransferInv, Asked, GoodNews, Known, AllSent, NumWorkers, ctrl,
              store
<1>4. Fresh'
  BY <1>2 DEF TransferInv, Fresh
<1>5. Flights'
  <2> SUFFICES ASSUME NEW v \in Worker PROVE InFlight(v)'
    BY DEF Flights
  <2>1. CASE v = w
    BY <2>1, WorkerFlight
  <2>2. CASE v # w
    BY <1>2, <2>2, FlightKept DEF TransferInv, Flights, store
  <2> QED BY <2>1, <2>2
<1>6. Progress'
  <2> SUFFICES ASSUME run' = "running", ~flag', NEW v \in Worker
               PROVE  Covered(v)'
    BY DEF Progress
  <2>1. \A u \in Worker : Covered(u)
    BY <1>2 DEF TransferInv, Progress
  <2>2. CASE v = w
    BY <2>1, <2>2, WorkerCovered
  <2>3. CASE v # w
    BY <1>2, <2>1, <2>3, CoveredKept DEF store, ctrl
  <2> QED BY <2>2, <2>3
<1> QED BY <1>1, <1>3, <1>4, <1>5, <1>6 DEF TransferInv

-----------------------------------------------------------------------------
(* A step of the server on a data connection                               *)

(* What arrives is what the worker has sent last, if it still goes on.     *)
LEMMA Arrives ==
  ASSUME TypeOK, NEW w \in Worker, InFlight(w), Receives(w)
  PROVE  /\ wst[w] \notin {"start", "send"}
         /\ wst[w] = "loop" => flag
         /\ wst[w] = "list" => /\ Head(wire[w]) = Query
                               /\ wire'[w] = <<>> /\ reply[w] = <<>>
         /\ wst[w] \in {"sent", "await"} =>
              /\ Head(wire[w]) = Current(w) /\ Current(w) # Query
              /\ wire'[w] = <<>> /\ reply[w] = <<>>
<1>1. wire[w] # <<>> /\ wire'[w] = Tail(wire[w])
  BY DEF Receives, TypeOK
<1>2. wst[w] = "list" => wire[w] = <<Query>> /\ reply[w] = <<>>
  BY <1>1 DEF InFlight, Idle
<1>3. wst[w] \in {"sent", "await"} =>
        wire[w] = <<Current(w)>> /\ reply[w] = <<>> /\ todo[w] # {}
  BY <1>1 DEF InFlight, Idle
<1>4. wst[w] \in {"sent", "await"} => Current(w) # Query
  <2>1. todo[w] # {} => Current(w) \in Chunk
    BY CurrentIn
  <2>2. Query \notin Chunk
    BY TransferAssumption DEF Query, Chunk
  <2> QED BY <1>3, <2>1, <2>2
<1>5. wst[w] \notin {"start", "send"} /\ (wst[w] = "loop" => flag)
  BY <1>1 DEF InFlight, Idle
<1> QED BY <1>1, <1>2, <1>3, <1>4, <1>5, OneFrame

LEMMA DataFlight ==
  ASSUME TransferInv, NEW w \in Worker, DataAct(w)
  PROVE  InFlight(w)'
<1> USE DEF Goes
<1>1. InFlight(w) /\ TypeOK
  BY DEF TransferInv, Flights
<1>2. UNCHANGED <<main, work>> /\ recorded \subseteq recorded'
  BY <1>1, DataFrame
<1>3. /\ wst'[w] = wst[w] /\ todo'[w] = todo[w] /\ failList'[w] = failList[w]
      /\ flag' = flag /\ Current(w)' = Current(w)
  BY <1>2 DEF main, work, Current
<1>4. CASE Accept(w) \/ LoopTop(w) \/ Hangup(w)
  <2>1. wire'[w] = wire[w] /\ reply'[w] = reply[w]
    BY <1>4 DEF Accept, LoopTop, Hangup
  <2> QED BY <1>1, <1>2, <1>3, <2>1, FlightKept
<1>5. CASE ConnectionLost(w)
  <2>1. wire'[w] = <<>> /\ (reply'[w] = <<>> \/ reply'[w] = reply[w])
    BY <1>1, <1>5 DEF ConnectionLost, TypeOK
  <2> QED BY <1>1, <1>2, <1>3, <2>1 DEF InFlight, Idle
<1>6. CASE HandleQuery(w)
  <2>1. Receives(w) /\ Head(wire[w]) = Query
    BY <1>6 DEF HandleQuery
  <2>2. reply'[w] = Append(reply[w], "list")
    BY <1>1, <1>6 DEF HandleQuery, Says, TypeOK
  <2> QED BY <1>1, <1>3, <2>1, <2>2, Arrives, OneFrame DEF InFlight, Idle
<1>7. CASE StoreChunk(w)
  <2>1. Receives(w) /\ Head(wire[w]) # Query
    BY <1>7 DEF StoreChunk
  <2>2. reply'[w] = Append(reply[w], "ack") /\ Head(wire[w]) \in recorded'
    BY <1>1, <1>7 DEF StoreChunk, Says, TypeOK
  <2> QED BY <1>1, <1>3, <2>1, <2>2, Arrives, OneFrame DEF InFlight, Idle
<1>8. CASE HashMismatch(w) \/ StoreFails(w)
  <2>1. Receives(w) /\ Head(wire[w]) # Query
    BY <1>8 DEF HashMismatch, StoreFails
  <2>2. reply'[w] = Append(reply[w], "nack")
    BY <1>1, <1>8 DEF HashMismatch, StoreFails, Says, TypeOK
  <2> QED BY <1>1, <1>3, <2>1, <2>2, Arrives, OneFrame DEF InFlight, Idle
<1>9. CASE DropChunk(w)
  <2>1. Receives(w) /\ Head(wire[w]) # Query /\ reply'[w] = reply[w]
    BY <1>9 DEF DropChunk
  <2> QED BY <1>1, <1>3, <2>1, Arrives DEF InFlight, Idle
<1> QED BY <1>4, <1>5, <1>6, <1>7, <1>8, <1>9 DEF DataAct, DataStep

LEMMA DataKeeps ==
  ASSUME TransferInv, NEW w \in Worker, DataAct(w)
  PROVE  TransferInv'
<1>1. TypeOK' /\ TypeOK
  BY DataTypes DEF TransferInv
<1>2. /\ UNCHANGED <<opts, main, work, ctrl, held>>
      /\ recorded \subseteq recorded'
      /\ \A v \in Worker \ {w} :
           /\ wire'[v] = wire[v] /\ reply'[v] = reply[v]
           /\ already'[v] = already[v]
  BY <1>1, DataFrame
<1>3. UNCHANGED <<opts, run, exit, flag, wst, todo, failList, srv, resp, ports,
                  final, held>>
  BY <1>2 DEF main, work, ctrl
<1>4. Asked' /\ GoodNews'
  BY <1>3 DEF TransferInv, Asked, GoodNews
<1>5. AllSent'
  <2>1. NumWorkers' = NumWorkers
    BY <1>3 DEF NumWorkers
  <2> QED BY <1>1, <1>2, <1>3, <2>1 DEF TransferInv, AllSent, TypeOK
<1>6. Known'
  <2>1. already'[w] \in {already[w], recorded}
    BY <1>1 DEF DataAct, DataStep, Accept, LoopTop, HandleQuery, StoreChunk,
         Hangup, HashMismatch, StoreFails, DropChunk, ConnectionLost, TypeOK
  <2> QED BY <1>2, <2>1 DEF TransferInv, Known
<1>7. Fresh'
  <2> SUFFICES ASSUME run \in {"start", "handshake"}
               PROVE  wire'[w] = <<>> /\ reply'[w] = <<>>
    BY <1>2, <1>3 DEF TransferInv, Fresh
  <2>1. wire[w] = <<>> /\ reply[w] = <<>> /\ ~Receives(w)
    BY DEF TransferInv, Fresh, Receives
  <2> QED BY <1>1, <2>1 DEF DataAct, DataStep, Accept, LoopTop, HandleQuery,
         StoreChunk, Hangup, HashMismatch, StoreFails, DropChunk,
         ConnectionLost, TypeOK
<1>8. Flights'
  <2> SUFFICES ASSUME NEW v \in Worker PROVE InFlight(v)'
    BY DEF Flights
  <2>1. CASE v = w
    BY <2>1, DataFlight
  <2>2. CASE v # w
    BY <1>2, <1>3, <2>2, FlightKept DEF TransferInv, Flights
  <2> QED BY <2>1, <2>2
<1>9. Progress'
  <2> SUFFICES ASSUME run' = "running", ~flag', NEW v \in Worker
               PROVE  Covered(v)'
    BY DEF Progress
  <2>1. Covered(v)
    BY <1>3 DEF TransferInv, Progress
  <2> QED BY <1>2, <1>3, <2>1, CoveredKept
<1> QED BY <1>1, <1>4, <1>5, <1>6, <1>7, <1>8, <1>9 DEF TransferInv

-----------------------------------------------------------------------------
(* The rest of both ends                                                   *)

(* Steps that leave the workers and their connections alone.               *)
LEMMA Elsewhere ==
  ASSUME TransferInv, UNCHANGED <<work, data, recorded>>, flag => flag'
  PROVE  Flights' /\ Known'
<1>1. UNCHANGED <<wst, todo, failList, wire, reply, already>>
  BY DEF work, data
<1>2. Known'
  BY <1>1 DEF TransferInv, Known
<1>3. Flights'
  BY <1>1, FlightKept DEF TransferInv, Flights
<1> QED BY <1>2, <1>3

LEMMA OtherKeeps ==
  ASSUME TransferInv, OtherAct
  PROVE  TransferInv'
<1> USE DEF Ends
<1>1. TypeOK' /\ TypeOK
  BY OtherTypes DEF TransferInv
<1>2. ASSUME run' = "exit", UNCHANGED <<srv, resp, final, held, flag>>,
             exit' = "ok" => held,
             UNCHANGED <<work, data, recorded>>
      PROVE  TransferInv'
  <2>1. Flights' /\ Known'
    BY <1>2, Elsewhere
  <2>2. Asked' /\ Fresh' /\ GoodNews' /\ Progress' /\ AllSent'
    BY <1>2 DEF TransferInv, Asked, Fresh, GoodNews, Progress, AllSent
  <2> QED BY <1>1, <2>1, <2>2 DEF TransferInv
<1>3. CASE SetupFails \/ ResponseTimeout \/ Rejected \/ NoFinal
  BY <1>2, <1>3 DEF SetupFails, ResponseTimeout, Rejected, NoFinal, ctrl, store
<1>4. CASE FileExists
  BY <1>2, <1>4 DEF FileExists, ctrl, store, TransferInv, GoodNews
<1>5. CASE ReadFinal
  BY <1>2, <1>5 DEF ReadFinal, ctrl, store, TransferInv, GoodNews
<1>6. CASE Join
  <2>1. CASE run' = "exit"
    BY <1>2, <1>6, <2>1 DEF Join, ctrl, store
  <2>2. CASE run' # "exit"
    <3>1. /\ run = "running" /\ run' = "confirm" /\ ~flag
          /\ \A w \in Worker : wst[w] = "done" /\ failList[w] = {}
          /\ UNCHANGED <<opts, exit, flag, work, data, ctrl, store>>
      BY <1>6, <2>2 DEF Join
    <3>2. UNCHANGED <<opts, srv, resp, ports, final, recorded, held>>
      BY <3>1 DEF ctrl, store
    <3>3. Flights' /\ Known'
      BY <3>1, <3>2, Elsewhere
    <3>4. AllSent'
      <4> SUFFICES ASSUME NumWorkers > 0 PROVE recorded = Chunk
        BY <3>1, <3>2 DEF AllSent, NumWorkers
      <4>1. ASSUME NEW c \in Chunk PROVE c \in recorded
        <5>1. PICK w \in Worker : c \in Assigned(w)
          BY <1>1, EveryChunkAssigned
        <5>2. Covered(w)
          BY <3>1 DEF TransferInv, Progress
        <5> QED BY <3>1, <5>1, <5>2 DEF Covered
      <4> QED BY <1>1, <4>1 DEF TypeOK
    <3>5. Asked' /\ Fresh' /\ GoodNews' /\ Progress'
      BY <3>1, <3>2 DEF TransferInv, Asked, Fresh, GoodNews, Progress
    <3> QED BY <1>1, <3>3, <3>4, <3>5 DEF TransferInv
  <2> QED BY <2>1, <2>2
<1>7. CASE SendHandshake
  <2>1. Flights' /\ Known'
    BY <1>7, Elsewhere DEF SendHandshake, store
  <2>2. UNCHANGED <<exit, resp, final, held, wst, failList, wire, reply>>
    BY <1>7 DEF SendHandshake, store, work, data
  <2>3. Asked' /\ Fresh' /\ GoodNews' /\ Progress' /\ AllSent'
    BY <1>7, <2>2 DEF SendHandshake, TransferInv, Asked, Fresh, GoodNews,
                      Progress, AllSent
  <2> QED BY <1>1, <2>1, <2>3 DEF TransferInv
<1>8. CASE AllOnServer
  <2>1. UNCHANGED <<exit, flag, srv, resp, final, recorded, held>>
    BY <1>8 DEF AllOnServer, ctrl, store
  <2>2. Flights' /\ Known'
    BY <1>8, <2>1, Elsewhere DEF AllOnServer
  <2>3. Asked' /\ Fresh' /\ GoodNews' /\ Progress' /\ AllSent'
    BY <1>8, <2>1 DEF AllOnServer, TransferInv, Asked, Fresh, GoodNews,
                      Progress, AllSent
  <2> QED BY <1>1, <2>2, <2>3 DEF TransferInv
<1>9. CASE StartWorkers
  <2>1. UNCHANGED <<opts, exit, srv, resp, ports, final, recorded, held,
                    failList, wire, reply, already>>
    BY <1>9 DEF StartWorkers, ctrl, store, data
  <2>2. \A w \in Worker : /\ failList[w] = {} /\ wire[w] = <<>>
                          /\ reply[w] = <<>>
    BY <1>9 DEF StartWorkers, TransferInv, Fresh
  <2>3. \A w \in Worker :
          /\ wst'[w] = IF Assigned(w) = {} THEN "done" ELSE "start"
          /\ todo'[w] = Assigned(w)
    BY <1>9 DEF StartWorkers
  <2>4. Flights' /\ Known'
    BY <2>1, <2>2, <2>3 DEF TransferInv, Flights, InFlight, Idle, Known
  <2>5. Progress'
    <3>1. \A w \in Worker : Assigned(w)' = Assigned(w)
      BY <2>1 DEF Assigned, NumWorkers
    <3> QED BY <2>3, <3>1 DEF Progress, Covered
  <2>6. AllSent'
    BY <1>9, <2>1 DEF StartWorkers, AllSent, NumWorkers
  <2>7. Asked' /\ Fresh' /\ GoodNews'
    BY <1>9, <2>1 DEF StartWorkers, TransferInv, Asked, Fresh, GoodNews
  <2> QED BY <1>1, <2>4, <2>5, <2>6, <2>7 DEF TransferInv
<1>10. CASE CtrlC
  <2>1. UNCHANGED <<opts, run, exit, srv, resp, ports, final, recorded, held>>
    BY <1>10 DEF CtrlC, ctrl, store
  <2>2. Flights' /\ Known' /\ flag'
    BY <1>10, <2>1, Elsewhere DEF CtrlC
  <2>3. Asked' /\ Fresh' /\ GoodNews' /\ Progress' /\ AllSent'
    BY <1>10, <2>1, <2>2 DEF CtrlC, TransferInv, Asked, Fresh, GoodNews,
                             Progress, AllSent, NumWorkers
  <2> QED BY <1>1, <2>2, <2>3 DEF TransferInv
<1>11. CASE Killed
  <2>1. UNCHANGED <<srv, resp, final, recorded, held, already>>
    BY <1>11 DEF Killed, ctrl, store, data
  <2>2. run' = "exit" /\ exit' = "killed" /\ \A w \in Worker : wst'[w] = "done"
    BY <1>11 DEF Killed
  <2>3. Flights' /\ Known'
    BY <2>1, <2>2 DEF TransferInv, Flights, InFlight, Known
  <2>4. Asked' /\ Fresh' /\ GoodNews' /\ Progress' /\ AllSent'
    BY <2>1, <2>2 DEF TransferInv, Asked, Fresh, GoodNews, Progress, AllSent
  <2> QED BY <1>1, <2>3, <2>4 DEF TransferInv
<1>12. CASE RespondExists \/ RespondComplete \/ RespondOk \/ RespondError
  <2>1. /\ srv = "asked" /\ srv' \notin {"none", "asked"}
        /\ resp' = "exists" => held
        /\ UNCHANGED <<run, exit, flag, work, data, final, recorded, held>>
    BY <1>12 DEF RespondExists, RespondComplete, RespondOk, RespondError, main,
                 store
  <2>2. run \notin {"start", "running", "confirm"}
    BY <2>1 DEF TransferInv, Asked
  <2>3. Flights' /\ Known'
    BY <2>1, Elsewhere
  <2>4. Asked' /\ GoodNews' /\ Progress' /\ AllSent'
    BY <2>1, <2>2 DEF TransferInv, Asked, GoodNews, Progress, AllSent
  <2>5. Fresh'
    BY <2>1 DEF TransferInv, Fresh, work, data
  <2> QED BY <1>1, <2>3, <2>4, <2>5 DEF TransferInv
<1>13. CASE WaitDone \/ Assemble \/ AssemblyFails
  <2>1. /\ srv \in {"waiting", "assemble"} /\ srv' \notin {"none", "asked"}
        /\ final' = "ok" => final = "ok" \/ held'
        /\ held => held'
        /\ UNCHANGED <<opts, run, exit, flag, work, data, resp, ports, recorded>>
    BY <1>13 DEF WaitDone, Assemble, AssemblyFails, main, store
  <2>2. Flights' /\ Known'
    BY <2>1, Elsewhere
  <2>3. Asked' /\ GoodNews' /\ Progress' /\ AllSent' /\ Fresh'
    <3>1. NumWorkers' = NumWorkers /\ UNCHANGED <<wst, failList, wire, reply>>
      BY <2>1 DEF NumWorkers, work, data
    <3>2. Asked' /\ GoodNews' /\ AllSent' /\ Fresh'
      BY <2>1, <3>1 DEF TransferInv, Asked, GoodNews, AllSent, Fresh
    <3>3. Progress'
      BY <2>1, CoveredKept DEF TransferInv, Progress, work
    <3> QED BY <3>2, <3>3
  <2> QED BY <1>1, <2>2, <2>3 DEF TransferInv
<1>14. CASE ServerCrash
  <2>1. /\ srv \in {"asked", "waiting", "assemble"} /\ srv' = "crashed"
        /\ UNCHANGED <<opts, run, exit, flag, work, already, reply, resp, ports,
                       final, recorded, held>>
        /\ \A w \in Worker : wire'[w] = <<>>
    BY <1>14 DEF ServerCrash, main, store
  <2>2. NumWorkers' = NumWorkers /\ UNCHANGED <<wst, todo, failList>>
    BY <2>1 DEF NumWorkers, work
  <2>3. Asked' /\ GoodNews' /\ AllSent' /\ Fresh' /\ Known'
    BY <2>1, <2>2 DEF TransferInv, Asked, GoodNews, AllSent, Fresh, Known
  <2>4. Progress'
    BY <2>1, <2>2, CoveredKept DEF TransferInv, Progress
  <2>5. Flights'
    BY <2>1, <2>2 DEF TransferInv, Flights, InFlight, Idle, Current
  <2> QED BY <1>1, <2>3, <2>4, <2>5 DEF TransferInv
<1> QED BY <1>3, <1>4, <1>5, <1>6, <1>7, <1>8, <1>9, <1>10, <1>11, <1>12,
           <1>13, <1>14 DEF OtherAct, ClientStep, ServerStep

-----------------------------------------------------------------------------
(* The theorems                                                            *)

(* No step of either end, and no fault, breaks the invariant.              *)
THEOREM TransferInvariant == Spec => []TransferInv
<1>1. Init => TransferInv
  BY InitInv
<1>2. TransferInv /\ [Next]_vars => TransferInv'
  <2> SUFFICES ASSUME TransferInv, [Next]_vars PROVE TransferInv'
    OBVIOUS
  <2>1. CASE Next
    BY <2>1, NextSplit, OtherKeeps, WorkerKeeps, DataKeeps
  <2>2. CASE UNCHANGED vars
    BY <2>2 DEF vars, main, work, data, ctrl, store, TransferInv, TypeOK, Asked,
         Fresh, GoodNews, Flights, InFlight, Idle, Known, Progress, Covered,
         Assigned, AllSent, NumWorkers, Current
  <2> QED BY <2>1, <2>2
<1> QED BY <1>1, <1>2, PTL DEF Spec

(* Every variable keeps its type, and no chunk is attempted more often     *)
(* than --retries allows (send_chunk).                                     *)
THEOREM TransferTypes == Spec => []TypeOK
<1>1. TransferInv => TypeOK
  BY DEF TransferInv
<1> QED BY <1>1, TransferInvariant, PTL

(* A worker never takes an ACK for a chunk that the server does not have,  *)
(* although an ACK names no chunk and may come late (send_chunk, worker).  *)
THEOREM AckIsForChunk == Spec => []AckAnswersChunk
<1>1. TransferInv => AckAnswersChunk
  BY OneFrame DEF TransferInv, Flights, InFlight, Idle, AckAnswersChunk
<1> QED BY <1>1, TransferInvariant, PTL

(* When a client that had workers says that all chunks have been sent, the *)
(* server has them all, however many ports the response could name.        *)
THEOREM SaysSentWhenSent == Spec => []AllSent
<1>1. TransferInv => AllSent
  BY DEF TransferInv
<1> QED BY <1>1, TransferInvariant, PTL

(* A client that exits with success has delivered its file, whatever       *)
(* failed on the way (run_client and the server's final status).           *)
THEOREM SuccessIsDelivery == Spec => []SuccessMeansHeld
<1>1. TransferInv => SuccessMeansHeld
  BY DEF TransferInv, GoodNews, SuccessMeansHeld
<1> QED BY <1>1, TransferInvariant, PTL
=============================================================================
