--------------------------- MODULE DeliveryProofs ---------------------------
(***************************************************************************)
(* What a server of one file name promises, for any offers, chunk counts   *)
(* and faults: no chunk of another transfer is believed, no failure is     *)
(* without a cause, no delivered file is truncated for a client that wants *)
(* it; and, all in all, the abstract specification Delivery.               *)
(***************************************************************************)
EXTENDS FileReceiverProofs

-----------------------------------------------------------------------------
(* The bytes a session may meet                                            *)

(* What a chunk may turn out to hold: the bytes that were announced, or,   *)
(* after a fault, those of a source file that has changed.                 *)
Genuine(x, f, c) == x = <<f, c>> \/ (x = Changed /\ faults > 0)

Vouched(m) ==
  m \in Record => \A c \in Index :
    m.hashes[c] # Absent => Genuine(m.hashes[c], m.offer, c)

(* Every hash in memory and on disk is the hash of such bytes, every data  *)
(* connection is writing such bytes, and a receiver begins empty.          *)
SentInv ==
  /\ Vouched(meta) /\ Vouched(tmp)
  /\ \A s \in Session, c \in Index :
       /\ hashes[s][c] # Absent => Genuine(hashes[s][c], offer[s], c)
       /\ lane[s][c] \in {"writing", "written"} =>
            Genuine(buf[s][c], offer[s], c)
       /\ pc[s] \in {"free", "load", "purge", "exists"} =>
            hashes[s][c] = Absent

(* A session that has data connections has a receiver that is in use.      *)
LaneOpen ==
  \A s \in Session, c \in Index :
    lane[s][c] # "closed" => pc[s] \in Active \cup {"ok", "err"}

LEMMA LaneOpenStep ==
  ASSUME TypeInv, LaneOpen, [Next]_vars
  PROVE  LaneOpen'
<1> USE DEF TypeInv, TypeOK, Opened, LaneOpen, Active, Goto, disk, recv, lanes
(* Steps that open no connection; a session leaves only with none.         *)
<1>1. ASSUME NEW s \in Session, UNCHANGED lane,
             \A r \in Session : r # s => pc'[r] = pc[r],
             \/ pc'[s] \in Active \cup {"ok", "err"}
             \/ pc[s] \notin Active \cup {"ok", "err"}
      PROVE  LaneOpen'
  BY <1>1
<1>2. ASSUME NEW s \in Session,
             \/ NoPrevious(s) \/ PurgeStale(s) \/ ResumeAll(s)
             \/ PurgeCorrupt(s) \/ ResumeValid(s) \/ PurgePart(s)
             \/ SaveClean(s) \/ AllChunksPresent(s) \/ Refuse(s) \/ Abort(s)
             \/ StartAssembly(s) \/ CreateFinal(s) \/ CopyPart(s)
             \/ DropPart(s) \/ PartMissing(s) \/ FinishAssembly(s)
             \/ AssemblyFails(s) \/ Disconnect(s)
             \/ \E f \in Offer : Handshake(s, f)
      PROVE  LaneOpen'
  <2>1. UNCHANGED lane
    BY <1>2 DEF NoPrevious, PurgeStale, ResumeAll, PurgeCorrupt, ResumeValid,
       PurgePart, SaveClean, AllChunksPresent, Refuse, Abort, StartAssembly,
       CreateFinal, CopyPart, DropPart, PartMissing, FinishAssembly,
       AssemblyFails, Disconnect, Handshake
  <2>2. \A r \in Session : r # s => pc'[r] = pc[r]
    BY <1>2 DEF NoPrevious, PurgeStale, ResumeAll, PurgeCorrupt, ResumeValid,
       PurgePart, SaveClean, AllChunksPresent, Refuse, Abort, StartAssembly,
       CreateFinal, CopyPart, DropPart, PartMissing, FinishAssembly,
       AssemblyFails, Disconnect, Handshake
  <2>3. \/ pc'[s] \in Active \cup {"ok", "err"}
        \/ pc[s] \notin Active \cup {"ok", "err"}
    BY <1>2 DEF NoPrevious, PurgeStale, ResumeAll, PurgeCorrupt, ResumeValid,
       PurgePart, SaveClean, AllChunksPresent, Refuse, Abort, StartAssembly,
       CreateFinal, CopyPart, DropPart, PartMissing, FinishAssembly,
       AssemblyFails, Disconnect, Handshake,
       Assembling
  <2> QED BY <1>1, <2>1, <2>2, <2>3
<1>3. ASSUME NEW s \in Session, SpawnDataServers(s) \/ Release(s)
      PROVE  LaneOpen'
  <2>1. CASE SpawnDataServers(s)
    BY <2>1 DEF SpawnDataServers
  <2>2. CASE Release(s)
    BY <2>2 DEF Release
  <2> QED BY <1>3, <2>1, <2>2
<1>4. ASSUME NEW s \in Session, NEW c \in Index,
             BeginWrite(s, c) \/ OpenFails(s, c) \/ DataStep(s, c)
      PROVE  LaneOpen'
  <2>1. lane[s][c] # "closed" /\ UNCHANGED pc
    BY <1>4 DEF BeginWrite, OpenFails, DataStep, EndWrite, WriteFails,
       RecordChunk, FinishSave, SaveFails
  <2>2. \E l \in Lane : lane' = [lane EXCEPT ![s][c] = l]
    BY <1>4 DEF BeginWrite, OpenFails, DataStep, EndWrite, WriteFails,
       RecordChunk, FinishSave, SaveFails, Lane
  <2> QED BY <2>1, <2>2
<1>5. ASSUME Crash \/ MetaRot \/ (\E c \in Index : BitRot(c))
             \/ UNCHANGED vars
      PROVE  LaneOpen'
  BY <1>5 DEF Crash, MetaRot, BitRot, vars
<1> QED BY <1>2, <1>3, <1>4, <1>5 DEF Next, ControlStep

LEMMA FaultsStay ==
  ASSUME TypeInv, [Next]_vars
  PROVE  faults > 0 => faults' > 0
<1>1. faults \in Nat
  BY ConstantFacts DEF TypeInv, TypeOK
<1>2. faults' = faults \/ faults' = faults + 1
  BY DEF Next, ControlStep, DataStep, Handshake, NoPrevious, PurgeStale,
     ResumeAll, PurgeCorrupt, ResumeValid, PurgePart, SaveClean,
     AllChunksPresent, SpawnDataServers, Refuse, Abort, StartAssembly,
     CreateFinal, CopyPart, DropPart, PartMissing, FinishAssembly,
     AssemblyFails, Release, Disconnect, BeginWrite, OpenFails, EndWrite,
     WriteFails, RecordChunk, FinishSave, SaveFails, Crash, BitRot, MetaRot,
     Fault, NoFault, vars
<1> QED BY <1>1, <1>2

LEMMA SentInit == Init => SentInv
BY MetaAssumption DEF Init, SentInv, Vouched, Nothing

LEMMA SentStep ==
  ASSUME TypeInv, LaneOpen, SentInv, [Next]_vars
  PROVE  SentInv'
<1>0. faults > 0 => faults' > 0
  BY FaultsStay
<1> USE <1>0, MetaAssumption
    DEF TypeInv, TypeOK, Opened, SentInv, Vouched, Genuine, Fault, NoFault,
        disk, recv, lanes
(* Steps that leave hashes and connections alone; the metadata may go.     *)
<1>1. ASSUME UNCHANGED <<tmp, hashes, offer, lane, buf>>,
             \A s \in Session : pc'[s] \in {"free", "load", "purge", "exists"}
               => pc[s] \in {"free", "load", "purge", "exists"},
             meta' = meta \/ meta' = NoMeta \/ meta' = BadMeta
      PROVE  SentInv'
  BY <1>1
<1>2. ASSUME NEW s \in Session,
             \/ NoPrevious(s) \/ PurgeStale(s) \/ PurgeCorrupt(s)
             \/ PurgePart(s) \/ AllChunksPresent(s) \/ Refuse(s) \/ Abort(s)
             \/ StartAssembly(s) \/ CreateFinal(s) \/ CopyPart(s)
             \/ DropPart(s) \/ PartMissing(s) \/ FinishAssembly(s)
             \/ AssemblyFails(s) \/ Disconnect(s)
      PROVE  SentInv'
  BY <1>1, <1>2 DEF NoPrevious, PurgeStale, PurgeCorrupt, PurgePart,
     AllChunksPresent, Refuse, Abort, StartAssembly, CreateFinal, CopyPart,
     DropPart, PartMissing, FinishAssembly, AssemblyFails, Disconnect, Goto
<1>3. ASSUME MetaRot \/ (\E c \in Index : BitRot(c)) \/ UNCHANGED vars
      PROVE  SentInv'
  BY <1>1, <1>3 DEF MetaRot, BitRot, vars
<1>4. ASSUME NEW s \in Session, NEW f \in Offer, Handshake(s, f)
      PROVE  SentInv'
  BY <1>4 DEF Handshake, Goto
<1>5. ASSUME NEW s \in Session, ResumeAll(s)
      PROVE  SentInv'
  BY <1>5 DEF ResumeAll, Resumable, ParamsMatch, Goto
<1>6. ASSUME NEW s \in Session, ResumeValid(s)
      PROVE  SentInv'
  BY <1>6 DEF ResumeValid, Resumable, ParamsMatch, Valid, VerifyPart, Goto
<1>7. ASSUME NEW s \in Session, SaveClean(s)
      PROVE  SentInv'
  BY <1>7 DEF SaveClean, Goto
<1>8. ASSUME NEW s \in Session, SpawnDataServers(s)
      PROVE  SentInv'
  BY <1>8 DEF SpawnDataServers, Goto
<1>9. ASSUME NEW s \in Session, Release(s)
      PROVE  SentInv'
  BY <1>9 DEF Release, Nothing, Goto
<1>10. ASSUME Crash PROVE SentInv'
  BY <1>10 DEF Crash, Nothing
<1>11. ASSUME NEW s \in Session, NEW c \in Index, BeginWrite(s, c)
       PROVE  SentInv'
  <2>1. /\ UNCHANGED <<meta, tmp, hashes, offer, pc>>
        /\ lane' = [lane EXCEPT ![s][c] = "writing"]
    BY <1>11 DEF BeginWrite
  <2>2. CASE buf' = [buf EXCEPT ![s][c] = <<offer[s], c>>]
    BY <2>1, <2>2
  <2>3. CASE buf' = [buf EXCEPT ![s][c] = Changed] /\ faults' = faults + 1
    <3>1. faults' > 0
      BY <2>3, ConstantFacts
    <3> QED BY <2>1, <2>3, <3>1
  <2> QED BY <1>11, <2>2, <2>3 DEF BeginWrite
<1>12. ASSUME NEW s \in Session, NEW c \in Index,
              OpenFails(s, c) \/ EndWrite(s, c) \/ WriteFails(s, c)
       PROVE  SentInv'
  <2>1. CASE OpenFails(s, c)
    BY <2>1 DEF OpenFails
  <2>2. CASE EndWrite(s, c)
    BY <2>2 DEF EndWrite
  <2>3. CASE WriteFails(s, c)
    BY <2>3 DEF WriteFails
  <2> QED BY <1>12, <2>1, <2>2, <2>3
<1>13. ASSUME NEW s \in Session, NEW c \in Index, RecordChunk(s, c)
       PROVE  SentInv'
  <2>1. /\ UNCHANGED <<meta, offer, faults, pc>>
        /\ hashes' = [hashes EXCEPT ![s][c] = buf[s][c]]
        /\ tmp' = [offer |-> offer[s], hashes |-> hashes'[s]]
        /\ lane' = [lane EXCEPT ![s][c] = "saving"]
        /\ buf' = [buf EXCEPT ![s][c] = Absent]
        /\ Genuine(buf[s][c], offer[s], c)
    BY <1>13 DEF RecordChunk
  <2>2. \A r \in Session, d \in Index :
          hashes'[r][d] # Absent => Genuine(hashes'[r][d], offer[r], d)
    BY <2>1
  <2>3. \A r \in Session, d \in Index :
          lane'[r][d] \in {"writing", "written"} =>
            Genuine(buf'[r][d], offer[r], d)
    BY <2>1
  <2>4. Vouched(meta)' /\ Vouched(tmp)'
    BY <2>1, <2>2
  <2>5. pc[s] \notin {"free", "load", "purge", "exists"}
    BY <1>13 DEF RecordChunk, LaneOpen, Active
  <2> QED BY <2>1, <2>2, <2>3, <2>4, <2>5
<1>14. ASSUME NEW s \in Session, NEW c \in Index,
              FinishSave(s, c) \/ SaveFails(s, c)
       PROVE  SentInv'
  <2>1. CASE FinishSave(s, c)
    BY <2>1 DEF FinishSave
  <2>2. CASE SaveFails(s, c)
    BY <2>2 DEF SaveFails
  <2> QED BY <1>14, <2>1, <2>2
<1> QED
  BY <1>2, <1>3, <1>4, <1>5, <1>6, <1>7, <1>8, <1>9, <1>10, <1>11, <1>12,
     <1>13, <1>14 DEF Next, ControlStep, DataStep

LEMMA SentHolds == Spec => [](TypeInv /\ LaneOpen /\ SentInv)
<1>1. Init => LaneOpen
  BY DEF Init, LaneOpen
<1> QED
  BY TypeInit, TypeStep, LaneOpenStep, SentInit, SentStep, <1>1, PTL DEF Spec

(* However many sessions of one name overlap, the hashes a receiver counts *)
(* as received, and those in the shared metadata files, are of its own     *)
(* transfer (load_or_purge_metadata, record_chunk, TransferMetadata::save). *)
THEOREM OwnBytesOnly == Spec => []NoForeignChunk
<1>1. SentInv => NoForeignChunk
  BY DEF SentInv, Vouched, Genuine, NoForeignChunk, OwnOrChanged
<1> QED BY SentHolds, <1>1, PTL

-----------------------------------------------------------------------------
(* Parts that wait for their assembly                                      *)

(* Data connections carry chunks of their transfer, and assembly begins    *)
(* when none is missing.                                                   *)
WholeInv ==
  \A s \in Session :
    /\ \A c \in Index : lane[s][c] # "closed" => c \in Chunks(offer[s])
    /\ pc[s] \in {"create", "copy", "drop"} => Complete(s)

LEMMA WholeStep ==
  ASSUME TypeInv, LaneInv, WholeInv, [Next]_vars
  PROVE  WholeInv'
<1> USE DEF TypeInv, TypeOK, Opened, WholeInv, Complete, Received, Goto, disk,
            recv, lanes
(* Steps that leave receivers and connections alone, and start no assembly. *)
<1>1. ASSUME UNCHANGED <<hashes, offer, lane>>,
             \A s \in Session : pc'[s] \in {"create", "copy", "drop"} =>
               pc[s] \in {"create", "copy", "drop"} \/ Complete(s)
      PROVE  WholeInv'
  BY <1>1
<1>2. ASSUME NEW s \in Session,
             \/ NoPrevious(s) \/ PurgeStale(s) \/ PurgeCorrupt(s)
             \/ PurgePart(s) \/ SaveClean(s) \/ AllChunksPresent(s)
             \/ Refuse(s) \/ Abort(s) \/ StartAssembly(s) \/ CreateFinal(s)
             \/ CopyPart(s) \/ DropPart(s) \/ PartMissing(s)
             \/ FinishAssembly(s) \/ AssemblyFails(s) \/ Disconnect(s)
      PROVE  WholeInv'
  BY <1>1, <1>2 DEF NoPrevious, PurgeStale, PurgeCorrupt, PurgePart,
     SaveClean, AllChunksPresent, Refuse, Abort, StartAssembly, CreateFinal,
     CopyPart, DropPart, PartMissing, FinishAssembly, AssemblyFails,
     Disconnect
<1>3. ASSUME MetaRot \/ (\E c \in Index : BitRot(c)) \/ UNCHANGED vars
      PROVE  WholeInv'
  BY <1>1, <1>3 DEF MetaRot, BitRot, vars
<1>4. ASSUME NEW s \in Session,
             \/ \E f \in Offer : Handshake(s, f)
             \/ ResumeAll(s) \/ ResumeValid(s)
      PROVE  WholeInv'
  <2>1. /\ pc'[s] \notin {"create", "copy", "drop"}
        /\ \A c \in Index : lane[s][c] = "closed"
        /\ UNCHANGED lane
        /\ \A r \in Session : r # s => /\ pc'[r] = pc[r]
                                      /\ offer'[r] = offer[r]
                                      /\ hashes'[r] = hashes[r]
    BY <1>4 DEF Handshake, ResumeAll, ResumeValid, LaneInv, Active
  <2> QED BY <2>1
<1>5. ASSUME NEW s \in Session, SpawnDataServers(s)
      PROVE  WholeInv'
  BY <1>5 DEF SpawnDataServers
<1>6. ASSUME NEW s \in Session, Release(s)
      PROVE  WholeInv'
  BY <1>6 DEF Release
<1>7. ASSUME Crash PROVE WholeInv'
  BY <1>7 DEF Crash
<1>8. ASSUME NEW s \in Session, NEW c \in Index,
             \/ BeginWrite(s, c) \/ OpenFails(s, c) \/ EndWrite(s, c)
             \/ WriteFails(s, c) \/ FinishSave(s, c) \/ SaveFails(s, c)
      PROVE  WholeInv'
  <2>1. lane[s][c] # "closed"
    BY <1>8 DEF BeginWrite, OpenFails, EndWrite, WriteFails, FinishSave,
       SaveFails
  <2>2. PICK l \in Lane : lane' = [lane EXCEPT ![s][c] = l]
    BY <1>8 DEF BeginWrite, OpenFails, EndWrite, WriteFails, FinishSave,
       SaveFails, Lane
  <2>3. UNCHANGED <<pc, offer, hashes>>
    BY <1>8 DEF BeginWrite, OpenFails, EndWrite, WriteFails, FinishSave,
       SaveFails
  <2> QED BY <2>1, <2>2, <2>3
<1>9. ASSUME NEW s \in Session, NEW c \in Index, RecordChunk(s, c)
      PROVE  WholeInv'
  BY <1>9 DEF RecordChunk, LaneInv
<1> QED
  BY <1>2, <1>3, <1>4, <1>5, <1>6, <1>7, <1>8, <1>9
  DEF Next, ControlStep, DataStep

(* From the moment the metadata is loaded until it is consumed, a received *)
(* part holds the bytes of its hash, unless the disk has damaged it.       *)
Kept(s, c) ==
  hashes[s][c] # Absent /\ ~(c < next[s]) =>
    part[c] = hashes[s][c] \/ (part[c] = Rot /\ faults > 0)

KeptInv ==
  \A s \in Session : pc[s] \in {"clean", "ready"} \cup Active =>
    \A c \in Index : Kept(s, c)

LEMMA KeptStep ==
  ASSUME TypeInv, OneOpen, LaneInv, WriteInv, SentInv, WholeInv, KeptInv,
         [Next]_vars
  PROVE  KeptInv'
<1> DEFINE Keeping == {"clean", "ready"} \cup Active
<1>0. faults > 0 => faults' > 0
  BY FaultsStay
<1> USE <1>0 DEF TypeInv, TypeOK, Opened, OneOpen, KeptInv, Kept, Active, Goto,
                 disk, recv, lanes
(* Steps that touch no part and no receiver; who joins has received none.  *)
<1>1. ASSUME UNCHANGED <<part, hashes, next>>,
             \A s \in Session : pc'[s] \in Keeping =>
               pc[s] \in Keeping \/ \A c \in Index : hashes[s][c] = Absent
      PROVE  KeptInv'
  BY <1>1
<1>2. ASSUME NEW s \in Session,
             \/ NoPrevious(s) \/ PurgeStale(s) \/ SaveClean(s)
             \/ AllChunksPresent(s) \/ SpawnDataServers(s) \/ Refuse(s)
             \/ Abort(s) \/ StartAssembly(s) \/ CreateFinal(s)
             \/ CopyPart(s) \/ PartMissing(s) \/ FinishAssembly(s)
             \/ AssemblyFails(s) \/ Disconnect(s)
             \/ \E f \in Offer : Handshake(s, f)
      PROVE  KeptInv'
  BY <1>1, <1>2 DEF NoPrevious, PurgeStale, SaveClean, AllChunksPresent,
     SpawnDataServers, Refuse, Abort, StartAssembly, CreateFinal, CopyPart,
     PartMissing, FinishAssembly, AssemblyFails, Disconnect, Handshake, SentInv
<1>3. ASSUME NEW s \in Session, NEW c \in Index,
             \/ OpenFails(s, c) \/ WriteFails(s, c)
             \/ FinishSave(s, c) \/ SaveFails(s, c)
      PROVE  KeptInv'
  BY <1>1, <1>3 DEF OpenFails, WriteFails, FinishSave, SaveFails
<1>4. ASSUME MetaRot \/ UNCHANGED vars PROVE KeptInv'
  BY <1>1, <1>4 DEF MetaRot, vars
<1>5. ASSUME NEW s \in Session, ResumeAll(s)
      PROVE  KeptInv'
  BY <1>5 DEF ResumeAll, Resumable, Claimed, Valid, VerifyPart, Record
<1>6. ASSUME NEW s \in Session, ResumeValid(s)
      PROVE  KeptInv'
  BY <1>6 DEF ResumeValid, PartsKept, Claimed, Valid, VerifyPart
<1>7. ASSUME NEW s \in Session, PurgeCorrupt(s) \/ PurgePart(s)
      PROVE  KeptInv'
  <2>1. /\ pc[s] \in {"load", "purge"} /\ UNCHANGED hashes
        /\ \A r \in Session : r # s => pc'[r] = pc[r]
    BY <1>7 DEF PurgeCorrupt, PurgePart
  <2>2. \A r \in Session : pc'[r] \in Keeping => r = s
    BY <2>1
  <2> QED BY <2>1, <2>2 DEF SentInv
<1>8. ASSUME NEW s \in Session, DropPart(s)
      PROVE  KeptInv'
  <2>1. /\ pc[s] = "drop" /\ UNCHANGED hashes
        /\ part' = [part EXCEPT ![next[s]] = Absent]
        /\ next' = [next EXCEPT ![s] = @ + 1]
        /\ \A r \in Session : r # s => pc'[r] = pc[r]
    BY <1>8 DEF DropPart
  <2>2. \A r \in Session : pc'[r] \in Keeping => r = s
    BY <2>1
  <2>3. \A c \in Index : ~(c < next[s] + 1) => ~(c < next[s]) /\ c # next[s]
    BY ConstantFacts DEF Index
  <2> QED BY <2>1, <2>2, <2>3
<1>9. ASSUME NEW s \in Session, Release(s)
      PROVE  KeptInv'
  BY <1>9 DEF Release
<1>10. ASSUME Crash PROVE KeptInv'
  BY <1>10 DEF Crash
(* A connection writes a part that has not been received.                  *)
<1>11. ASSUME NEW s \in Session, NEW c \in Index,
              BeginWrite(s, c) \/ EndWrite(s, c)
       PROVE  KeptInv'
  <2>1. /\ hashes[s][c] = Absent /\ pc[s] # "free"
        /\ UNCHANGED <<hashes, next, pc>>
        /\ \A d \in Index : d # c => part'[d] = part[d]
    BY <1>11 DEF BeginWrite, EndWrite, LaneInv, Received
  <2>2. \A r \in Session : pc'[r] \in Keeping => r = s
    BY <2>1
  <2> QED BY <2>1, <2>2
<1>12. ASSUME NEW s \in Session, NEW c \in Index, RecordChunk(s, c)
       PROVE  KeptInv'
  <2>1. /\ hashes[s][c] = Absent /\ lane[s][c] = "written"
        /\ hashes' = [hashes EXCEPT ![s][c] = buf[s][c]]
        /\ UNCHANGED <<part, next, pc, faults>>
    BY <1>12 DEF RecordChunk, LaneInv
  <2>2. pc[s] \in Keeping => part[c] = buf[s][c]
    <3>1. pc[s] \in Active \cup {"ok", "err"} /\ c \in Chunks(offer[s])
      BY <2>1 DEF LaneInv, WholeInv
    <3>2. pc[s] \notin {"create", "copy", "drop"}
      BY <2>1, <3>1 DEF WholeInv, Complete, Received
    <3>3. pc[s] = "waiting" => part[c] = buf[s][c]
      BY <2>1 DEF WriteInv
    <3> QED BY <3>1, <3>2, <3>3
  <2> QED BY <2>1, <2>2
<1>13. ASSUME NEW c \in Index, BitRot(c) PROVE KeptInv'
  <2>1. /\ UNCHANGED <<hashes, next, pc>>
        /\ part' = [part EXCEPT ![c] = Rot] /\ faults' > 0
    BY <1>13, ConstantFacts DEF BitRot, Fault
  <2> QED BY <2>1
<1> QED
  BY <1>2, <1>3, <1>4, <1>5, <1>6, <1>7, <1>8, <1>9, <1>10, <1>11, <1>12,
     <1>13 DEF Next, ControlStep, DataStep

-----------------------------------------------------------------------------
(* No failure without a cause                                              *)

(* Behind every failure, and every bad omen of one, there is a fault.      *)
CauseInv ==
  \A s \in Session :
    /\ failed[s] \/ gone[s] \/ pc[s] = "err" => faults > 0
    /\ pc[s] \in {"copy", "drop"} /\ ~exact[s] => faults > 0

(* A part that assembly is about to read is there, and is right unless     *)
(* there was a fault.                                                      *)
LEMMA NextPart ==
  ASSUME TypeInv, SentInv, WholeInv, KeptInv,
         NEW s \in Session, pc[s] \in {"copy", "drop"},
         next[s] < NumChunks[offer[s]]
  PROVE  /\ next[s] \in Index /\ part[next[s]] # Absent
         /\ part[next[s]] \in {<<offer[s], next[s]>>, Changed, Rot}
         /\ part[next[s]] # <<offer[s], next[s]>> => faults > 0
<1> DEFINE n == next[s]
<1>1. /\ offer[s] \in Offer /\ n \in 0 .. MaxChunks
      /\ NumChunks[offer[s]] \in 1 .. MaxChunks
  BY ConstantFacts DEF TypeInv, TypeOK, Opened
<1>2. n \in Index /\ n \in Chunks(offer[s]) /\ ~(n < n)
  BY <1>1, ConstantFacts DEF Index, Chunks
<1> HIDE DEF n
<1>3. hashes[s][n] # Absent
  BY <1>2 DEF WholeInv, Complete, Received
<1>4. Genuine(hashes[s][n], offer[s], n)
  BY <1>2, <1>3 DEF SentInv
<1>5. part[n] = hashes[s][n] \/ (part[n] = Rot /\ faults > 0)
  BY <1>2, <1>3 DEF KeptInv, Kept, Active, n
<1> QED BY <1>2, <1>3, <1>4, <1>5, BytesFacts DEF Genuine, n

LEMMA CauseStep ==
  ASSUME TypeInv, LaneInv, SentInv, WholeInv, KeptInv, CauseInv, [Next]_vars
  PROVE  CauseInv'
<1>0. faults > 0 => faults' > 0
  BY FaultsStay
<1>1. Fault => faults' > 0
  BY ConstantFacts DEF Fault, TypeInv, TypeOK
<1> USE <1>0, <1>1 DEF TypeInv, TypeOK, Opened, CauseInv, Goto, disk, recv,
                       lanes
(* Steps that leave everything alone on which the verdict depends.         *)
<1>2. ASSUME UNCHANGED <<failed, gone, exact>>,
             \A s \in Session :
               /\ pc'[s] = "err" => pc[s] = "err" \/ faults' > 0
               /\ pc'[s] \in {"copy", "drop"} => pc[s] \in {"copy", "drop"}
      PROVE  CauseInv'
  BY <1>2
<1>3. ASSUME NEW s \in Session,
             \/ NoPrevious(s) \/ PurgeStale(s) \/ ResumeAll(s)
             \/ PurgeCorrupt(s) \/ ResumeValid(s) \/ PurgePart(s)
             \/ SaveClean(s) \/ AllChunksPresent(s) \/ SpawnDataServers(s)
             \/ Refuse(s) \/ Abort(s) \/ StartAssembly(s) \/ DropPart(s)
             \/ AssemblyFails(s) \/ \E f \in Offer : Handshake(s, f)
      PROVE  CauseInv'
  BY <1>2, <1>3 DEF NoPrevious, PurgeStale, ResumeAll, PurgeCorrupt,
     ResumeValid, PurgePart, SaveClean, AllChunksPresent, SpawnDataServers,
     Refuse, Abort, StartAssembly, DropPart, AssemblyFails, Handshake
<1>4. ASSUME NEW s \in Session, CreateFinal(s)
      PROVE  CauseInv'
  BY <1>4 DEF CreateFinal
<1>5. ASSUME NEW s \in Session, CopyPart(s)
      PROVE  CauseInv'
  <2>1. /\ pc[s] = "copy" /\ next[s] < NumChunks[offer[s]]
        /\ exact' = [exact EXCEPT ![s] =
                       @ /\ part[next[s]] = <<offer[s], next[s]>>]
        /\ pc' = [pc EXCEPT ![s] = "drop"]
        /\ UNCHANGED <<failed, gone, faults>>
    BY <1>5 DEF CopyPart
  <2>2. ~exact'[s] => faults > 0
    BY <2>1, NextPart
  <2>3. \A r \in Session : r # s => exact'[r] = exact[r] /\ pc'[r] = pc[r]
    BY <2>1
  <2> QED BY <2>1, <2>2, <2>3
<1>6. ASSUME NEW s \in Session, PartMissing(s)
      PROVE  CauseInv'
  BY <1>6, NextPart DEF PartMissing, Assembling
<1>7. ASSUME NEW s \in Session, FinishAssembly(s)
      PROVE  CauseInv'
  BY <1>7 DEF FinishAssembly
<1>8. ASSUME NEW s \in Session, Release(s)
      PROVE  CauseInv'
  BY <1>8 DEF Release
<1>9. ASSUME NEW s \in Session, Disconnect(s)
      PROVE  CauseInv'
  BY <1>9 DEF Disconnect
<1>10. ASSUME NEW s \in Session, NEW c \in Index,
              \/ BeginWrite(s, c) \/ EndWrite(s, c)
              \/ RecordChunk(s, c) \/ FinishSave(s, c)
       PROVE  CauseInv'
  BY <1>2, <1>10 DEF BeginWrite, EndWrite, RecordChunk, FinishSave
<1>11. ASSUME NEW s \in Session, NEW c \in Index,
              OpenFails(s, c) \/ WriteFails(s, c)
       PROVE  CauseInv'
  BY <1>11 DEF OpenFails, WriteFails
(* The temporary file of a session that saves has not been taken away.     *)
<1>12. ASSUME NEW s \in Session, NEW c \in Index, SaveFails(s, c)
       PROVE  CauseInv'
  <2>1. offer[s] \in Offer
    BY <1>12 DEF SaveFails
  <2>2. tmp \in Record
    BY <1>12, <2>1 DEF SaveFails, LaneInv, Record
  <2>3. faults' > 0
    BY <1>12, <2>2, MetaAssumption DEF SaveFails
  <2> QED BY <1>12, <2>3 DEF SaveFails
<1>13. ASSUME Crash \/ MetaRot \/ (\E c \in Index : BitRot(c))
              \/ UNCHANGED vars
       PROVE  CauseInv'
  BY <1>2, <1>13 DEF Crash, MetaRot, BitRot, vars
<1> QED
  BY <1>3, <1>4, <1>5, <1>6, <1>7, <1>8, <1>9, <1>10, <1>11, <1>12, <1>13
  DEF Next, ControlStep, DataStep

PartsInv == SentInv /\ WholeInv /\ KeptInv /\ CauseInv

LEMMA PartsInit == Init => PartsInv
<1> SUFFICES ASSUME Init PROVE PartsInv
  OBVIOUS
<1>1. WholeInv /\ KeptInv /\ CauseInv
  BY DEF Init, WholeInv, KeptInv, CauseInv, Active
<1> QED BY SentInit, <1>1 DEF PartsInv

LEMMA PartsHold ==
  ASSUME ~Overlap
  PROVE  Spec => [](TypeInv /\ SerialInv /\ PartsInv)
<1>1. TypeInv /\ SerialInv /\ PartsInv /\ [Next]_vars => PartsInv'
  <2>1. LaneInv => LaneOpen
    BY DEF LaneInv, LaneOpen
  <2> QED
    BY SentStep, WholeStep, KeptStep, CauseStep, <2>1 DEF PartsInv, SerialInv
<1> QED
  BY SerialHolds, PartsInit, <1>1, PTL DEF Spec

(* Every error the server reports has a cause outside the protocol (the    *)
(* outcome in handle_control_connection, and assemble).                    *)
THEOREM FailureHasCause ==
  ASSUME ~Overlap
  PROVE  Spec => []NoSpuriousFailure
<1>1. TypeInv /\ SerialInv /\ PartsInv => NoSpuriousFailure
  BY DEF PartsInv, CauseInv, NoSpuriousFailure
<1> QED BY PartsHold, <1>1, PTL

-----------------------------------------------------------------------------
(* What the final file may hold                                            *)

(* A session that means to write the file does not find in it what it was  *)
(* asked for; while it writes, the file holds the parts copied so far.     *)
Unwritten == {"load", "purge", "clean", "ready", "waiting", "create"}

FileInv ==
  \A s \in Session :
    /\ pc[s] \in Unwritten => ~Delivered(offer[s])
    /\ pc[s] \in {"copy", "drop"} => \A c \in Index :
         /\ c < Copied(s) => final[c] \in {<<offer[s], c>>, Changed, Rot}
         /\ ~(c < Copied(s)) => final[c] = Absent

LEMMA FirstIndex == \A f \in Offer : 0 \in Index /\ 0 \in Chunks(f)
BY ConstantFacts DEF Index, Chunks

(* The first chunk tells whose file it is.                                 *)
LEMMA FirstChunk ==
  ASSUME NEW f \in Offer, NEW g \in Offer, NEW x, x = Image(g),
         x[0] \in {<<f, 0>>, Changed, Rot, Absent}
  PROVE  g = f
<1>1. x[0] = <<g, 0>> /\ <<g, 0>> \in Chunk
  BY FirstIndex DEF Image, Chunk
<1>2. x[0] = <<f, 0>>
  BY <1>1, BytesAssumption
<1> QED BY <1>1, <1>2

(* A file that assembly has not finished is not whole, and what assembly   *)
(* finishes is the file of its own transfer.                               *)
LEMMA CopyUnfinished ==
  ASSUME TypeInv, FileInv, NEW s \in Session, pc[s] = "copy",
         next[s] < NumChunks[offer[s]], NEW g \in Offer
  PROVE  final # Image(g)
<1> SUFFICES ASSUME final = Image(g) PROVE FALSE
  OBVIOUS
<1>1. /\ offer[s] \in Offer /\ next[s] \in 0 .. MaxChunks
      /\ NumChunks[offer[s]] \in 1 .. MaxChunks
  BY ConstantFacts DEF TypeInv, TypeOK, Opened
<1>2. /\ next[s] \in Index /\ next[s] \in Chunks(offer[s])
      /\ ~(next[s] < next[s])
  BY <1>1, ConstantFacts DEF Index, Chunks
<1>3. final[next[s]] = Absent
  BY <1>2 DEF FileInv, Copied
<1>4. final[0] \in {<<offer[s], 0>>, Changed, Rot, Absent}
  BY <1>1, FirstIndex DEF FileInv
<1>5. g = offer[s]
  BY <1>1, <1>4, FirstChunk
<1>6. final[next[s]] = <<offer[s], next[s]>>
  BY <1>2, <1>5 DEF Image
<1> QED BY <1>1, <1>2, <1>3, <1>6, BytesFacts

LEMMA FileStep ==
  ASSUME TypeInv, OneOpen, CopyInv, PartsInv, FileInv, [Next]_vars
  PROVE  FileInv'
<1> USE DEF TypeInv, TypeOK, Opened, FileInv, Delivered, Copied, Unwritten,
            Goto, disk, recv, lanes
(* Steps that leave the file alone, and nobody begins or goes on copying.  *)
<1>1. ASSUME UNCHANGED final,
             \A s \in Session :
               /\ pc'[s] \in Unwritten => pc[s] \in Unwritten
               /\ pc'[s] \in {"copy", "drop"} =>
                    pc'[s] = pc[s] /\ next'[s] = next[s]
               /\ pc'[s] # "free" => offer'[s] = offer[s]
      PROVE  FileInv'
  BY <1>1
<1>2. ASSUME NEW s \in Session,
             \/ NoPrevious(s) \/ PurgeStale(s) \/ ResumeAll(s)
             \/ PurgeCorrupt(s) \/ ResumeValid(s) \/ PurgePart(s)
             \/ SaveClean(s) \/ AllChunksPresent(s) \/ SpawnDataServers(s)
             \/ Refuse(s) \/ Abort(s) \/ StartAssembly(s) \/ PartMissing(s)
             \/ FinishAssembly(s) \/ AssemblyFails(s) \/ Release(s)
             \/ Disconnect(s)
      PROVE  FileInv'
  <2>1. UNCHANGED final
    BY <1>2 DEF NoPrevious, PurgeStale, ResumeAll, PurgeCorrupt, ResumeValid,
       PurgePart, SaveClean, AllChunksPresent, SpawnDataServers, Refuse,
       Abort, StartAssembly, PartMissing, FinishAssembly, AssemblyFails,
       Release, Disconnect
  <2>2. \A r \in Session :
          /\ pc'[r] \in Unwritten => pc[r] \in Unwritten
          /\ pc'[r] \in {"copy", "drop"} =>
               pc'[r] = pc[r] /\ next'[r] = next[r]
          /\ pc'[r] # "free" => offer'[r] = offer[r]
    BY <1>2 DEF NoPrevious, PurgeStale, ResumeAll, PurgeCorrupt, ResumeValid,
       PurgePart, SaveClean, AllChunksPresent, SpawnDataServers, Refuse,
       Abort, StartAssembly, PartMissing, FinishAssembly, AssemblyFails,
       Release, Disconnect, Assembling
  <2> QED BY <1>1, <2>1, <2>2
<1>3. ASSUME NEW s \in Session, NEW c \in Index,
             BeginWrite(s, c) \/ OpenFails(s, c) \/ DataStep(s, c)
      PROVE  FileInv'
  BY <1>1, <1>3 DEF BeginWrite, OpenFails, DataStep, EndWrite, WriteFails,
     RecordChunk, FinishSave, SaveFails
<1>4. ASSUME Crash \/ MetaRot \/ (\E c \in Index : BitRot(c))
             \/ UNCHANGED vars
      PROVE  FileInv'
  BY <1>1, <1>4 DEF Crash, MetaRot, BitRot, vars
<1>5. ASSUME NEW s \in Session, NEW f \in Offer, Handshake(s, f)
      PROVE  FileInv'
  BY <1>5 DEF Handshake
<1>6. ASSUME NEW s \in Session, CreateFinal(s)
      PROVE  FileInv'
  <2>1. \A r \in Session : pc'[r] # "free" => r = s
    BY <1>6 DEF CreateFinal, OneOpen
  <2>2. pc'[s] = "copy" /\ next'[s] = 0
    BY <1>6 DEF CreateFinal, CopyInv
  <2>3. \A c \in Index : final'[c] = Absent /\ ~(c < 0)
    BY <1>6 DEF CreateFinal, Nothing, Index
  <2> QED BY <2>1, <2>2, <2>3
<1>7. ASSUME NEW s \in Session, CopyPart(s)
      PROVE  FileInv'
  <2>1. /\ pc[s] = "copy" /\ next[s] < NumChunks[offer[s]]
        /\ pc' = [pc EXCEPT ![s] = "drop"]
        /\ final' = [final EXCEPT ![next[s]] = part[next[s]]]
        /\ UNCHANGED <<next, offer>>
    BY <1>7 DEF CopyPart
  <2>2. \A r \in Session : pc'[r] # "free" => r = s
    BY <2>1 DEF OneOpen
  <2>3. /\ next[s] \in Index
        /\ part[next[s]] \in {<<offer[s], next[s]>>, Changed, Rot}
    BY <2>1, NextPart DEF PartsInv
  <2>4. ASSUME NEW c \in Index
        PROVE  /\ c < next[s] + 1 <=> c < next[s] \/ c = next[s]
               /\ final'[c] = IF c = next[s] THEN part[c] ELSE final[c]
    <3>1. final'[c] = IF c = next[s] THEN part[c] ELSE final[c]
      BY <2>1
    <3>2. c \in Int /\ next[s] \in Int
      BY <2>3 DEF Index
    <3>3. c < next[s] + 1 <=> c < next[s] \/ c = next[s]
      <4> HIDE DEF TypeInv, FileInv
      <4> QED BY <3>2
    <3> QED BY <3>1, <3>3
  <2>5. \A c \in Index :
          /\ c < next[s] => final[c] \in {<<offer[s], c>>, Changed, Rot}
          /\ ~(c < next[s]) => final[c] = Absent
    BY <2>1
  <2>6. \A c \in Index :
          /\ c < next[s] + 1 => final'[c] \in {<<offer[s], c>>, Changed, Rot}
          /\ ~(c < next[s] + 1) => final'[c] = Absent
    <3> HIDE DEF TypeInv, FileInv
    <3> QED BY <2>3, <2>4, <2>5
  <2>7. pc'[s] = "drop"
    BY <2>1
  <2> QED BY <2>1, <2>2, <2>6, <2>7
<1>8. ASSUME NEW s \in Session, DropPart(s)
      PROVE  FileInv'
  <2>1. /\ pc[s] = "drop" /\ pc'[s] = "copy" /\ next'[s] = next[s] + 1
        /\ UNCHANGED <<final, offer>>
    BY <1>8 DEF DropPart
  <2>2. \A r \in Session : pc'[r] # "free" => r = s
    BY <1>8 DEF DropPart, OneOpen
  <2> QED BY <2>1, <2>2
<1> QED
  BY <1>2, <1>3, <1>4, <1>5, <1>6, <1>7, <1>8 DEF Next, ControlStep

FileFacts == TypeInv /\ OneOpen /\ CopyInv /\ PartsInv /\ FileInv

LEMMA FileHolds ==
  ASSUME ~Overlap
  PROVE  Spec => []FileFacts
<1>1. Init => FileInv
  BY DEF Init, FileInv, Unwritten
<1> QED
  BY PartsHold, CopyHolds, FileStep, <1>1, PTL DEF Spec, FileFacts

-----------------------------------------------------------------------------
(* No delivered file is lost                                               *)

(* Only File::create and the copies of assemble write to the file.         *)
LEMMA FileChanges ==
  ASSUME [Next]_vars
  PROVE  final' = final \/ \E s \in Session : CreateFinal(s) \/ CopyPart(s)
BY DEF Next, ControlStep, DataStep, Handshake, NoPrevious, PurgeStale,
   ResumeAll, PurgeCorrupt, ResumeValid, PurgePart, SaveClean,
   AllChunksPresent, SpawnDataServers, Refuse, Abort, StartAssembly,
   DropPart, PartMissing, FinishAssembly, AssemblyFails, Release, Disconnect,
   BeginWrite, OpenFails, EndWrite, WriteFails, RecordChunk, FinishSave,
   SaveFails, Crash, BitRot, MetaRot, disk, vars

(* A delivered file is truncated only for a client that announces other    *)
(* contents: check_existing_file looked before File::create, and nothing   *)
(* has put those contents there in between.                                *)
THEOREM DeliveredIsSafe ==
  ASSUME ~Overlap
  PROVE  Spec => OnlyReplacedByOther
<1> DEFINE Step == \A f \in Offer : Delivered(f) /\ ~Delivered(f)' =>
                     \E s \in Session : /\ pc[s] = "create"
                                        /\ Digest[offer[s]] # Digest[f]
<1>1. ASSUME FileFacts, [Next]_vars PROVE Step
  <2> SUFFICES ASSUME NEW f \in Offer, Delivered(f), ~Delivered(f)'
               PROVE  \E s \in Session : /\ pc[s] = "create"
                                         /\ Digest[offer[s]] # Digest[f]
    OBVIOUS
  <2>1. PICK g \in Offer : Digest[g] = Digest[f] /\ final = Image(g)
    BY DEF Delivered
  <2>2. final' # final
    BY <2>1 DEF Delivered
  <2>3. PICK s \in Session : CreateFinal(s) \/ CopyPart(s)
    BY <1>1, <2>2, FileChanges
  <2>4. ~CopyPart(s)
    BY <1>1, <2>1, CopyUnfinished DEF FileFacts, CopyPart
  <2>5. pc[s] = "create"
    BY <2>3, <2>4 DEF CreateFinal
  <2>6. ~Delivered(offer[s])
    BY <1>1, <2>5 DEF FileFacts, FileInv, Unwritten
  <2> QED BY <2>1, <2>5, <2>6 DEF Delivered
<1> QED
  BY FileHolds, <1>1, PTL DEF Spec, OnlyReplacedByOther

-----------------------------------------------------------------------------
(* FileReceiver implements Delivery                                        *)

(* Held as a function of the file, for use before and after a step.        *)
HeldBy(x) == IF \E f \in Offer : x = Image(f)
               THEN Digest[CHOOSE f \in Offer : x = Image(f)]
               ELSE Torn

LEMMA HeldIs == Held = HeldBy(final) /\ Held' = HeldBy(final')
BY DEF Held, HeldBy

LEMMA ImageHeld ==
  ASSUME NEW f \in Offer
  PROVE  HeldBy(Image(f)) = Digest[f]
<1> DEFINE g == CHOOSE h \in Offer : Image(f) = Image(h)
<1>1. g \in Offer /\ Image(f) = Image(g)
  OBVIOUS
<1>2. Image(f)[0] = <<f, 0>>
  BY FirstIndex DEF Image
<1>3. g = f
  BY <1>1, <1>2, FirstChunk
<1> QED BY <1>3 DEF HeldBy

LEMMA OtherHeld ==
  ASSUME NEW x, \A f \in Offer : x # Image(f)
  PROVE  HeldBy(x) = Torn
BY DEF HeldBy

(* check_existing_file compares digests.                                   *)
LEMMA HeldWhenDelivered ==
  ASSUME NEW f \in Offer
  PROVE  Held = Digest[f] <=> Delivered(f)
<1>1. ASSUME Delivered(f) PROVE Held = Digest[f]
  BY <1>1, HeldIs, ImageHeld DEF Delivered
<1>2. ASSUME Held = Digest[f] PROVE Delivered(f)
  <2>1. PICK g \in Offer : final = Image(g)
    BY <1>2, HeldIs, OtherHeld, DigestAssumption
  <2> QED BY <1>2, <2>1, HeldIs, ImageHeld DEF Delivered
<1> QED BY <1>1, <1>2

(* A step of one session in the terms of the promise.                      *)
Others(s) == \A r \in Session : r # s =>
               Told(r)' = Told(r) /\ Wanted(r)' = Wanted(r)

LEMMA PromiseInit == Init => Promise!Init
<1> SUFFICES ASSUME Init PROVE Promise!Init
  OBVIOUS
<1>1. \A f \in Offer : final # Image(f)
  <2> SUFFICES ASSUME NEW f \in Offer PROVE final # Image(f)
    OBVIOUS
  <2>1. final[0] = Absent
    BY FirstIndex DEF Init, Nothing
  <2>2. Image(f)[0] = <<f, 0>> /\ 0 \in Index
    BY FirstIndex DEF Image
  <2> QED BY <2>1, <2>2, BytesFacts
<1>2. Held = Torn
  BY <1>1, HeldIs, OtherHeld
<1>3. \A s \in Session : Told(s) = "none" /\ Wanted(s) = NoOffer
  BY DEF Init, Told, Wanted
<1> QED BY <1>2, <1>3 DEF Promise!Init

LEMMA PromiseStep ==
  ASSUME FileFacts, [Next]_vars
  PROVE  [Promise!Next]_(Promise!vars)
<1> USE DEF FileFacts, TypeInv, TypeOK, Goto, disk, recv, lanes
(* Steps that the promise does not see.                                    *)
<1>1. ASSUME UNCHANGED final,
             \A s \in Session : Told(s)' = Told(s) /\ Wanted(s)' = Wanted(s)
      PROVE  UNCHANGED Promise!vars
  BY <1>1, HeldIs DEF Promise!vars
<1>2. ASSUME NEW s \in Session,
             \/ NoPrevious(s) \/ PurgeStale(s) \/ ResumeAll(s)
             \/ PurgeCorrupt(s) \/ ResumeValid(s) \/ PurgePart(s)
             \/ SaveClean(s) \/ AllChunksPresent(s) \/ SpawnDataServers(s)
             \/ StartAssembly(s) \/ DropPart(s) \/ Disconnect(s)
      PROVE  UNCHANGED Promise!vars
  <2>1. UNCHANGED <<final, offer>>
    BY <1>2 DEF NoPrevious, PurgeStale, ResumeAll, PurgeCorrupt, ResumeValid,
       PurgePart, SaveClean, AllChunksPresent, SpawnDataServers,
       StartAssembly, DropPart, Disconnect
  <2>2. \A r \in Session :
          \/ pc'[r] = pc[r]
          \/ /\ pc[r] \notin {"free"} \cup Terminal
             /\ pc'[r] \notin {"free"} \cup Terminal
    BY <1>2 DEF NoPrevious, PurgeStale, ResumeAll, PurgeCorrupt, ResumeValid,
       PurgePart, SaveClean, AllChunksPresent, SpawnDataServers,
       StartAssembly, DropPart, Disconnect, Terminal
  <2>3. \A r \in Session : Told(r)' = Told(r) /\ Wanted(r)' = Wanted(r)
    BY <2>1, <2>2 DEF Told, Wanted
  <2> QED BY <1>1, <2>1, <2>3
<1>3. ASSUME NEW s \in Session, NEW c \in Index,
             BeginWrite(s, c) \/ OpenFails(s, c) \/ DataStep(s, c)
      PROVE  UNCHANGED Promise!vars
  <2>1. UNCHANGED <<final, offer, pc>>
    BY <1>3 DEF BeginWrite, OpenFails, DataStep, EndWrite, WriteFails,
       RecordChunk, FinishSave, SaveFails
  <2> QED BY <1>1, <2>1 DEF Told, Wanted
<1>4. ASSUME MetaRot \/ (\E c \in Index : BitRot(c)) \/ UNCHANGED vars
      PROVE  UNCHANGED Promise!vars
  <2>1. UNCHANGED <<final, offer, pc>>
    BY <1>4 DEF MetaRot, BitRot, vars
  <2> QED BY <1>1, <2>1 DEF Told, Wanted
(* A handshake asks.                                                       *)
<1>5. ASSUME NEW s \in Session, NEW f \in Offer, Handshake(s, f)
      PROVE  Promise!Ask(s, Digest[f])
  <2>1. /\ pc[s] = "free"
        /\ pc'[s] = IF Delivered(f) THEN "exists" ELSE "load"
        /\ offer'[s] = f /\ UNCHANGED final
        /\ \A r \in Session : r # s => pc'[r] = pc[r] /\ offer'[r] = offer[r]
    BY <1>5 DEF Handshake
  <2>2. /\ Told(s) = "none" /\ Wanted(s)' = Digest[f]
        /\ Told(s)' = IF Held = Digest[f] THEN "exists" ELSE "pending"
    BY <2>1, HeldWhenDelivered DEF Told, Wanted, Terminal
  <2>3. Others(s)
    BY <2>1 DEF Others, Told, Wanted
  <2>4. Held' = Held
    BY <2>1, HeldIs
  <2> QED BY <2>2, <2>3, <2>4 DEF Promise!Ask, Others
(* A session that gives up.                                                *)
<1>6. ASSUME NEW s \in Session, UNCHANGED <<final, offer>>,
             pc[s] \notin {"free"} \cup Terminal,
             pc' = [pc EXCEPT ![s] = "err"]
      PROVE  Promise!Fail(s)
  <2>1. /\ Told(s) = "pending" /\ Told(s)' = "err"
        /\ Wanted(s)' = Wanted(s) /\ Others(s)
    BY <1>6 DEF Told, Wanted, Terminal, Others
  <2>2. Held' = Held
    BY <1>6, HeldIs
  <2> QED BY <2>1, <2>2 DEF Promise!Fail, Others
<1>7. ASSUME NEW s \in Session,
             Refuse(s) \/ Abort(s) \/ PartMissing(s) \/ AssemblyFails(s)
      PROVE  Promise!Fail(s)
  BY <1>6, <1>7 DEF Refuse, Abort, PartMissing, AssemblyFails, Assembling,
     Terminal
(* File::create.                                                           *)
<1>8. ASSUME NEW s \in Session, CreateFinal(s)
      PROVE  Promise!Overwrite(s)
  <2>1. /\ pc[s] = "create" /\ pc' = [pc EXCEPT ![s] = "copy"]
        /\ final' = Nothing /\ UNCHANGED offer
    BY <1>8 DEF CreateFinal
  <2>2. /\ Told(s) = "pending" /\ Wanted(s) = Digest[offer[s]]
        /\ \A r \in Session : Told(r)' = Told(r) /\ Wanted(r)' = Wanted(r)
    BY <2>1 DEF Told, Wanted, Terminal
  <2>3. Held # Wanted(s)
    BY <2>1, <2>2, HeldWhenDelivered DEF FileInv, Unwritten, Opened
  <2>4. \A f \in Offer : Nothing # Image(f)
    BY FirstIndex, BytesFacts DEF Nothing, Image
  <2>5. Held' = Torn
    BY <2>1, <2>4, HeldIs, OtherHeld
  <2> QED BY <2>2, <2>3, <2>5 DEF Promise!Overwrite
(* A copy that makes the file whole, or does not.                          *)
<1>9. ASSUME NEW s \in Session, CopyPart(s)
      PROVE  Promise!Install(s) \/ UNCHANGED Promise!vars
  <2>1. /\ pc[s] = "copy" /\ pc' = [pc EXCEPT ![s] = "drop"]
        /\ next[s] < NumChunks[offer[s]] /\ UNCHANGED offer
        /\ final' = [final EXCEPT ![next[s]] = part[next[s]]]
    BY <1>9 DEF CopyPart
  <2>2. /\ Told(s) = "pending" /\ Wanted(s) = Digest[offer[s]]
        /\ \A r \in Session : Told(r)' = Told(r) /\ Wanted(r)' = Wanted(r)
    BY <2>1 DEF Told, Wanted, Terminal
  <2>3. Held = Torn
    BY <2>1, HeldIs, OtherHeld, CopyUnfinished
  <2>4. ASSUME NEW g \in Offer, final' = Image(g)
        PROVE  Held' = Digest[offer[s]]
    <3>1. /\ final' = Image(g)
          /\ pc'[s] = "drop" /\ offer[s] \in Offer /\ offer'[s] = offer[s]
      BY <2>1, <2>4 DEF Opened
    <3>2. FileInv'
      BY FileStep
    <3>3. final'[0] \in {<<offer[s], 0>>, Changed, Rot, Absent}
      BY <3>1, <3>2, FirstIndex DEF FileInv
    <3>4. g = offer[s]
      BY <3>1, <3>3, FirstChunk
    <3> QED BY <3>1, <3>4, HeldIs, ImageHeld
  <2>5. CASE \E g \in Offer : final' = Image(g)
    BY <2>2, <2>3, <2>4, <2>5 DEF Promise!Install
  <2>6. CASE \A g \in Offer : final' # Image(g)
    <3>1. Held' = Torn
      BY <2>6, HeldIs, OtherHeld
    <3> QED BY <2>2, <2>3, <3>1 DEF Promise!vars
  <2> QED BY <2>5, <2>6
(* The verdict of assemble.                                                *)
<1>10. ASSUME NEW s \in Session, FinishAssembly(s)
       PROVE  Promise!Confirm(s) \/ Promise!Fail(s)
  <2>1. /\ pc[s] = "copy" /\ next[s] = NumChunks[offer[s]]
        /\ pc' = [pc EXCEPT ![s] = IF exact[s] THEN "ok" ELSE "err"]
        /\ UNCHANGED <<final, offer>>
    BY <1>10 DEF FinishAssembly
  <2>2. CASE exact[s]
    <3>1. offer[s] \in Offer /\ final = Image(offer[s])
      BY <2>1, <2>2, CopiedIsWhole
    <3>2. /\ Told(s) = "pending" /\ Told(s)' = "ok" /\ Others(s)
          /\ Wanted(s) = Digest[offer[s]] /\ Wanted(s)' = Wanted(s)
      BY <2>1, <2>2 DEF Told, Wanted, Terminal, Others
    <3>3. Held = Digest[offer[s]] /\ Held' = Held
      BY <2>1, <3>1, HeldIs, ImageHeld
    <3> QED BY <3>2, <3>3 DEF Promise!Confirm, Others
  <2>3. CASE ~exact[s]
    BY <1>6, <2>1, <2>3 DEF Terminal
  <2> QED BY <2>2, <2>3
(* The end of a session and of the process.                                *)
<1>11. ASSUME NEW s \in Session, Release(s)
       PROVE  Promise!Leave({s})
  <2>1. /\ pc' = [pc EXCEPT ![s] = "free"] /\ UNCHANGED final
        /\ \A r \in Session : r # s => offer'[r] = offer[r]
    BY <1>11 DEF Release
  <2>2. Told(s)' = "none" /\ Wanted(s)' = NoOffer /\ Others(s)
    BY <2>1 DEF Told, Wanted, Others
  <2>3. Held' = Held
    BY <2>1, HeldIs
  <2> QED BY <2>2, <2>3 DEF Promise!Leave, Others
<1>12. ASSUME Crash PROVE Promise!Leave(Session)
  <2>1. Held' = Held
    BY <1>12, HeldIs DEF Crash
  <2>2. \A s \in Session : Told(s)' = "none" /\ Wanted(s)' = NoOffer
    BY <1>12 DEF Crash, Told, Wanted
  <2> QED BY <2>1, <2>2 DEF Promise!Leave
<1> HIDE DEF FileFacts, TypeInv, TypeOK, Goto, disk, recv, lanes
<1>13. ASSUME NEW s \in Session, NEW f \in Offer, Handshake(s, f)
       PROVE  Promise!Next
  <2>1. Digest[f] \in {Digest[g] : g \in Offer}
    OBVIOUS
  <2> QED BY <1>5, <1>13, <2>1 DEF Promise!Next
<1>14. ASSUME NEW s \in Session, ControlStep(s) \/ Disconnect(s)
       PROVE  Promise!Next \/ UNCHANGED Promise!vars
  <2>1. ASSUME Promise!Leave({s}) PROVE Promise!Next
    <3>1. {s} \in {Session} \cup {{r} : r \in Session}
      OBVIOUS
    <3> QED BY <2>1, <3>1 DEF Promise!Next
  <2>2. ASSUME \/ Promise!Overwrite(s) \/ Promise!Install(s)
               \/ Promise!Confirm(s) \/ Promise!Fail(s)
        PROVE  Promise!Next
    BY <2>2 DEF Promise!Next
  <2> QED
    BY <1>2, <1>7, <1>8, <1>9, <1>10, <1>11, <1>14, <2>1, <2>2
    DEF ControlStep
<1>15. Crash => Promise!Next
  <2>1. Session \in {Session} \cup {{r} : r \in Session}
    OBVIOUS
  <2> QED BY <1>12, <2>1 DEF Promise!Next
<1> QED
  BY <1>3, <1>4, <1>13, <1>14, <1>15 DEF Next

(* The server keeps the promise of Delivery: "exists" and RESP_OK are said *)
(* only of a file that holds the content asked for, and a session never    *)
(* opens for writing a file that holds what it wants.                      *)
THEOREM KeepsPromise ==
  ASSUME ~Overlap
  PROVE  Spec => ServerPromise
BY FileHolds, PromiseInit, PromiseStep, PTL
DEF Spec, ServerPromise, Promise!Spec
=============================================================================
