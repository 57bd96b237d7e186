------------------------- MODULE FileReceiverProofs -------------------------
(* Theorems about FileReceiver, for any sessions, offers, chunk counts and *)
(* number of faults.                                                       *)
EXTENDS FileReceiver, TLAPS

(* What TypeOK needs to be inductive: a session past its handshake has     *)
(* parameters, and the loop of assemble stays within the chunks.           *)
Opened ==
  \A s \in Session :
    /\ pc[s] # "free" => offer[s] \in Offer
    /\ \A c \in Index : lane[s][c] # "closed" => pc[s] # "free"
    /\ pc[s] = "drop" => next[s] < NumChunks[offer[s]]

TypeInv == TypeOK /\ Opened

LEMMA ConstantFacts ==
  /\ MaxChunks \in Nat \ {0}
  /\ \A f \in Offer : NumChunks[f] \in 1 .. MaxChunks
  /\ MaxFaults \in Nat
  /\ NoOffer \notin Offer
  /\ 0 \in 0 .. MaxChunks
BY OfferAssumption, SMT

LEMMA BytesFacts ==
  /\ \A f \in Offer, c \in Index : <<f, c>> # Absent
  /\ Changed # Absent /\ Torn # Absent /\ Rot # Absent
BY BytesAssumption DEF Chunk

LEMMA TypeInit == Init => TypeInv
BY ConstantFacts DEF Init, TypeInv, TypeOK, Opened, Nothing, Part, Bytes,
   PC, Lane, Active, Terminal, Record

LEMMA TypeStep == TypeInv /\ [Next]_vars => TypeInv'
<1> SUFFICES ASSUME TypeInv, [Next]_vars PROVE TypeInv'
  OBVIOUS
<1> USE ConstantFacts DEF TypeInv, TypeOK, Opened, Goto, Fault, NoFault
<1>1. ASSUME NEW s \in Session, NEW f \in Offer, Handshake(s, f)
      PROVE  TypeInv'
  BY <1>1 DEF Handshake, disk, lanes, PC, Active, Terminal
<1>2. ASSUME NEW s \in Session, NoPrevious(s)
      PROVE  TypeInv'
  BY <1>2 DEF NoPrevious, disk, recv, lanes, PC, Active, Terminal
<1>3. ASSUME NEW s \in Session, PurgeStale(s)
      PROVE  TypeInv'
  BY <1>3 DEF PurgeStale, disk, recv, lanes, PC, Active, Terminal
<1>4. ASSUME NEW s \in Session, ResumeAll(s)
      PROVE  TypeInv'
  BY <1>4 DEF ResumeAll, disk, recv, lanes, PC, Active, Terminal, Resumable, Record
<1>5. ASSUME NEW s \in Session, PurgeCorrupt(s)
      PROVE  TypeInv'
  BY <1>5 DEF PurgeCorrupt, disk, recv, lanes, PC, Active, Terminal, PartsKept, Part, Bytes
<1>6. ASSUME NEW s \in Session, ResumeValid(s)
      PROVE  TypeInv'
  BY <1>6 DEF ResumeValid, disk, recv, lanes, PC, Active, Terminal, PartsKept, Part, Resumable, Record, Valid, VerifyPart
<1>7. ASSUME NEW s \in Session, PurgePart(s)
      PROVE  TypeInv'
  <2>1. NumChunks[offer[s]] \in 1 .. MaxChunks /\ next[s] \in 0 .. MaxChunks
    BY <1>7 DEF PurgePart
  <2>2. part' \in [Index -> Part]
    BY <1>7 DEF PurgePart, Part
  <2>3. CASE next[s] + 1 < NumChunks[offer[s]]
    <3>1. next' \in [Session -> 0 .. MaxChunks]
      BY <1>7, <2>1, <2>3 DEF PurgePart
    <3> QED
      BY <1>7, <2>2, <2>3, <3>1 DEF PurgePart, recv, lanes
  <2>4. CASE ~(next[s] + 1 < NumChunks[offer[s]])
    <3>1. next' \in [Session -> 0 .. MaxChunks] /\ pc' \in [Session -> PC]
      BY <1>7, <2>4 DEF PurgePart, PC
    <3> QED
      BY <1>7, <2>2, <2>4, <3>1 DEF PurgePart, recv, lanes
  <2> QED
    BY <2>3, <2>4
<1>8. ASSUME NEW s \in Session, SaveClean(s)
      PROVE  TypeInv'
  BY <1>8 DEF SaveClean, disk, recv, lanes, PC, Active, Terminal, Record
<1>9. ASSUME NEW s \in Session, AllChunksPresent(s)
      PROVE  TypeInv'
  BY <1>9 DEF AllChunksPresent, disk, recv, lanes, PC, Active, Terminal
<1>10. ASSUME NEW s \in Session, SpawnDataServers(s)
      PROVE  TypeInv'
  BY <1>10 DEF SpawnDataServers, disk, recv, lanes, PC, Active, Terminal, Lane
<1>11. ASSUME NEW s \in Session, Refuse(s)
      PROVE  TypeInv'
  BY <1>11 DEF Refuse, disk, recv, lanes, PC, Active, Terminal
<1>12. ASSUME NEW s \in Session, Abort(s)
      PROVE  TypeInv'
  BY <1>12 DEF Abort, disk, recv, lanes, PC, Active, Terminal
<1>13. ASSUME NEW s \in Session, StartAssembly(s)
      PROVE  TypeInv'
  BY <1>13 DEF StartAssembly, disk, recv, lanes, PC, Active, Terminal
<1>14. ASSUME NEW s \in Session, CreateFinal(s)
      PROVE  TypeInv'
  BY <1>14 DEF CreateFinal, disk, recv, lanes, PC, Active, Terminal, Nothing, Part
<1>15. ASSUME NEW s \in Session, CopyPart(s)
      PROVE  TypeInv'
  BY <1>15 DEF CopyPart, disk, recv, lanes, PC, Active, Terminal, Index
<1>16. ASSUME NEW s \in Session, DropPart(s)
      PROVE  TypeInv'
  <2>1. NumChunks[offer[s]] \in 1 .. MaxChunks /\ next[s] \in 0 .. MaxChunks
    BY <1>16 DEF DropPart
  <2>2. next' \in [Session -> 0 .. MaxChunks]
    BY <1>16, <2>1 DEF DropPart
  <2>3. part' \in [Index -> Part] /\ pc' \in [Session -> PC]
    BY <1>16 DEF DropPart, Part, PC, Active
  <2> QED
    BY <1>16, <2>2, <2>3 DEF DropPart, recv, lanes
<1>17. ASSUME NEW s \in Session, PartMissing(s)
      PROVE  TypeInv'
  BY <1>17 DEF PartMissing, Assembling, disk, recv, lanes, PC, Active, Terminal
<1>18. ASSUME NEW s \in Session, FinishAssembly(s)
      PROVE  TypeInv'
  BY <1>18 DEF FinishAssembly, disk, recv, lanes, PC, Active, Terminal
<1>19. ASSUME NEW s \in Session, AssemblyFails(s)
      PROVE  TypeInv'
  BY <1>19 DEF AssemblyFails, disk, recv, lanes, PC, Active, Terminal
<1>20. ASSUME NEW s \in Session, Release(s)
      PROVE  TypeInv'
  BY <1>20 DEF Release, disk, recv, lanes, PC, Active, Terminal, Nothing, Part, Lane
<1>21. ASSUME NEW s \in Session, Disconnect(s)
      PROVE  TypeInv'
  BY <1>21 DEF Disconnect, disk, recv, lanes, PC, Active, Terminal
<1>22. ASSUME NEW s \in Session, NEW c \in Index, BeginWrite(s, c)
      PROVE  TypeInv'
  <2>1. pc[s] # "free" /\ offer[s] \in Offer
    BY <1>22 DEF BeginWrite
  <2>2. part' \in [Index -> Part] /\ faults' \in 0 .. MaxFaults
    <3>1. Torn \in Part
      BY DEF Part, Bytes
    <3> QED
      BY <1>22, <3>1 DEF BeginWrite
  <2>3. <<offer[s], c>> \in Part /\ Changed \in Part
    BY <2>1 DEF Part, Bytes, Chunk
  <2>4. buf' \in [Session -> [Index -> Part]]
    <3>1. PICK x \in Part : buf' = [buf EXCEPT ![s][c] = x]
      BY <1>22, <2>3 DEF BeginWrite
    <3> QED
      BY <3>1
  <2>5. lane' \in [Session -> [Index -> Lane]]
    BY <1>22 DEF BeginWrite, Lane
  <2> QED
    BY <1>22, <2>1, <2>2, <2>4, <2>5 DEF BeginWrite, recv
<1>23. ASSUME NEW s \in Session, NEW c \in Index, EndWrite(s, c)
      PROVE  TypeInv'
  BY <1>23 DEF EndWrite, disk, recv, lanes, PC, Active, Terminal, Part, Lane
<1>24. ASSUME NEW s \in Session, NEW c \in Index, WriteFails(s, c)
      PROVE  TypeInv'
  BY <1>24 DEF WriteFails, disk, recv, lanes, PC, Active, Terminal, Part, Lane
<1>32. ASSUME NEW s \in Session, NEW c \in Index, OpenFails(s, c)
      PROVE  TypeInv'
  BY <1>32 DEF OpenFails, disk, recv, lanes, PC, Active, Terminal, Part, Lane
<1>25. ASSUME NEW s \in Session, NEW c \in Index, RecordChunk(s, c)
      PROVE  TypeInv'
  BY <1>25 DEF RecordChunk, disk, recv, lanes, PC, Active, Terminal, Record, Part, Lane
<1>26. ASSUME NEW s \in Session, NEW c \in Index, FinishSave(s, c)
      PROVE  TypeInv'
  BY <1>26 DEF FinishSave, disk, recv, lanes, PC, Active, Terminal, Chunk, Lane
<1>27. ASSUME NEW s \in Session, NEW c \in Index, SaveFails(s, c)
      PROVE  TypeInv'
  BY <1>27 DEF SaveFails, disk, recv, lanes, PC, Active, Terminal, Lane
<1>28. ASSUME Crash PROVE TypeInv'
  BY <1>28 DEF Crash, disk, PC, Lane, Nothing, Part
<1>29. ASSUME NEW c \in Index, BitRot(c) PROVE TypeInv'
  BY <1>29 DEF BitRot, recv, lanes, Part, Bytes
<1>30. ASSUME MetaRot PROVE TypeInv'
  BY <1>30 DEF MetaRot, recv, lanes
<1>31. ASSUME UNCHANGED vars PROVE TypeInv'
  BY <1>31 DEF vars, disk, recv, lanes
<1> QED
  BY <1>1, <1>2, <1>3, <1>4, <1>5, <1>6, <1>7, <1>8, <1>9, <1>10, <1>11, <1>12, <1>13, <1>14, <1>15, <1>16, <1>17, <1>18, <1>19, <1>20, <1>21, <1>22, <1>23, <1>24, <1>25, <1>26, <1>27, <1>28, <1>29, <1>30, <1>31, <1>32
  DEF Next, ControlStep, DataStep

(* Every reachable state is well typed.                                    *)
THEOREM TypeCorrect == Spec => []TypeOK
<1>1. TypeInv => TypeOK
  BY DEF TypeInv
<1> QED
  BY TypeInit, TypeStep, <1>1, PTL DEF Spec

-----------------------------------------------------------------------------
(* Durability of acknowledgements, when sessions do not overlap.  The      *)
(* induction needs to know what the one open session is doing.             *)

OneOpen == \A s, t \in Session :
             pc[s] # "free" /\ pc[t] # "free" => s = t

(* A session whose receiver stands for what is on disk: it has loaded the  *)
(* metadata, or its data connections are still there.                      *)
Loaded(s) == \/ pc[s] \in {"clean", "ready", "waiting", "create"}
             \/ \E c \in Index : lane[s][c] # "closed"

(* A data connection writes a chunk that is not recorded yet; one at most  *)
(* saves, and the temporary file is then its receiver's metadata.          *)
LaneInv ==
  \A s \in Session, c \in Index :
    /\ lane[s][c] # "closed" =>
         pc[s] \in Active \cup {"ok", "err"}
    /\ lane[s][c] \in {"writing", "written"} =>
         hashes[s][c] = Absent /\ buf[s][c] # Absent
    /\ lane[s][c] = "saving" =>
         /\ tmp = [offer |-> offer[s], hashes |-> hashes[s]]
         /\ hashes[s][c] # Absent
         /\ \A d \in Index : lane[s][d] = "saving" => d = c

(* While the transfer runs nobody else touches the part being written.     *)
WriteInv ==
  \A s \in Session, c \in Index : pc[s] = "waiting" =>
    /\ lane[s][c] = "writing" => part[c] # Absent
    /\ lane[s][c] = "written" => part[c] = buf[s][c]
    /\ lane[s][c] = "saving"  => part[c] = hashes[s][c]

(* The receiver in memory agrees with the record on disk about every chunk *)
(* that is owed, and nothing is owed while parts are removed.              *)
OwedInv ==
  \A s \in Session :
    /\ Loaded(s) => \A o \in owed : /\ o[1] = offer[s]
                                    /\ hashes[s][o[2]] = meta.hashes[o[2]]
    /\ pc[s] \in {"purge", "copy", "drop"} => owed = {}

SerialInv == OneOpen /\ LaneInv /\ WriteInv /\ OwedInv /\ AckedDurable

LEMMA OneOpenStep ==
  ASSUME ~Overlap, TypeInv, OneOpen, [Next]_vars
  PROVE  OneOpen'
<1> USE DEF TypeInv, TypeOK, OneOpen, Goto
<1>1. ASSUME NEW s \in Session, NEW f \in Offer, Handshake(s, f)
      PROVE  OneOpen'
  BY <1>1 DEF Handshake, disk, lanes
<1>2. ASSUME NEW s \in Session, NoPrevious(s)
      PROVE  OneOpen'
  BY <1>2 DEF NoPrevious, disk, recv, lanes
<1>3. ASSUME NEW s \in Session, PurgeStale(s)
      PROVE  OneOpen'
  BY <1>3 DEF PurgeStale, disk, recv, lanes
<1>4. ASSUME NEW s \in Session, ResumeAll(s)
      PROVE  OneOpen'
  BY <1>4 DEF ResumeAll, disk, recv, lanes
<1>5. ASSUME NEW s \in Session, PurgeCorrupt(s)
      PROVE  OneOpen'
  BY <1>5 DEF PurgeCorrupt, disk, recv, lanes
<1>6. ASSUME NEW s \in Session, ResumeValid(s)
      PROVE  OneOpen'
  BY <1>6 DEF ResumeValid, disk, recv, lanes
<1>7. ASSUME NEW s \in Session, PurgePart(s)
      PROVE  OneOpen'
  BY <1>7 DEF PurgePart, disk, recv, lanes
<1>8. ASSUME NEW s \in Session, SaveClean(s)
      PROVE  OneOpen'
  BY <1>8 DEF SaveClean, disk, recv, lanes
<1>9. ASSUME NEW s \in Session, AllChunksPresent(s)
      PROVE  OneOpen'
  BY <1>9 DEF AllChunksPresent, disk, recv, lanes
<1>10. ASSUME NEW s \in Session, SpawnDataServers(s)
      PROVE  OneOpen'
  BY <1>10 DEF SpawnDataServers, disk, recv, lanes
<1>11. ASSUME NEW s \in Session, Refuse(s)
      PROVE  OneOpen'
  BY <1>11 DEF Refuse, disk, recv, lanes
<1>12. ASSUME NEW s \in Session, Abort(s)
      PROVE  OneOpen'
  BY <1>12 DEF Abort, disk, recv, lanes
<1>13. ASSUME NEW s \in Session, StartAssembly(s)
      PROVE  OneOpen'
  BY <1>13 DEF StartAssembly, disk, recv, lanes
<1>14. ASSUME NEW s \in Session, CreateFinal(s)
      PROVE  OneOpen'
  BY <1>14 DEF CreateFinal, disk, recv, lanes
<1>15. ASSUME NEW s \in Session, CopyPart(s)
      PROVE  OneOpen'
  BY <1>15 DEF CopyPart, disk, recv, lanes
<1>16. ASSUME NEW s \in Session, DropPart(s)
      PROVE  OneOpen'
  BY <1>16 DEF DropPart, disk, recv, lanes
<1>17. ASSUME NEW s \in Session, PartMissing(s)
      PROVE  OneOpen'
  BY <1>17 DEF PartMissing, Assembling, disk, recv, lanes
<1>18. ASSUME NEW s \in Session, FinishAssembly(s)
      PROVE  OneOpen'
  BY <1>18 DEF FinishAssembly, disk, recv, lanes
<1>19. ASSUME NEW s \in Session, AssemblyFails(s)
      PROVE  OneOpen'
  BY <1>19 DEF AssemblyFails, disk, recv, lanes
<1>20. ASSUME NEW s \in Session, Release(s)
      PROVE  OneOpen'
  BY <1>20 DEF Release, disk, recv, lanes
<1>21. ASSUME NEW s \in Session, Disconnect(s)
      PROVE  OneOpen'
  BY <1>21 DEF Disconnect, disk, recv, lanes
<1>22. ASSUME NEW s \in Session, NEW c \in Index, BeginWrite(s, c)
      PROVE  OneOpen'
  BY <1>22 DEF BeginWrite, disk, recv, lanes
<1>23. ASSUME NEW s \in Session, NEW c \in Index, EndWrite(s, c)
      PROVE  OneOpen'
  BY <1>23 DEF EndWrite, disk, recv, lanes
<1>24. ASSUME NEW s \in Session, NEW c \in Index, WriteFails(s, c)
      PROVE  OneOpen'
  BY <1>24 DEF WriteFails, disk, recv, lanes
<1>32. ASSUME NEW s \in Session, NEW c \in Index, OpenFails(s, c)
      PROVE  OneOpen'
  BY <1>32 DEF OpenFails, disk, recv, lanes
<1>25. ASSUME NEW s \in Session, NEW c \in Index, RecordChunk(s, c)
      PROVE  OneOpen'
  BY <1>25 DEF RecordChunk, disk, recv, lanes
<1>26. ASSUME NEW s \in Session, NEW c \in Index, FinishSave(s, c)
      PROVE  OneOpen'
  BY <1>26 DEF FinishSave, disk, recv, lanes
<1>27. ASSUME NEW s \in Session, NEW c \in Index, SaveFails(s, c)
      PROVE  OneOpen'
  BY <1>27 DEF SaveFails, disk, recv, lanes
<1>28. ASSUME Crash PROVE OneOpen'
  BY <1>28 DEF Crash, disk, Nothing
<1>29. ASSUME NEW c \in Index, BitRot(c) PROVE OneOpen'
  BY <1>29 DEF BitRot, recv, lanes, InFlight
<1>30. ASSUME MetaRot PROVE OneOpen'
  BY <1>30 DEF MetaRot, recv, lanes
<1>31. ASSUME UNCHANGED vars PROVE OneOpen'
  BY <1>31 DEF vars, disk, recv, lanes
<1> QED
  BY <1>1, <1>2, <1>3, <1>4, <1>5, <1>6, <1>7, <1>8, <1>9, <1>10, <1>11, <1>12, <1>13, <1>14, <1>15, <1>16, <1>17, <1>18, <1>19, <1>20, <1>21, <1>22, <1>23, <1>24, <1>25, <1>26, <1>27, <1>28, <1>29, <1>30, <1>31, <1>32
  DEF Next, ControlStep, DataStep

LEMMA LaneStep ==
  ASSUME TypeInv, OneOpen, LaneInv, [Next]_vars
  PROVE  LaneInv'
<1> USE DEF TypeInv, TypeOK, Opened, OneOpen, LaneInv, Goto, Active
<1>1. ASSUME NEW s \in Session, NEW f \in Offer, Handshake(s, f)
      PROVE  LaneInv'
  BY <1>1 DEF Handshake, disk, lanes
<1>2. ASSUME NEW s \in Session, NoPrevious(s)
      PROVE  LaneInv'
  BY <1>2 DEF NoPrevious, disk, recv, lanes
<1>3. ASSUME NEW s \in Session, PurgeStale(s)
      PROVE  LaneInv'
  BY <1>3 DEF PurgeStale, disk, recv, lanes
<1>4. ASSUME NEW s \in Session, ResumeAll(s)
      PROVE  LaneInv'
  BY <1>4 DEF ResumeAll, disk, recv, lanes
<1>5. ASSUME NEW s \in Session, PurgeCorrupt(s)
      PROVE  LaneInv'
  BY <1>5 DEF PurgeCorrupt, disk, recv, lanes
<1>6. ASSUME NEW s \in Session, ResumeValid(s)
      PROVE  LaneInv'
  BY <1>6 DEF ResumeValid, disk, recv, lanes
<1>7. ASSUME NEW s \in Session, PurgePart(s)
      PROVE  LaneInv'
  BY <1>7 DEF PurgePart, disk, recv, lanes
<1>8. ASSUME NEW s \in Session, SaveClean(s)
      PROVE  LaneInv'
  BY <1>8 DEF SaveClean, disk, recv, lanes
<1>9. ASSUME NEW s \in Session, AllChunksPresent(s)
      PROVE  LaneInv'
  BY <1>9 DEF AllChunksPresent, disk, recv, lanes
<1>10. ASSUME NEW s \in Session, SpawnDataServers(s)
      PROVE  LaneInv'
  BY <1>10 DEF SpawnDataServers, disk, recv, lanes, Chunks
<1>11. ASSUME NEW s \in Session, Refuse(s)
      PROVE  LaneInv'
  BY <1>11 DEF Refuse, disk, recv, lanes
<1>12. ASSUME NEW s \in Session, Abort(s)
      PROVE  LaneInv'
  BY <1>12 DEF Abort, disk, recv, lanes
<1>13. ASSUME NEW s \in Session, StartAssembly(s)
      PROVE  LaneInv'
  BY <1>13 DEF StartAssembly, disk, recv, lanes
<1>14. ASSUME NEW s \in Session, CreateFinal(s)
      PROVE  LaneInv'
  BY <1>14 DEF CreateFinal, disk, recv, lanes
<1>15. ASSUME NEW s \in Session, CopyPart(s)
      PROVE  LaneInv'
  BY <1>15 DEF CopyPart, disk, recv, lanes
<1>16. ASSUME NEW s \in Session, DropPart(s)
      PROVE  LaneInv'
  BY <1>16 DEF DropPart, disk, recv, lanes
<1>17. ASSUME NEW s \in Session, PartMissing(s)
      PROVE  LaneInv'
  BY <1>17 DEF PartMissing, Assembling, disk, recv, lanes
<1>18. ASSUME NEW s \in Session, FinishAssembly(s)
      PROVE  LaneInv'
  BY <1>18 DEF FinishAssembly, disk, recv, lanes
<1>19. ASSUME NEW s \in Session, AssemblyFails(s)
      PROVE  LaneInv'
  BY <1>19 DEF AssemblyFails, disk, recv, lanes
<1>20. ASSUME NEW s \in Session, Release(s)
      PROVE  LaneInv'
  BY <1>20 DEF Release, disk, recv, lanes, Terminal, InFlight, Nothing
<1>21. ASSUME NEW s \in Session, Disconnect(s)
      PROVE  LaneInv'
  BY <1>21 DEF Disconnect, disk, recv, lanes
<1>22. ASSUME NEW s \in Session, NEW c \in Index, BeginWrite(s, c)
      PROVE  LaneInv'
  <2>1. hashes[s][c] = Absent /\ hashes' = hashes /\ pc' = pc /\ tmp' = tmp
    BY <1>22 DEF BeginWrite, Received, recv
  <2>2. lane' = [lane EXCEPT ![s][c] = "writing"] /\ offer' = offer
    BY <1>22 DEF BeginWrite, recv
  <2>3. PICK x \in Part : x # Absent /\ buf' = [buf EXCEPT ![s][c] = x]
    <3>1. offer[s] \in Offer
      BY <1>22 DEF BeginWrite
    <3>2. <<offer[s], c>> \in Part /\ Changed \in Part
      BY <3>1 DEF Part, Bytes, Chunk
    <3>3. <<offer[s], c>> # Absent /\ Changed # Absent
      BY <3>1, BytesFacts
    <3> HIDE DEF TypeInv, TypeOK, Opened, OneOpen, LaneInv
    <3> QED
      BY <1>22, <3>2, <3>3 DEF BeginWrite
  <2>4. lane[s][c] = "idle"
    BY <1>22 DEF BeginWrite
  <2> QED
    BY <2>1, <2>2, <2>3, <2>4
<1>23. ASSUME NEW s \in Session, NEW c \in Index, EndWrite(s, c)
      PROVE  LaneInv'
  BY <1>23 DEF EndWrite, disk, recv, lanes
<1>24. ASSUME NEW s \in Session, NEW c \in Index, WriteFails(s, c)
      PROVE  LaneInv'
  BY <1>24 DEF WriteFails, disk, recv, lanes
<1>32. ASSUME NEW s \in Session, NEW c \in Index, OpenFails(s, c)
      PROVE  LaneInv'
  BY <1>32 DEF OpenFails, disk, recv, lanes
<1>25. ASSUME NEW s \in Session, NEW c \in Index, RecordChunk(s, c)
      PROVE  LaneInv'
  <2>1. /\ lane[s][c] = "written"
        /\ \A d \in Index : lane[s][d] # "saving"
        /\ lane' = [lane EXCEPT ![s][c] = "saving"]
        /\ hashes' = [hashes EXCEPT ![s][c] = buf[s][c]]
        /\ tmp' = [offer |-> offer[s], hashes |-> hashes'[s]]
        /\ buf' = [buf EXCEPT ![s][c] = Absent]
        /\ pc' = pc /\ offer' = offer
    BY <1>25 DEF RecordChunk, LockFree
  <2>2. \A r \in Session, d \in Index : r # s => lane[r][d] = "closed"
    BY <2>1
  <2>3. \A r \in Session, d \in Index :
          lane'[r][d] # "closed" => pc'[r] \in Active \cup {"ok", "err"}
    BY <2>1
  <2>4. \A r \in Session, d \in Index : lane'[r][d] \in {"writing", "written"}
          => hashes'[r][d] = Absent /\ buf'[r][d] # Absent
    BY <2>1
  <2>5. \A r \in Session, d \in Index :
          lane'[r][d] = "saving" => r = s /\ d = c
    BY <2>1, <2>2
  <2>6. hashes'[s][c] # Absent
    BY <2>1
  <2>7. tmp' = [offer |-> offer'[s], hashes |-> hashes'[s]]
    BY <2>1
  <2> HIDE DEF TypeInv, TypeOK, Opened, OneOpen
  <2> QED
    BY <2>3, <2>4, <2>5, <2>6, <2>7
<1>26. ASSUME NEW s \in Session, NEW c \in Index, FinishSave(s, c)
      PROVE  LaneInv'
  BY <1>26 DEF FinishSave, disk, recv, lanes
<1>27. ASSUME NEW s \in Session, NEW c \in Index, SaveFails(s, c)
      PROVE  LaneInv'
  BY <1>27 DEF SaveFails, disk, recv, lanes
<1>28. ASSUME Crash PROVE LaneInv'
  BY <1>28 DEF Crash, disk, Nothing
<1>29. ASSUME NEW c \in Index, BitRot(c) PROVE LaneInv'
  BY <1>29 DEF BitRot, recv, lanes, InFlight
<1>30. ASSUME MetaRot PROVE LaneInv'
  BY <1>30 DEF MetaRot, recv, lanes
<1>31. ASSUME UNCHANGED vars PROVE LaneInv'
  BY <1>31 DEF vars, disk, recv, lanes
<1> QED
  BY <1>1, <1>2, <1>3, <1>4, <1>5, <1>6, <1>7, <1>8, <1>9, <1>10, <1>11, <1>12, <1>13, <1>14, <1>15, <1>16, <1>17, <1>18, <1>19, <1>20, <1>21, <1>22, <1>23, <1>24, <1>25, <1>26, <1>27, <1>28, <1>29, <1>30, <1>31, <1>32
  DEF Next, ControlStep, DataStep

LEMMA WriteStep ==
  ASSUME TypeInv, OneOpen, LaneInv, WriteInv, [Next]_vars
  PROVE  WriteInv'
<1> USE DEF TypeInv, TypeOK, Opened, OneOpen, LaneInv, WriteInv, Goto, Active
<1>1. ASSUME NEW s \in Session, NEW f \in Offer, Handshake(s, f)
      PROVE  WriteInv'
  BY <1>1 DEF Handshake, disk, lanes
<1>2. ASSUME NEW s \in Session, NoPrevious(s)
      PROVE  WriteInv'
  BY <1>2 DEF NoPrevious, disk, recv, lanes
<1>3. ASSUME NEW s \in Session, PurgeStale(s)
      PROVE  WriteInv'
  BY <1>3 DEF PurgeStale, disk, recv, lanes
<1>4. ASSUME NEW s \in Session, ResumeAll(s)
      PROVE  WriteInv'
  BY <1>4 DEF ResumeAll, disk, recv, lanes
<1>5. ASSUME NEW s \in Session, PurgeCorrupt(s)
      PROVE  WriteInv'
  BY <1>5 DEF PurgeCorrupt, disk, recv, lanes
<1>6. ASSUME NEW s \in Session, ResumeValid(s)
      PROVE  WriteInv'
  BY <1>6 DEF ResumeValid, disk, recv, lanes
<1>7. ASSUME NEW s \in Session, PurgePart(s)
      PROVE  WriteInv'
  BY <1>7 DEF PurgePart, disk, recv, lanes
<1>8. ASSUME NEW s \in Session, SaveClean(s)
      PROVE  WriteInv'
  BY <1>8 DEF SaveClean, disk, recv, lanes
<1>9. ASSUME NEW s \in Session, AllChunksPresent(s)
      PROVE  WriteInv'
  BY <1>9 DEF AllChunksPresent, disk, recv, lanes
<1>10. ASSUME NEW s \in Session, SpawnDataServers(s)
      PROVE  WriteInv'
  BY <1>10 DEF SpawnDataServers, disk, recv, lanes
<1>11. ASSUME NEW s \in Session, Refuse(s)
      PROVE  WriteInv'
  BY <1>11 DEF Refuse, disk, recv, lanes
<1>12. ASSUME NEW s \in Session, Abort(s)
      PROVE  WriteInv'
  BY <1>12 DEF Abort, disk, recv, lanes
<1>13. ASSUME NEW s \in Session, StartAssembly(s)
      PROVE  WriteInv'
  BY <1>13 DEF StartAssembly, disk, recv, lanes
<1>14. ASSUME NEW s \in Session, CreateFinal(s)
      PROVE  WriteInv'
  BY <1>14 DEF CreateFinal, disk, recv, lanes
<1>15. ASSUME NEW s \in Session, CopyPart(s)
      PROVE  WriteInv'
  BY <1>15 DEF CopyPart, disk, recv, lanes
<1>16. ASSUME NEW s \in Session, DropPart(s)
      PROVE  WriteInv'
  <2>1. \A r \in Session : pc'[r] # "waiting"
    BY <1>16 DEF DropPart
  <2> QED
    BY <2>1
<1>17. ASSUME NEW s \in Session, PartMissing(s)
      PROVE  WriteInv'
  BY <1>17 DEF PartMissing, Assembling, disk, recv, lanes
<1>18. ASSUME NEW s \in Session, FinishAssembly(s)
      PROVE  WriteInv'
  BY <1>18 DEF FinishAssembly, disk, recv, lanes
<1>19. ASSUME NEW s \in Session, AssemblyFails(s)
      PROVE  WriteInv'
  BY <1>19 DEF AssemblyFails, disk, recv, lanes
<1>20. ASSUME NEW s \in Session, Release(s)
      PROVE  WriteInv'
  BY <1>20 DEF Release, disk, recv, lanes, InFlight
<1>21. ASSUME NEW s \in Session, Disconnect(s)
      PROVE  WriteInv'
  BY <1>21 DEF Disconnect, disk, recv, lanes
<1>22. ASSUME NEW s \in Session, NEW c \in Index, BeginWrite(s, c)
      PROVE  WriteInv'
  <2>1. /\ lane[s][c] = "idle"
        /\ lane' = [lane EXCEPT ![s][c] = "writing"]
        /\ part' = [part EXCEPT ![c] = Torn]
        /\ pc' = pc /\ hashes' = hashes
    BY <1>22 DEF BeginWrite, recv
  <2>2. \A d \in Index : d # c => buf'[s][d] = buf[s][d]
    BY <1>22 DEF BeginWrite
  <2>3. \A r \in Session : pc'[r] = "waiting" => r = s
    BY <2>1
  <2>4. part'[c] # Absent
    BY <2>1, BytesFacts
  <2> QED
    BY <2>1, <2>2, <2>3, <2>4
<1>23. ASSUME NEW s \in Session, NEW c \in Index, EndWrite(s, c)
      PROVE  WriteInv'
  BY <1>23 DEF EndWrite, disk, recv, lanes
<1>24. ASSUME NEW s \in Session, NEW c \in Index, WriteFails(s, c)
      PROVE  WriteInv'
  BY <1>24 DEF WriteFails, disk, recv, lanes
<1>32. ASSUME NEW s \in Session, NEW c \in Index, OpenFails(s, c)
      PROVE  WriteInv'
  BY <1>32 DEF OpenFails, disk, recv, lanes
<1>25. ASSUME NEW s \in Session, NEW c \in Index, RecordChunk(s, c)
      PROVE  WriteInv'
  BY <1>25 DEF RecordChunk, disk, recv, lanes
<1>26. ASSUME NEW s \in Session, NEW c \in Index, FinishSave(s, c)
      PROVE  WriteInv'
  BY <1>26 DEF FinishSave, disk, recv, lanes
<1>27. ASSUME NEW s \in Session, NEW c \in Index, SaveFails(s, c)
      PROVE  WriteInv'
  BY <1>27 DEF SaveFails, disk, recv, lanes
<1>28. ASSUME Crash PROVE WriteInv'
  BY <1>28 DEF Crash, disk, Nothing
<1>29. ASSUME NEW c \in Index, BitRot(c) PROVE WriteInv'
  BY <1>29 DEF BitRot, recv, lanes, InFlight
<1>30. ASSUME MetaRot PROVE WriteInv'
  BY <1>30 DEF MetaRot, recv, lanes
<1>31. ASSUME UNCHANGED vars PROVE WriteInv'
  BY <1>31 DEF vars, disk, recv, lanes
<1> QED
  BY <1>1, <1>2, <1>3, <1>4, <1>5, <1>6, <1>7, <1>8, <1>9, <1>10, <1>11, <1>12, <1>13, <1>14, <1>15, <1>16, <1>17, <1>18, <1>19, <1>20, <1>21, <1>22, <1>23, <1>24, <1>25, <1>26, <1>27, <1>28, <1>29, <1>30, <1>31, <1>32
  DEF Next, ControlStep, DataStep

LEMMA OwedStep ==
  ASSUME TypeInv, OneOpen, LaneInv, WriteInv, OwedInv, AckedDurable,
         [Next]_vars
  PROVE  OwedInv' /\ AckedDurable'
<1> USE DEF TypeInv, TypeOK, Opened, OneOpen, LaneInv, WriteInv, OwedInv,
           AckedDurable, Loaded, Goto, Active, Chunk
<1>0. \A o \in owed : o[1] \in Offer /\ o[2] \in Index
  OBVIOUS
<1>1. ASSUME NEW s \in Session, NEW f \in Offer, Handshake(s, f)
      PROVE  OwedInv' /\ AckedDurable'
  BY <1>1 DEF Handshake, disk, lanes
<1>2. ASSUME NEW s \in Session, NoPrevious(s)
      PROVE  OwedInv' /\ AckedDurable'
  <2>1. owed = {} /\ owed' = owed
    BY <1>2, MetaAssumption DEF NoPrevious
  <2> QED
    BY <2>1
<1>3. ASSUME NEW s \in Session, PurgeStale(s)
      PROVE  OwedInv' /\ AckedDurable'
  BY <1>3 DEF PurgeStale, disk, recv, lanes, Resumable, ParamsMatch
<1>4. ASSUME NEW s \in Session, ResumeAll(s)
      PROVE  OwedInv' /\ AckedDurable'
  BY <1>4 DEF ResumeAll, disk, recv, lanes, Resumable, ParamsMatch
<1>5. ASSUME NEW s \in Session, PurgeCorrupt(s)
      PROVE  OwedInv' /\ AckedDurable'
  <2>1. owed = {}
    <3>1. \A c \in Index : ~(meta.hashes[c] # Absent /\ part[c] = meta.hashes[c])
      BY <1>5 DEF PurgeCorrupt, Valid, VerifyPart
    <3> HIDE DEF TypeInv, TypeOK, Opened, OneOpen, LaneInv, WriteInv, Chunk
    <3> QED
      BY <1>0, <3>1
  <2> QED
    BY <1>5, <2>1 DEF PurgeCorrupt
<1>6. ASSUME NEW s \in Session, ResumeValid(s)
      PROVE  OwedInv' /\ AckedDurable'
  BY <1>6 DEF ResumeValid, disk, recv, lanes, Resumable, ParamsMatch, Valid, Claimed, VerifyPart, PartsKept
<1>7. ASSUME NEW s \in Session, PurgePart(s)
      PROVE  OwedInv' /\ AckedDurable'
  BY <1>7 DEF PurgePart, disk, recv, lanes
<1>8. ASSUME NEW s \in Session, SaveClean(s)
      PROVE  OwedInv' /\ AckedDurable'
  BY <1>8 DEF SaveClean, disk, recv, lanes, Record
<1>9. ASSUME NEW s \in Session, AllChunksPresent(s)
      PROVE  OwedInv' /\ AckedDurable'
  BY <1>9 DEF AllChunksPresent, disk, recv, lanes
<1>10. ASSUME NEW s \in Session, SpawnDataServers(s)
      PROVE  OwedInv' /\ AckedDurable'
  BY <1>10 DEF SpawnDataServers, disk, recv, lanes
<1>11. ASSUME NEW s \in Session, Refuse(s)
      PROVE  OwedInv' /\ AckedDurable'
  BY <1>11 DEF Refuse, disk, recv, lanes
<1>12. ASSUME NEW s \in Session, Abort(s)
      PROVE  OwedInv' /\ AckedDurable'
  BY <1>12 DEF Abort, disk, recv, lanes
<1>13. ASSUME NEW s \in Session, StartAssembly(s)
      PROVE  OwedInv' /\ AckedDurable'
  BY <1>13 DEF StartAssembly, disk, recv, lanes
<1>14. ASSUME NEW s \in Session, CreateFinal(s)
      PROVE  OwedInv' /\ AckedDurable'
  BY <1>14 DEF CreateFinal, disk, recv, lanes
<1>15. ASSUME NEW s \in Session, CopyPart(s)
      PROVE  OwedInv' /\ AckedDurable'
  BY <1>15 DEF CopyPart, disk, recv, lanes
<1>16. ASSUME NEW s \in Session, DropPart(s)
      PROVE  OwedInv' /\ AckedDurable'
  BY <1>16 DEF DropPart, disk, recv, lanes
<1>17. ASSUME NEW s \in Session, PartMissing(s)
      PROVE  OwedInv' /\ AckedDurable'
  BY <1>17 DEF PartMissing, Assembling, disk, recv, lanes
<1>18. ASSUME NEW s \in Session, FinishAssembly(s)
      PROVE  OwedInv' /\ AckedDurable'
  BY <1>18 DEF FinishAssembly, disk, recv, lanes
<1>19. ASSUME NEW s \in Session, AssemblyFails(s)
      PROVE  OwedInv' /\ AckedDurable'
  BY <1>19 DEF AssemblyFails, disk, recv, lanes
<1>20. ASSUME NEW s \in Session, Release(s)
      PROVE  OwedInv' /\ AckedDurable'
  BY <1>20 DEF Release, disk, recv, lanes
<1>21. ASSUME NEW s \in Session, Disconnect(s)
      PROVE  OwedInv' /\ AckedDurable'
  <2>1. UNCHANGED <<owed, part, meta, hashes, offer, pc, lane>>
    BY <1>21 DEF Disconnect, disk, recv, lanes
  <2>2. \A r \in Session : Loaded(r)' => Loaded(r)
    BY <2>1
  <2> HIDE DEF TypeInv, TypeOK, Opened, OneOpen, LaneInv, WriteInv, Chunk
  <2> QED
    BY <2>1, <2>2
<1>22. ASSUME NEW s \in Session, NEW c \in Index, BeginWrite(s, c)
      PROVE  OwedInv' /\ AckedDurable'
  <2>1. Loaded(s) /\ hashes[s][c] = Absent
    BY <1>22 DEF BeginWrite, Received
  <2>2. /\ part' = [part EXCEPT ![c] = Torn]
        /\ lane' = [lane EXCEPT ![s][c] = "writing"]
        /\ UNCHANGED <<owed, meta, hashes, offer, pc>>
    BY <1>22 DEF BeginWrite, recv
  <2>3. \A o \in owed : o[2] # c /\ o[2] \in Index
    <3> HIDE DEF TypeInv, TypeOK, Opened, OneOpen, LaneInv, WriteInv, Loaded,
                 Chunk
    <3> QED
      BY <1>0, <2>1
  <2>4. AckedDurable'
    BY <2>2, <2>3
  <2>5. \A r \in Session : Loaded(r)' => Loaded(r)
    BY <2>1, <2>2
  <2> HIDE DEF TypeInv, TypeOK, Opened, OneOpen, LaneInv, WriteInv, Chunk
  <2> QED
    BY <2>2, <2>4, <2>5
<1>23. ASSUME NEW s \in Session, NEW c \in Index, EndWrite(s, c)
      PROVE  OwedInv' /\ AckedDurable'
  <2>1. Loaded(s) /\ hashes[s][c] = Absent
    BY <1>23 DEF EndWrite
  <2>2. /\ \A d \in Index : d # c => part'[d] = part[d]
        /\ lane' = [lane EXCEPT ![s][c] = "written"]
        /\ UNCHANGED <<owed, meta, hashes, offer, pc>>
    BY <1>23 DEF EndWrite, recv
  <2>3. \A o \in owed : o[2] # c /\ o[2] \in Index
    <3> HIDE DEF TypeInv, TypeOK, Opened, OneOpen, LaneInv, WriteInv, Loaded,
                 Chunk
    <3> QED
      BY <1>0, <2>1
  <2>4. AckedDurable'
    BY <2>2, <2>3
  <2>5. \A r \in Session : Loaded(r)' => Loaded(r)
    BY <2>1, <2>2
  <2> HIDE DEF TypeInv, TypeOK, Opened, OneOpen, LaneInv, WriteInv, Chunk
  <2> QED
    BY <2>2, <2>4, <2>5
<1>24. ASSUME NEW s \in Session, NEW c \in Index, WriteFails(s, c)
      PROVE  OwedInv' /\ AckedDurable'
  <2>1. /\ Loaded(s)
        /\ lane' = [lane EXCEPT ![s][c] = "dead"]
        /\ UNCHANGED <<owed, part, meta, hashes, offer, pc>>
    BY <1>24 DEF WriteFails, disk
  <2>2. \A r \in Session : Loaded(r)' => Loaded(r)
    BY <2>1
  <2> HIDE DEF TypeInv, TypeOK, Opened, OneOpen, LaneInv, WriteInv, Chunk
  <2> QED
    BY <2>1, <2>2
<1>32. ASSUME NEW s \in Session, NEW c \in Index, OpenFails(s, c)
      PROVE  OwedInv' /\ AckedDurable'
  <2>1. /\ Loaded(s)
        /\ lane' = [lane EXCEPT ![s][c] = "dead"]
        /\ UNCHANGED <<owed, part, meta, hashes, offer, pc>>
    BY <1>32 DEF OpenFails, disk
  <2>2. \A r \in Session : Loaded(r)' => Loaded(r)
    BY <2>1
  <2> HIDE DEF TypeInv, TypeOK, Opened, OneOpen, LaneInv, WriteInv, Chunk
  <2> QED
    BY <2>1, <2>2
<1>25. ASSUME NEW s \in Session, NEW c \in Index, RecordChunk(s, c)
      PROVE  OwedInv' /\ AckedDurable'
  <2>1. Loaded(s) /\ hashes[s][c] = Absent
    BY <1>25 DEF RecordChunk
  <2>2. /\ lane' = [lane EXCEPT ![s][c] = "saving"]
        /\ hashes' = [hashes EXCEPT ![s][c] = buf[s][c]]
        /\ UNCHANGED <<owed, part, meta, offer, pc>>
    BY <1>25 DEF RecordChunk
  <2>3. \A o \in owed : o[2] # c /\ o[2] \in Index
    <3> HIDE DEF TypeInv, TypeOK, Opened, OneOpen, LaneInv, WriteInv, Loaded,
                 Chunk
    <3> QED
      BY <1>0, <2>1
  <2>4. AckedDurable'
    BY <2>2
  <2>5. \A r \in Session : Loaded(r)' => Loaded(r)
    BY <2>1, <2>2
  <2>6. \A r \in Session, o \in owed : hashes'[r][o[2]] = hashes[r][o[2]]
    BY <2>2, <2>3
  <2> HIDE DEF TypeInv, TypeOK, Opened, OneOpen, LaneInv, WriteInv, Chunk
  <2> QED
    BY <2>2, <2>4, <2>5, <2>6
<1>26. ASSUME NEW s \in Session, NEW c \in Index, FinishSave(s, c)
      PROVE  OwedInv' /\ AckedDurable'
  BY <1>26 DEF FinishSave, disk, recv, lanes, Record
<1>27. ASSUME NEW s \in Session, NEW c \in Index, SaveFails(s, c)
      PROVE  OwedInv' /\ AckedDurable'
  BY <1>27 DEF SaveFails, disk, recv, lanes
<1>28. ASSUME Crash PROVE OwedInv' /\ AckedDurable'
  BY <1>28 DEF Crash, disk, Nothing
<1>29. ASSUME NEW c \in Index, BitRot(c) PROVE OwedInv' /\ AckedDurable'
  <2>1. /\ owed' = {o \in owed : o[2] # c}
        /\ part' = [part EXCEPT ![c] = Rot]
        /\ UNCHANGED <<meta, hashes, offer, pc, lane>>
    BY <1>29 DEF BitRot, recv, lanes
  <2>2. \A o \in owed' : o \in owed /\ o[2] \in Index
                       /\ part'[o[2]] = part[o[2]]
    BY <1>0, <2>1
  <2>3. AckedDurable'
    BY <2>1, <2>2
  <2>4. \A r \in Session : Loaded(r)' => Loaded(r)
    BY <2>1
  <2> HIDE DEF TypeInv, TypeOK, Opened, OneOpen, LaneInv, WriteInv, Chunk
  <2> QED
    BY <2>1, <2>2, <2>3, <2>4
<1>30. ASSUME MetaRot PROVE OwedInv' /\ AckedDurable'
  BY <1>30 DEF MetaRot, recv, lanes
<1>31. ASSUME UNCHANGED vars PROVE OwedInv' /\ AckedDurable'
  <2>1. UNCHANGED <<owed, part, meta, hashes, offer, pc, lane>>
    BY <1>31 DEF vars, disk, recv, lanes
  <2> HIDE DEF TypeInv, TypeOK, Opened, OneOpen, LaneInv, WriteInv, Chunk
  <2> QED
    BY <2>1
<1> QED
  BY <1>1, <1>2, <1>3, <1>4, <1>5, <1>6, <1>7, <1>8, <1>9, <1>10, <1>11, <1>12, <1>13, <1>14, <1>15, <1>16, <1>17, <1>18, <1>19, <1>20, <1>21, <1>22, <1>23, <1>24, <1>25, <1>26, <1>27, <1>28, <1>29, <1>30, <1>31, <1>32
  DEF Next, ControlStep, DataStep

LEMMA SerialInit == Init => SerialInv
BY DEF Init, SerialInv, OneOpen, LaneInv, WriteInv, OwedInv, AckedDurable,
   Loaded, Nothing

LEMMA SerialHolds ==
  ASSUME ~Overlap
  PROVE  Spec => [](TypeInv /\ SerialInv)
<1>1. TypeInv /\ SerialInv /\ [Next]_vars => SerialInv'
  BY OneOpenStep, LaneStep, WriteStep, OwedStep DEF SerialInv
<1> QED
  BY TypeInit, TypeStep, SerialInit, <1>1, PTL DEF Spec

(* An acknowledged chunk survives whatever stops the server (data.rs       *)
(* acknowledges after record_chunk has renamed the metadata into place).   *)
THEOREM AcknowledgedIsDurable ==
  ASSUME ~Overlap
  PROVE  Spec => []AckedDurable
<1>1. TypeInv /\ SerialInv => AckedDurable
  BY DEF SerialInv
<1> QED
  BY SerialHolds, <1>1, PTL

(* The next session counts it as received (load_or_purge_metadata).        *)
THEOREM AcknowledgedIsResumed ==
  ASSUME ~Overlap
  PROVE  Spec => []AcksSurvive
<1>1. TypeInv /\ SerialInv => AcksSurvive
  <2> SUFFICES ASSUME TypeInv, SerialInv, NEW s \in Session,
                      pc[s] \in {"clean", "ready", "waiting", "create"},
                      NEW o \in owed
               PROVE  o[1] = offer[s] /\ o[2] \in Received(s)
    BY DEF AcksSurvive
  <2>1. o[2] \in Index
    BY DEF TypeInv, TypeOK, Chunk
  <2>2. Loaded(s)
    BY DEF Loaded
  <2>3. o[1] = offer[s] /\ hashes[s][o[2]] = meta.hashes[o[2]]
    BY <2>2 DEF SerialInv, OwedInv
  <2>4. meta.hashes[o[2]] # Absent
    BY DEF SerialInv, AckedDurable
  <2> QED
    BY <2>1, <2>3, <2>4 DEF Received
<1> QED
  BY SerialHolds, <1>1, PTL

-----------------------------------------------------------------------------
(* The final status.  While the hasher of assemble agrees, the file holds  *)
(* the chunks copied so far and nothing else; nobody else writes to it.    *)

Copied(s) == IF pc[s] = "drop" THEN next[s] + 1 ELSE next[s]

CopyInv ==
  \A s \in Session :
    /\ pc[s] \in {"free", "load", "clean", "ready", "waiting", "create"} =>
         next[s] = 0
    /\ pc[s] \in {"copy", "drop"} /\ exact[s] =>
         \A c \in Index :
           final[c] = IF c < Copied(s) THEN <<offer[s], c>> ELSE Absent

LEMMA CopyStep ==
  ASSUME TypeInv, OneOpen, CopyInv, [Next]_vars
  PROVE  CopyInv'
<1> USE DEF TypeInv, TypeOK, Opened, OneOpen, CopyInv, Copied, Goto
<1>1. ASSUME NEW s \in Session, NEW f \in Offer, Handshake(s, f)
      PROVE  CopyInv'
  BY <1>1 DEF Handshake, disk, lanes
<1>2. ASSUME NEW s \in Session, NoPrevious(s)
      PROVE  CopyInv'
  BY <1>2 DEF NoPrevious, disk, recv, lanes
<1>3. ASSUME NEW s \in Session, PurgeStale(s)
      PROVE  CopyInv'
  BY <1>3 DEF PurgeStale, disk, recv, lanes
<1>4. ASSUME NEW s \in Session, ResumeAll(s)
      PROVE  CopyInv'
  BY <1>4 DEF ResumeAll, disk, recv, lanes
<1>5. ASSUME NEW s \in Session, PurgeCorrupt(s)
      PROVE  CopyInv'
  BY <1>5 DEF PurgeCorrupt, disk, recv, lanes
<1>6. ASSUME NEW s \in Session, ResumeValid(s)
      PROVE  CopyInv'
  BY <1>6 DEF ResumeValid, disk, recv, lanes
<1>7. ASSUME NEW s \in Session, PurgePart(s)
      PROVE  CopyInv'
  BY <1>7 DEF PurgePart, disk, recv, lanes
<1>8. ASSUME NEW s \in Session, SaveClean(s)
      PROVE  CopyInv'
  BY <1>8 DEF SaveClean, disk, recv, lanes
<1>9. ASSUME NEW s \in Session, AllChunksPresent(s)
      PROVE  CopyInv'
  BY <1>9 DEF AllChunksPresent, disk, recv, lanes
<1>10. ASSUME NEW s \in Session, SpawnDataServers(s)
      PROVE  CopyInv'
  BY <1>10 DEF SpawnDataServers, disk, recv, lanes
<1>11. ASSUME NEW s \in Session, Refuse(s)
      PROVE  CopyInv'
  BY <1>11 DEF Refuse, disk, recv, lanes
<1>12. ASSUME NEW s \in Session, Abort(s)
      PROVE  CopyInv'
  BY <1>12 DEF Abort, disk, recv, lanes
<1>13. ASSUME NEW s \in Session, StartAssembly(s)
      PROVE  CopyInv'
  BY <1>13 DEF StartAssembly, disk, recv, lanes
<1>14. ASSUME NEW s \in Session, CreateFinal(s)
      PROVE  CopyInv'
  <2>1. \A r \in Session : pc'[r] \in {"copy", "drop"} =>
          r = s /\ pc'[r] = "copy" /\ next'[r] = 0
    BY <1>14 DEF CreateFinal
  <2>2. \A c \in Index : final'[c] = Absent /\ ~(c < 0)
    BY <1>14 DEF CreateFinal, Nothing, Index
  <2>3. \A r \in Session :
          pc'[r] \in {"free", "load", "clean", "ready", "waiting", "create"} =>
            next'[r] = 0
    BY <1>14 DEF CreateFinal
  <2> QED
    BY <2>1, <2>2, <2>3
<1>15. ASSUME NEW s \in Session, CopyPart(s)
      PROVE  CopyInv'
  <2>1. /\ pc[s] = "copy" /\ pc' = [pc EXCEPT ![s] = "drop"]
        /\ final' = [final EXCEPT ![next[s]] = part[next[s]]]
        /\ exact'[s] => exact[s] /\ part[next[s]] = <<offer[s], next[s]>>
        /\ next' = next /\ offer' = offer
    BY <1>15 DEF CopyPart, recv
  <2>2. \A r \in Session : pc'[r] \in {"copy", "drop"} => r = s
    BY <2>1
  <2>3. ASSUME exact'[s], NEW c \in Index
        PROVE  final'[c] = IF c < next[s] + 1 THEN <<offer[s], c>> ELSE Absent
    <3>1. final[c] = IF c < next[s] THEN <<offer[s], c>> ELSE Absent
      BY <2>1, <2>3
    <3>2. c \in Int /\ next[s] \in Int
      BY ConstantFacts DEF Index
    <3>3. final'[c] = IF c = next[s] THEN part[c] ELSE final[c]
      BY <2>1
    <3>4. c < next[s] + 1 <=> c < next[s] \/ c = next[s]
      <4> HIDE DEF TypeInv, Opened, CopyInv, OneOpen
      <4> QED
        BY <3>2
    <3>5. c = next[s] => part[c] = <<offer[s], c>>
      BY <2>1, <2>3
    <3>6. ~(next[s] < next[s])
      BY <3>2
    <3> HIDE DEF TypeInv, Opened, CopyInv, OneOpen
    <3> QED
      BY <3>1, <3>3, <3>4, <3>5, <3>6
  <2>4. \A r \in Session :
          pc'[r] \in {"free", "load", "clean", "ready", "waiting", "create"} =>
            next'[r] = 0
    BY <2>1
  <2> QED
    BY <2>1, <2>2, <2>3, <2>4
<1>16. ASSUME NEW s \in Session, DropPart(s)
      PROVE  CopyInv'
  BY <1>16 DEF DropPart, disk, recv, lanes
<1>17. ASSUME NEW s \in Session, PartMissing(s)
      PROVE  CopyInv'
  BY <1>17 DEF PartMissing, disk, recv, lanes, Assembling
<1>18. ASSUME NEW s \in Session, FinishAssembly(s)
      PROVE  CopyInv'
  BY <1>18 DEF FinishAssembly, disk, recv, lanes
<1>19. ASSUME NEW s \in Session, AssemblyFails(s)
      PROVE  CopyInv'
  BY <1>19 DEF AssemblyFails, disk, recv, lanes
<1>20. ASSUME NEW s \in Session, Release(s)
      PROVE  CopyInv'
  BY <1>20 DEF Release, disk, recv, lanes
<1>21. ASSUME NEW s \in Session, Disconnect(s)
      PROVE  CopyInv'
  BY <1>21 DEF Disconnect, disk, recv, lanes
<1>22. ASSUME NEW s \in Session, NEW c \in Index, BeginWrite(s, c)
      PROVE  CopyInv'
  BY <1>22 DEF BeginWrite, disk, recv, lanes
<1>23. ASSUME NEW s \in Session, NEW c \in Index, EndWrite(s, c)
      PROVE  CopyInv'
  BY <1>23 DEF EndWrite, disk, recv, lanes
<1>24. ASSUME NEW s \in Session, NEW c \in Index, WriteFails(s, c)
      PROVE  CopyInv'
  BY <1>24 DEF WriteFails, disk, recv, lanes
<1>32. ASSUME NEW s \in Session, NEW c \in Index, OpenFails(s, c)
      PROVE  CopyInv'
  BY <1>32 DEF OpenFails, disk, recv, lanes
<1>25. ASSUME NEW s \in Session, NEW c \in Index, RecordChunk(s, c)
      PROVE  CopyInv'
  BY <1>25 DEF RecordChunk, disk, recv, lanes
<1>26. ASSUME NEW s \in Session, NEW c \in Index, FinishSave(s, c)
      PROVE  CopyInv'
  BY <1>26 DEF FinishSave, disk, recv, lanes
<1>27. ASSUME NEW s \in Session, NEW c \in Index, SaveFails(s, c)
      PROVE  CopyInv'
  BY <1>27 DEF SaveFails, disk, recv, lanes
<1>28. ASSUME Crash PROVE CopyInv'
  BY <1>28 DEF Crash, disk, Nothing
<1>29. ASSUME NEW c \in Index, BitRot(c) PROVE CopyInv'
  BY <1>29 DEF BitRot, recv, lanes, InFlight
<1>30. ASSUME MetaRot PROVE CopyInv'
  BY <1>30 DEF MetaRot, recv, lanes
<1>31. ASSUME UNCHANGED vars PROVE CopyInv'
  BY <1>31 DEF vars, disk, recv, lanes
<1> QED
  BY <1>1, <1>2, <1>3, <1>4, <1>5, <1>6, <1>7, <1>8, <1>9, <1>10, <1>11, <1>12, <1>13, <1>14, <1>15, <1>16, <1>17, <1>18, <1>19, <1>20, <1>21, <1>22, <1>23, <1>24, <1>25, <1>26, <1>27, <1>28, <1>29, <1>30, <1>31, <1>32
  DEF Next, ControlStep, DataStep

LEMMA CopyInit == Init => CopyInv
BY DEF Init, CopyInv

LEMMA CopyHolds ==
  ASSUME ~Overlap
  PROVE  Spec => [](TypeInv /\ OneOpen /\ CopyInv)
<1>1. Init => OneOpen
  BY DEF Init, OneOpen
<1> QED
  BY TypeInit, TypeStep, OneOpenStep, CopyInit, CopyStep, <1>1, PTL DEF Spec

(* When the last part is copied and the hasher agrees, the file is whole.  *)
LEMMA CopiedIsWhole ==
  ASSUME TypeInv, CopyInv, NEW s \in Session,
         pc[s] = "copy", exact[s], next[s] = NumChunks[offer[s]]
  PROVE  offer[s] \in Offer /\ final = Image(offer[s])
<1>1. offer[s] \in Offer /\ NumChunks[offer[s]] \in Nat
  BY ConstantFacts DEF TypeInv, Opened
<1>2. final = [c \in Index |-> final[c]]
  BY DEF TypeInv, TypeOK
<1>3. ASSUME NEW c \in Index
      PROVE  final[c] = IF c \in Chunks(offer[s]) THEN <<offer[s], c>>
                                                  ELSE Absent
  <2>1. c < NumChunks[offer[s]] <=> c \in Chunks(offer[s])
    BY <1>1, ConstantFacts DEF Chunks, Index
  <2>2. final[c] = IF c < next[s] THEN <<offer[s], c>> ELSE Absent
    BY DEF CopyInv, Copied
  <2> QED
    BY <2>1, <2>2
<1> QED
  BY <1>1, <1>2, <1>3 DEF Image

(* RESP_OK is decided only at an instant at which the file is whole:       *)
(* although assemble never reads the file back, the hash of what it copied *)
(* vouches for it as long as no other session opens the same file.         *)
THEOREM OkMeansDelivered ==
  ASSUME ~Overlap
  PROVE  Spec => ConfirmedDelivered
<1> DEFINE Step == \A s \in Session : pc[s] # "ok" /\ pc'[s] = "ok" =>
                     Delivered(offer[s])'
<1>1. ASSUME TypeInv, CopyInv, Next PROVE Step
  <2> SUFFICES ASSUME NEW s \in Session, pc[s] # "ok", pc'[s] = "ok"
               PROVE  Delivered(offer[s])'
    OBVIOUS
  <2>1. FinishAssembly(s)
    BY <1>1 DEF TypeInv, TypeOK, PC, Active, Terminal, Goto, Next,
       ControlStep, DataStep, Handshake, NoPrevious, PurgeStale, ResumeAll,
       PurgeCorrupt, ResumeValid, PurgePart, SaveClean, AllChunksPresent,
       SpawnDataServers, Refuse, Abort, StartAssembly, CreateFinal, CopyPart,
       DropPart, PartMissing, FinishAssembly, AssemblyFails, Release,
       Disconnect, BeginWrite, OpenFails, EndWrite, WriteFails, RecordChunk,
       FinishSave, SaveFails, Crash, BitRot, MetaRot, disk, recv, lanes
  <2>2. /\ pc[s] = "copy" /\ exact[s] /\ next[s] = NumChunks[offer[s]]
        /\ final' = final /\ offer' = offer
    BY <1>1, <2>1 DEF FinishAssembly, Goto, TypeInv, TypeOK, recv
  <2>3. offer[s] \in Offer /\ final = Image(offer[s])
    BY <1>1, <2>2, CopiedIsWhole
  <2> QED
    BY <2>2, <2>3 DEF Delivered
<1>2. ASSUME UNCHANGED vars PROVE Step
  BY <1>2 DEF vars
<1>3. TypeInv /\ OneOpen /\ CopyInv /\ [Next]_vars => [Step]_vars
  BY <1>1, <1>2
<1> QED
  BY CopyHolds, <1>3, PTL DEF Spec, ConfirmedDelivered
=============================================================================
