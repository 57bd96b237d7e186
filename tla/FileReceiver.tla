---------------------------- MODULE FileReceiver ----------------------------
(***************************************************************************)
(* The server side of one file name: the part files, the .bee-meta record  *)
(* and the final file on disk, and the sessions that work on them.         *)
(*                                                                         *)
(* A session is one control connection (handler/control.rs), its           *)
(* FileReceiver (file_receiver.rs) and the data connections that feed it   *)
(* (handler/data.rs).  Transfer parameters (chunk size, chunk count, file  *)
(* size, full hash) are one value, an "offer"; the bytes of chunk c of     *)
(* offer f are the pair <<f, c>>, and a BLAKE3 hash is identified with the *)
(* bytes it was computed from.                                             *)
(***************************************************************************)
EXTENDS Integers, FiniteSets

CONSTANTS Session,      \* control connections for this file name
          Offer,        \* transfer parameters a client may announce
          MaxChunks,    \* no offer has more chunks
          NumChunks,    \* offer -> number of chunks
          Digest,       \* offer -> BLAKE3 digest of the whole file
          Overlap,      \* may two sessions of this name be open at once?
          MaxFaults,    \* bound on failures, disconnects, damage, crashes
          NoOffer,      \* a free session's parameters
          Absent,       \* no such part / no bytes at this place of the file
          Torn,         \* a part that fs::write has truncated, not filled
          Rot,          \* a part damaged on disk
          Changed,      \* bytes the source file did not hold when hashed
          NoMeta,       \* no .bee-meta file
          BadMeta       \* a .bee-meta file that from_bytes rejects

Index == 0 .. MaxChunks - 1
Chunk == Offer \X Index
Bytes == Chunk \cup {Torn, Rot, Changed}
Part  == Bytes \cup {Absent}

ASSUME OfferAssumption ==
  /\ MaxChunks \in Nat \ {0}
  /\ NumChunks \in [Offer -> 1 .. MaxChunks]
  /\ MaxFaults \in Nat
  /\ Overlap \in BOOLEAN
  /\ NoOffer \notin Offer

ASSUME BytesAssumption ==
  /\ \A x \in {Absent, Torn, Rot, Changed} : x \notin Chunk
  /\ Absent \notin {Torn, Rot, Changed}
  /\ Torn \notin {Rot, Changed}
  /\ Rot # Changed

(* A file that is not whole is told apart from the contents on offer.      *)
ASSUME DigestAssumption == \A f \in Offer : Digest[f] # Torn

(* A .bee-meta file: the parameters and, for each recorded chunk, the hash *)
(* of its bytes (Absent: no entry).                                        *)
Record == [offer : Offer, hashes : [Index -> Part]]

ASSUME MetaAssumption == /\ NoMeta \notin Record
                         /\ BadMeta \notin Record
                         /\ NoMeta # BadMeta

VARIABLES
  part,      \* part[c]: the file <name>.part<c>
  meta,      \* the file <name>.bee-meta
  tmp,       \* the file <name>.bee-meta.tmp, one for all sessions
  final,     \* the file <name> in the output directory
  pc,        \* where each control handler is
  offer,     \* FileReceiver's parameters
  hashes,    \* FileReceiver.received_chunks and metadata.chunk_hashes
  failed,    \* FileReceiver.failed
  gone,      \* the client has closed its control connection
  next,      \* loop index of purge and of assemble
  exact,     \* does the hasher of assemble agree with full_hash so far?
  lane,      \* the data connection that carries each chunk
  buf,       \* the bytes that connection is writing
  owed,      \* ghost: chunks acknowledged and not consumed or damaged since
  faults     \* ghost: faults so far

disk  == <<part, meta, tmp, final>>
recv  == <<offer, hashes, failed>>
lanes == <<lane, buf>>
vars  == <<disk, pc, recv, gone, next, exact, lanes, owed, faults>>

Terminal == {"exists", "ok", "err"}
Active   == {"waiting", "create", "copy", "drop"}
PC == {"free", "load", "purge", "clean", "ready"} \cup Active \cup Terminal
Lane == {"closed", "idle", "writing", "written", "saving", "dead"}
InFlight == {"writing", "written", "saving"}

Chunks(f)   == 0 .. NumChunks[f] - 1
Nothing     == [c \in Index |-> Absent]
Image(f)    == [c \in Index |-> IF c \in Chunks(f) THEN <<f, c>> ELSE Absent]

(* check_existing_file: the final file hashes to what the client announced *)
Delivered(f) == \E g \in Offer : Digest[g] = Digest[f] /\ final = Image(g)

Received(s) == {c \in Index : hashes[s][c] # Absent}
Complete(s) == Chunks(offer[s]) \subseteq Received(s)

(* The mutex of the FileReceiver: assemble keeps it from start to end, and *)
(* record_chunk while it saves the metadata.                               *)
Assembling(s) == pc[s] \in {"copy", "drop"}
LockFree(s) == ~Assembling(s) /\ \A c \in Index : lane[s][c] # "saving"

(* Mutant: the parameters are not compared.                                *)
ParamsMatch_Any(m, f) == m.offer \in Offer
ParamsMatch(m, f) == m.offer = f
(* Mutant: the entry is believed without reading the part.                 *)
VerifyPart_Trusting(m, c) == m.hashes[c] # Absent
VerifyPart(m, c)  == m.hashes[c] # Absent /\ part[c] = m.hashes[c]
Claimed(m)        == {c \in Index : m.hashes[c] # Absent}
Valid(m)          == {c \in Index : VerifyPart(m, c)}

(* from_bytes accepts the file and it is about the same transfer.          *)
Resumable(s) == meta \in Record /\ ParamsMatch(meta, offer[s])

Fault   == faults < MaxFaults /\ faults' = faults + 1
NoFault == UNCHANGED faults

TypeOK ==
  /\ part \in [Index -> Part]
  /\ meta \in Record \cup {NoMeta, BadMeta}
  /\ tmp \in Record \cup {NoMeta}
  /\ final \in [Index -> Part]
  /\ pc \in [Session -> PC]
  /\ offer \in [Session -> Offer \cup {NoOffer}]
  /\ hashes \in [Session -> [Index -> Part]]
  /\ failed \in [Session -> BOOLEAN]
  /\ gone \in [Session -> BOOLEAN]
  /\ next \in [Session -> 0 .. MaxChunks]
  /\ exact \in [Session -> BOOLEAN]
  /\ lane \in [Session -> [Index -> Lane]]
  /\ buf \in [Session -> [Index -> Part]]
  /\ owed \subseteq Chunk
  /\ faults \in 0 .. MaxFaults

(* A server that starts on empty directories.                              *)
Init ==
  /\ part = Nothing
  /\ meta = NoMeta
  /\ tmp = NoMeta
  /\ final = Nothing
  /\ pc = [s \in Session |-> "free"]
  /\ offer = [s \in Session |-> NoOffer]
  /\ hashes = [s \in Session |-> Nothing]
  /\ failed = [s \in Session |-> FALSE]
  /\ gone = [s \in Session |-> FALSE]
  /\ next = [s \in Session |-> 0]
  /\ exact = [s \in Session |-> FALSE]
  /\ lane = [s \in Session |-> [c \in Index |-> "closed"]]
  /\ buf = [s \in Session |-> Nothing]
  /\ owed = {}
  /\ faults = 0

Goto(s, l) == pc' = [pc EXCEPT ![s] = l]

-----------------------------------------------------------------------------
(* The control connection, up to the handshake response.                   *)

(* Mutant: check_existing_file is not called.                              *)
Handshake_Unchecked(s, f) ==
  /\ pc[s] = "free"
  /\ Overlap \/ \A t \in Session : pc[t] = "free"
  /\ Goto(s, "load")
  /\ offer' = [offer EXCEPT ![s] = f]
  /\ UNCHANGED <<disk, hashes, failed, gone, next, exact, lanes, owed, faults>>

(* A valid handshake: RESP_EXISTS when the final file is already right,    *)
(* otherwise a fresh FileReceiver.                                         *)
Handshake(s, f) ==
  /\ pc[s] = "free"
  /\ Overlap \/ \A t \in Session : pc[t] = "free"
  /\ Goto(s, IF Delivered(f) THEN "exists" ELSE "load")
  /\ offer' = [offer EXCEPT ![s] = f]
  /\ UNCHANGED <<disk, hashes, failed, gone, next, exact, lanes, owed, faults>>

(* load_or_purge_metadata, one action per way out of it.                   *)
NoPrevious(s) ==
  /\ pc[s] = "load"
  /\ meta = NoMeta
  /\ Goto(s, "ready")
  /\ UNCHANGED <<disk, recv, gone, next, exact, lanes, owed, faults>>

(* purge removes the metadata first; PurgePart removes the parts.          *)
PurgeStale(s) ==
  /\ pc[s] = "load"
  /\ meta # NoMeta
  /\ ~Resumable(s)
  /\ meta' = NoMeta
  /\ owed' = {o \in owed : o[1] = offer[s]}
  /\ Goto(s, "purge")
  /\ UNCHANGED <<part, tmp, final, recv, gone, next, exact, lanes, faults>>

(* Mutant: the loaded metadata is not installed in the receiver.           *)
ResumeAll_Forgets(s) ==
  /\ pc[s] = "load"
  /\ Resumable(s)
  /\ Claimed(meta) = Valid(meta)
  /\ Goto(s, "ready")
  /\ UNCHANGED <<disk, recv, gone, next, exact, lanes, owed, faults>>

ResumeAll(s) ==
  /\ pc[s] = "load"
  /\ Resumable(s)
  /\ Claimed(meta) = Valid(meta)
  /\ hashes' = [hashes EXCEPT ![s] = meta.hashes]
  /\ Goto(s, "ready")
  /\ UNCHANGED <<disk, offer, failed, gone, next, exact, lanes, owed, faults>>

(* A part that is missing or does not match its hash is removed.           *)
PartsKept(m) == [c \in Index |->
                   IF c \in Claimed(m) \ Valid(m) THEN Absent ELSE part[c]]

PurgeCorrupt(s) ==
  /\ pc[s] = "load"
  /\ Resumable(s)
  /\ Claimed(meta) # {} /\ Valid(meta) = {}
  /\ part' = PartsKept(meta)
  /\ meta' = NoMeta
  /\ Goto(s, "purge")
  /\ UNCHANGED <<tmp, final, recv, gone, next, exact, lanes, owed, faults>>

ResumeValid(s) ==
  /\ pc[s] = "load"
  /\ Resumable(s)
  /\ Valid(meta) # {} /\ Claimed(meta) # Valid(meta)
  /\ part' = PartsKept(meta)
  /\ hashes' = [hashes EXCEPT
       ![s] = [c \in Index |->
                 IF c \in Valid(meta) THEN meta.hashes[c] ELSE Absent]]
  /\ Goto(s, "clean")
  /\ UNCHANGED <<meta, tmp, final, offer, failed, gone, next, exact, lanes,
                 owed, faults>>

(* purge, for the chunk count of the NEW parameters.                       *)
PurgePart(s) ==
  /\ pc[s] = "purge"
  /\ part' = [part EXCEPT ![next[s]] = Absent]
  /\ IF next[s] + 1 < NumChunks[offer[s]]
       THEN /\ next' = [next EXCEPT ![s] = @ + 1]
            /\ UNCHANGED pc
       ELSE /\ next' = [next EXCEPT ![s] = 0]
            /\ Goto(s, "ready")
  /\ UNCHANGED <<meta, tmp, final, recv, gone, exact, lanes, owed, faults>>

(* TransferMetadata::save of the cleaned record; an error is only logged.  *)
SaveClean(s) ==
  /\ pc[s] = "clean"
  /\ \/ /\ meta' = [offer |-> offer[s], hashes |-> hashes[s]]
        /\ tmp' = NoMeta
        /\ NoFault
     \/ Fault /\ UNCHANGED <<meta, tmp>>
  /\ Goto(s, "ready")
  /\ UNCHANGED <<part, final, recv, gone, next, exact, lanes, owed>>

(* RESP_COMPLETE: every chunk is already there.                            *)
AllChunksPresent(s) ==
  /\ pc[s] = "ready"
  /\ Complete(s)
  /\ Goto(s, "create")
  /\ UNCHANGED <<disk, recv, gone, next, exact, lanes, owed, faults>>

(* RESP_OK with the data ports; one data connection carries each chunk.    *)
SpawnDataServers(s) ==
  /\ pc[s] = "ready"
  /\ ~Complete(s)
  /\ Goto(s, "waiting")
  /\ lane' = [lane EXCEPT ![s] = [c \in Index |->
                IF c \in Chunks(offer[s]) THEN "idle" ELSE "closed"]]
  /\ UNCHANGED <<disk, recv, gone, next, exact, buf, owed, faults>>

(* No directory, no data port, or no way to send the response.             *)
Refuse(s) ==
  /\ pc[s] \in {"load", "ready"}
  /\ Fault
  /\ Goto(s, "err")
  /\ UNCHANGED <<disk, recv, gone, next, exact, lanes, owed>>

-----------------------------------------------------------------------------
(* The data connections: process_chunk and verify_and_write_chunk.         *)

(* A chunk whose hash is right arrives and fs::write truncates its part.   *)
(* The client sends only what handle_query does not list; the bytes are    *)
(* not those of the offer when the source file has changed meanwhile.      *)
(* Frames already on the wire are read after the handler is done, too.     *)
BeginWrite(s, c) ==
  /\ lane[s][c] = "idle"
  /\ c \notin Received(s)
  /\ part' = [part EXCEPT ![c] = Torn]
  /\ \/ buf' = [buf EXCEPT ![s][c] = <<offer[s], c>>] /\ NoFault
     \/ buf' = [buf EXCEPT ![s][c] = Changed] /\ Fault
  /\ lane' = [lane EXCEPT ![s][c] = "writing"]
  /\ UNCHANGED <<meta, tmp, final, pc, recv, gone, next, exact, owed>>

(* The bytes reach the file that fs::write opened, unless it is unlinked.  *)
EndWrite(s, c) ==
  /\ lane[s][c] = "writing"
  /\ part' = [part EXCEPT ![c] = IF @ = Absent THEN Absent ELSE buf[s][c]]
  /\ lane' = [lane EXCEPT ![s][c] = "written"]
  /\ UNCHANGED <<meta, tmp, final, pc, recv, gone, next, exact, buf, owed,
                 faults>>

(* fs::write fails before it has truncated anything, or half way through:  *)
(* the transfer is doomed and the connection closes.                       *)
OpenFails(s, c) ==
  /\ lane[s][c] = "idle"
  /\ c \notin Received(s)
  /\ Fault
  /\ failed' = [failed EXCEPT ![s] = TRUE]
  /\ lane' = [lane EXCEPT ![s][c] = "dead"]
  /\ UNCHANGED <<disk, pc, offer, hashes, gone, next, exact, buf, owed>>

WriteFails(s, c) ==
  /\ lane[s][c] = "writing"
  /\ Fault
  /\ failed' = [failed EXCEPT ![s] = TRUE]
  /\ lane' = [lane EXCEPT ![s][c] = "dead"]
  /\ buf' = [buf EXCEPT ![s][c] = Absent]
  /\ UNCHANGED <<disk, pc, offer, hashes, gone, next, exact, owed>>

(* Mutant: the metadata is serialised before the chunk is added to it.     *)
RecordChunk_SavedEarly(s, c) ==
  /\ lane[s][c] = "written"
  /\ LockFree(s)
  /\ hashes' = [hashes EXCEPT ![s][c] = buf[s][c]]
  /\ tmp' = [offer |-> offer[s], hashes |-> hashes[s]]
  /\ lane' = [lane EXCEPT ![s][c] = "saving"]
  /\ buf' = [buf EXCEPT ![s][c] = Absent]
  /\ UNCHANGED <<part, meta, final, pc, offer, failed, gone, next, exact,
                 owed, faults>>

(* record_chunk, under the mutex, up to the rename of the temporary file.  *)
RecordChunk(s, c) ==
  /\ lane[s][c] = "written"
  /\ LockFree(s)
  /\ hashes' = [hashes EXCEPT ![s][c] = buf[s][c]]
  /\ tmp' = [offer |-> offer[s], hashes |-> hashes'[s]]
  /\ lane' = [lane EXCEPT ![s][c] = "saving"]
  /\ buf' = [buf EXCEPT ![s][c] = Absent]
  /\ UNCHANGED <<part, meta, final, pc, offer, failed, gone, next, exact,
                 owed, faults>>

(* The rename, the release of the mutex and ACK_OK.                        *)
FinishSave(s, c) ==
  /\ lane[s][c] = "saving"
  /\ tmp # NoMeta
  /\ meta' = tmp
  /\ tmp' = NoMeta
  /\ lane' = [lane EXCEPT ![s][c] = IF failed[s] THEN "dead" ELSE "idle"]
  /\ owed' = IF pc[s] = "waiting" THEN owed \cup {<<offer[s], c>>} ELSE owed
  /\ UNCHANGED <<part, final, pc, recv, gone, next, exact, buf, faults>>

(* The save fails: on its own, or because another session has renamed the  *)
(* temporary file away.  The chunk stays marked as received in memory.     *)
SaveFails(s, c) ==
  /\ lane[s][c] = "saving"
  /\ \/ tmp = NoMeta /\ NoFault
     \/ tmp # NoMeta /\ Fault
  /\ tmp' = NoMeta
  /\ failed' = [failed EXCEPT ![s] = TRUE]
  /\ lane' = [lane EXCEPT ![s][c] = "dead"]
  /\ UNCHANGED <<part, meta, final, pc, offer, hashes, gone, next, exact, buf,
                 owed>>

-----------------------------------------------------------------------------
(* The control connection, from wait_for_completion on.                    *)

Disconnect(s) ==
  /\ pc[s] = "waiting"
  /\ ~gone[s]
  /\ Fault
  /\ gone' = [gone EXCEPT ![s] = TRUE]
  /\ UNCHANGED <<disk, pc, recv, next, exact, lanes, owed>>

Abort(s) ==
  /\ pc[s] = "waiting"
  /\ LockFree(s)
  /\ failed[s] \/ (gone[s] /\ ~Complete(s))
  /\ Goto(s, "err")
  /\ UNCHANGED <<disk, recv, gone, next, exact, lanes, owed, faults>>

(* Mutant: assembly starts without is_complete.                            *)
StartAssembly_Early(s) ==
  /\ pc[s] = "waiting"
  /\ LockFree(s)
  /\ ~failed[s]
  /\ Goto(s, "create")
  /\ UNCHANGED <<disk, recv, gone, next, exact, lanes, owed, faults>>

StartAssembly(s) ==
  /\ pc[s] = "waiting"
  /\ LockFree(s)
  /\ Complete(s)
  /\ ~failed[s]
  /\ Goto(s, "create")
  /\ UNCHANGED <<disk, recv, gone, next, exact, lanes, owed, faults>>

(* File::create truncates whatever is there; from here on the parts are    *)
(* being consumed and no acknowledgement is owed any more.                 *)
CreateFinal(s) ==
  /\ pc[s] = "create"
  /\ LockFree(s)
  /\ final' = Nothing
  /\ exact' = [exact EXCEPT ![s] = TRUE]
  /\ owed' = {}
  /\ Goto(s, "copy")
  /\ UNCHANGED <<part, meta, tmp, recv, gone, next, lanes, faults>>

(* One round of the loop: append the part to the file and to the hasher... *)
CopyPart(s) ==
  /\ pc[s] = "copy"
  /\ next[s] < NumChunks[offer[s]]
  /\ part[next[s]] # Absent
  /\ final' = [final EXCEPT ![next[s]] = part[next[s]]]
  /\ exact' = [exact EXCEPT ![s] = @ /\ part[next[s]] = <<offer[s], next[s]>>]
  /\ Goto(s, "drop")
  /\ UNCHANGED <<part, meta, tmp, recv, gone, next, lanes, owed, faults>>

(* ... and remove it.                                                      *)
DropPart(s) ==
  /\ pc[s] = "drop"
  /\ part[next[s]] # Absent
  /\ part' = [part EXCEPT ![next[s]] = Absent]
  /\ next' = [next EXCEPT ![s] = @ + 1]
  /\ Goto(s, "copy")
  /\ UNCHANGED <<meta, tmp, final, recv, gone, exact, lanes, owed, faults>>

(* No such part: Ok(false) before the copy, an error after it.             *)
PartMissing(s) ==
  /\ Assembling(s)
  /\ next[s] < NumChunks[offer[s]]
  /\ part[next[s]] = Absent
  /\ Goto(s, "err")
  /\ UNCHANGED <<disk, recv, gone, next, exact, lanes, owed, faults>>

(* Mutant: the hash of what was copied is not compared.                    *)
FinishAssembly_Unchecked(s) ==
  /\ pc[s] = "copy"
  /\ next[s] = NumChunks[offer[s]]
  /\ \/ meta' = NoMeta /\ NoFault
     \/ UNCHANGED meta /\ Fault
  /\ Goto(s, "ok")
  /\ UNCHANGED <<part, tmp, final, recv, gone, next, exact, lanes, owed>>

(* The metadata goes, whatever the hash says; the hash is the verdict.     *)
FinishAssembly(s) ==
  /\ pc[s] = "copy"
  /\ next[s] = NumChunks[offer[s]]
  /\ \/ meta' = NoMeta /\ NoFault
     \/ UNCHANGED meta /\ Fault
  /\ Goto(s, IF exact[s] THEN "ok" ELSE "err")
  /\ UNCHANGED <<part, tmp, final, recv, gone, next, exact, lanes, owed>>

AssemblyFails(s) ==
  /\ pc[s] \in {"create", "copy", "drop"}
  /\ Fault
  /\ Goto(s, "err")
  /\ UNCHANGED <<disk, recv, gone, next, exact, lanes, owed>>

(* Mutant: the data connections outlive the session they belong to.        *)
Release_LanesStay(s) ==
  /\ pc[s] \in Terminal
  /\ \A c \in Index : lane[s][c] \notin InFlight
  /\ Goto(s, "free")
  /\ offer' = [offer EXCEPT ![s] = NoOffer]
  /\ hashes' = [hashes EXCEPT ![s] = Nothing]
  /\ failed' = [failed EXCEPT ![s] = FALSE]
  /\ gone' = [gone EXCEPT ![s] = FALSE]
  /\ next' = [next EXCEPT ![s] = 0]
  /\ exact' = [exact EXCEPT ![s] = FALSE]
  /\ UNCHANGED <<disk, lanes, owed, faults>>

(* The handler has returned and the client's data connections are drained. *)
Release(s) ==
  /\ pc[s] \in Terminal
  /\ \A c \in Index : lane[s][c] \notin InFlight
  /\ Goto(s, "free")
  /\ offer' = [offer EXCEPT ![s] = NoOffer]
  /\ hashes' = [hashes EXCEPT ![s] = Nothing]
  /\ failed' = [failed EXCEPT ![s] = FALSE]
  /\ gone' = [gone EXCEPT ![s] = FALSE]
  /\ next' = [next EXCEPT ![s] = 0]
  /\ exact' = [exact EXCEPT ![s] = FALSE]
  /\ lane' = [lane EXCEPT ![s] = [c \in Index |-> "closed"]]
  /\ UNCHANGED <<disk, buf, owed, faults>>

-----------------------------------------------------------------------------
(* What happens to the server and to its disk.                             *)

(* The process ends at any point; only the disk survives.                  *)
Crash ==
  /\ \E s \in Session : pc[s] # "free"
  /\ Fault
  /\ pc' = [s \in Session |-> "free"]
  /\ offer' = [s \in Session |-> NoOffer]
  /\ hashes' = [s \in Session |-> Nothing]
  /\ failed' = [s \in Session |-> FALSE]
  /\ gone' = [s \in Session |-> FALSE]
  /\ next' = [s \in Session |-> 0]
  /\ exact' = [s \in Session |-> FALSE]
  /\ lane' = [s \in Session |-> [c \in Index |-> "closed"]]
  /\ buf' = [s \in Session |-> Nothing]
  /\ UNCHANGED <<disk, owed>>

(* Damage that the next verification has to notice; nothing is owed for a  *)
(* chunk that the disk has lost.                                           *)
BitRot(c) ==
  /\ part[c] \notin {Absent, Rot}
  /\ \A s \in Session : lane[s][c] \notin InFlight
  /\ Fault
  /\ part' = [part EXCEPT ![c] = Rot]
  /\ owed' = {o \in owed : o[2] # c}
  /\ UNCHANGED <<meta, tmp, final, pc, recv, gone, next, exact, lanes>>

MetaRot ==
  /\ meta \in Record
  /\ Fault
  /\ meta' = BadMeta
  /\ owed' = {}
  /\ UNCHANGED <<part, tmp, final, pc, recv, gone, next, exact, lanes>>

ControlStep(s) ==
  \/ NoPrevious(s) \/ PurgeStale(s) \/ ResumeAll(s) \/ PurgeCorrupt(s)
  \/ ResumeValid(s) \/ PurgePart(s) \/ SaveClean(s) \/ AllChunksPresent(s)
  \/ SpawnDataServers(s) \/ Refuse(s) \/ Abort(s) \/ StartAssembly(s)
  \/ CreateFinal(s) \/ CopyPart(s) \/ DropPart(s) \/ PartMissing(s)
  \/ FinishAssembly(s) \/ AssemblyFails(s) \/ Release(s)

DataStep(s, c) ==
  \/ EndWrite(s, c) \/ WriteFails(s, c) \/ RecordChunk(s, c)
  \/ FinishSave(s, c) \/ SaveFails(s, c)

Next ==
  \/ \E s \in Session, f \in Offer : Handshake(s, f)
  \/ \E s \in Session : ControlStep(s) \/ Disconnect(s)
  \/ \E s \in Session, c \in Index :
       BeginWrite(s, c) \/ OpenFails(s, c) \/ DataStep(s, c)
  \/ Crash
  \/ \E c \in Index : BitRot(c)
  \/ MetaRot

Spec == Init /\ [][Next]_vars

(* Fairness.  A tokio task that can run is run, so every step of a handler *)
(* or of a data connection that stays possible is taken; the client sends  *)
(* the chunks it was asked for; and its user runs it again ("re-run client *)
(* to resume").  Nothing is assumed of faults, except that MaxFaults       *)
(* bounds them: what follows holds once they have stopped.                 *)
ClientRuns(s) == \E f \in Offer : Handshake(s, f)
ClientSends(s, c) == pc[s] = "waiting" /\ BeginWrite(s, c)

Fairness ==
  /\ \A s \in Session : WF_vars(ClientRuns(s)) /\ WF_vars(ControlStep(s))
  /\ \A s \in Session, c \in Index : /\ WF_vars(ClientSends(s, c))
                                     /\ WF_vars(DataStep(s, c))

FairSpec == Spec /\ Fairness

-----------------------------------------------------------------------------
(* Properties                                                              *)

(* An acknowledged chunk is durable: its part holds what was received and  *)
(* the metadata on disk vouches for it, at every instant at which the      *)
(* server may be killed.  (fs::write, then record_chunk, then ACK_OK.)     *)
AckedDurable ==
  \A o \in owed : /\ meta \in Record
                  /\ meta.offer = o[1]
                  /\ meta.hashes[o[2]] # Absent
                  /\ part[o[2]] = meta.hashes[o[2]]

(* A session that has loaded the metadata of an earlier one counts every   *)
(* acknowledged chunk as received, so no client sends it twice.  (The      *)
(* resume promise: load_or_purge_metadata followed by handle_query.)       *)
AcksSurvive ==
  \A s \in Session : pc[s] \in {"clean", "ready", "waiting", "create"} =>
    \A o \in owed : o[1] = offer[s] /\ o[2] \in Received(s)

(* Whatever sessions of the name are open at once, none counts the bytes   *)
(* of another transfer as a chunk of its own, and no record vouches for    *)
(* them: a received or recorded hash is that of the announced bytes, or of *)
(* what the source file had become.  (load_or_purge_metadata compares the  *)
(* parameters; sessions share .bee-meta and its temporary file.)           *)
OwnOrChanged(f, h) == \A c \in Index : h[c] \in {Absent, Changed, <<f, c>>}

NoForeignChunk ==
  /\ \A s \in Session : OwnOrChanged(offer[s], hashes[s])
  /\ \A m \in {meta, tmp} \cap Record : OwnOrChanged(m.offer, m.hashes)

(* At the instant RESP_OK is decided as final status, the file holds, byte *)
(* for byte, what the client announced.  (assemble's hash comparison is    *)
(* over the parts it copies; the file is never read back.)                 *)
ConfirmedDelivered ==
  [][\A s \in Session : pc[s] # "ok" /\ pc'[s] = "ok" =>
       Delivered(offer[s])']_vars

(* A delivered file is truncated only for a client that announces other    *)
(* contents.  (check_existing_file runs before File::create.)              *)
OnlyReplacedByOther ==
  [][\A f \in Offer : Delivered(f) /\ ~Delivered(f)' =>
       \E s \in Session : /\ pc[s] = "create"
                          /\ Digest[offer[s]] # Digest[f]]_vars

(* Without a fault no transfer fails: every error the server reports has a *)
(* cause outside the protocol.  (Outcome and assembly.)                    *)
NoSpuriousFailure ==
  (\E s \in Session : pc[s] = "err") => faults > 0

(* Re-running the client with the same parameters ends with the file in    *)
(* place, and it stays there, whatever the faults, the overlaps and the    *)
(* other transfers of the same name before.                                *)
Settled(f) ==
  /\ \A s \in Session : pc[s] # "free" => offer[s] = f
  /\ \A s, t \in Session : pc[s] # "free" /\ pc[t] # "free" => s = t

EventuallyDelivered ==
  \A f \in Offer : <>[]Settled(f) => <>[]Delivered(f)

(* purge removes "all associated .part files": when it is done, no part of *)
(* an earlier transfer is left.                                            *)
PurgeRemovesAll ==
  [][\A s \in Session : pc[s] = "purge" /\ pc'[s] = "ready" =>
       part' = Nothing]_vars

(* The module implements the promise of Delivery.                          *)
Held == IF \E f \in Offer : final = Image(f)
          THEN Digest[CHOOSE f \in Offer : final = Image(f)]
          ELSE Torn
Told(s) == IF pc[s] = "free" THEN "none"
           ELSE IF pc[s] \in Terminal THEN pc[s] ELSE "pending"
Wanted(s) == IF pc[s] = "free" THEN NoOffer ELSE Digest[offer[s]]

Promise == INSTANCE Delivery WITH
  Content <- {Digest[f] : f \in Offer},
  Broken  <- Torn,
  Nothing <- NoOffer,
  file    <- Held,
  wants   <- [s \in Session |-> Wanted(s)],
  verdict <- [s \in Session |-> Told(s)]

ServerPromise == Promise!Spec
=============================================================================
