--------------------------- MODULE ChunkGeometry ----------------------------
(***************************************************************************)
(* How one file is cut into chunks, by whom, and whether the two ends      *)
(* agree.  The client computes a chunk size from its command line          *)
(* (main.rs), a plan for its workers (setup_transfer) and, from a later    *)
(* look at the file, the handshake (build_handshake), whose fields have 32 *)
(* bits; the server validates the handshake and computes the length of     *)
(* each chunk for itself (process_chunk).  A frame that exceeds the limit  *)
(* closes its connection; a chunk of an unexpected length is dropped       *)
(* without an answer.                                                      *)
(***************************************************************************)
EXTENDS Integers

CONSTANTS MaxSize,     \* bound on the size of the source file
          MaxArg,      \* bound on the argument of --chunk-size, --chunk-count
          Kilo,        \* what a suffix of --chunk-size stands for
          Part,        \* with a suffix the argument counts Part-ths
          MaxUsize,    \* usize::MAX
          Width,       \* values of a 32-bit field
          MaxPayload,  \* frame::MAX_PAYLOAD
          Overhead,    \* chunk::HEADER_SIZE + chunk::HASH_SIZE
          MaxChunks,   \* MAX_CHUNKS of parse_handshake
          MaxEdits     \* bound on changes of the source file's size

ASSUME GeometryAssumption ==
  /\ {MaxSize, MaxArg, MaxPayload, Overhead, MaxEdits} \subseteq Nat
  /\ {Width, MaxChunks, Kilo, Part, MaxUsize} \subseteq Nat \ {0}

(* 16 MiB, and fields of 32 bits: no frame is as long as a field can say.  *)
ASSUME FrameAssumption == MaxPayload < Width

Size  == 0 .. MaxSize
Mode  == {"plain", "suffix", "count"}
Arg   == -1 .. MaxArg
Index == 0 .. MaxChunks - 1
None  == -1

VARIABLES
  pc,         \* where the transfer is
  mode,       \* --chunk-size, without or with a suffix, or --chunk-count
  arg,        \* its argument
  size,       \* the size of the source file now
  edits,      \* ghost: how often it has changed
  chunkSize,  \* the client's chunk size
  plan,       \* setup_transfer: what the workers go by
  offer,      \* the handshake: what the server goes by
  stored      \* the length of each part on the server

cli  == <<mode, arg, chunkSize>>
vars == <<pc, cli, size, edits, plan, offer, stored>>

PC == {"start", "planned", "setup", "offered", "sending", "usage", "panic",
       "refused", "skipped", "closed", "dropped"}
Over == {"usage", "panic", "refused", "skipped", "closed", "dropped"}

-----------------------------------------------------------------------------
(* Arithmetic of the two ends.                                             *)

DivCeil(a, b) == (a + b - 1) \div b
Smaller(a, b) == IF a < b THEN a ELSE b

(* Mutant: the number before the suffix is read as an integer.             *)
Suffixed_Whole(a) == (a \div Part) * Kilo

(* parse_chunk_size multiplies floating-point numbers; the conversion to   *)
(* usize drops the fraction, and turns a negative number into 0.           *)
Suffixed(a) == IF a < 0 THEN 0 ELSE (a * Kilo) \div Part

(* An argument that is refused: too large, negative where no suffix allows *)
(* it, or a count of 0.                                                    *)
Refused(m, a) ==
  \/ m = "suffix" /\ a * Kilo > MaxUsize * Part
  \/ m # "suffix" /\ ~(a \in 0 .. MaxUsize)
  \/ m = "count" /\ a = 0

(* Mutant: --chunk-count rounds down.                                      *)
ChunkSize_Down(m, a, n) ==
  CASE m = "count"  -> n \div a
    [] m = "suffix" -> Suffixed(a)
    [] m = "plain"  -> a

(* main.rs: one of the options gives the chunk size.                       *)
ChunkSize(m, a, n) ==
  CASE m = "count"  -> DivCeil(n, a)
    [] m = "suffix" -> Suffixed(a)
    [] m = "plain"  -> a

NumChunks(n, k) == IF n > 0 THEN DivCeil(n, k) ELSE 1

(* What worker() asks of send_chunk for chunk i of a file of n bytes.      *)
SentSize(n, k, i) == Smaller(k, n - i * k)

(* Mutant: the last chunk is expected to be as long as the others.         *)
ExpectedSize_Full(o, i) == o.chunk

Remainder(o) == o.size - (o.num - 1) * o.chunk

(* What process_chunk accepts for chunk i.                                 *)
ExpectedSize(o, i) ==
  IF i = o.num - 1 /\ Remainder(o) # 0 THEN Remainder(o) ELSE o.chunk

(* parse_handshake, as far as numbers are concerned.                       *)
Acceptable(o) == o.chunk > 0 /\ o.num > 0 /\ o.num =< MaxChunks

TooLong(len) == len + Overhead > MaxPayload

TypeOK ==
  /\ pc \in PC /\ mode \in Mode /\ arg \in Arg
  /\ size \in Size /\ edits \in 0 .. MaxEdits
  /\ chunkSize \in Nat
  /\ plan \in [size : Size, num : Nat]
  /\ offer \in [size : Size, chunk : 0 .. Width - 1, num : 0 .. Width - 1]
  /\ stored \in [Index -> Nat \cup {None}]

Init ==
  /\ pc = "start"
  /\ mode \in Mode /\ arg \in Arg
  /\ size \in Size
  /\ edits = 0
  /\ chunkSize = 0
  /\ plan = [size |-> 0, num |-> 0]
  /\ offer = [size |-> 0, chunk |-> 0, num |-> 0]
  /\ stored = [i \in Index |-> None]

-----------------------------------------------------------------------------
(* The client, from its command line to the handshake.                     *)

BadArgument ==
  /\ pc = "start"
  /\ Refused(mode, arg)
  /\ pc' = "usage"
  /\ UNCHANGED <<cli, size, edits, plan, offer, stored>>

(* A chunk size of zero divides by zero in the line that is logged.        *)
ZeroChunk ==
  /\ pc = "start"
  /\ ~Refused(mode, arg)
  /\ ChunkSize(mode, arg, size) = 0
  /\ pc' = "panic"
  /\ UNCHANGED <<cli, size, edits, plan, offer, stored>>

RunClient ==
  /\ pc = "start"
  /\ ~Refused(mode, arg)
  /\ ChunkSize(mode, arg, size) > 0
  /\ chunkSize' = ChunkSize(mode, arg, size)
  /\ pc' = "planned"
  /\ UNCHANGED <<mode, arg, size, edits, plan, offer, stored>>

SetupTransfer ==
  /\ pc = "planned"
  /\ plan' = [size |-> size, num |-> NumChunks(size, chunkSize)]
  /\ pc' = "setup"
  /\ UNCHANGED <<cli, size, edits, offer, stored>>

(* Mutant: the fields are not cut to 32 bits.                              *)
BuildHandshake_Wide ==
  /\ pc = "setup"
  /\ offer' = [size  |-> size,
               chunk |-> chunkSize,
               num   |-> NumChunks(size, chunkSize)]
  /\ pc' = "offered"
  /\ UNCHANGED <<cli, size, edits, plan, stored>>

(* Mutant: the chunk count of setup_transfer goes with a later file size.  *)
BuildHandshake_StaleCount ==
  /\ pc = "setup"
  /\ offer' = [size  |-> size,
               chunk |-> chunkSize % Width,
               num   |-> plan.num % Width]
  /\ pc' = "offered"
  /\ UNCHANGED <<cli, size, edits, plan, stored>>

BuildHandshake ==
  /\ pc = "setup"
  /\ offer' = [size  |-> size,
               chunk |-> chunkSize % Width,
               num   |-> NumChunks(size, chunkSize) % Width]
  /\ pc' = "offered"
  /\ UNCHANGED <<cli, size, edits, plan, stored>>

ParseHandshake ==
  /\ pc = "offered"
  /\ pc' = IF Acceptable(offer) THEN "sending" ELSE "refused"
  /\ UNCHANGED <<cli, size, edits, plan, offer, stored>>

-----------------------------------------------------------------------------
(* The workers and process_chunk.                                          *)

(* The bytes send_chunk reads: as many as were asked for, or what is left  *)
(* of the file at that offset by now.                                      *)
ReadSize(i) ==
  LET ask == SentSize(plan.size, chunkSize, i)
      left == size - i * chunkSize
  IN  IF left < 0 THEN 0 ELSE Smaller(ask, left)

(* Mutant: the server stores whatever length it is sent.                   *)
ProcessChunk_AnySize(i, len) ==
  /\ pc' = IF i < offer.num THEN "sending" ELSE "dropped"
  /\ stored' = IF i < offer.num THEN [stored EXCEPT ![i] = len] ELSE stored

(* The server's answer to a frame it could read: silence, or the part.     *)
ProcessChunk(i, len) ==
  LET fits == i < offer.num /\ len = ExpectedSize(offer, i)
  IN  /\ pc' = IF fits THEN "sending" ELSE "dropped"
      /\ stored' = IF fits THEN [stored EXCEPT ![i] = len] ELSE stored

(* One chunk of the plan.  A chunk that was sent and failed stops every    *)
(* worker.  One that begins beyond the file is only skipped; setup_workers *)
(* deals no such chunk (CutsAgree), and the model ends there.              *)
SendChunk(i) ==
  /\ pc = "sending"
  /\ i < plan.num
  /\ i \in Index => stored[i] = None
  /\ IF i * chunkSize > plan.size
       THEN pc' = "skipped" /\ UNCHANGED stored
     ELSE IF TooLong(ReadSize(i))
       THEN pc' = "closed" /\ UNCHANGED stored
     ELSE ProcessChunk(i, ReadSize(i))
  /\ UNCHANGED <<cli, size, edits, plan, offer>>

(* Somebody appends to the source file, or truncates it.                   *)
EditSource(n) ==
  /\ pc \notin Over
  /\ edits < MaxEdits
  /\ n # size
  /\ size' = n
  /\ edits' = edits + 1
  /\ UNCHANGED <<pc, cli, plan, offer, stored>>

Next ==
  \/ BadArgument \/ ZeroChunk \/ RunClient \/ SetupTransfer
  \/ BuildHandshake \/ ParseHandshake
  \/ \E i \in 0 .. MaxSize : SendChunk(i)
  \/ \E n \in Size : EditSource(n)

Spec == Init /\ [][Next]_vars

-----------------------------------------------------------------------------
(* Properties                                                              *)

Last == offer.num - 1

(* The two ends cut alike: while nobody changes the file, no chunk of a    *)
(* file that is not empty is dropped or skipped, and none exceeds the      *)
(* limit on frames unless the chunk size does, provided that the numbers   *)
(* fit their fields.  (setup_transfer, build_handshake and process_chunk   *)
(* each compute the cut on their own; a dropped chunk costs a timeout.)    *)
CutsAgree ==
  (edits = 0 /\ size > 0 /\ chunkSize < Width /\ plan.num < Width)
    => /\ pc \notin {"dropped", "skipped"}
       /\ pc = "closed" => TooLong(chunkSize)

(* The division by zero in main.rs is met only by a chunk size that was    *)
(* written as less than one byte, and by --chunk-count with an empty file: *)
(* no other argument is rounded down to 0.  (parse_chunk_size, div_ceil.)  *)
ZeroOnlyIfAsked ==
  pc = "panic" => CASE mode = "count"  -> size = 0
                    [] mode = "suffix" -> arg * Kilo < Part
                    [] mode = "plain"  -> arg = 0

(* --chunk-count is a limit on the chunks, and exact when it divides the   *)
(* size of the file.  (README.md says "exactly 8 chunks"; main.rs rounds   *)
(* the chunk size up, and 9 bytes make 5 chunks of 2.)                     *)
CountIsLimit ==
  (mode = "count" /\ edits = 0 /\ plan.num > 0)
    => plan.num =< arg /\ (size % arg = 0 => plan.num = arg)

(* The remainder process_chunk computes never underflows, whatever the     *)
(* legitimate client was asked to do and whatever happens to the file:     *)
(* usize subtraction would panic or wrap around.                           *)
NoUnderflow == pc \in {"sending", "dropped", "closed"} => Remainder(offer) >= 0

(* Where assemble, which only concatenates, puts part i.                   *)
Position[i \in 0 .. offer.num] ==
  IF i = 0 THEN 0 ELSE Position[i - 1] + stored[i - 1]

(* When every part is there, the parts tile the file that was announced:   *)
(* assemble puts each part where the worker read it, and the total is      *)
(* right.  (The offset in the chunk header is not used by the server.)     *)
PartsTile ==
  (pc = "sending" /\ offer.size > 0 /\ \A i \in 0 .. Last : stored[i] # None)
    => /\ \A i \in 0 .. Last : Position[i] = i * chunkSize
       /\ Position[offer.num] = offer.size
=============================================================================
