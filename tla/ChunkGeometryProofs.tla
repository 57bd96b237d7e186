------------------------ MODULE ChunkGeometryProofs -------------------------
(***************************************************************************)
(* For every file size, every command line and every limit: the server's   *)
(* arithmetic does not underflow, the two ends cut a steady file into the  *)
(* same chunks, and the parts that were stored tile the announced file.    *)
(***************************************************************************)
EXTENDS ChunkGeometry, WellFoundedInduction, TLAPS

-----------------------------------------------------------------------------
(* Division                                                                *)

(* The quotient of usize division.                                         *)
LEMMA Quotient ==
  ASSUME NEW a \in Nat, NEW b \in Nat \ {0}
  PROVE  /\ a \div b \in Nat
         /\ (a \div b) * b =< a
         /\ a < (a \div b) * b + b
OBVIOUS

(* A division without remainder is exact.                                  *)
LEMMA Divides ==
  ASSUME NEW a \in Nat, NEW b \in Nat \ {0}, a % b = 0
  PROVE  a \div b \in Nat /\ a = (a \div b) * b
OBVIOUS

(* A field of 32 bits holds at most the value that is put into it.         *)
LEMMA Field ==
  ASSUME NEW a \in Nat, NEW w \in Nat \ {0}
  PROVE  a % w \in 0 .. w - 1 /\ a % w =< a /\ (a < w => a % w = a)
OBVIOUS

(* Products of naturals are monotone in both factors.                      *)
LEMMA Monotone ==
  ASSUME NEW a \in Nat, NEW b \in Nat, NEW c \in Nat, NEW d \in Nat,
         a =< c, b =< d
  PROVE  a * b \in Nat /\ a * b =< c * d
<1>1. PICK k \in Nat : c = a + k
  <2>1. c - a \in Nat /\ c = a + (c - a)
    OBVIOUS
  <2> QED BY <2>1
<1>2. PICK l \in Nat : d = b + l
  <2>1. d - b \in Nat /\ d = b + (d - b)
    OBVIOUS
  <2> QED BY <2>1
<1>3. a * b \in Nat /\ a * l \in Nat /\ k * b \in Nat /\ k * l \in Nat
  OBVIOUS
<1>4. c * d = a * b + a * l + k * b + k * l
  BY <1>1, <1>2
<1> QED BY <1>3, <1>4

(* div_ceil: the last chunk is not empty, and there is nothing after it.   *)
LEMMA Ceiling ==
  ASSUME NEW a \in Nat, NEW b \in Nat \ {0}
  PROVE  /\ DivCeil(a, b) \in Nat
         /\ a > 0 => /\ DivCeil(a, b) > 0
                     /\ (DivCeil(a, b) - 1) * b < a
                     /\ a =< DivCeil(a, b) * b
<1> DEFINE q == DivCeil(a, b)
<1>1. q \in Nat /\ q * b =< a + b - 1 /\ a + b - 1 < q * b + b
  BY Quotient, a + b - 1 \in Nat DEF DivCeil
<1>2. (q - 1) * b = q * b - b
  BY <1>1
<1>3. a > 0 => q # 0
  BY <1>1
<1> QED BY <1>1, <1>2, <1>3

(* The chunk count of a file: never 0, and the last chunk starts in it.    *)
LEMMA ChunkCount ==
  ASSUME NEW n \in Nat, NEW k \in Nat \ {0}
  PROVE  /\ NumChunks(n, k) \in Nat \ {0}
         /\ (NumChunks(n, k) - 1) * k =< n
         /\ n > 0 => /\ (NumChunks(n, k) - 1) * k < n
                     /\ n =< (NumChunks(n, k) - 1) * k + k
<1>1. CASE n > 0
  <2>1. NumChunks(n, k) = DivCeil(n, k)
    BY <1>1 DEF NumChunks
  <2>2. /\ DivCeil(n, k) \in Nat /\ DivCeil(n, k) > 0
        /\ (DivCeil(n, k) - 1) * k < n /\ n =< DivCeil(n, k) * k
    BY <1>1, Ceiling
  <2>3. (DivCeil(n, k) - 1) * k = DivCeil(n, k) * k - k
    BY <2>2
  <2> QED BY <2>1, <2>2, <2>3
<1>2. CASE n = 0
  <2>1. NumChunks(n, k) = 1
    BY <1>2 DEF NumChunks
  <2>2. (1 - 1) * k = 0
    OBVIOUS
  <2> QED BY <1>2, <2>1, <2>2
<1> QED BY <1>1, <1>2

(* Worker and process_chunk agree on the length of every chunk, and the    *)
(* worker finds that many bytes at the chunk's offset.                     *)
LEMMA SameCut ==
  ASSUME NEW n \in Nat \ {0}, NEW k \in Nat \ {0}, NEW i \in Nat,
         i < NumChunks(n, k)
  PROVE  /\ i * k =< n
         /\ SentSize(n, k, i) =
              ExpectedSize([size |-> n, chunk |-> k, num |-> NumChunks(n, k)],
                           i)
<1> DEFINE m == NumChunks(n, k)
           o == [size |-> n, chunk |-> k, num |-> m]
<1>1. /\ m \in Nat \ {0} /\ (m - 1) * k < n /\ n =< (m - 1) * k + k
  BY ChunkCount
<1>2. Remainder(o) = n - (m - 1) * k
  BY DEF Remainder
<1>3. (m - 1) * k \in Nat /\ i * k \in Nat
  BY <1>1
<1> HIDE DEF m
<1>4. CASE i = m - 1
  <2>1. Remainder(o) > 0 /\ Remainder(o) =< k
    BY <1>1, <1>2, <1>3
  <2>2. ExpectedSize(o, i) = Remainder(o)
    BY <1>4, <2>1 DEF ExpectedSize
  <2>3. SentSize(n, k, i) = n - (m - 1) * k
    BY <1>1, <1>3, <1>4 DEF SentSize, Smaller
  <2> QED BY <1>1, <1>2, <1>3, <1>4, <2>2, <2>3 DEF m
<1>5. CASE i # m - 1
  <2>1. i + 1 =< m - 1 /\ i + 1 \in Nat /\ m - 1 \in Nat
    BY <1>1, <1>5 DEF m
  <2>2. (i + 1) * k =< (m - 1) * k
    BY <2>1, Monotone
  <2>3. (i + 1) * k = i * k + k
    OBVIOUS
  <2>4. i * k + k =< n
    BY <1>1, <1>3, <2>2, <2>3
  <2>5. SentSize(n, k, i) = k
    BY <1>3, <2>4 DEF SentSize, Smaller
  <2>6. ExpectedSize(o, i) = k
    BY <1>5 DEF ExpectedSize
  <2> QED BY <1>3, <2>4, <2>5, <2>6 DEF m
<1> QED BY <1>4, <1>5

-----------------------------------------------------------------------------
(* Types                                                                   *)

(* TypeOK needs to know that the chunk size is positive as soon as it is   *)
(* chosen: every later division is by it.                                  *)
Chosen == pc \notin {"start", "usage", "panic"} => chunkSize > 0

TypeInv == TypeOK /\ Chosen

LEMMA ChunkSizeType ==
  ASSUME NEW m \in Mode, NEW a \in Int, NEW n \in Nat, ~Refused(m, a)
  PROVE  ChunkSize(m, a, n) \in Nat
<1>1. CASE m = "count"
  <2>1. a \in Nat \ {0}
    BY <1>1, GeometryAssumption DEF Refused
  <2> QED BY <1>1, <2>1, Ceiling DEF ChunkSize
<1>2. CASE m = "suffix" /\ a < 0
  BY <1>2 DEF ChunkSize, Suffixed
<1>3. CASE m = "suffix" /\ a >= 0
  <2>1. a \in Nat /\ Kilo \in Nat /\ Part \in Nat \ {0}
    BY <1>3, GeometryAssumption
  <2>2. a * Kilo \in Nat
    BY <2>1
  <2>3. (a * Kilo) \div Part \in Nat
    BY <2>1, <2>2, Quotient
  <2> QED BY <1>3, <2>1, <2>3 DEF ChunkSize, Suffixed
<1>4. CASE m = "plain"
  BY <1>4, GeometryAssumption DEF ChunkSize, Refused
<1> QED BY <1>1, <1>2, <1>3, <1>4 DEF Mode

LEMMA TypeInit == Init => TypeInv
BY GeometryAssumption
   DEF Init, TypeInv, TypeOK, Chosen, PC, Mode, Size, Index, None

LEMMA TypeSend ==
  ASSUME TypeInv, NEW i \in Nat, SendChunk(i)
  PROVE  TypeInv'
<1> USE GeometryAssumption DEF TypeInv
<1>1. i * chunkSize \in Nat
  BY DEF TypeOK
<1>2. CASE i * chunkSize > plan.size
  BY <1>2 DEF SendChunk, TypeOK, Chosen, PC, cli
<1>3. CASE ~(i * chunkSize > plan.size)
  <2>1. ReadSize(i) \in Nat
    BY <1>1, <1>3 DEF ReadSize, SentSize, Smaller, TypeOK, Size
  <2>2. CASE TooLong(ReadSize(i))
    BY <1>3, <2>2 DEF SendChunk, TypeOK, Chosen, PC, cli
  <2>3. CASE ~TooLong(ReadSize(i))
    <3> DEFINE len == ReadSize(i)
    <3> HIDE DEF len
    <3>1. ProcessChunk(i, len) /\ UNCHANGED <<cli, size, edits, plan, offer>>
      BY <1>3, <2>3 DEF SendChunk, len
    <3>2. pc' \in {"sending", "dropped"} /\ pc = "sending"
      BY <3>1 DEF ProcessChunk, SendChunk
    <3>3. stored' = stored \/ stored' = [stored EXCEPT ![i] = len]
      BY <3>1 DEF ProcessChunk
    <3>4. stored' \in [Index -> Nat \cup {None}]
      BY <2>1, <3>3 DEF TypeOK, len
    <3> QED BY <3>1, <3>2, <3>4 DEF TypeOK, Chosen, PC, cli
  <2> QED BY <2>2, <2>3
<1> QED BY <1>2, <1>3

LEMMA TypeStep == TypeInv /\ [Next]_vars => TypeInv'
<1> SUFFICES ASSUME TypeInv, [Next]_vars PROVE TypeInv'
  OBVIOUS
<1> USE GeometryAssumption DEF TypeInv
<1>1. CASE BadArgument
  BY <1>1 DEF BadArgument, TypeOK, Chosen, PC, cli
<1>2. CASE ZeroChunk
  BY <1>2 DEF ZeroChunk, TypeOK, Chosen, PC, cli
<1>3. CASE RunClient
  <2>1. ChunkSize(mode, arg, size) \in Nat
    BY <1>3, ChunkSizeType DEF RunClient, TypeOK, Size, Arg
  <2> QED BY <1>3, <2>1 DEF RunClient, TypeOK, Chosen, PC
<1>4. CASE SetupTransfer
  <2>1. NumChunks(size, chunkSize) \in Nat
    BY <1>4, ChunkCount DEF SetupTransfer, TypeOK, Chosen, Size
  <2> QED BY <1>4, <2>1 DEF SetupTransfer, TypeOK, Chosen, PC, cli
<1>5. CASE BuildHandshake
  <2>1. NumChunks(size, chunkSize) \in Nat
    BY <1>5, ChunkCount DEF BuildHandshake, TypeOK, Chosen, Size
  <2>2. /\ NumChunks(size, chunkSize) % Width \in 0 .. Width - 1
        /\ chunkSize % Width \in 0 .. Width - 1
    BY <2>1, Field DEF TypeOK
  <2> QED BY <1>5, <2>2 DEF BuildHandshake, TypeOK, Chosen, PC, cli
<1>6. CASE ParseHandshake
  BY <1>6 DEF ParseHandshake, TypeOK, Chosen, PC, cli
<1>7. CASE \E i \in 0 .. MaxSize : SendChunk(i)
  BY <1>7, TypeSend
<1>8. CASE \E n \in Size : EditSource(n)
  BY <1>8 DEF EditSource, TypeOK, Chosen, PC, cli
<1>9. CASE UNCHANGED vars
  BY <1>9 DEF vars, cli, TypeOK, Chosen
<1> QED BY <1>1, <1>2, <1>3, <1>4, <1>5, <1>6, <1>7, <1>8, <1>9 DEF Next

(* Every variable keeps its type: what build_handshake puts into a field   *)
(* of 32 bits fits it, and no length that is stored is negative.           *)
THEOREM Types == Spec => []TypeOK
<1>1. TypeInv => TypeOK
  BY DEF TypeInv
<1> QED BY TypeInit, TypeStep, <1>1, PTL DEF Spec

-----------------------------------------------------------------------------
(* The server's subtraction                                                *)

(* From build_handshake on.                                                *)
Announced == {"offered", "refused", "sending", "skipped", "closed", "dropped"}

RemainderInv == pc \in Announced => Remainder(offer) >= 0

LEMMA RemainderStep ==
  TypeInv /\ RemainderInv /\ [Next]_vars => RemainderInv'
<1> SUFFICES ASSUME TypeInv, RemainderInv, [Next]_vars PROVE RemainderInv'
  OBVIOUS
<1> USE GeometryAssumption
<1>1. CASE BuildHandshake
  <2> DEFINE m == NumChunks(size, chunkSize)
  <2>1. chunkSize \in Nat \ {0} /\ size \in Nat
    BY <1>1 DEF BuildHandshake, TypeInv, TypeOK, Chosen, Size
  <2>2. m \in Nat \ {0} /\ (m - 1) * chunkSize =< size
    BY <2>1, ChunkCount
  <2>3. /\ m % Width \in Nat /\ m % Width =< m
        /\ chunkSize % Width \in Nat /\ chunkSize % Width =< chunkSize
    <3>1. m \in Nat /\ chunkSize \in Nat /\ Width \in Nat \ {0}
      BY <2>1, <2>2
    <3> HIDE DEF m
    <3>2. m % Width \in 0 .. Width - 1 /\ m % Width =< m
      BY <3>1, Field
    <3>3. /\ chunkSize % Width \in 0 .. Width - 1
          /\ chunkSize % Width =< chunkSize
      BY <3>1, Field
    <3> QED BY <3>1, <3>2, <3>3
  <2>4. offer' = [size |-> size, chunk |-> chunkSize % Width,
                  num |-> m % Width]
    BY <1>1 DEF BuildHandshake
  <2> HIDE DEF m
  <2>5. Remainder(offer)' = size - ((m % Width) - 1) * (chunkSize % Width)
    BY <2>4 DEF Remainder
  <2> DEFINE a == m % Width
             b == chunkSize % Width
  <2>6. a \in Nat /\ a =< m /\ b \in Nat /\ b =< chunkSize
    BY <2>3
  <2> HIDE DEF a, b
  <2>7. (a - 1) * b =< size
    <3>1. CASE a = 0
      <4>1. (a - 1) * b = -b
        BY <2>6, <3>1
      <4> QED BY <2>1, <2>6, <4>1
    <3>2. CASE a > 0
      <4>1. a - 1 \in Nat /\ m - 1 \in Nat /\ a - 1 =< m - 1
        BY <2>2, <2>6, <3>2
      <4>2. (a - 1) * b \in Nat /\ (a - 1) * b =< (m - 1) * chunkSize
        BY <2>1, <2>6, <4>1, Monotone
      <4>3. (m - 1) * chunkSize \in Nat
        BY <2>1, <4>1
      <4> QED BY <2>1, <2>2, <4>2, <4>3
    <3> QED BY <2>6, <3>1, <3>2
  <2>8. (a - 1) * b \in Int
    BY <2>6
  <2>9. size - (a - 1) * b >= 0
    BY <2>1, <2>7, <2>8
  <2>10. Remainder(offer)' = size - (a - 1) * b
    BY <2>5 DEF a, b
  <2>11. Remainder(offer)' >= 0
    BY <2>9, <2>10
  <2> QED BY <2>11 DEF RemainderInv
<1>2. CASE ParseHandshake
  BY <1>2 DEF ParseHandshake, RemainderInv, Announced, Remainder
<1>3. CASE \E i \in 0 .. MaxSize : SendChunk(i)
  BY <1>3 DEF SendChunk, RemainderInv, Announced, Remainder
<1>4. CASE BadArgument \/ ZeroChunk \/ RunClient \/ SetupTransfer
  BY <1>4 DEF BadArgument, ZeroChunk, RunClient, SetupTransfer, RemainderInv,
              Announced
<1>5. CASE \E n \in Size : EditSource(n)
  BY <1>5 DEF EditSource, RemainderInv, Announced, Remainder
<1>6. CASE UNCHANGED vars
  BY <1>6 DEF vars, RemainderInv, Announced, Remainder
<1> QED BY <1>1, <1>2, <1>3, <1>4, <1>5, <1>6 DEF Next

(* file_size - last_idx * chunk_size in process_chunk is a natural number, *)
(* whatever was asked on the command line, even when a field of the        *)
(* handshake was truncated and the file changed while it was read.         *)
THEOREM RemainderIsNatural == Spec => []NoUnderflow
<1>1. Init => RemainderInv
  BY DEF Init, RemainderInv, Announced
<1>2. RemainderInv => NoUnderflow
  BY DEF RemainderInv, NoUnderflow, Announced
<1> QED BY TypeInit, TypeStep, <1>1, RemainderStep, <1>2, PTL DEF Spec

-----------------------------------------------------------------------------
(* The two cuts                                                            *)

(* While nobody changes the file, the three looks that the client takes at *)
(* it see the same size.                                                   *)
OneSize ==
  edits = 0 =>
    /\ pc \in Announced \cup {"setup"} =>
         plan = [size |-> size, num |-> NumChunks(size, chunkSize)]
    /\ pc \in Announced =>
         offer = [size |-> size, chunk |-> chunkSize % Width,
                  num |-> NumChunks(size, chunkSize) % Width]

CutInv == OneSize /\ CutsAgree

LEMMA OneSizeStep ==
  TypeInv /\ OneSize /\ [Next]_vars => OneSize'
<1> SUFFICES ASSUME TypeInv, OneSize, [Next]_vars PROVE OneSize'
  OBVIOUS
<1>1. CASE SetupTransfer \/ BuildHandshake \/ ParseHandshake
  BY <1>1 DEF SetupTransfer, BuildHandshake, ParseHandshake, OneSize,
              Announced, cli
<1>2. CASE \E i \in 0 .. MaxSize : SendChunk(i)
  BY <1>2 DEF SendChunk, OneSize, Announced, cli
<1>3. CASE BadArgument \/ ZeroChunk \/ RunClient
  BY <1>3 DEF BadArgument, ZeroChunk, RunClient, OneSize, Announced
<1>4. CASE \E n \in Size : EditSource(n)
  <2>1. edits \in Nat /\ edits' = edits + 1
    BY <1>4, GeometryAssumption DEF EditSource, TypeInv, TypeOK
  <2>2. edits' # 0
    BY <2>1
  <2> QED BY <2>2 DEF OneSize
<1>5. CASE UNCHANGED vars
  BY <1>5 DEF vars, cli, OneSize
<1> QED BY <1>1, <1>2, <1>3, <1>4, <1>5 DEF Next

(* The step that matters: a chunk of the plan is neither skipped by the    *)
(* worker nor dropped by the server.                                       *)
LEMMA SendAgrees ==
  ASSUME TypeInv, OneSize, NEW i \in Nat, SendChunk(i),
         edits = 0, size > 0, chunkSize < Width, plan.num < Width
  PROVE  /\ pc' \notin {"dropped", "skipped"}
         /\ pc' = "closed" => TooLong(chunkSize)
<1> DEFINE m == NumChunks(size, chunkSize)
<1>1. /\ size \in Nat \ {0} /\ chunkSize \in Nat \ {0}
      /\ Width \in Nat \ {0}
  BY GeometryAssumption DEF TypeInv, TypeOK, Chosen, Size, SendChunk
<1>2. /\ plan = [size |-> size, num |-> m]
      /\ offer = [size |-> size, chunk |-> chunkSize % Width,
                  num |-> m % Width]
  BY DEF OneSize, SendChunk, Announced
<1>3. m \in Nat /\ m < Width
  BY <1>1, <1>2, ChunkCount
<1>4. offer = [size |-> size, chunk |-> chunkSize, num |-> m]
  BY <1>1, <1>2, <1>3, Field
<1>5. i < m
  BY <1>2 DEF SendChunk
<1>6. /\ i * chunkSize =< size
      /\ SentSize(size, chunkSize, i) = ExpectedSize(offer, i)
  BY <1>1, <1>4, <1>5, SameCut
<1>7. i * chunkSize \in Nat
  BY <1>1
<1>8. ReadSize(i) = SentSize(size, chunkSize, i)
  BY <1>1, <1>2, <1>6, <1>7 DEF ReadSize, SentSize, Smaller
<1>9. ~(i * chunkSize > plan.size)
  BY <1>1, <1>2, <1>6, <1>7
<1>10. CASE TooLong(ReadSize(i))
  <2>1. ReadSize(i) \in Int /\ ReadSize(i) =< chunkSize
    BY <1>1, <1>7, <1>8 DEF SentSize, Smaller
  <2>2. TooLong(chunkSize)
    BY <1>1, <1>10, <2>1, GeometryAssumption DEF TooLong
  <2> QED BY <1>9, <1>10, <2>2 DEF SendChunk
<1>11. CASE ~TooLong(ReadSize(i))
  <2>1. ProcessChunk(i, ReadSize(i))
    BY <1>9, <1>11 DEF SendChunk
  <2>2. i < offer.num /\ ReadSize(i) = ExpectedSize(offer, i)
    BY <1>4, <1>5, <1>6, <1>8
  <2> QED BY <2>1, <2>2 DEF ProcessChunk
<1> QED BY <1>10, <1>11

LEMMA CutStep == TypeInv /\ CutInv /\ [Next]_vars => CutInv'
<1> SUFFICES ASSUME TypeInv, CutInv, [Next]_vars PROVE CutsAgree'
  BY OneSizeStep DEF CutInv
<1>1. CASE BadArgument \/ ZeroChunk \/ RunClient \/ SetupTransfer
           \/ BuildHandshake \/ ParseHandshake
  BY <1>1 DEF BadArgument, ZeroChunk, RunClient, SetupTransfer, BuildHandshake,
              ParseHandshake, CutsAgree
<1>2. CASE \E i \in 0 .. MaxSize : SendChunk(i)
  <2>1. PICK i \in 0 .. MaxSize : SendChunk(i)
    BY <1>2
  <2>2. i \in Nat /\ UNCHANGED <<chunkSize, size, edits, plan>>
    BY <2>1, GeometryAssumption DEF SendChunk, cli
  <2> QED BY <2>1, <2>2, SendAgrees DEF CutsAgree, CutInv, TooLong
<1>3. CASE \E n \in Size : EditSource(n)
  BY <1>3 DEF EditSource, CutsAgree, Over
<1>4. CASE UNCHANGED vars
  BY <1>4 DEF vars, cli, CutsAgree, CutInv, TooLong
<1> QED BY <1>1, <1>2, <1>3, <1>4 DEF Next

(* The client's plan, its handshake and the server's expectation, computed *)
(* in three places, cut a file that does not change into the same chunks.  *)
THEOREM SameChunks == Spec => []CutsAgree
<1>1. Init => CutInv
  BY DEF Init, CutInv, OneSize, CutsAgree, Announced
<1>2. CutInv => CutsAgree
  BY DEF CutInv
<1> QED BY TypeInit, TypeStep, <1>1, CutStep, <1>2, PTL DEF Spec

-----------------------------------------------------------------------------
(* The division by zero                                                    *)

LEMMA PanicStep ==
  ASSUME TypeInv, ZeroOnlyIfAsked, [Next]_vars
  PROVE  ZeroOnlyIfAsked'
<1>1. CASE ZeroChunk
  <2>1. /\ UNCHANGED <<mode, arg, size>>
        /\ ~Refused(mode, arg) /\ ChunkSize(mode, arg, size) = 0
    BY <1>1 DEF ZeroChunk, cli
  <2>2. mode \in Mode /\ arg \in Int /\ size \in Nat
    BY GeometryAssumption DEF TypeInv, TypeOK, Arg, Size
  <2>3. CASE mode = "count"
    <3>1. arg \in Nat \ {0}
      BY <2>1, <2>3, GeometryAssumption DEF Refused
    <3>2. DivCeil(size, arg) = 0
      BY <2>1, <2>3 DEF ChunkSize
    <3>3. size = 0
      BY <2>2, <3>1, <3>2, Ceiling
    <3> QED BY <2>1, <2>3, <3>3 DEF ZeroOnlyIfAsked
  <2>4. CASE mode = "suffix"
    <3>1. Suffixed(arg) = 0 /\ Kilo \in Nat \ {0} /\ Part \in Nat \ {0}
      BY <2>1, <2>4, GeometryAssumption DEF ChunkSize
    <3>2. CASE arg < 0
      <4>1. arg * Kilo < 0
        BY <2>2, <3>1, <3>2
      <4>2. arg * Kilo < Part
        BY <2>2, <3>1, <4>1
      <4> QED BY <2>1, <2>4, <4>2 DEF ZeroOnlyIfAsked
    <3>3. CASE arg >= 0
      <4>1. arg * Kilo \in Nat /\ (arg * Kilo) \div Part = 0
        BY <2>2, <3>1, <3>3 DEF Suffixed
      <4>2. arg * Kilo < 0 * Part + Part
        BY <3>1, <4>1, Quotient
      <4>3. arg * Kilo < Part
        BY <3>1, <4>1, <4>2
      <4> QED BY <2>1, <2>4, <4>3 DEF ZeroOnlyIfAsked
    <3> QED BY <2>2, <3>2, <3>3
  <2>5. CASE mode = "plain"
    BY <2>1, <2>5 DEF ChunkSize, ZeroOnlyIfAsked
  <2> QED BY <2>2, <2>3, <2>4, <2>5 DEF Mode
<1>2. CASE BadArgument \/ RunClient \/ SetupTransfer \/ BuildHandshake
           \/ ParseHandshake
  BY <1>2 DEF BadArgument, RunClient, SetupTransfer, BuildHandshake,
              ParseHandshake, ZeroOnlyIfAsked
<1>3. CASE \E i \in 0 .. MaxSize : SendChunk(i)
  BY <1>3 DEF SendChunk, ProcessChunk, ZeroOnlyIfAsked
<1>4. CASE \E n \in Size : EditSource(n)
  BY <1>4 DEF EditSource, Over, ZeroOnlyIfAsked
<1>5. CASE UNCHANGED vars
  BY <1>5 DEF vars, cli, ZeroOnlyIfAsked
<1> QED BY <1>1, <1>2, <1>3, <1>4, <1>5 DEF Next

(* A client panics on its chunk size only if it was asked for less than    *)
(* one byte, or for a number of chunks of an empty file.                   *)
THEOREM PanicIsAskedFor == Spec => []ZeroOnlyIfAsked
<1>1. Init => ZeroOnlyIfAsked
  BY DEF Init, ZeroOnlyIfAsked
<1> QED BY TypeInit, TypeStep, <1>1, PanicStep, PTL DEF Spec

-----------------------------------------------------------------------------
(* --chunk-count                                                           *)

(* Rounding up twice gives no more chunks than were asked for, and just as *)
(* many when nothing is rounded.                                           *)
LEMMA RoundedTwice ==
  ASSUME NEW n \in Nat \ {0}, NEW a \in Nat \ {0}
  PROVE  /\ DivCeil(n, a) \in Nat \ {0}
         /\ DivCeil(n, DivCeil(n, a)) =< a
         /\ n % a = 0 => DivCeil(n, DivCeil(n, a)) = a
<1> DEFINE k == DivCeil(n, a)
           m == DivCeil(n, k)
<1>1. k \in Nat \ {0} /\ (k - 1) * a < n /\ n =< k * a
  BY Ceiling
<1> HIDE DEF k
<1>2. m \in Nat \ {0} /\ (m - 1) * k < n /\ n =< m * k
  BY <1>1, Ceiling
<1> HIDE DEF m
<1>3. m =< a
  <2> SUFFICES ASSUME a + 1 =< m PROVE FALSE
    BY <1>2
  <2>1. a =< m - 1 /\ m - 1 \in Nat
    BY <1>2
  <2>2. a * k =< (m - 1) * k
    BY <1>1, <2>1, Monotone
  <2>3. a * k = k * a /\ a * k \in Nat /\ (m - 1) * k \in Nat
    BY <1>1, <2>1
  <2> QED BY <1>1, <1>2, <2>2, <2>3
<1>4. ASSUME n % a = 0 PROVE m = a
  <2>1. PICK q \in Nat : n = q * a
    BY <1>4, Divides
  <2>2. k =< q
    <3> SUFFICES ASSUME q + 1 =< k PROVE FALSE
      BY <1>1
    <3>1. q =< k - 1 /\ k - 1 \in Nat
      BY <1>1
    <3>2. q * a =< (k - 1) * a
      BY <3>1, Monotone
    <3>3. q * a \in Nat /\ (k - 1) * a \in Nat
      BY <3>1
    <3> QED BY <1>1, <2>1, <3>2, <3>3
  <2>3. ~(m + 1 =< a)
    <3> SUFFICES ASSUME m + 1 =< a PROVE FALSE
      OBVIOUS
    <3>1. (m + 1) * k =< a * q
      BY <1>1, <1>2, <2>2, Monotone
    <3>2. (m + 1) * k = m * k + k /\ a * q = q * a
      BY <1>1, <1>2
    <3>3. m * k \in Nat /\ q * a \in Nat
      BY <1>1, <1>2
    <3> QED BY <1>1, <1>2, <2>1, <3>1, <3>2, <3>3
  <2> QED BY <1>2, <1>3, <2>3
<1> QED BY <1>1, <1>3, <1>4 DEF k, m

(* Until the file changes, the chunk size is the one main.rs computed.     *)
CountInv ==
  /\ pc = "planned" /\ mode = "count" /\ edits = 0
       => arg \in Nat \ {0} /\ size > 0 /\ chunkSize = DivCeil(size, arg)
  /\ CountIsLimit

LEMMA CountStep ==
  ASSUME TypeInv, CountInv, [Next]_vars
  PROVE  CountInv'
<1>1. arg \in Int /\ size \in Nat /\ mode \in Mode /\ edits \in Nat
  BY GeometryAssumption DEF TypeInv, TypeOK, Arg, Size
<1>2. CASE RunClient
  <2>1. /\ UNCHANGED <<mode, arg, size, edits, plan>>
        /\ ~Refused(mode, arg) /\ chunkSize' = ChunkSize(mode, arg, size)
        /\ ChunkSize(mode, arg, size) > 0
    BY <1>2 DEF RunClient
  <2>2. ASSUME mode = "count"
        PROVE  /\ arg \in Nat \ {0} /\ chunkSize' = DivCeil(size, arg)
               /\ size > 0
    <3>1. arg \in Nat \ {0}
      BY <1>1, <2>1, <2>2, GeometryAssumption DEF Refused
    <3>2. chunkSize' = DivCeil(size, arg) /\ DivCeil(size, arg) > 0
      BY <2>1, <2>2 DEF ChunkSize
    <3>3. size # 0
      <4> SUFFICES ASSUME size = 0 PROVE FALSE
        OBVIOUS
      <4>1. (0 + arg - 1) \div arg = 0
        BY <3>1
      <4> QED BY <3>2, <4>1 DEF DivCeil
    <3> QED BY <1>1, <3>1, <3>2, <3>3
  <2> QED BY <2>1, <2>2 DEF CountInv, CountIsLimit
<1>3. CASE SetupTransfer
  <2>1. /\ UNCHANGED <<mode, arg, size, edits>> /\ pc = "planned"
        /\ pc' # "planned" /\ plan'.num = NumChunks(size, chunkSize)
    BY <1>3 DEF SetupTransfer, cli
  <2>2. ASSUME mode = "count", edits = 0
        PROVE  plan'.num =< arg /\ (size % arg = 0 => plan'.num = arg)
    <3>1. /\ arg \in Nat \ {0} /\ size \in Nat \ {0}
          /\ chunkSize = DivCeil(size, arg)
      BY <1>1, <2>1, <2>2 DEF CountInv
    <3>2. NumChunks(size, chunkSize) = DivCeil(size, DivCeil(size, arg))
      BY <3>1 DEF NumChunks
    <3> QED BY <2>1, <3>1, <3>2, RoundedTwice
  <2> QED BY <2>1, <2>2 DEF CountInv, CountIsLimit
<1>4. CASE BadArgument \/ ZeroChunk \/ BuildHandshake \/ ParseHandshake
  BY <1>4 DEF BadArgument, ZeroChunk, BuildHandshake, ParseHandshake, cli,
              CountInv, CountIsLimit
<1>5. CASE \E i \in 0 .. MaxSize : SendChunk(i)
  BY <1>5 DEF SendChunk, ProcessChunk, cli, CountInv, CountIsLimit
<1>6. CASE \E n \in Size : EditSource(n)
  <2>1. edits' = edits + 1
    BY <1>6 DEF EditSource
  <2>2. edits' # 0
    BY <1>1, <2>1
  <2> QED BY <2>2 DEF CountInv, CountIsLimit
<1>7. CASE UNCHANGED vars
  BY <1>7 DEF vars, cli, CountInv, CountIsLimit
<1> QED BY <1>2, <1>3, <1>4, <1>5, <1>6, <1>7 DEF Next

(* --chunk-count never makes more chunks than it says, and makes exactly   *)
(* as many when it divides the size (main.rs, setup_transfer).             *)
THEOREM CountIsKept == Spec => []CountIsLimit
<1>1. Init => CountInv
  BY DEF Init, CountInv, CountIsLimit
<1>2. CountInv => CountIsLimit
  BY DEF CountInv
<1> QED BY TypeInit, TypeStep, <1>1, CountStep, <1>2, PTL DEF Spec

-----------------------------------------------------------------------------
(* Where assemble puts the parts                                           *)

(* What the server stores is what it expects for the offer it accepted,    *)
(* and has come in one frame.                                              *)
TileInv ==
  /\ pc \in Announced => /\ offer.chunk = chunkSize % Width
                         /\ offer.size > 0 => Last * chunkSize < offer.size
  /\ pc = "sending" => Acceptable(offer)
  /\ \A i \in Index : stored[i] # None =>
       /\ pc \in Announced
       /\ stored[i] = ExpectedSize(offer, i)
       /\ ~TooLong(stored[i])

LEMMA TileOffer ==
  ASSUME TypeInv, TileInv, BuildHandshake
  PROVE  TileInv'
<1> DEFINE m == NumChunks(size, chunkSize)
<1>1. /\ chunkSize \in Nat \ {0} /\ size \in Nat /\ Width \in Nat \ {0}
  BY GeometryAssumption DEF BuildHandshake, TypeInv, TypeOK, Chosen, Size
<1>2. /\ m \in Nat \ {0} /\ (m - 1) * chunkSize =< size
      /\ size > 0 => (m - 1) * chunkSize < size
  BY <1>1, ChunkCount
<1>3. /\ offer'.size = size /\ offer'.chunk = chunkSize % Width
      /\ offer'.num = m % Width
      /\ pc = "setup" /\ pc' = "offered" /\ UNCHANGED <<stored, chunkSize>>
  BY DEF BuildHandshake, cli
<1> HIDE DEF m
<1>4. m % Width \in 0 .. Width - 1 /\ m % Width =< m
  BY <1>1, <1>2, Field
<1> DEFINE a == m % Width
<1>5. a \in Nat /\ a =< m
  BY <1>1, <1>4
<1> HIDE DEF a
<1>6. size > 0 => (a - 1) * chunkSize < size
  <2>1. CASE a = 0
    <3>1. (a - 1) * chunkSize = -chunkSize
      BY <1>1, <2>1
    <3> QED BY <1>1, <3>1
  <2>2. CASE a > 0
    <3>1. a - 1 \in Nat /\ m - 1 \in Nat /\ a - 1 =< m - 1
      BY <1>2, <1>5, <2>2
    <3>2. (a - 1) * chunkSize \in Nat
          /\ (a - 1) * chunkSize =< (m - 1) * chunkSize
      BY <1>1, <3>1, Monotone
    <3>3. (m - 1) * chunkSize \in Nat
      BY <1>1, <3>1
    <3> QED BY <1>1, <1>2, <3>2, <3>3
  <2> QED BY <1>5, <2>1, <2>2
<1>7. \A i \in Index : stored'[i] = None
  BY <1>3 DEF TileInv, Announced
<1>8. offer'.size > 0 => (offer'.num - 1) * chunkSize' < offer'.size
  BY <1>3, <1>6 DEF a
<1> QED BY <1>3, <1>7, <1>8 DEF TileInv, Last

LEMMA TileSend ==
  ASSUME TypeInv, TileInv, NEW i \in Nat, SendChunk(i)
  PROVE  TileInv'
<1>1. /\ pc = "sending" /\ Acceptable(offer)
      /\ UNCHANGED <<chunkSize, offer>>
  BY DEF SendChunk, TileInv, cli
<1>2. pc' \in Announced
  BY DEF SendChunk, ProcessChunk, Announced
<1>3. CASE stored' = stored
  BY <1>1, <1>2, <1>3 DEF TileInv, Last, Announced, Acceptable, ExpectedSize,
     Remainder, TooLong
<1>4. CASE stored' # stored
  <2> DEFINE len == ReadSize(i)
  <2>1. ~TooLong(len) /\ ProcessChunk(i, len)
    BY <1>4 DEF SendChunk
  <2> HIDE DEF len
  <2>2. /\ i < offer.num /\ len = ExpectedSize(offer, i)
        /\ stored' = [stored EXCEPT ![i] = len]
    BY <1>4, <2>1 DEF ProcessChunk
  <2>3. \A j \in Index : stored'[j] # None =>
          stored'[j] = ExpectedSize(offer, j) /\ ~TooLong(stored'[j])
    BY <2>1, <2>2 DEF TileInv, TypeInv, TypeOK
  <2> QED
    BY <1>1, <1>2, <2>3 DEF TileInv, Last, Announced, Acceptable,
       ExpectedSize, Remainder, TooLong
<1> QED BY <1>3, <1>4

LEMMA TileStep ==
  ASSUME TypeInv, TileInv, [Next]_vars
  PROVE  TileInv'
<1> USE DEF cli
<1>1. CASE BuildHandshake
  BY <1>1, TileOffer
<1>2. CASE \E i \in 0 .. MaxSize : SendChunk(i)
  BY <1>2, TileSend, GeometryAssumption
<1>3. CASE BadArgument \/ ZeroChunk \/ RunClient \/ SetupTransfer
  BY <1>3 DEF BadArgument, ZeroChunk, RunClient, SetupTransfer, TileInv,
     Announced
<1>4. CASE ParseHandshake
  BY <1>4 DEF ParseHandshake, TileInv, Announced, Last, ExpectedSize,
     Remainder, TooLong, Acceptable
<1>5. CASE (\E n \in Size : EditSource(n)) \/ UNCHANGED vars
  <2>1. UNCHANGED <<pc, offer, chunkSize, stored>>
    BY <1>5 DEF EditSource, vars
  <2> QED BY <2>1 DEF TileInv, Last, ExpectedSize, Remainder, TooLong,
             Acceptable
<1> QED BY <1>1, <1>2, <1>3, <1>4, <1>5 DEF Next

(* A chunk size that does not fit its field is found out by the last part, *)
(* which would have to be longer than a frame.                             *)
LEMMA ChunkFits ==
  ASSUME NEW n \in Nat, NEW k \in Nat \ {0}, NEW z \in Nat,
         NEW w \in Nat \ {0}, NEW r \in Nat,
         n > 0, n * k < z, r = z - n * (k % w), r < w
  PROVE  k % w = k
<1> SUFFICES ASSUME k % w # k PROVE FALSE
  OBVIOUS
<1>1. k % w \in Nat /\ k \div w \in Nat /\ k = (k \div w) * w + (k % w)
  OBVIOUS
<1> DEFINE q == k \div w
           b == k % w
<1>2. q \in Nat /\ b \in Nat /\ k = q * w + b /\ b # k
  BY <1>1
<1> HIDE DEF q, b
<1>3. q # 0
  <2>1. q = 0 => q * w = 0
    OBVIOUS
  <2> QED BY <1>2, <2>1
<1>4. q * w \in Nat /\ w =< q * w
  <2>1. 1 * w =< q * w /\ q * w \in Nat
    <3>1. q * w \in Nat /\ 1 =< q
      BY <1>2, <1>3
    <3> QED BY <1>2, <3>1, Monotone
  <2> QED BY <2>1
<1>5. 1 * w =< n * (q * w)
  <2>1. 1 =< n /\ w \in Nat /\ 1 \in Nat
    OBVIOUS
  <2> QED BY <1>4, <2>1, Monotone
<1>6. n * k = n * (q * w) + n * b
  BY <1>2, <1>4
<1>7. n * b \in Nat /\ n * (q * w) \in Nat /\ r = z - n * b
  BY <1>2, <1>4 DEF b
<1> QED BY <1>5, <1>6, <1>7

LEMMA LeastElement ==
  ASSUME NEW S \in SUBSET Nat, S # {}
  PROVE  \E x \in S : \A y \in S : ~(y < x)
<1> DEFINE R == OpToRel(<, Nat)
<1>1. R = {p \in Nat \X Nat : p[1] < p[2]}
  BY DEF OpToRel
<1>2. IsWellFoundedOn(R, Nat)
  BY NatLessThanWellFounded
<1> HIDE DEF R
<1>3. PICK x \in S : \A y \in S : ~(<<y, x>> \in R)
  BY <1>2, WFMin
<1>4. \A y \in Nat : y < x => <<y, x>> \in R
  BY <1>1
<1> QED BY <1>3, <1>4

(* The sums of n parts of length k and one more, up to z.                  *)
Sums(n, p, g) ==
  g = [i \in 0 .. n + 1 |-> IF i = 0 THEN 0 ELSE g[i - 1] + p[i - 1]]

Tiles(n, k, z) == [i \in 0 .. n + 1 |-> IF i =< n THEN i * k ELSE z]

Even(n, k, z, p) == /\ \A i \in Nat : i < n => p[i] = k
                    /\ p[n] = z - n * k

LEMMA TilesSum ==
  ASSUME NEW n \in Nat, NEW k \in Nat, NEW z \in Nat, NEW p, Even(n, k, z, p)
  PROVE  Sums(n, p, Tiles(n, k, z))
<1> DEFINE t == Tiles(n, k, z)
<1>1. \A i \in 0 .. n + 1 : t[i] = IF i =< n THEN i * k ELSE z
  BY DEF Tiles
<1> HIDE DEF t
<1>2. ASSUME NEW i \in 0 .. n + 1
      PROVE  t[i] = IF i = 0 THEN 0 ELSE t[i - 1] + p[i - 1]
  <2>1. CASE i = 0
    <3>1. t[i] = i * k
      BY <1>1, <2>1
    <3> QED BY <2>1, <3>1
  <2>2. CASE i # 0 /\ i =< n
    <3>1. i - 1 \in Nat /\ i - 1 \in 0 .. n + 1 /\ i - 1 =< n /\ i - 1 < n
      BY <2>2
    <3>2. t[i] = i * k /\ t[i - 1] = (i - 1) * k /\ p[i - 1] = k
      BY <1>1, <2>2, <3>1 DEF Even
    <3>3. i * k = (i - 1) * k + k
      BY <3>1
    <3> QED BY <2>2, <3>2, <3>3
  <2>3. CASE i = n + 1
    <3>1. i - 1 = n /\ n \in 0 .. n + 1 /\ ~(i =< n) /\ i # 0
      BY <2>3
    <3>2. t[i] = z /\ t[n] = n * k /\ p[n] = z - n * k
      BY <1>1, <3>1 DEF Even
    <3>3. n * k \in Nat
      OBVIOUS
    <3> QED BY <3>1, <3>2, <3>3
  <2> QED BY <2>1, <2>2, <2>3
<1>3. t = [i \in 0 .. n + 1 |-> t[i]]
  BY DEF t, Tiles
<1> QED BY <1>2, <1>3 DEF Sums, t

LEMMA SumsUnique ==
  ASSUME NEW n \in Nat, NEW p, NEW g, NEW h, Sums(n, p, g), Sums(n, p, h)
  PROVE  \A i \in 0 .. n + 1 : g[i] = h[i]
<1> DEFINE Bad == {i \in 0 .. n + 1 : g[i] # h[i]}
<1> SUFFICES ASSUME Bad # {} PROVE FALSE
  OBVIOUS
<1>1. Bad \in SUBSET Nat
  OBVIOUS
<1>2. PICK x \in Bad : \A y \in Bad : ~(y < x)
  BY <1>1, LeastElement
<1>3. x \in 0 .. n + 1 /\ g[x] # h[x]
  OBVIOUS
<1>4. /\ g[x] = IF x = 0 THEN 0 ELSE g[x - 1] + p[x - 1]
      /\ h[x] = IF x = 0 THEN 0 ELSE h[x - 1] + p[x - 1]
  BY <1>3 DEF Sums
<1>5. x # 0
  BY <1>3, <1>4
<1>6. x - 1 \in 0 .. n + 1 /\ x - 1 < x
  BY <1>3, <1>5
<1>7. x - 1 \notin Bad
  BY <1>2, <1>6
<1> QED BY <1>3, <1>4, <1>5, <1>6, <1>7

(* The length of every part is checked on its own, and the server ignores  *)
(* the offsets: the parts still tile the file that was announced, even if  *)
(* a field was truncated and the source changed between two chunks.        *)
THEOREM StoredPartsTile == Spec => []PartsTile
<1>1. ASSUME TypeInv, TileInv PROVE PartsTile
  <2> SUFFICES ASSUME pc = "sending", offer.size > 0,
                      \A i \in 0 .. Last : stored[i] # None
               PROVE  /\ \A i \in 0 .. Last : Position[i] = i * chunkSize
                      /\ Position[offer.num] = offer.size
    BY DEF PartsTile
  <2> DEFINE n == Last
             k == chunkSize
             z == offer.size
  <2>1. /\ offer.num \in Nat \ {0} /\ offer.num =< MaxChunks
        /\ z \in Nat \ {0} /\ offer.chunk = k % Width /\ n * k < z
        /\ k \in Nat \ {0}
    BY <1>1, GeometryAssumption DEF TileInv, TypeInv, TypeOK, Chosen, Size,
       Announced, Acceptable
  <2>2. n \in Nat /\ offer.num = n + 1 /\ 0 .. n \subseteq Index
    BY <2>1, GeometryAssumption DEF Last, Index
  <2>3. \A i \in 0 .. n : /\ stored[i] = ExpectedSize(offer, i)
                          /\ ~TooLong(stored[i]) /\ stored[i] \in Nat
    BY <1>1, <2>2 DEF TileInv, TypeInv, TypeOK
  <2> HIDE DEF n, k, z
  <2>4. Remainder(offer) = z - n * (k % Width)
    BY <2>1, <2>2 DEF Remainder, z
  <2>5. Width \in Nat \ {0} /\ k % Width \in Nat /\ k % Width =< k
    <3>1. Width \in Nat \ {0} /\ k \in Nat
      BY <2>1, GeometryAssumption
    <3>2. k % Width \in 0 .. Width - 1 /\ k % Width =< k
      BY <3>1, Field
    <3> QED BY <3>1, <3>2
  <2>6. n * (k % Width) \in Nat /\ n * (k % Width) =< n * k /\ n * k \in Nat
    BY <2>1, <2>2, <2>5, Monotone
  <2>7. Remainder(offer) \in Nat \ {0}
    BY <2>1, <2>4, <2>6
  <2>8. stored[n] = Remainder(offer) /\ Remainder(offer) < Width
    <3>1. n = offer.num - 1 /\ n \in 0 .. n
      BY <2>2
    <3>2. stored[n] = Remainder(offer)
      BY <2>3, <2>7, <3>1 DEF ExpectedSize
    <3>3. ~(Remainder(offer) + Overhead > MaxPayload)
      BY <2>3, <3>1, <3>2 DEF TooLong
    <3> QED BY <2>7, <3>2, <3>3, GeometryAssumption, FrameAssumption
  <2>9. n > 0 => k % Width = k
    BY <2>1, <2>2, <2>4, <2>5, <2>7, <2>8, ChunkFits
  <2>10. Even(n, k, z, stored)
    <3>1. ASSUME NEW i \in Nat, i < n PROVE stored[i] = k
      <4>1. i \in 0 .. n /\ i # offer.num - 1 /\ n > 0
        BY <2>2, <3>1
      <4> QED BY <2>1, <2>3, <2>9, <4>1 DEF ExpectedSize
    <3>2. stored[n] = z - n * k
      <4>1. n = 0 => n * k = 0 /\ n * (k % Width) = 0
        BY <2>1, <2>5
      <4> QED BY <2>2, <2>4, <2>8, <2>9, <4>1
    <3> QED BY <3>1, <3>2 DEF Even
  <2>11. Sums(n, stored, Tiles(n, k, z))
    BY <2>1, <2>2, <2>10, TilesSum
  <2>12. Sums(n, stored, Position)
    BY <2>2, <2>11 DEF Sums, Position
  <2>13. \A i \in 0 .. n + 1 : Position[i] = Tiles(n, k, z)[i]
    BY <2>2, <2>11, <2>12, SumsUnique
  <2>14. \A i \in 0 .. n + 1 :
           Tiles(n, k, z)[i] = IF i =< n THEN i * k ELSE z
    BY DEF Tiles
  <2>15. \A i \in 0 .. n : Position[i] = i * k
    BY <2>2, <2>13, <2>14
  <2>16. Position[n + 1] = z
    BY <2>2, <2>13, <2>14
  <2> QED BY <2>2, <2>15, <2>16 DEF n, k, z
<1>2. Init => TileInv
  BY DEF Init, TileInv, Announced
<1> QED BY TypeInit, TypeStep, TileStep, <1>1, <1>2, PTL DEF Spec
=============================================================================
