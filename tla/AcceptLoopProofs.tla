-------------------------- MODULE AcceptLoopProofs --------------------------
(***************************************************************************)
(* For any number of clients and any limit: the permits of conn_semaphore  *)
(* and the connections that hold one always add up to the limit.           *)
(***************************************************************************)
EXTENDS AcceptLoop, FiniteSetTheorems, TLAPS

(* As long as the loop runs.                                               *)
Accounted ==
  loop = "running" => permits + Cardinality(Active) = MaxConnections

LoopInv == TypeOK /\ Accounted

LEMMA ActiveFinite == IsFiniteSet(Active) /\ Cardinality(Active) \in Nat
<1>1. Active \subseteq Client
  BY DEF Active
<1> QED BY <1>1, LoopAssumption, FS_Subset, FS_CardinalityType

LEMMA LoopInit == Init => LoopInv
<1> SUFFICES ASSUME Init PROVE LoopInv
  OBVIOUS
<1>1. TypeOK
  <2>1. permits \in 0 .. MaxConnections
    BY LoopAssumption DEF Init
  <2>2. tls \in BOOLEAN /\ shutdown \in BOOLEAN
    BY Zenon DEF Init
  <2>3. loop \in {"running", "stopped"} /\ conn \in [Client -> Conn]
    BY DEF Init, Conn
  <2> QED BY <2>1, <2>2, <2>3 DEF TypeOK
<1>2. Active = {}
  BY DEF Init, Active
<1>3. Cardinality(Active) = 0
  BY <1>2, FS_EmptySet
<1> QED BY <1>1, <1>3, LoopAssumption DEF Init, LoopInv, Accounted

(* A step that leaves the set of active connections alone.                 *)
LEMMA SameActive ==
  ASSUME LoopInv, Active' = Active, UNCHANGED <<permits, loop>>
  PROVE  Accounted'
BY DEF LoopInv, Accounted

(* A task that ends gives back the permit it holds.                        *)
LEMMA TaskEnds ==
  ASSUME LoopInv, NEW c \in Client, NEW l \in {"tls", "handler"},
         loop = "running", Moves(c, l, "away"), permits' = permits + 1,
         UNCHANGED <<tls, loop, shutdown>>
  PROVE  LoopInv'
<1>1. c \in Active /\ Active' = Active \ {c}
  BY DEF LoopInv, TypeOK, Moves, Active
<1>2. Cardinality(Active') = Cardinality(Active) - 1
  BY <1>1, ActiveFinite, FS_RemoveElement
<1>3. Cardinality(Active') \in Nat
  BY <1>1, ActiveFinite, FS_RemoveElement, FS_CardinalityType
<1>4. permits' + Cardinality(Active') = MaxConnections
  BY <1>2, ActiveFinite DEF LoopInv, Accounted, TypeOK
<1>5. permits' \in 0 .. MaxConnections
  BY <1>3, <1>4, LoopAssumption DEF LoopInv, TypeOK
<1>6. conn' \in [Client -> Conn]
  BY DEF LoopInv, TypeOK, Moves, Conn
<1> QED BY <1>4, <1>5, <1>6 DEF LoopInv, Accounted, TypeOK

LEMMA LoopStep == LoopInv /\ [Next]_vars => LoopInv'
<1> SUFFICES ASSUME LoopInv, [Next]_vars PROVE LoopInv'
  OBVIOUS
<1>1. CASE CtrlC
  <2>1. Active' = Active
    BY <1>1 DEF CtrlC, Active
  <2> QED BY <1>1, <2>1, SameActive DEF CtrlC, LoopInv, TypeOK
<1>2. CASE Wake
  BY <1>2 DEF Wake, LoopInv, TypeOK, Accounted, Conn
<1>3. ASSUME NEW c \in Client,
             Arrive(c) \/ Leave(c) \/ Reject(c) \/ AcceptError(c)
                \/ TlsAccept(c)
      PROVE  LoopInv'
  <2>1. /\ UNCHANGED <<tls, loop, shutdown, permits>>
        /\ conn' \in [Client -> Conn]
    BY <1>3 DEF Arrive, Leave, Reject, AcceptError, TlsAccept, Moves, LoopInv,
                TypeOK, Conn
  <2>2. Active' = Active
    BY <1>3 DEF Arrive, Leave, Reject, AcceptError, TlsAccept, Moves, LoopInv,
                TypeOK, Active
  <2> QED BY <2>1, <2>2, SameActive DEF LoopInv, TypeOK
<1>4. ASSUME NEW c \in Client, Accept(c) PROVE LoopInv'
  <2>1. c \notin Active /\ Active' = Active \cup {c}
    BY <1>4 DEF Accept, Moves, LoopInv, TypeOK, Active
  <2>2. Cardinality(Active') = Cardinality(Active) + 1
    BY <2>1, ActiveFinite, FS_AddElement
  <2>3. permits' + Cardinality(Active') = MaxConnections
    BY <1>4, <2>2, ActiveFinite DEF Accept, LoopInv, Accounted, TypeOK
  <2>4. permits' \in 0 .. MaxConnections
    BY <1>4, LoopAssumption DEF Accept, LoopInv, TypeOK
  <2>5. conn' \in [Client -> Conn]
    BY <1>4 DEF Accept, Moves, LoopInv, TypeOK, Conn
  <2> QED BY <1>4, <2>3, <2>4, <2>5 DEF Accept, LoopInv, Accounted, TypeOK
<1>5. ASSUME NEW c \in Client, TlsFails(c) PROVE LoopInv'
  BY <1>5, TaskEnds DEF TlsFails
<1>6. ASSUME NEW c \in Client, HandlerEnds(c) PROVE LoopInv'
  BY <1>6, TaskEnds DEF HandlerEnds
<1>7. CASE UNCHANGED vars
  <2>1. Active' = Active
    BY <1>7 DEF vars, Active
  <2> QED BY <1>7, <2>1, SameActive DEF vars, LoopInv, TypeOK
<1> QED BY <1>1, <1>2, <1>3, <1>4, <1>5, <1>6, <1>7 DEF Next, Answer

(* Permits never exceed the limit, however the tasks end.                  *)
THEOREM LoopTypes == Spec => []TypeOK
<1>1. LoopInv => TypeOK
  BY DEF LoopInv
<1> QED BY LoopInit, LoopStep, <1>1, PTL DEF Spec

(* A connection is refused for the limit only when the limit is reached by *)
(* connections that are being served.                                      *)
THEOREM LimitIsReached == Spec => RejectedOnlyWhenFull
<1> DEFINE Full == \A c \in Client :
                     conn[c] = "queued" /\ conn'[c] = "rejected"
                       /\ loop' = "running"
                     => Cardinality(Active) = MaxConnections
<1>1. LoopInv /\ [Next]_vars => [Full]_vars
  <2> SUFFICES ASSUME LoopInv, Next, NEW c \in Client, conn[c] = "queued",
                      conn'[c] = "rejected", loop' = "running"
               PROVE  Cardinality(Active) = MaxConnections
    OBVIOUS
  <2>1. loop = "running" /\ permits = 0
    BY DEF Next, CtrlC, Wake, Arrive, Leave, Answer, Accept, Reject,
           AcceptError, TlsAccept, TlsFails, HandlerEnds, Moves, LoopInv,
           TypeOK
  <2> QED BY <2>1, ActiveFinite, LoopAssumption DEF LoopInv, Accounted
<1> QED BY LoopInit, LoopStep, <1>1, PTL DEF Spec, RejectedOnlyWhenFull
=============================================================================
