------------------------- MODULE SocketTableProofs -------------------------
(***************************************************************************)
(* The socket table implements the map from handles to sockets, for any    *)
(* number of entries (at least two) and any number of generations.         *)
(*                                                                         *)
(* The argument: the handle made at probe number n is FirstHandle + n, and *)
(* probe numbers only grow.                                                *)
(***************************************************************************)
EXTENDS SocketTable, TLAPS

-----------------------------------------------------------------------------
(***************************************************************************)
(* Division, remainder and handles.                                        *)
(***************************************************************************)
LEMMA DivMod ==
    ASSUME NEW n \in Nat, NEW m \in Nat \ {0}
    PROVE  /\ n \div m \in Nat /\ n % m \in 0 .. m - 1
           /\ n = (n \div m) * m + (n % m)
OBVIOUS

LEMMA DivModUnique ==
    ASSUME NEW n \in Nat, NEW m \in Nat \ {0}, NEW q \in Nat, NEW r \in 0 .. m - 1,
           n = q * m + r
    PROVE  n \div m = q /\ n % m = r
OBVIOUS

LEMMA Product ==
    ASSUME NEW a \in Nat, NEW b \in Nat
    PROVE  a * b \in Nat
OBVIOUS

LEMMA Distribute ==
    ASSUME NEW a \in Nat, NEW b \in Nat, NEW c \in Nat
    PROVE  (a + b) * c = a * c + b * c
OBVIOUS

LEMMA ConstantTypes ==
    /\ MaxSockets \in Nat \ {0} /\ MaxSockets >= 2
    /\ MaxGeneration \in Nat /\ Generations \in Nat \ {0}
    /\ ProbeBound \in Nat
BY SocketTableAssumption DEF Generations

LEMMA FirstHandleIs == FirstHandle = Generations * MaxSockets /\ FirstHandle \in Nat \ {0}
<1>1. 1 * Generations + 0 = Generations
  BY ConstantTypes
<1>2. Generations * MaxSockets \in Nat \ {0}
  BY ConstantTypes
<1>3. Generations * MaxSockets + 0 = Generations * MaxSockets
  BY <1>2
<1> QED BY <1>1, <1>2, <1>3 DEF FirstHandle, make_handle, SocketType

\* The handle of probe n is FirstHandle + n ...
LEMMA MadeHandle ==
    ASSUME NEW n \in Nat
    PROVE  make_handle(SocketType, n \div MaxSockets, n % MaxSockets) = FirstHandle + n
<1> DEFINE q == n \div MaxSockets
           r == n % MaxSockets
<1>1. q \in Nat /\ r \in Nat /\ n = q * MaxSockets + r
  BY DivMod, ConstantTypes
<1> HIDE DEF q, r
<1>2. 1 * Generations + q = Generations + q
  BY ConstantTypes
<1>3. (Generations + q) * MaxSockets = FirstHandle + q * MaxSockets
  BY <1>1, Distribute, ConstantTypes, FirstHandleIs
<1>4. q * MaxSockets \in Nat
  BY <1>1, Product, ConstantTypes
<1>5. make_handle(1, q, r) = (FirstHandle + q * MaxSockets) + r
  BY <1>2, <1>3 DEF make_handle
<1>6. make_handle(1, q, r) = FirstHandle + n
  BY <1>1, <1>4, <1>5, FirstHandleIs
<1> QED BY <1>6 DEF SocketType, q, r

\* ... and it is a socket handle of index n % MaxSockets, until generations run out.
LEMMA HandleParts ==
    ASSUME NEW n \in Nat, handle_generation_valid(n \div MaxSockets)
    PROVE  /\ handle_type(FirstHandle + n) = SocketType
           /\ handle_index(FirstHandle + n) = n % MaxSockets
           /\ FirstHandle + n \in HandleSpace
<1> DEFINE q == n \div MaxSockets
           r == n % MaxSockets
           b == FirstHandle
<1>1. q \in Nat /\ r \in 0 .. MaxSockets - 1 /\ n = q * MaxSockets + r
  BY DivMod, ConstantTypes
<1>2. q <= MaxGeneration
  BY DEF handle_generation_valid
<1>3. b = Generations * MaxSockets /\ b \in Nat \ {0}
  BY FirstHandleIs
<1> HIDE DEF q, r, b
<1>4. n < b
  <2>1. PICK d \in Nat : q + 1 + d = Generations
    <3>1. Generations - (q + 1) \in Nat /\ q + 1 + (Generations - (q + 1)) = Generations
      BY <1>1, <1>2, ConstantTypes DEF Generations
    <3> QED BY <3>1
  <2>2. b = (q + 1) * MaxSockets + d * MaxSockets
    BY <1>1, <1>3, <2>1, Distribute, ConstantTypes
  <2>3. (q + 1) * MaxSockets = q * MaxSockets + MaxSockets
    BY <1>1, Distribute, ConstantTypes
  <2>4. q * MaxSockets \in Nat /\ d * MaxSockets \in Nat
    BY <1>1, <2>1, Product, ConstantTypes
  <2> QED BY <1>1, <2>2, <2>3, <2>4, ConstantTypes
<1>5. (b + n) \div b = 1
  <2>1. b + n \in Nat /\ n \in 0 .. b - 1 /\ b + n = 1 * b + n
    BY <1>3, <1>4
  <2> QED BY <1>3, <2>1, DivModUnique
<1>6. (b + n) % MaxSockets = r
  <2>1. (Generations + q) * MaxSockets = b + q * MaxSockets /\ q * MaxSockets \in Nat
    BY <1>1, <1>3, Distribute, Product, ConstantTypes
  <2>2. b + n = (Generations + q) * MaxSockets + r
    BY <1>1, <1>3, <2>1
  <2>3. b + n \in Nat /\ Generations + q \in Nat
    BY <1>1, <1>3, ConstantTypes
  <2> QED BY <1>1, <2>2, <2>3, DivModUnique, ConstantTypes
<1>7. b + n \in 0 .. 2 * Generations * MaxSockets - 1
  <2>1. 2 * Generations * MaxSockets = b + b
    <3>1. 2 * Generations = Generations + Generations
      BY ConstantTypes
    <3> QED BY <1>3, <3>1, Distribute, ConstantTypes
  <2> QED BY <1>3, <1>4, <2>1
<1>8. handle_type(b + n) = 1 /\ handle_index(b + n) = r
  BY <1>3, <1>5, <1>6 DEF handle_type, handle_index
<1> QED BY <1>7, <1>8 DEF SocketType, HandleSpace, b, r

\* k probes, no more than there are slots, pass at most one multiple of MaxSockets.
LEMMA GenerationFollows ==
    ASSUME next_slot \in Nat, generation = next_slot \div MaxSockets,
           NEW k \in 0 .. MaxSockets
    PROVE  GenerationAfter(k) = (next_slot + k) \div MaxSockets
<1> DEFINE q == next_slot \div MaxSockets
           r == next_slot % MaxSockets
           m == MaxSockets
<1>1. q \in Nat /\ r \in 0 .. m - 1 /\ next_slot = q * m + r
  BY DivMod, ConstantTypes
<1>2. m \in Nat \ {0} /\ m >= 2 /\ k \in Nat /\ k <= m
  BY ConstantTypes
<1>3. MaxSockets = m /\ generation = q
  OBVIOUS
<1> HIDE DEF q, r, m
<1> DEFINE p == q * m
<1>4. p \in Nat /\ (q + 1) * m = p + m /\ next_slot = p + r
  BY <1>1, <1>2, Product, Distribute
<1>5. q * m = p
  OBVIOUS
<1> HIDE DEF p
<1>6. CASE r + k < m
  <2>1. (next_slot + k) \div m = q
    <3>1. next_slot + k \in Nat /\ r + k \in 0 .. m - 1 /\ next_slot + k = q * m + (r + k)
      BY <1>1, <1>2, <1>4, <1>5, <1>6
    <3> QED BY <1>1, <1>2, <3>1, DivModUnique
  <2>2. ~ WrapsWithin(k)
    <3>1. SUFFICES ASSUME NEW n \in next_slot + 1 .. next_slot + k, n % m = 0 PROVE FALSE
      BY <1>3 DEF WrapsWithin
    <3>2. n \in Nat /\ n - p \in 0 .. m - 1 /\ n - p > 0 /\ n = q * m + (n - p)
      BY <1>1, <1>2, <1>4, <1>5, <1>6, <3>1
    <3>3. n % m = n - p
      BY <1>1, <1>2, <3>2, DivModUnique
    <3> QED BY <3>1, <3>2, <3>3
  <2> QED BY <1>3, <2>1, <2>2 DEF GenerationAfter
<1>7. CASE r + k >= m
  <2>1. (next_slot + k) \div m = q + 1
    <3>1. /\ next_slot + k \in Nat /\ r + k - m \in 0 .. m - 1 /\ q + 1 \in Nat
          /\ next_slot + k = (q + 1) * m + (r + k - m)
      BY <1>1, <1>2, <1>4, <1>7
    <3> QED BY <1>2, <3>1, DivModUnique
  <2>2. WrapsWithin(k)
    <3>1. /\ (q + 1) * m \in next_slot + 1 .. next_slot + k /\ (q + 1) * m >= 2
          /\ (q + 1) * m \in Nat /\ q + 1 \in Nat
          /\ (q + 1) * m = (q + 1) * m + 0 /\ 0 \in 0 .. m - 1
      BY <1>1, <1>2, <1>4, <1>7
    <3>2. ((q + 1) * m) % m = 0
      BY <1>2, <3>1, DivModUnique
    <3> QED BY <1>3, <3>1, <3>2 DEF WrapsWithin
  <2> QED BY <1>3, <2>1, <2>2 DEF GenerationAfter
<1> QED BY <1>1, <1>2, <1>3, <1>6, <1>7

\* The zero handle is not the handle of a socket.
LEMMA ZeroFindsNothing == handle_type(InvalidHandle) # SocketType
<1> DEFINE b == Generations * MaxSockets
<1>1. b \in Nat \ {0}
  BY FirstHandleIs
<1> HIDE DEF b
<1>2. 0 = 0 * b + 0 /\ 0 \in 0 .. b - 1
  BY <1>1
<1>3. 0 \div b = 0
  BY <1>1, <1>2, DivModUnique
<1> QED BY <1>3 DEF handle_type, InvalidHandle, SocketType, b

-----------------------------------------------------------------------------
(***************************************************************************)
(* The inductive invariant.                                                *)
(***************************************************************************)
TableInv == TableTypeOK /\ TableConsistent

LEMMA InvInit == TableInit => TableInv
<1> SUFFICES ASSUME TableInit PROVE TableInv
  OBVIOUS
<1>1. FreeEntry \in Entry
  BY DEF FreeEntry, Entry, InvalidHandle
<1>2. TableTypeOK
  BY <1>1 DEF TableInit, TableTypeOK
<1>3. 0 \div MaxSockets = 0
  <2>1. 0 = 0 * MaxSockets + 0 /\ 0 \in 0 .. MaxSockets - 1
    BY ConstantTypes
  <2> QED BY <2>1, DivModUnique, ConstantTypes
<1>4. TableConsistent
  BY <1>3 DEF TableInit, TableConsistent, Used, IsFree, FreeEntry
<1> QED BY <1>2, <1>4 DEF TableInv

\* What create does to the table, in terms of the number n of its last probe.
Created(fd, n) ==
    LET i == n % MaxSockets
        h == FirstHandle + n
    IN  /\ n >= next_slot
        /\ i \in Index /\ IsFree(i)
        /\ handle_type(h) = SocketType /\ handle_index(h) = i /\ h \in HandleSpace
        /\ sockets' = [sockets EXCEPT ![i] = NewEntry(h, fd)]
        /\ used' = used \union {h}
        /\ next_slot' = n + 1
        /\ generation' = (n + 1) \div MaxSockets
        /\ open' = open \union {fd} /\ fd \notin open
        /\ UNCHANGED aborted

LEMMA CreateEffects ==
    ASSUME TableInv, NEW fd \in Fds, Create(fd)
    PROVE  \E n \in Nat : Created(fd, n)
<1>1. next_slot \in Nat /\ generation = next_slot \div MaxSockets
  BY DEF TableInv, TableTypeOK, TableConsistent
<1>2. PICK k \in Index :
        /\ FirstFreeProbe(k)
        /\ handle_generation_valid(GenerationAfter(k))
        /\ sockets' = [sockets EXCEPT ![Probe(k)] =
                NewEntry(make_handle(SocketType, GenerationAfter(k), Probe(k)), fd)]
        /\ used' = used \union {make_handle(SocketType, GenerationAfter(k), Probe(k))}
        /\ next_slot' = next_slot + k + 1
        /\ generation' = GenerationAfter(k + 1)
  BY DEF Create
<1>3. fd \notin open /\ open' = open \union {fd} /\ UNCHANGED aborted
  BY DEF Create
<1> DEFINE n == next_slot + k
<1>4. n \in Nat /\ n >= next_slot /\ k \in 0 .. MaxSockets /\ k + 1 \in 0 .. MaxSockets
      /\ next_slot + (k + 1) = n + 1 /\ next_slot + k + 1 = n + 1
  BY <1>1, ConstantTypes DEF Index
<1>5. GenerationAfter(k) = n \div MaxSockets
  BY <1>1, <1>4, GenerationFollows
<1>6. GenerationAfter(k + 1) = (n + 1) \div MaxSockets
  <2>1. GenerationAfter(k + 1) = (next_slot + (k + 1)) \div MaxSockets
    BY <1>1, <1>4, GenerationFollows
  <2> QED BY <1>4, <2>1
<1>7. Probe(k) = n % MaxSockets /\ n % MaxSockets \in Index
  BY <1>4, DivMod, ConstantTypes DEF Probe, Index
<1>8. make_handle(SocketType, GenerationAfter(k), Probe(k)) = FirstHandle + n
  BY <1>4, <1>5, <1>7, MadeHandle
<1>9. /\ handle_type(FirstHandle + n) = SocketType
      /\ handle_index(FirstHandle + n) = n % MaxSockets
      /\ FirstHandle + n \in HandleSpace
  BY <1>2, <1>4, <1>5, HandleParts
<1>10. IsFree(n % MaxSockets)
  BY <1>2, <1>7 DEF FirstFreeProbe
<1> HIDE DEF n
<1>11. Created(fd, n)
  BY <1>2, <1>3, <1>4, <1>6, <1>7, <1>8, <1>9, <1>10 DEF Created
<1> QED BY <1>4, <1>11

LEMMA TypeStep == TableTypeOK /\ TableConsistent /\ [TableNext]_tableVars => TableTypeOK'
<1> SUFFICES ASSUME TableTypeOK, TableConsistent, [TableNext]_tableVars PROVE TableTypeOK'
  OBVIOUS
<1> USE DEF TableTypeOK
<1>1. FreeEntry \in Entry
  BY DEF FreeEntry, Entry, InvalidHandle
<1>2. ASSUME NEW fd \in Fds, Create(fd) PROVE TableTypeOK'
  <2>1. PICK n \in Nat : Created(fd, n)
    BY <1>2, CreateEffects DEF TableInv
  <2>2. NewEntry(FirstHandle + n, fd) \in Entry
    BY FirstHandleIs DEF NewEntry, Entry
  <2>3. n + 1 \in Nat /\ (n + 1) \div MaxSockets \in Nat
    BY DivMod, ConstantTypes
  <2> QED BY <2>1, <2>2, <2>3 DEF Created
<1>3. ASSUME NEW fd \in Fds, CreateExhausted(fd) PROVE TableTypeOK'
  BY <1>3 DEF CreateExhausted
<1>4. ASSUME NEW fd \in Fds, CreateTableFull(fd) PROVE TableTypeOK'
  <2>1. next_slot' \in Nat
    BY <1>4, ConstantTypes DEF CreateTableFull
  <2>2. generation' \in Nat
    BY <1>4 DEF CreateTableFull, GenerationAfter
  <2> QED BY <1>4, <2>1, <2>2 DEF CreateTableFull, closesocket
<1>5. ASSUME NEW h \in Known, Destroy(h) PROVE TableTypeOK'
  BY <1>1, <1>5 DEF Destroy, closesocket
<1>6. ASSUME NEW h \in Known, NEW t \in Timeouts, TableSetReadTimeout(h, t) PROVE TableTypeOK'
  BY <1>6 DEF TableSetReadTimeout, Entry
<1>7. ASSUME NEW h \in Known, NEW t \in Timeouts, TableSetWriteTimeout(h, t) PROVE TableTypeOK'
  BY <1>7 DEF TableSetWriteTimeout, Entry
<1>8. CASE UNCHANGED tableVars
  BY <1>8 DEF tableVars
<1> QED BY <1>2, <1>3, <1>4, <1>5, <1>6, <1>7, <1>8 DEF TableNext

\* What a step that makes no entry leaves true of the entries and the handles.
LEMMA EntriesKept ==
    ASSUME TableInv, TableTypeOK', UNCHANGED <<used, next_slot, generation>>,
           \A i \in Index : sockets'[i].handle \in {sockets[i].handle, InvalidHandle}
    PROVE  TableConsistent'
BY DEF TableInv, TableConsistent, Used, IsFree

LEMMA ConsistentStep == TableInv /\ TableTypeOK' /\ [TableNext]_tableVars => TableConsistent'
<1> SUFFICES ASSUME TableInv, TableTypeOK', [TableNext]_tableVars PROVE TableConsistent'
  OBVIOUS
<1>t. sockets \in [Index -> Entry] /\ next_slot \in Nat /\ used \subseteq Nat
  <2>1. HandleSpace \subseteq Nat
    BY DEF HandleSpace
  <2> QED BY <2>1 DEF TableInv, TableTypeOK
<1>1. ASSUME NEW fd \in Fds, Create(fd) PROVE TableConsistent'
  <2>1. PICK n \in Nat : Created(fd, n)
    BY <1>1, CreateEffects
  <2> DEFINE i == n % MaxSockets
             h == FirstHandle + n
  <2>2. /\ n >= next_slot /\ i \in Index
        /\ handle_type(h) = SocketType /\ handle_index(h) = i
        /\ sockets' = [sockets EXCEPT ![i] = NewEntry(h, fd)]
        /\ used' = used \union {h}
        /\ next_slot' = n + 1 /\ generation' = (n + 1) \div MaxSockets
    BY <2>1 DEF Created
  <2>3. h = FirstHandle + n
    OBVIOUS
  <2> HIDE DEF i, h
  <2>4. generation' = next_slot' \div MaxSockets
    BY <2>2
  <2>5. ASSUME NEW j \in Index, Used(j)'
        PROVE  sockets'[j].handle \in used' /\ handle_index(sockets'[j].handle) = j
    <3>1. CASE j = i
      BY <1>t, <2>2, <3>1 DEF NewEntry
    <3>2. CASE j # i
      <4>1. sockets'[j] = sockets[j] /\ Used(j)
        BY <1>t, <2>2, <2>5, <3>2 DEF Used, IsFree
      <4> QED BY <2>2, <4>1 DEF TableInv, TableConsistent
    <3> QED BY <3>1, <3>2
  <2>6. ASSUME NEW x \in used'
        PROVE  handle_type(x) = SocketType /\ FirstHandle <= x /\ x < FirstHandle + next_slot'
    <3>1. CASE x = h
      BY <2>2, <2>3, <3>1, FirstHandleIs
    <3>2. CASE x \in used
      <4>1. handle_type(x) = SocketType /\ FirstHandle <= x /\ x < FirstHandle + next_slot
        BY <3>2 DEF TableInv, TableConsistent
      <4>2. x \in Nat
        BY <1>t, <3>2
      <4> QED BY <1>t, <2>2, <4>1, <4>2, FirstHandleIs
    <3> QED BY <2>2, <2>6, <3>1, <3>2
  <2> QED BY <2>4, <2>5, <2>6 DEF TableConsistent
<1>2. ASSUME NEW fd \in Fds, CreateExhausted(fd) PROVE TableConsistent'
  BY <1>2, EntriesKept DEF CreateExhausted
<1>3. ASSUME NEW fd \in Fds, CreateTableFull(fd) PROVE TableConsistent'
  <2>1. next_slot' = next_slot + MaxSockets /\ sockets' = sockets /\ used' = used
    BY <1>3 DEF CreateTableFull
  <2>2. generation' = next_slot' \div MaxSockets
    <3>1. MaxSockets \in 0 .. MaxSockets
      BY ConstantTypes
    <3>2. GenerationAfter(MaxSockets) = (next_slot + MaxSockets) \div MaxSockets
      BY <1>t, <3>1, GenerationFollows DEF TableInv, TableConsistent
    <3> QED BY <1>3, <2>1, <3>2 DEF CreateTableFull
  <2>3. ASSUME NEW x \in used
        PROVE  handle_type(x) = SocketType /\ FirstHandle <= x /\ x < FirstHandle + next_slot'
    <3>1. handle_type(x) = SocketType /\ FirstHandle <= x /\ x < FirstHandle + next_slot
      BY DEF TableInv, TableConsistent
    <3>2. x \in Nat
      BY <1>t
    <3> QED BY <1>t, <2>1, <3>1, <3>2, FirstHandleIs, ConstantTypes
  <2> QED BY <2>1, <2>2, <2>3 DEF TableInv, TableConsistent, Used, IsFree
<1>4. ASSUME NEW h \in Known, Destroy(h) PROVE TableConsistent'
  <2>1. \A i \in Index : sockets'[i].handle \in {sockets[i].handle, InvalidHandle}
    BY <1>t, <1>4 DEF Destroy, FreeEntry
  <2> QED BY <1>4, <2>1, EntriesKept DEF Destroy
<1>5. ASSUME NEW h \in Known, NEW t \in Timeouts, TableSetReadTimeout(h, t) PROVE TableConsistent'
  <2>1. \A i \in Index : sockets'[i].handle \in {sockets[i].handle, InvalidHandle}
    BY <1>t, <1>5 DEF TableSetReadTimeout, Entry
  <2> QED BY <1>5, <2>1, EntriesKept DEF TableSetReadTimeout
<1>6. ASSUME NEW h \in Known, NEW t \in Timeouts, TableSetWriteTimeout(h, t) PROVE TableConsistent'
  <2>1. \A i \in Index : sockets'[i].handle \in {sockets[i].handle, InvalidHandle}
    BY <1>t, <1>6 DEF TableSetWriteTimeout, Entry
  <2> QED BY <1>6, <2>1, EntriesKept DEF TableSetWriteTimeout
<1>7. CASE UNCHANGED tableVars
  BY <1>7, EntriesKept DEF tableVars
<1> QED BY <1>1, <1>2, <1>3, <1>4, <1>5, <1>6, <1>7 DEF TableNext

LEMMA TableInvariant == TableSpec => []TableInv
<1>1. TableInv /\ [TableNext]_tableVars => TableInv'
  BY TypeStep, ConsistentStep DEF TableInv
<1> QED BY InvInit, <1>1, PTL DEF TableSpec

(***************************************************************************)
(* The entries, the counters and the handles have their types; no handle   *)
(* overflows the bits it has.                                              *)
(***************************************************************************)
THEOREM TableTypeCorrect == TableSpec => []TableTypeOK
<1>1. TableInv => TableTypeOK
  BY DEF TableInv
<1> QED BY TableInvariant, <1>1, PTL

(***************************************************************************)
(* The table, its counters and the handles that were given out agree: the  *)
(* entry at an index holds a handle of that index, and every handle was    *)
(* made for a probe that is over (info.cpp, minimk_socket_info_create).    *)
(***************************************************************************)
THEOREM TableStaysConsistent == TableSpec => []TableConsistent
<1>1. TableInv => TableConsistent
  BY DEF TableInv
<1> QED BY TableInvariant, <1>1, PTL

-----------------------------------------------------------------------------
(***************************************************************************)
(* Descriptors.                                                            *)
(***************************************************************************)
LEMMA DescriptorsStep ==
    TableInv /\ DescriptorsHaveOneEntry /\ [TableNext]_tableVars => DescriptorsHaveOneEntry'
<1> SUFFICES ASSUME TableInv, DescriptorsHaveOneEntry, [TableNext]_tableVars
             PROVE  DescriptorsHaveOneEntry'
  OBVIOUS
<1>t. sockets \in [Index -> Entry] /\ used \subseteq Nat
  <2>1. HandleSpace \subseteq Nat
    BY DEF HandleSpace
  <2> QED BY <2>1 DEF TableInv, TableTypeOK
<1>d. /\ \A x : x \in open <=> \E i \in Index : Used(i) /\ x = sockets[i].fd
      /\ \A i, j \in Index : Used(i) /\ Used(j) /\ sockets[i].fd = sockets[j].fd => i = j
  BY DEF DescriptorsHaveOneEntry
<1>u. ASSUME /\ \A x : x \in open' <=> \E i \in Index : Used(i)' /\ x = sockets'[i].fd
             /\ \A i, j \in Index :
                    Used(i)' /\ Used(j)' /\ sockets'[i].fd = sockets'[j].fd => i = j
      PROVE  DescriptorsHaveOneEntry'
  BY <1>u DEF DescriptorsHaveOneEntry
<1>1. ASSUME NEW fd \in Fds, Create(fd) PROVE DescriptorsHaveOneEntry'
  <2>1. PICK n \in Nat : Created(fd, n)
    BY <1>1, CreateEffects
  <2>2. PICK k \in Index : /\ ~ Used(k)
                           /\ sockets' = [sockets EXCEPT ![k] = NewEntry(FirstHandle + n, fd)]
    BY <2>1 DEF Created, Used
  <2>3. FirstHandle + n # InvalidHandle
    BY FirstHandleIs DEF InvalidHandle
  <2>4. sockets'[k].fd = fd /\ Used(k)'
    BY <1>t, <2>2, <2>3 DEF NewEntry, Used, IsFree
  <2>5. \A j \in Index \ {k} : sockets'[j] = sockets[j] /\ (Used(j)' <=> Used(j))
    BY <1>t, <2>2 DEF Used, IsFree
  <2>6. fd \notin open /\ open' = open \union {fd}
    BY <2>1 DEF Created
  <2> QED BY <1>d, <1>u, <2>2, <2>4, <2>5, <2>6
<1>2. ASSUME NEW fd \in Fds, CreateExhausted(fd) PROVE DescriptorsHaveOneEntry'
  BY <1>2, <1>d, <1>u DEF CreateExhausted, Used, IsFree
<1>3. ASSUME NEW fd \in Fds, CreateTableFull(fd) PROVE DescriptorsHaveOneEntry'
  <2>1. open' = open /\ sockets' = sockets
    BY <1>3 DEF CreateTableFull, closesocket
  <2> QED BY <1>d, <1>u, <2>1 DEF Used, IsFree
<1>4. ASSUME NEW h \in Known, Destroy(h) PROVE DescriptorsHaveOneEntry'
  <2> DEFINE k == handle_index(h)
  <2>1. /\ sockets' = [sockets EXCEPT ![k] = FreeEntry]
        /\ open' = open \ {sockets[k].fd}
        /\ sockets[k].handle = h /\ h # InvalidHandle /\ h \in used
    BY <1>4, ZeroFindsNothing DEF Destroy, Finds, closesocket, Known
  <2>2. k \in Index /\ Used(k)
    <3>1. k \in Index
      BY <1>t, <2>1, DivMod, ConstantTypes DEF handle_index, Index
    <3> QED BY <2>1, <3>1 DEF Used, IsFree
  <2> HIDE DEF k
  <2>3. ~ Used(k)'
    BY <1>t, <2>1, <2>2 DEF FreeEntry, Used, IsFree
  <2>4. \A j \in Index \ {k} : sockets'[j] = sockets[j] /\ (Used(j)' <=> Used(j))
    BY <1>t, <2>1 DEF Used, IsFree
  <2> QED BY <1>d, <1>u, <2>1, <2>2, <2>3, <2>4
<1>5. ASSUME NEW h \in Known, NEW t \in Timeouts,
             TableSetReadTimeout(h, t) \/ TableSetWriteTimeout(h, t)
      PROVE  DescriptorsHaveOneEntry'
  <2>1. /\ open' = open
        /\ \A j \in Index : sockets'[j].fd = sockets[j].fd /\ (Used(j)' <=> Used(j))
    BY <1>t, <1>5 DEF TableSetReadTimeout, TableSetWriteTimeout, Entry, Used, IsFree
  <2> QED BY <1>d, <1>u, <2>1
<1>6. CASE UNCHANGED tableVars
  BY <1>6, <1>d, <1>u DEF tableVars, Used, IsFree
<1> QED BY <1>1, <1>2, <1>3, <1>4, <1>5, <1>6 DEF TableNext

(***************************************************************************)
(* No descriptor leaks and none belongs to two entries (socket/create.hpp, *)
(* destroy.hpp): the open descriptors are those of the entries in use.     *)
(***************************************************************************)
THEOREM DescriptorsOwned == TableSpec => []DescriptorsHaveOneEntry
<1>1. TableInit => DescriptorsHaveOneEntry
  BY DEF TableInit, DescriptorsHaveOneEntry, Used, IsFree, FreeEntry
<1> QED BY <1>1, DescriptorsStep, TableInvariant, PTL DEF TableSpec

-----------------------------------------------------------------------------
(***************************************************************************)
(* The table implements the map.                                           *)
(***************************************************************************)
View(e) == [fd |-> e.fd, read_timeout |-> e.read_timeout, write_timeout |-> e.write_timeout]

\* x is live exactly if the entry at its index holds it.
LEMMA LiveMapIs ==
    ASSUME TableInv
    PROVE  /\ LiveMap = [x \in LiveHandles |-> View(sockets[handle_index(x)])]
           /\ DOMAIN LiveMap = LiveHandles
           /\ LiveHandles \subseteq used
           /\ \A x : x \in LiveHandles <=>
                /\ x \in used /\ x # InvalidHandle
                /\ handle_index(x) \in Index /\ sockets[handle_index(x)].handle = x
<1>1. \A x \in LiveHandles : /\ x \in used /\ x # InvalidHandle
                             /\ handle_index(x) \in Index /\ sockets[handle_index(x)].handle = x
  BY DEF TableInv, TableConsistent, LiveHandles, Used, IsFree
<1>2. \A x : /\ x # InvalidHandle
             /\ handle_index(x) \in Index /\ sockets[handle_index(x)].handle = x
             => x \in LiveHandles
  BY DEF LiveHandles, Used, IsFree
<1>3. LiveMap = [x \in LiveHandles |-> View(sockets[handle_index(x)])]
  BY DEF LiveMap, View
<1> QED BY <1>1, <1>2, <1>3

\* A handle that find accepts is live.
LEMMA FoundIsLive ==
    ASSUME TableInv, NEW h \in Known, Finds(h)
    PROVE  h \in LiveHandles /\ h \in used /\ h \in HandleSpace /\ handle_index(h) \in Index
<1>1. h \in used /\ h # InvalidHandle
  BY ZeroFindsNothing DEF Known, Finds
<1>2. h \in HandleSpace /\ h \in Nat
  BY <1>1 DEF TableInv, TableTypeOK, HandleSpace
<1>3. handle_index(h) \in Index
  BY <1>2, DivMod, ConstantTypes DEF handle_index, Index
<1> QED BY <1>1, <1>2, <1>3, LiveMapIs DEF Finds

LEMMA MapInitStep == TableInit => M!MapInit
<1> SUFFICES ASSUME TableInit PROVE M!MapInit
  OBVIOUS
<1>1. LiveHandles = {}
  BY DEF TableInit, LiveHandles, Used, IsFree, FreeEntry
<1> QED BY <1>1 DEF M!MapInit, LiveMap, TableInit

\* What create does to the handles: h is a new one, and the only one.
Opened(h, fd) ==
    /\ h \in HandleSpace /\ h # InvalidHandle /\ h \notin used
    /\ handle_index(h) \in Index /\ IsFree(handle_index(h))
    /\ sockets' = [sockets EXCEPT ![handle_index(h)] = NewEntry(h, fd)]
    /\ used' = used \union {h}
    /\ LiveHandles' = LiveHandles \union {h}
    /\ fd \notin open

LEMMA OpenEffects ==
    ASSUME TableInv, NEW fd \in Fds, Create(fd)
    PROVE  \E h : Opened(h, fd)
<1>t. sockets \in [Index -> Entry] /\ used \subseteq Nat /\ next_slot \in Nat
  <2>1. HandleSpace \subseteq Nat
    BY DEF HandleSpace
  <2> QED BY <2>1 DEF TableInv, TableTypeOK
<1>1. PICK n \in Nat : Created(fd, n)
  BY CreateEffects
<1> DEFINE i == n % MaxSockets
           h == FirstHandle + n
<1>2. /\ n >= next_slot /\ i \in Index /\ IsFree(i)
      /\ handle_index(h) = i /\ h \in HandleSpace
      /\ sockets' = [sockets EXCEPT ![i] = NewEntry(h, fd)]
      /\ used' = used \union {h} /\ fd \notin open
  BY <1>1 DEF Created
<1>3. h # InvalidHandle /\ h \in Nat
  BY FirstHandleIs DEF InvalidHandle
<1>4. h \notin used
  <2>1. h >= FirstHandle + next_slot
    BY <1>2, <1>t, FirstHandleIs
  <2> QED BY <2>1, <1>t, FirstHandleIs DEF TableInv, TableConsistent
<1> HIDE DEF i, h
<1>5. \A x \in LiveHandles : handle_index(x) # i
  BY <1>2, LiveMapIs DEF IsFree
<1>6. LiveHandles' = LiveHandles \union {h}
  <2>1. sockets'[i].handle = h
    BY <1>t, <1>2 DEF NewEntry
  <2>2. h \in LiveHandles'
    BY <1>2, <1>3, <2>1 DEF LiveHandles, Used, IsFree
  <2>3. \A j \in Index \ {i} : sockets'[j] = sockets[j]
    BY <1>t, <1>2
  <2>4. ASSUME NEW x \in LiveHandles PROVE x \in LiveHandles'
    <3>1. handle_index(x) \in Index \ {i} /\ sockets[handle_index(x)].handle = x /\ x # InvalidHandle
      BY <1>5, LiveMapIs
    <3>2. sockets'[handle_index(x)].handle = x
      BY <2>3, <3>1
    <3> QED BY <3>1, <3>2 DEF LiveHandles, Used, IsFree
  <2>5. \A x \in LiveHandles' : x = h \/ x \in LiveHandles
    BY <2>1, <2>3 DEF LiveHandles, Used, IsFree
  <2> QED BY <2>2, <2>4, <2>5
<1>7. Opened(h, fd)
  BY <1>2, <1>3, <1>4, <1>6 DEF Opened
<1> QED BY <1>7

LEMMA OpenStep ==
    ASSUME TableInv, TableInv', DescriptorsHaveOneEntry, NEW fd \in Fds, Create(fd)
    PROVE  M!MapNext
<1>t. sockets \in [Index -> Entry]
  BY DEF TableInv, TableTypeOK
<1>1. PICK h : Opened(h, fd)
  BY OpenEffects
<1> DEFINE i == handle_index(h)
<1>2. /\ h \in HandleSpace /\ h \notin used /\ i \in Index /\ IsFree(i)
      /\ sockets' = [sockets EXCEPT ![i] = NewEntry(h, fd)]
      /\ used' = used \union {h} /\ fd \notin open
      /\ LiveHandles' = LiveHandles \union {h}
  BY <1>1 DEF Opened
<1>3. handle_index(h) = i
  OBVIOUS
<1> HIDE DEF i
<1>4. \A x \in LiveHandles : handle_index(x) # i /\ x # h
  BY <1>2, LiveMapIs DEF IsFree
<1>5. View(sockets'[i]) = [fd |-> fd, read_timeout |-> Forever, write_timeout |-> Forever]
  BY <1>t, <1>2 DEF View, NewEntry
<1>6. \A x \in LiveHandles : View(sockets'[handle_index(x)]) = LiveMap[x]
  <2>1. \A x \in LiveHandles : sockets'[handle_index(x)] = sockets[handle_index(x)]
    BY <1>t, <1>2, <1>4, LiveMapIs
  <2> QED BY <2>1, LiveMapIs
<1>7. LiveMap' = [x \in LiveHandles' |-> View(sockets'[handle_index(x)])]
  BY DEF LiveMap, View
<1>8. LiveMap' = [x \in DOMAIN LiveMap \union {h} |->
                      IF x = h
                      THEN [fd |-> fd, read_timeout |-> Forever, write_timeout |-> Forever]
                      ELSE LiveMap[x]]
  BY <1>2, <1>3, <1>4, <1>5, <1>6, <1>7, LiveMapIs
<1>9. \A x \in DOMAIN LiveMap : LiveMap[x].fd # fd
  <2>1. \A x \in LiveHandles : LiveMap[x].fd = sockets[handle_index(x)].fd
    BY LiveMapIs DEF View
  <2>2. \A x \in LiveHandles : sockets[handle_index(x)].fd \in open
    BY LiveMapIs DEF DescriptorsHaveOneEntry, Used, IsFree
  <2> QED BY <1>2, <2>1, <2>2, LiveMapIs
<1>10. M!Open(h, fd)
  BY <1>2, <1>8, <1>9 DEF M!Open
<1> QED BY <1>2, <1>10 DEF M!MapNext

\* What destroy does to the handles: h is gone, and it alone.
LEMMA CloseEffects ==
    ASSUME TableInv, NEW h \in Known, Destroy(h)
    PROVE  /\ h \in LiveHandles /\ h \in HandleSpace
           /\ used' = used /\ LiveHandles' = LiveHandles \ {h}
           /\ \A j \in Index \ {handle_index(h)} : sockets'[j] = sockets[j]
<1>t. sockets \in [Index -> Entry]
  BY DEF TableInv, TableTypeOK
<1>1. /\ h \in LiveHandles /\ h \in HandleSpace /\ handle_index(h) \in Index
      /\ sockets' = [sockets EXCEPT ![handle_index(h)] = FreeEntry] /\ used' = used
      /\ sockets[handle_index(h)].handle = h
  BY FoundIsLive, LiveMapIs DEF Destroy
<1>2. \A x \in LiveHandles \ {h} : handle_index(x) # handle_index(h)
  BY <1>1, LiveMapIs
<1>3. \A j \in Index \ {handle_index(h)} : sockets'[j] = sockets[j]
  BY <1>t, <1>1
<1>4. LiveHandles' = LiveHandles \ {h}
  <2>1. sockets'[handle_index(h)].handle = InvalidHandle
    BY <1>t, <1>1 DEF FreeEntry
  <2>2. h \notin LiveHandles'
    BY <1>1, <1>3, <2>1, LiveMapIs DEF LiveHandles, Used, IsFree, TableInv, TableConsistent
  <2>3. \A x \in LiveHandles \ {h} : x \in LiveHandles'
    BY <1>2, <1>3, LiveMapIs DEF LiveHandles, Used, IsFree
  <2>4. \A x \in LiveHandles' : x \in LiveHandles
    BY <1>3, <2>1 DEF LiveHandles, Used, IsFree
  <2> QED BY <2>2, <2>3, <2>4
<1> QED BY <1>1, <1>3, <1>4

LEMMA CloseStep ==
    ASSUME TableInv, TableInv', NEW h \in Known, Destroy(h)
    PROVE  M!MapNext
<1>1. /\ h \in LiveHandles /\ h \in HandleSpace /\ used' = used
      /\ LiveHandles' = LiveHandles \ {h}
      /\ \A j \in Index \ {handle_index(h)} : sockets'[j] = sockets[j]
  BY CloseEffects
<1>2. \A x \in LiveHandles \ {h} : View(sockets'[handle_index(x)]) = LiveMap[x]
  <2>1. \A x \in LiveHandles \ {h} : handle_index(x) \in Index \ {handle_index(h)}
    BY <1>1, LiveMapIs
  <2> QED BY <1>1, <2>1, LiveMapIs
<1>3. LiveMap' = [x \in LiveHandles' |-> View(sockets'[handle_index(x)])]
  BY DEF LiveMap, View
<1>4. LiveMap' = [x \in DOMAIN LiveMap \ {h} |-> LiveMap[x]]
  BY <1>1, <1>2, <1>3, LiveMapIs
<1>5. M!Close(h)
  BY <1>1, <1>4, LiveMapIs DEF M!Close
<1> QED BY <1>1, <1>5 DEF M!MapNext

\* The two timeouts: an entry keeps its handle, and the others keep everything.
LEMMA SetStep ==
    ASSUME TableInv, NEW h \in LiveHandles, NEW e,
           sockets' = [sockets EXCEPT ![handle_index(h)] = e],
           e.handle = h, UNCHANGED used
    PROVE  LiveMap' = [LiveMap EXCEPT ![h] = View(e)]
<1>t. sockets \in [Index -> Entry]
  BY DEF TableInv, TableTypeOK
<1>1. handle_index(h) \in Index /\ sockets[handle_index(h)].handle = h
  BY LiveMapIs
<1>2. sockets'[handle_index(h)] = e
  BY <1>t, <1>1
<1>3. \A j \in Index \ {handle_index(h)} : sockets'[j] = sockets[j]
  BY <1>t
<1>4. \A j \in Index : sockets'[j].handle = sockets[j].handle
  BY <1>1, <1>2, <1>3
<1>5. LiveHandles' = LiveHandles
  BY <1>4 DEF LiveHandles, Used, IsFree
<1>6. \A x \in LiveHandles \ {h} : View(sockets'[handle_index(x)]) = LiveMap[x]
  <2>1. \A x \in LiveHandles \ {h} : handle_index(x) \in Index \ {handle_index(h)}
    BY <1>1, LiveMapIs
  <2> QED BY <1>3, <2>1, LiveMapIs
<1>7. LiveMap' = [x \in LiveHandles' |-> View(sockets'[handle_index(x)])]
  BY DEF LiveMap, View
<1>8. LiveMap' = [x \in LiveHandles |-> IF x = h THEN View(e) ELSE LiveMap[x]]
  <2>1. View(sockets'[handle_index(h)]) = View(e)
    BY <1>2
  <2> QED BY <1>5, <1>6, <1>7, <2>1
<1>9. LiveMap = [x \in LiveHandles |-> LiveMap[x]]
  BY LiveMapIs
<1> QED BY <1>8, <1>9

LEMMA SetTimeoutStep ==
    ASSUME TableInv, NEW h \in Known, NEW t \in Timeouts,
           TableSetReadTimeout(h, t) \/ TableSetWriteTimeout(h, t)
    PROVE  M!MapNext
<1> DEFINE k == handle_index(h)
<1>1. /\ h \in LiveHandles /\ h \in HandleSpace /\ k \in Index
      /\ sockets[k].handle = h /\ used' = used
  BY FoundIsLive, LiveMapIs DEF TableSetReadTimeout, TableSetWriteTimeout
<1>2. sockets[k] \in Entry
  BY <1>1 DEF TableInv, TableTypeOK
<1>3. LiveMap[h] = View(sockets[k]) /\ h \in DOMAIN LiveMap
  BY <1>1, LiveMapIs
<1>4. CASE TableSetReadTimeout(h, t)
  <2> DEFINE e == [sockets[k] EXCEPT !.read_timeout = t]
  <2>1. sockets' = [sockets EXCEPT ![k] = e]
    BY <1>4 DEF TableSetReadTimeout
  <2>2. e.handle = h /\ View(e) = [View(sockets[k]) EXCEPT !.read_timeout = t]
    BY <1>1, <1>2 DEF Entry, View
  <2> HIDE DEF e
  <2>3. LiveMap' = [LiveMap EXCEPT ![h] = View(e)]
    BY <1>1, <2>1, <2>2, SetStep
  <2>4. M!SetReadTimeout(h, t)
    BY <1>1, <1>3, <2>2, <2>3 DEF M!SetReadTimeout
  <2> QED BY <1>1, <2>4 DEF M!MapNext
<1>5. CASE TableSetWriteTimeout(h, t)
  <2> DEFINE e == [sockets[k] EXCEPT !.write_timeout = t]
  <2>1. sockets' = [sockets EXCEPT ![k] = e]
    BY <1>5 DEF TableSetWriteTimeout
  <2>2. e.handle = h /\ View(e) = [View(sockets[k]) EXCEPT !.write_timeout = t]
    BY <1>1, <1>2 DEF Entry, View
  <2> HIDE DEF e
  <2>3. LiveMap' = [LiveMap EXCEPT ![h] = View(e)]
    BY <1>1, <2>1, <2>2, SetStep
  <2>4. M!SetWriteTimeout(h, t)
    BY <1>1, <1>3, <2>2, <2>3 DEF M!SetWriteTimeout
  <2> QED BY <1>1, <2>4 DEF M!MapNext
<1> QED BY <1>4, <1>5

LEMMA MapStep ==
    TableInv /\ TableInv' /\ DescriptorsHaveOneEntry /\ [TableNext]_tableVars
        => [M!MapNext]_(M!mapVars)
<1> SUFFICES ASSUME TableInv, TableInv', DescriptorsHaveOneEntry, [TableNext]_tableVars
             PROVE  [M!MapNext]_(M!mapVars)
  OBVIOUS
<1>1. ASSUME UNCHANGED <<sockets, used>> PROVE UNCHANGED M!mapVars
  BY <1>1 DEF M!mapVars, LiveMap, LiveHandles, Used, IsFree
<1>2. CASE \E fd \in Fds : Create(fd) \/ CreateExhausted(fd) \/ CreateTableFull(fd)
  BY <1>1, <1>2, OpenStep DEF CreateExhausted, CreateTableFull
<1>3. CASE \E h \in Known :
             \/ Destroy(h)
             \/ \E t \in Timeouts : TableSetReadTimeout(h, t) \/ TableSetWriteTimeout(h, t)
  BY <1>3, CloseStep, SetTimeoutStep
<1>4. CASE UNCHANGED tableVars
  BY <1>1, <1>4 DEF tableVars
<1> QED BY <1>2, <1>3, <1>4 DEF TableNext

(***************************************************************************)
(* "We never reuse socket IDs" (handle.hpp): the table implements the map  *)
(* from handles to sockets, in which a handle is given out once and names  *)
(* one socket from create to destroy.                                      *)
(***************************************************************************)
THEOREM TableImplementsMap == TableSpec => ImplementsMap
<1>1. TableSpec => []TableInv /\ []DescriptorsHaveOneEntry
  BY TableInvariant, DescriptorsOwned, PTL
<1> QED BY <1>1, MapInitStep, MapStep, PTL DEF TableSpec, ImplementsMap, M!MapSpec

(***************************************************************************)
(* No handle is mistaken for another: find accepts only the handle of a    *)
(* live socket, and what is done to it leaves the others alone.            *)
(***************************************************************************)
THEOREM HandlesAreNotMistaken == TableSpec => OnlyItsOwnSocket
<1>1. ASSUME TableInv, NEW h \in Known, Changes(h)
      PROVE  /\ h \in LiveHandles
             /\ \A x \in LiveHandles \ {h} : x \in LiveHandles' /\ LiveMap'[x] = LiveMap[x]
  <2>1. Finds(h) /\ \A j \in Index \ {handle_index(h)} : sockets'[j] = sockets[j]
    BY <1>1 DEF Changes, Destroy, TableSetReadTimeout, TableSetWriteTimeout, TableInv, TableTypeOK
  <2>2. h \in LiveHandles /\ sockets[handle_index(h)].handle = h
    BY <1>1, <2>1, FoundIsLive DEF Finds
  <2>3. ASSUME NEW x \in LiveHandles \ {h}
        PROVE  x \in LiveHandles' /\ LiveMap'[x] = LiveMap[x]
    <3>1. /\ handle_index(x) \in Index \ {handle_index(h)}
          /\ sockets[handle_index(x)].handle = x /\ x # InvalidHandle
      BY <1>1, <2>2, LiveMapIs
    <3>2. sockets'[handle_index(x)] = sockets[handle_index(x)]
      BY <2>1, <3>1
    <3>3. x \in LiveHandles'
      BY <3>1, <3>2 DEF LiveHandles, Used, IsFree
    <3> QED BY <3>2, <3>3 DEF LiveMap
  <2> QED BY <2>2, <2>3
<1>2. TableInv /\ [TableNext]_tableVars
        => [\A h \in Known : Changes(h) =>
              /\ h \in LiveHandles
              /\ \A x \in LiveHandles \ {h} : x \in LiveHandles' /\ LiveMap'[x] = LiveMap[x]]_tableVars
  BY <1>1
<1> QED BY <1>2, TableInvariant, PTL DEF TableSpec, OnlyItsOwnSocket
=============================================================================
