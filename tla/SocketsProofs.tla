--------------------------- MODULE SocketsProofs ---------------------------
(***************************************************************************)
(* A suspended call keeps its own socket, and the table and the kernel     *)
(* agree, for any number of coroutines, entries and descriptors.           *)
(*                                                                         *)
(* Every step of Sockets is a step of the socket table or leaves the table *)
(* alone, so that all that is proved of the table holds here.              *)
(***************************************************************************)
EXTENDS Sockets, SocketTableProofs, U64Proofs

-----------------------------------------------------------------------------
(***************************************************************************)
(* Arithmetic.                                                             *)
(***************************************************************************)
LEMMA ClockIsU64 == 0 .. ClockBound \subseteq U64
BY SocketsAssumption, U64MaxAssumption DEF U64

LEMMA TimeoutsAreU64 == Timeouts \union {Forever, 0} \subseteq U64
BY SocketsAssumption, U64MaxAssumption DEF U64

LEMMA LaterIsLater ==
    ASSUME NEW a \in U64, NEW b \in U64, NEW t \in U64, a <= b
    PROVE  SatAdd(a, t) <= SatAdd(b, t)
<1>1. /\ SatAdd(a, t) = IF a + t <= U64Max THEN a + t ELSE U64Max
      /\ SatAdd(b, t) = IF b + t <= U64Max THEN b + t ELSE U64Max
  BY SatAddSaturates
<1> QED BY <1>1, U64MaxAssumption DEF U64

\* The timeout that the code takes is the one that is promised.
LEMMA TimeoutAsPromised ==
    ASSUME NEW op \in Suspending, NEW i \in Index
    PROVE  TimeoutOf(op, i) = sockets[i][PromisedTimeout[op]]
BY DEF Suspending, TimeoutOf, PromisedTimeout

LEMMA TableTimeouts ==
    ASSUME TableInv, NEW op, NEW i \in Index
    PROVE  TimeoutOf(op, i) \in U64
BY TimeoutsAreU64 DEF TableInv, TableTypeOK, TimeoutOf, Entry

-----------------------------------------------------------------------------
(***************************************************************************)
(* The table's part.                                                       *)
(***************************************************************************)
TableStep ==
    \/ TableUnchanged
    \/ \E fd \in Fds : Create(fd) \/ CreateTableFull(fd) \/ CreateExhausted(fd)

LEMMA TableStepIsNext == TableStep => [TableNext]_tableVars
BY DEF TableStep, TableUnchanged, tableVars, TableNext

KernType ==
    kern \in [Fds -> [kind : {"closed", "new", "listener", "connecting", "refused", "up"},
                      input : {"none", "some", "eof"}, room : BOOLEAN]]
OpenInKernel == \A fd \in Fds : fd \in open <=> kern[fd].kind # "closed"

\* What holds of the table and the kernel, whatever calls are suspended.
WorldInv == TableInv /\ DescriptorsHaveOneEntry /\ KernType /\ OpenInKernel

LEMMA WorldFacts ==
    ASSUME WorldInv
    PROVE  /\ open \subseteq Fds
           /\ sockets \in [Index -> Entry]
           /\ \A i \in Index : Used(i) => sockets[i].fd \in open
           /\ \A h \in Known : h \in HandleSpace /\ handle_index(h) \in Index
           /\ \A h \in Known : Finds(h) =>
                /\ h # InvalidHandle /\ sockets[handle_index(h)].handle = h
                /\ sockets[handle_index(h)].fd \in open
<1>1. open \subseteq Fds /\ sockets \in [Index -> Entry] /\ used \subseteq HandleSpace
  BY DEF WorldInv, TableInv, TableTypeOK
<1>2. \A i \in Index : Used(i) => sockets[i].fd \in open
  BY DEF WorldInv, DescriptorsHaveOneEntry
<1>3. ASSUME NEW h \in Known PROVE h \in HandleSpace /\ handle_index(h) \in Index
  <2>1. HandleSpace \subseteq Nat /\ InvalidHandle \in HandleSpace
    <3>1. 2 * Generations * MaxSockets \in Nat \ {0}
      <4>1. 2 * Generations \in Nat \ {0}
        BY ConstantTypes
      <4> QED BY <4>1, ConstantTypes
    <3> QED BY <3>1 DEF HandleSpace, InvalidHandle
  <2>2. h \in HandleSpace /\ h \in Nat
    BY <1>1, <1>3, <2>1 DEF Known
  <2> QED BY <2>2, DivMod, ConstantTypes DEF handle_index, Index
<1>4. ASSUME NEW h \in Known, Finds(h)
      PROVE  /\ h # InvalidHandle /\ sockets[handle_index(h)].handle = h
             /\ sockets[handle_index(h)].fd \in open
  <2>1. h # InvalidHandle /\ sockets[handle_index(h)].handle = h
    BY <1>4, ZeroFindsNothing DEF Finds
  <2> QED BY <1>2, <1>3, <2>1 DEF Used, IsFree
<1> QED BY <1>1, <1>2, <1>3, <1>4

\* The records that the kernel's part is made of.
LEMMA KernelRecords ==
    /\ Closed.kind = "closed" /\ New.kind = "new" /\ Up.kind = "up"
    /\ LET K == [kind : {"closed", "new", "listener", "connecting", "refused", "up"},
                 input : {"none", "some", "eof"}, room : BOOLEAN]
       IN /\ Closed \in K /\ New \in K /\ Up \in K
          /\ [New EXCEPT !.kind = "connecting"] \in K
          /\ [New EXCEPT !.kind = "connecting"].kind = "connecting"
BY DEF Closed, New, Up

\* A create that succeeds opens its descriptor, and one that fails nothing.
LEMMA CreateOpens ==
    ASSUME WorldInv, NEW fd \in Fds, fd \notin open,
           Create(fd) \/ CreateTableFull(fd) \/ CreateExhausted(fd) \/ TableUnchanged
    PROVE  open' = open \/ open' = open \union {fd}
BY DEF Create, CreateTableFull, CreateExhausted, TableUnchanged, closesocket

LEMMA OpenedInKernel ==
    ASSUME WorldInv, NEW fd \in Fds, fd \notin open,
           open' = open \/ open' = open \union {fd},
           NEW up \in {New, Up},
           KernType' , \A x \in Fds \ {fd} : kern'[x].kind = kern[x].kind,
           kern'[fd] = IF fd \in open' THEN up ELSE Closed
    PROVE  OpenInKernel'
BY KernelRecords DEF WorldInv, OpenInKernel

-----------------------------------------------------------------------------
(***************************************************************************)
(* One round of a suspending operation: the table and the kernel agree     *)
(* afterwards, and the call is over or suspended.                          *)
(***************************************************************************)
RoundOk(c, op, h, i, limit) ==
    /\ TableStep
    /\ (KernType /\ OpenInKernel)'
    /\ ret' \in Results
    /\ \/ call' = [call EXCEPT ![c] = NoCall]
       \/ Suspend(c, op, h, i, limit)

LEMMA NothingHappens ==
    ASSUME WorldInv, NEW c \in Coros, NEW op, NEW h, NEW i, NEW limit,
           UNCHANGED kern,
           \/ Suspend(c, op, h, i, limit)
           \/ TableUnchanged /\ \E r \in Results : Return(c, r)
    PROVE  RoundOk(c, op, h, i, limit)
BY DEF Suspend, TableUnchanged, Return, Results, RoundOk, TableStep, WorldInv,
       KernType, OpenInKernel

LEMMA TryRound ==
    ASSUME WorldInv, NEW c \in Coros, NEW op \in Suspending, NEW h, NEW i \in Index,
           NEW limit, Try(c, op, h, i, limit), op = "connect" => sockets[i].fd \in open
    PROVE  RoundOk(c, op, h, i, limit)
<1> DEFINE fd == sockets[i].fd
<1>w. /\ kern \in [Fds -> [kind : {"closed", "new", "listener", "connecting", "refused", "up"},
                           input : {"none", "some", "eof"}, room : BOOLEAN]]
      /\ \A x \in Fds : x \in open <=> kern[x].kind # "closed"
      /\ open \subseteq Fds
  BY WorldFacts DEF WorldInv, KernType, OpenInKernel
<1>r. {"none", "OK", "EOF", "EBADF", "ETIMEDOUT", "error"} = Results
  BY DEF Results
<1>k. ASSUME Kind(fd) # "closed" PROVE fd \in Fds /\ fd \in open /\ Kind(fd) = kern[fd].kind
  BY <1>k, <1>w DEF Kind
\* The kernel consumed or filled something, and the call is over.
<1>c. ASSUME NEW r \in Results, Kind(fd) # "closed", Return(c, r), TableUnchanged,
             \/ kern' = [kern EXCEPT ![fd].input = "none"]
             \/ kern' = [kern EXCEPT ![fd].room = FALSE]
      PROVE  RoundOk(c, op, h, i, limit)
  <2>1. KernType' /\ \A x \in Fds : kern'[x].kind = kern[x].kind
    <3>1. fd \in Fds
      BY <1>c, <1>k
    <3>2. CASE kern' = [kern EXCEPT ![fd].input = "none"]
      BY <1>w, <3>1, <3>2 DEF KernType
    <3>3. CASE kern' = [kern EXCEPT ![fd].room = FALSE]
      BY <1>w, <3>1, <3>3 DEF KernType
    <3> QED BY <1>c, <3>2, <3>3
  <2> QED BY <1>c, <1>w, <2>1 DEF RoundOk, TableStep, TableUnchanged, Return, OpenInKernel
\* The kernel reported an error, of a refused connection or of this call.
<1>f. ASSUME RoundFails(c, fd) PROVE RoundOk(c, op, h, i, limit)
  <2>1. CASE Kind(fd) = "refused"
    <3>1. fd \in Fds /\ fd \in open
      BY <2>1, <1>k
    <3>2. kern' = [kern EXCEPT ![fd] = New] /\ Return(c, "error") /\ TableUnchanged
      BY <1>f, <2>1 DEF RoundFails
    <3> HIDE DEF fd
    <3>3. KernType' /\ OpenInKernel'
      BY <1>w, <3>1, <3>2, KernelRecords DEF KernType, OpenInKernel, TableUnchanged
    <3> QED BY <3>2, <3>3, <1>r DEF RoundOk, TableStep, TableUnchanged, Return
  <2>2. CASE Kind(fd) # "refused"
    BY <1>f, <2>2, <1>r, NothingHappens DEF RoundFails
  <2> QED BY <2>1, <2>2
<1> HIDE DEF fd
<1>1. CASE op = "recv" /\ TryRecv(c, h, i, limit)
  <2>1. CASE /\ Kind(fd) = "up" /\ kern' = [kern EXCEPT ![fd].input = "none"]
             /\ Return(c, "OK") /\ TableUnchanged
    BY <2>1, <1>c, <1>r
  <2>2. CASE ~ (/\ Kind(fd) = "up" /\ kern' = [kern EXCEPT ![fd].input = "none"]
                /\ Return(c, "OK") /\ TableUnchanged)
    <3>1. \/ UNCHANGED kern /\ Suspend(c, op, h, i, limit)
          \/ UNCHANGED kern /\ TableUnchanged /\ Return(c, "EOF")
          \/ RoundFails(c, fd)
      BY <1>1, <2>2 DEF TryRecv, fd
    <3> QED BY <3>1, <1>r, <1>f, NothingHappens
  <2> QED BY <2>1, <2>2
<1>2. CASE op = "send" /\ TrySend(c, h, i, limit)
  <2>1. CASE /\ Kind(fd) = "up" /\ kern' = [kern EXCEPT ![fd].room = FALSE]
             /\ Return(c, "OK") /\ TableUnchanged
    BY <2>1, <1>c, <1>r
  <2>2. CASE ~ (/\ Kind(fd) = "up" /\ kern' = [kern EXCEPT ![fd].room = FALSE]
                /\ Return(c, "OK") /\ TableUnchanged)
    <3>1. (UNCHANGED kern /\ Suspend(c, op, h, i, limit)) \/ RoundFails(c, fd)
      BY <1>2, <2>2 DEF TrySend, fd
    <3> QED BY <3>1, <1>f, NothingHappens
  <2> QED BY <2>1, <2>2
<1>3. CASE op = "accept" /\ TryAccept(c, h, i, limit)
  <2>1. ASSUME NEW new \in Fds \ open, Kind(fd) = "listener", Accepted(c, fd, new)
        PROVE  RoundOk(c, op, h, i, limit)
    <3>1. fd \in Fds /\ fd # new /\ new \in Fds /\ new \notin open
      BY <2>1, <1>k
    <3>2. /\ TableStep
          /\ Create(new) \/ CreateTableFull(new) \/ CreateExhausted(new) \/ TableUnchanged
          /\ \E r \in Results : Return(c, r)
      BY <2>1, <1>r DEF Accepted, StaysBlocking, TableStep
    <3>3. kern' = [kern EXCEPT ![fd].input = "none",
                               ![new] = IF new \in open' THEN Up ELSE Closed]
      BY <2>1 DEF Accepted
    <3>4. /\ kern'[new] = IF new \in open' THEN Up ELSE Closed
          /\ \A x \in Fds \ {new} : kern'[x].kind = kern[x].kind
          /\ KernType'
      BY <3>1, <3>3, <1>w, KernelRecords DEF KernType
    <3>5. OpenInKernel'
      BY <3>1, <3>2, <3>4, CreateOpens, OpenedInKernel
    <3> QED BY <3>2, <3>4, <3>5 DEF RoundOk, Return
  <2>2. CASE ~ \E new \in Fds \ open : Kind(fd) = "listener" /\ Accepted(c, fd, new)
    <3>1. /\ UNCHANGED kern
          /\ \/ Suspend(c, op, h, i, limit)
             \/ TableUnchanged /\ Return(c, "error")
      BY <1>3, <2>2 DEF TryAccept, fd
    <3> QED BY <3>1, <1>r, NothingHappens
  <2> QED BY <2>1, <2>2
<1>4. CASE op = "connect" /\ TryConnect(c, h, i, limit)
  <2>1. fd \in open /\ fd \in Fds /\ Kind(fd) = kern[fd].kind /\ kern[fd].kind # "closed"
    BY <1>4, <1>w DEF fd, Kind
  <2>2. PICK r \in connect(fd) :
            /\ kern' = [kern EXCEPT ![fd] = r.becomes]
            /\ \/ r.res = "EINPROGRESS" /\ Suspend(c, "connect", h, i, limit)
               \/ r.res # "EINPROGRESS" /\ Return(c, r.res) /\ TableUnchanged
    BY <1>4 DEF TryConnect, fd
  <2>3. /\ r.becomes.kind # "closed" /\ r.res \in {"OK", "error", "EINPROGRESS"}
        /\ r.becomes \in [kind : {"closed", "new", "listener", "connecting", "refused", "up"},
                          input : {"none", "some", "eof"}, room : BOOLEAN]
    <3>1. r \in {Outcome("OK", Up), Outcome("error", New),
                 Outcome("EINPROGRESS", [New EXCEPT !.kind = "connecting"]),
                 Outcome("error", kern[fd])}
      BY <2>2 DEF connect
    <3> QED BY <3>1, <2>1, <1>w, KernelRecords DEF Outcome
  <2>4. KernType' /\ OpenInKernel'
    <3>1. open' = open
      BY <2>2 DEF Suspend, TableUnchanged
    <3> QED BY <2>1, <2>2, <2>3, <3>1, <1>w DEF KernType, OpenInKernel
  <2> QED BY <1>4, <2>2, <2>3, <2>4, <1>r
      DEF RoundOk, TableStep, Suspend, Return
<1> QED BY <1>1, <1>2, <1>3, <1>4 DEF Try

-----------------------------------------------------------------------------
(***************************************************************************)
(* The invariant that needs no discipline of the clients.                  *)
(***************************************************************************)
CallTypes ==
    /\ call \in [Coros -> [at : {"idle", "wait", "awake", "late"}, op : Suspending \union {"none"},
                           handle : HandleSpace, index : Index, fd : Fds \union {0},
                           deadline : U64, limit : U64]]
    /\ \A c \in Coros : ~ Idle(c) => call[c].op \in Suspending

SocketsInv ==
    /\ WorldInv /\ CallTypes
    /\ ret \in Results /\ clock \in 0 .. ClockBound

\* What a step does to the table, the kernel and the calls.
StepOk ==
    /\ [TableNext]_tableVars
    /\ (KernType /\ OpenInKernel /\ CallTypes)'
    /\ ret' \in Results /\ clock' \in 0 .. ClockBound

LEMMA ZeroHandle == InvalidHandle \in HandleSpace /\ 0 \in Index /\ 0 \in U64
<1>1. InvalidHandle \in HandleSpace
  <2>1. 2 * Generations \in Nat \ {0}
    BY ConstantTypes
  <2>2. 2 * Generations * MaxSockets \in Nat \ {0}
    BY <2>1, ConstantTypes
  <2> QED BY <2>2 DEF HandleSpace, InvalidHandle
<1> QED BY <1>1, ConstantTypes, U64MaxAssumption DEF Index, U64

LEMMA CallReturns ==
    ASSUME CallTypes, NEW c \in Coros, call' = [call EXCEPT ![c] = NoCall]
    PROVE  CallTypes'
BY ZeroHandle DEF CallTypes, NoCall, Idle

LEMMA CallSuspends ==
    ASSUME SocketsInv, NEW c \in Coros, NEW op \in Suspending, NEW h \in HandleSpace,
           NEW i \in Index, NEW limit \in U64, Suspend(c, op, h, i, limit)
    PROVE  CallTypes'
<1> DEFINE d == SatAdd(clock, TimeoutOf(op, i))
           k == [at |-> "wait", op |-> op, handle |-> h, index |-> i,
                 fd |-> sockets[i].fd, deadline |-> d, limit |-> limit]
<1>1. sockets[i] \in Entry
  BY WorldFacts DEF SocketsInv
<1>2. d \in U64
  <2>1. TimeoutOf(op, i) \in U64
    BY <1>1, TimeoutsAreU64 DEF TimeoutOf, Entry
  <2>2. clock \in U64
    BY ClockIsU64 DEF SocketsInv
  <2> QED BY <2>1, <2>2, SatAddType
<1>3. call' = [call EXCEPT ![c] = k]
  BY DEF Suspend
<1> HIDE DEF d
<1>4. k \in [at : {"idle", "wait", "awake", "late"}, op : Suspending \union {"none"},
              handle : HandleSpace, index : Index, fd : Fds \union {0},
              deadline : U64, limit : U64]
  BY <1>1, <1>2 DEF Entry
<1>5. k.op \in Suspending
  OBVIOUS
<1> HIDE DEF k
<1> QED BY <1>3, <1>4, <1>5 DEF SocketsInv, CallTypes, Idle

LEMMA RoundStepOk ==
    ASSUME SocketsInv, NEW c \in Coros, NEW op \in Suspending, NEW h \in HandleSpace,
           NEW i \in Index, NEW limit \in U64, RoundOk(c, op, h, i, limit), UNCHANGED clock
    PROVE  StepOk
BY TableStepIsNext, CallReturns, CallSuspends DEF RoundOk, StepOk, SocketsInv

\* Steps that leave the table alone, and the kernel too.
LEMMA QuietStepOk ==
    ASSUME SocketsInv, TableUnchanged, UNCHANGED <<kern, clock>>, ret' \in Results, CallTypes'
    PROVE  StepOk
BY DEF SocketsInv, StepOk, TableUnchanged, tableVars, WorldInv, KernType, OpenInKernel

LEMMA BeginOk ==
    ASSUME SocketsInv, NEW c \in Coros, NEW op \in Suspending, NEW h \in Known, Begin(c, op, h)
    PROVE  StepOk
<1>1. CASE Finds(h)
  <2> DEFINE i == handle_index(h)
  <2>1. h \in HandleSpace /\ i \in Index /\ sockets[i].fd \in open /\ sockets[i] \in Entry
    BY <1>1, WorldFacts DEF SocketsInv
  <2>2. Try(c, op, h, i, Limit(op, i)) /\ UNCHANGED clock
    BY <1>1 DEF Begin
  <2>3. Limit(op, i) \in U64
    <3>1. sockets[i][PromisedTimeout[op]] \in U64
      BY <2>1, TimeoutsAreU64 DEF Entry, PromisedTimeout, Suspending
    <3> QED BY <3>1, ClockIsU64, SatAddIsMeant, SatAddType DEF Limit, SocketsInv
  <2> HIDE DEF i
  <2>4. RoundOk(c, op, h, i, Limit(op, i))
    BY <2>1, <2>2, TryRound DEF SocketsInv
  <2> QED BY <2>1, <2>2, <2>3, <2>4, RoundStepOk
<1>2. CASE ~ Finds(h)
  <2>1. /\ call' = [call EXCEPT ![c] = NoCall] /\ ret' = "EBADF"
        /\ UNCHANGED <<kern, clock>> /\ TableUnchanged
    BY <1>2 DEF Begin, Return
  <2> QED BY <2>1, CallReturns, QuietStepOk DEF SocketsInv, Results
<1> QED BY <1>1, <1>2

LEMMA ConnectEndsOk ==
    ASSUME SocketsInv, NEW c \in Coros, NEW i \in Index, ConnectEnds(c, i), UNCHANGED clock
    PROVE  StepOk
<1> DEFINE fd == sockets[i].fd
           r == getsockopt_error(fd)
<1>1. /\ call' = [call EXCEPT ![c] = NoCall] /\ ret' = r.res /\ TableUnchanged
      /\ kern' = IF fd \in open THEN [kern EXCEPT ![fd] = r.becomes] ELSE kern
  BY DEF ConnectEnds, Return
<1>2. r.res \in {"OK", "error"}
  BY DEF getsockopt_error, Outcome
<1>3. CallTypes' /\ ret' \in Results /\ UNCHANGED <<sockets, generation, next_slot, open, aborted, used>>
  BY <1>1, <1>2, CallReturns DEF SocketsInv, Results, TableUnchanged
<1>4. CASE fd \notin open
  BY <1>1, <1>3, <1>4, QuietStepOk
<1>5. CASE fd \in open
  <2>1. fd \in Fds /\ kern[fd].kind # "closed" /\ Kind(fd) = kern[fd].kind
    BY <1>5, WorldFacts DEF SocketsInv, WorldInv, OpenInKernel, Kind
  <2>2. r.becomes \in {New, kern[fd]}
    BY <2>1 DEF getsockopt_error, Outcome
  <2>3. kern' = [kern EXCEPT ![fd] = r.becomes]
    BY <1>1, <1>5
  <2> HIDE DEF r, fd
  <2>4. KernType' /\ OpenInKernel'
    BY <1>3, <2>1, <2>2, <2>3, KernelRecords DEF SocketsInv, WorldInv, KernType, OpenInKernel
  <2> QED BY <1>3, <2>4 DEF SocketsInv, StepOk, tableVars
<1> QED BY <1>4, <1>5

LEMMA ContinueOk ==
    ASSUME SocketsInv, NEW c \in Coros, Continue(c)
    PROVE  StepOk
<1> DEFINE k == call[c]
<1>1. /\ k.op \in Suspending /\ k.handle \in HandleSpace /\ k.index \in Index
      /\ k.limit \in U64 /\ UNCHANGED clock
  BY DEF SocketsInv, CallTypes, Continue, Idle
<1>2. CASE k.at = "late"
  <2>1. /\ call' = [call EXCEPT ![c] = NoCall] /\ ret' = "ETIMEDOUT"
        /\ UNCHANGED <<kern, clock>> /\ TableUnchanged
    BY <1>2 DEF Continue, Return
  <2> QED BY <2>1, CallReturns, QuietStepOk DEF SocketsInv, Results
<1>3. CASE k.at # "late" /\ k.op = "connect"
  BY <1>1, <1>3, ConnectEndsOk DEF Continue
<1>4. CASE k.at # "late" /\ k.op # "connect"
  <2>1. Try(c, k.op, k.handle, k.index, k.limit)
    BY <1>4 DEF Continue
  <2>2. RoundOk(c, k.op, k.handle, k.index, k.limit)
    BY <1>1, <1>4, <2>1, TryRound DEF SocketsInv
  <2> QED BY <1>1, <2>2, RoundStepOk
<1> QED BY <1>2, <1>3, <1>4

LEMMA SocketCreateOk ==
    ASSUME SocketsInv, NEW c \in Coros, NEW fd \in Fds, SocketCreate(c, fd)
    PROVE  StepOk
<1>1. /\ fd \notin open /\ UNCHANGED clock /\ TableStep
      /\ Create(fd) \/ CreateTableFull(fd) \/ CreateExhausted(fd) \/ TableUnchanged
      /\ call' = [call EXCEPT ![c] = NoCall] /\ ret' \in {"OK", "error"}
  BY DEF SocketCreate, NoSocket, StaysBlocking, Return, TableStep
<1>2. kern' = [kern EXCEPT ![fd] = IF fd \in open' THEN New ELSE Closed]
  BY DEF SocketCreate
<1>3. /\ KernType' /\ \A x \in Fds \ {fd} : kern'[x].kind = kern[x].kind
      /\ kern'[fd] = IF fd \in open' THEN New ELSE Closed
  BY <1>2, KernelRecords DEF SocketsInv, WorldInv, KernType
<1>4. OpenInKernel'
  BY <1>1, <1>3, CreateOpens, OpenedInKernel DEF SocketsInv
<1> QED BY <1>1, <1>3, <1>4, CallReturns, TableStepIsNext DEF StepOk, SocketsInv, Results

LEMMA SocketDestroyOk ==
    ASSUME SocketsInv, NEW c \in Coros, NEW h \in Known, SocketDestroy(c, h)
    PROVE  StepOk
<1> DEFINE fd == sockets[handle_index(h)].fd
<1>1. /\ Destroy(h) /\ UNCHANGED clock /\ kern' = [kern EXCEPT ![fd] = Closed]
      /\ call' = [call EXCEPT ![c] = NoCall] /\ ret' = "OK" /\ open' = open \ {fd}
  BY DEF SocketDestroy, Return, Destroy, closesocket
<1>2. fd \in open /\ fd \in Fds
  BY <1>1, WorldFacts DEF SocketsInv, Destroy
<1>3. [TableNext]_tableVars
  BY <1>1 DEF TableNext
<1> HIDE DEF fd
<1>4. KernType' /\ OpenInKernel'
  BY <1>1, <1>2, KernelRecords DEF SocketsInv, WorldInv, KernType, OpenInKernel
<1> QED BY <1>1, <1>3, <1>4, CallReturns DEF StepOk, SocketsInv, Results

LEMMA SetTimeoutOk ==
    ASSUME SocketsInv, NEW c \in Coros, NEW h \in Known, NEW t \in Timeouts, SetTimeout(c, h, t)
    PROVE  StepOk
<1>1. /\ TableSetReadTimeout(h, t) \/ TableSetWriteTimeout(h, t)
      /\ UNCHANGED <<kern, clock>>
      /\ call' = [call EXCEPT ![c] = NoCall] /\ ret' = "OK"
  BY DEF SetTimeout, Return
<1>2. [TableNext]_tableVars /\ open' = open
  BY <1>1 DEF TableNext, TableSetReadTimeout, TableSetWriteTimeout
<1> QED BY <1>1, <1>2, CallReturns
    DEF StepOk, SocketsInv, WorldInv, KernType, OpenInKernel, Results

LEMMA ListenOk ==
    ASSUME SocketsInv, NEW c \in Coros, NEW h \in Known, Listen(c, h)
    PROVE  StepOk
<1> DEFINE fd == sockets[handle_index(h)].fd
<1>1. fd \in open /\ fd \in Fds /\ Kind(fd) = kern[fd].kind /\ kern[fd].kind # "closed"
  BY WorldFacts DEF SocketsInv, WorldInv, OpenInKernel, Listen, Kind
<1>2. PICK r \in listen(fd) :
        /\ kern' = [kern EXCEPT ![fd] = r.becomes]
        /\ call' = [call EXCEPT ![c] = NoCall] /\ ret' = r.res
  BY DEF Listen, Return
<1>3. TableUnchanged /\ UNCHANGED clock
  BY DEF Listen
<1>4. /\ r.res \in {"OK", "error"}
      /\ r.becomes \in {kern[fd], [kern[fd] EXCEPT !.kind = "listener"]}
  BY <1>2 DEF listen, Outcome
<1> HIDE DEF fd
<1>5. KernType' /\ OpenInKernel'
  <2>1. open' = open
    BY <1>3 DEF TableUnchanged
  <2>2. CASE r.becomes = kern[fd]
    BY <1>1, <1>2, <2>1, <2>2 DEF SocketsInv, WorldInv, KernType, OpenInKernel
  <2>3. CASE r.becomes = [kern[fd] EXCEPT !.kind = "listener"]
    BY <1>1, <1>2, <2>1, <2>3 DEF SocketsInv, WorldInv, KernType, OpenInKernel
  <2> QED BY <1>4, <2>2, <2>3
<1> QED BY <1>2, <1>3, <1>4, <1>5, CallReturns
    DEF StepOk, SocketsInv, Results, TableUnchanged, tableVars

LEMMA WakesOrExpiresOk ==
    ASSUME SocketsInv, NEW c \in Coros, Wakes(c) \/ Expires(c)
    PROVE  StepOk
<1>1. PICK at \in {"awake", "late"} : call' = [call EXCEPT ![c].at = at]
  BY DEF Wakes, Expires
<1>2. call[c].at = "wait" /\ UNCHANGED <<kern, clock>> /\ TableUnchanged /\ ret' = "none"
  BY DEF Wakes, Expires
<1>3. CallTypes'
  BY <1>1, <1>2 DEF SocketsInv, CallTypes, Idle
<1> QED BY <1>2, <1>3, QuietStepOk DEF Results

LEMMA EnvironmentOk ==
    ASSUME SocketsInv, (\E fd \in Fds : KernelStep(fd)) \/ ClockTicks
    PROVE  StepOk
<1>0. TableUnchanged /\ call' = call /\ ret' = "none"
  BY DEF KernelStep, ClockTicks
<1>1. CallTypes' /\ ret' \in Results /\ [TableNext]_tableVars
  BY <1>0 DEF SocketsInv, CallTypes, Idle, Results, TableUnchanged, tableVars
<1>2. CASE ClockTicks
  <2>1. clock' \in 0 .. ClockBound /\ UNCHANGED kern
    <3>1. ClockBound \in Nat
      BY SocketsAssumption, U64MaxAssumption DEF U64
    <3> QED BY <1>2, <3>1 DEF ClockTicks, SocketsInv
  <2> QED BY <1>0, <1>1, <2>1
      DEF StepOk, SocketsInv, WorldInv, KernType, OpenInKernel, TableUnchanged
<1>3. ASSUME NEW fd \in Fds, KernelStep(fd) PROVE StepOk
  <2>1. fd \in open /\ kern[fd].kind # "closed" /\ UNCHANGED <<clock, open>>
    BY <1>3 DEF KernelStep, SocketsInv, WorldInv, OpenInKernel, TableUnchanged
  <2>2. KernType' /\ \A x \in Fds : kern'[x].kind # "closed" <=> kern[x].kind # "closed"
    <3>1. CASE \E in \in {"some", "eof"} : kern' = [kern EXCEPT ![fd].input = in]
      BY <3>1 DEF SocketsInv, WorldInv, KernType
    <3>2. CASE kern' = [kern EXCEPT ![fd].room = TRUE]
      BY <3>2 DEF SocketsInv, WorldInv, KernType
    <3>3. CASE kern' = [kern EXCEPT ![fd] = Up]
      BY <2>1, <3>3, KernelRecords DEF SocketsInv, WorldInv, KernType
    <3>4. CASE kern' = [kern EXCEPT ![fd].kind = "refused"]
      BY <2>1, <3>4 DEF SocketsInv, WorldInv, KernType
    <3> QED BY <1>3, <3>1, <3>2, <3>3, <3>4 DEF KernelStep
  <2> QED BY <1>1, <2>1, <2>2 DEF StepOk, SocketsInv, WorldInv, OpenInKernel
<1> QED BY <1>2, <1>3

LEMMA StepIsOk == SocketsInv /\ [SocketsNext]_sockVars => StepOk
<1> SUFFICES ASSUME SocketsInv, [SocketsNext]_sockVars PROVE StepOk
  OBVIOUS
<1>1. CASE UNCHANGED sockVars
  BY <1>1 DEF sockVars, SocketsInv, WorldInv, KernType, OpenInKernel, CallTypes, Idle,
              StepOk, tableVars
<1>2. ASSUME NEW c \in Coros, NEW h \in Known, Bind(c, h) \/ ReuseAddr(c, h) PROVE StepOk
  <2>1. /\ call' = [call EXCEPT ![c] = NoCall] /\ ret' \in Results
        /\ UNCHANGED <<kern, clock>> /\ TableUnchanged
    BY <1>2 DEF Bind, bind, ReuseAddr, setsockopt_reuseaddr, Configures, Return, Results
  <2> QED BY <2>1, CallReturns, QuietStepOk DEF SocketsInv
<1>3. ASSUME NEW c \in Coros, CoroutineRuns(c) PROVE StepOk
  BY <1>2, <1>3, BeginOk, ContinueOk, SocketCreateOk, SocketDestroyOk, SetTimeoutOk, ListenOk
  DEF CoroutineRuns
<1> QED BY <1>1, <1>3, WakesOrExpiresOk, EnvironmentOk DEF SocketsNext

LEMMA SocketsInvStep == SocketsInv /\ [SocketsNext]_sockVars => SocketsInv'
<1> SUFFICES ASSUME SocketsInv, StepOk PROVE SocketsInv'
  BY StepIsOk
<1>1. TableInv' /\ DescriptorsHaveOneEntry'
  BY TypeStep, ConsistentStep, DescriptorsStep DEF SocketsInv, WorldInv, StepOk, TableInv
<1> QED BY <1>1 DEF StepOk, SocketsInv, WorldInv

LEMMA SocketsStart == SocketsInit => SocketsInv
<1> SUFFICES ASSUME SocketsInit PROVE SocketsInv
  OBVIOUS
<1>1. TableInv
  BY InvInit DEF SocketsInit
<1>2. DescriptorsHaveOneEntry
  BY DEF SocketsInit, TableInit, DescriptorsHaveOneEntry, Used, IsFree, FreeEntry
<1>3. KernType /\ OpenInKernel
  BY KernelRecords DEF SocketsInit, TableInit, KernType, OpenInKernel
<1>4. CallTypes
  BY ZeroHandle DEF SocketsInit, CallTypes, NoCall, Idle
<1>5. ret \in Results /\ clock \in 0 .. ClockBound
  BY SocketsAssumption, U64MaxAssumption DEF SocketsInit, Results, U64
<1> QED BY <1>1, <1>2, <1>3, <1>4, <1>5 DEF SocketsInv, WorldInv

LEMMA SocketsInvariant == SocketsSpec => []SocketsInv
BY SocketsStart, SocketsInvStep, PTL DEF SocketsSpec

(***************************************************************************)
(* The state of every call, of the kernel and of the table keeps its type, *)
(* and what a call holds are an index, a handle and a descriptor.          *)
(***************************************************************************)
THEOREM SocketsTypeCorrect == SocketsSpec => []SocketsTypeOK
<1>1. SocketsInv => SocketsTypeOK
  BY DEF SocketsInv, WorldInv, TableInv, KernType, CallTypes, SocketsTypeOK
<1> QED BY <1>1, SocketsInvariant, PTL

(***************************************************************************)
(* The table and the kernel agree on what is open: whatever step of accept *)
(* (accept.hpp) or create (create.hpp) fails, nothing leaks.               *)
(***************************************************************************)
THEOREM NothingLeaks == SocketsSpec => []KernelAgrees
<1>1. SocketsInv => KernelAgrees
  BY DEF SocketsInv, WorldInv, OpenInKernel, KernelAgrees
<1> QED BY <1>1, SocketsInvariant, PTL

(***************************************************************************)
(* With calls that suspend, and several coroutines, the table still is the *)
(* table: whatever was proved of it alone holds of it here.                *)
(***************************************************************************)
THEOREM SocketsUseTheTable == SocketsSpec => TableSpec
<1>1. SocketsInit => TableInit
  BY DEF SocketsInit
<1>2. SocketsInv /\ [SocketsNext]_sockVars => [TableNext]_tableVars
  BY StepIsOk DEF StepOk
<1> QED BY <1>1, <1>2, SocketsInvariant, PTL DEF SocketsSpec, TableSpec

(***************************************************************************)
(* No handle is ever reused, also with calls that suspend ("We never reuse *)
(* socket IDs", handle.hpp).                                               *)
(***************************************************************************)
THEOREM SocketsImplementMap == SocketsSpec => ImplementsMap
BY SocketsUseTheTable, TableImplementsMap

-----------------------------------------------------------------------------
(***************************************************************************)
(* What accept gives out, with disciplined clients or without.             *)
(***************************************************************************)
\* One round of accept, and what it does to handles and descriptors.
GivesNothing == UNCHANGED <<sockets, used, open>>
GivesOne == \E new \in Fds : Create(new) /\ kern'[new] = Up
AcceptEffect ==
    \/ ret' = "OK" /\ GivesOne
    \/ ret' # "OK" /\ GivesNothing

LEMMA FailedCreate ==
    ASSUME NEW fd, CreateTableFull(fd) \/ CreateExhausted(fd) \/ TableUnchanged
    PROVE  GivesNothing
BY DEF CreateTableFull, CreateExhausted, TableUnchanged, closesocket, GivesNothing

LEMMA AcceptRound ==
    ASSUME WorldInv, NEW c \in Coros, NEW h, NEW i, NEW limit, TryAccept(c, h, i, limit)
    PROVE  AcceptEffect
<1> DEFINE fd == sockets[i].fd
<1>1. ASSUME NEW new \in Fds \ open, Kind(fd) = "listener", Accepted(c, fd, new)
      PROVE  AcceptEffect
  <2>1. CASE Create(new) /\ Return(c, "OK")
    <3>1. /\ fd # new /\ new \in open' /\ kern \in [Fds -> {kern[x] : x \in Fds}]
      BY <1>1, <2>1 DEF Kind, Create, WorldInv, KernType
    <3>2. kern' = [kern EXCEPT ![fd].input = "none",
                               ![new] = IF new \in open' THEN Up ELSE Closed]
      BY <1>1 DEF Accepted
    <3> HIDE DEF fd
    <3>3. kern'[new] = Up
      BY <3>1, <3>2
    <3> QED BY <2>1, <3>3 DEF Return, AcceptEffect, GivesOne
  <2>2. CASE ~ (Create(new) /\ Return(c, "OK"))
    <3>1. /\ CreateTableFull(new) \/ CreateExhausted(new) \/ TableUnchanged
          /\ ret' = "error"
      BY <1>1, <2>2 DEF Accepted, StaysBlocking, Return
    <3> QED BY <3>1, FailedCreate DEF AcceptEffect
  <2> QED BY <2>1, <2>2
<1>2. CASE ~ \E new \in Fds \ open : Kind(fd) = "listener" /\ Accepted(c, fd, new)
  <2>1. TableUnchanged /\ ret' \in {"none", "error"}
    BY <1>2 DEF TryAccept, Suspend, Return
  <2> QED BY <2>1, FailedCreate DEF AcceptEffect
<1> QED BY <1>1, <1>2

LEMMA AcceptEffects ==
    ASSUME SocketsInv, NEW c \in Coros, Accepts(c)
    PROVE  AcceptEffect
<1>1. ASSUME NEW h, NEW i, NEW limit, Try(c, "accept", h, i, limit)
      PROVE  AcceptEffect
  <2>1. TryAccept(c, h, i, limit)
    BY <1>1 DEF Try
  <2> QED BY <2>1, AcceptRound DEF SocketsInv
<1>2. CASE TableUnchanged /\ ret' \in {"EBADF", "ETIMEDOUT"}
  BY <1>2, FailedCreate DEF AcceptEffect
<1>3. ASSUME NEW h \in Known, Begin(c, "accept", h) PROVE AcceptEffect
  BY <1>1, <1>2, <1>3 DEF Begin, Return
<1>4. CASE Continue(c) /\ call[c].op = "accept"
  BY <1>1, <1>2, <1>4 DEF Continue, Return
<1> QED BY <1>3, <1>4 DEF Accepts

(***************************************************************************)
(* accept succeeds exactly if it gives out one new handle, that of the     *)
(* connection that the listener lost, and leaves no handle and no          *)
(* descriptor behind if it fails (accept.hpp, info.cpp): also when the     *)
(* clients destroy the listener in the meantime.                           *)
(***************************************************************************)
THEOREM AcceptIsAllOrNothing == SocketsSpec => AcceptGivesOneHandle
<1> DEFINE P(c) ==
        IF ret' = "OK"
        THEN \E h \in used' \ used :
                /\ LiveHandles' = LiveHandles \union {h}
                /\ LiveMap'[h].fd \notin open /\ kern'[LiveMap'[h].fd] = Up
        ELSE LiveHandles' = LiveHandles /\ open' = open
<1>1. ASSUME SocketsInv, NEW c \in Coros, Accepts(c) PROVE P(c)
  <2>1. CASE ret' = "OK"
    <3>1. PICK new \in Fds : Create(new) /\ kern'[new] = Up
      BY <1>1, <2>1, AcceptEffects DEF AcceptEffect, GivesOne
    <3>2. PICK h : Opened(h, new)
      BY <1>1, <3>1, OpenEffects DEF SocketsInv, WorldInv
    <3>3. h \in used' \ used /\ LiveHandles' = LiveHandles \union {h} /\ new \notin open
      BY <3>2 DEF Opened
    <3>4. sockets'[handle_index(h)].fd = new
      BY <1>1, <3>2, WorldFacts DEF SocketsInv, Opened, NewEntry
    <3>5. LiveMap'[h].fd = new
      BY <3>3, <3>4 DEF LiveMap
    <3> QED BY <2>1, <3>1, <3>3, <3>5
  <2>2. CASE ret' # "OK"
    <3>1. GivesNothing
      BY <1>1, <2>2, AcceptEffects DEF AcceptEffect
    <3> QED BY <2>2, <3>1 DEF GivesNothing, LiveHandles, Used, IsFree
  <2> QED BY <2>1, <2>2
<1>2. SocketsInv => [\A c \in Coros : ~ aborted /\ ~ aborted' /\ Accepts(c) => P(c)]_sockVars
  BY <1>1
<1> QED BY <1>2, SocketsInvariant, PTL DEF AcceptGivesOneHandle

-----------------------------------------------------------------------------
(***************************************************************************)
(* Disciplined clients.  A suspended call keeps its entry because entries  *)
(* in use change only in calls on their own handle; and since its timeouts *)
(* do not change either, every retry waits at least until the limit.       *)
(***************************************************************************)
KeepsEntry(c) ==
    /\ call[c].handle # InvalidHandle
    /\ sockets[call[c].index].handle = call[c].handle
    /\ sockets[call[c].index].fd = call[c].fd

InTime(c) ==
    /\ SatAdd(clock, TimeoutOf(call[c].op, call[c].index)) >= call[c].limit
    /\ call[c].deadline >= call[c].limit
    /\ call[c].at = "late" => clock >= call[c].deadline

CallsInv == \A c \in Coros : ~ Idle(c) => KeepsEntry(c) /\ InTime(c)

\* Rounds of calls, as far as the calls are concerned: they end, or they suspend.
Ends(c) == call' = [call EXCEPT ![c] = NoCall]

LEMMA BeginEffects ==
    ASSUME SocketsInv, NEW c \in Coros, NEW op \in Suspending, NEW h \in Known, Begin(c, op, h)
    PROVE  /\ TableStep /\ UNCHANGED clock
           /\ \/ Ends(c)
              \/ /\ Finds(h) /\ h # InvalidHandle /\ handle_index(h) \in Index
                 /\ Suspend(c, op, h, handle_index(h), Limit(op, handle_index(h)))
<1>1. CASE Finds(h)
  <2> DEFINE i == handle_index(h)
  <2>1. h # InvalidHandle /\ i \in Index /\ sockets[i].fd \in open
    BY <1>1, WorldFacts DEF SocketsInv
  <2>2. Try(c, op, h, i, Limit(op, i)) /\ UNCHANGED clock
    BY <1>1 DEF Begin
  <2> HIDE DEF i
  <2>3. RoundOk(c, op, h, i, Limit(op, i))
    BY <2>1, <2>2, TryRound DEF SocketsInv
  <2>4. /\ TableStep
        /\ Ends(c) \/ Suspend(c, op, h, i, Limit(op, i))
    BY <2>3 DEF RoundOk, Ends
  <2> QED BY <1>1, <2>1, <2>2, <2>4 DEF i
<1>2. CASE ~ Finds(h)
  BY <1>2 DEF Begin, Return, Ends, TableStep
<1> QED BY <1>1, <1>2

LEMMA ContinueEffects ==
    ASSUME SocketsInv, NEW c \in Coros, Continue(c)
    PROVE  /\ TableStep /\ UNCHANGED clock
           /\ \/ Ends(c)
              \/ /\ ~ Idle(c)
                 /\ Suspend(c, call[c].op, call[c].handle, call[c].index, call[c].limit)
<1> DEFINE k == call[c]
<1>1. k.op \in Suspending /\ k.index \in Index /\ ~ Idle(c) /\ UNCHANGED clock
  BY DEF SocketsInv, CallTypes, Continue, Idle
<1>2. CASE k.at = "late"
  BY <1>1, <1>2 DEF Continue, Return, Ends, TableStep
<1>3. CASE k.at # "late" /\ k.op = "connect"
  BY <1>1, <1>3 DEF Continue, ConnectEnds, Return, Ends, TableStep
<1>4. CASE k.at # "late" /\ k.op # "connect"
  <2>1. Try(c, k.op, k.handle, k.index, k.limit)
    BY <1>4 DEF Continue
  <2>2. RoundOk(c, k.op, k.handle, k.index, k.limit)
    BY <1>1, <1>4, <2>1, TryRound DEF SocketsInv
  <2> QED BY <1>1, <2>2 DEF RoundOk, Ends
<1> QED BY <1>2, <1>3, <1>4

\* What create and accept do leaves alone the entries that are in use.
LEMMA UsedEntryStays ==
    ASSUME WorldInv, TableStep, NEW i \in Index, ~ IsFree(i)
    PROVE  sockets'[i] = sockets[i]
<1>0. sockets \in [Index -> Entry]
  BY WorldFacts
<1>1. ASSUME NEW fd \in Fds, Create(fd) PROVE sockets'[i] = sockets[i]
  <2>1. PICK n \in Nat : Created(fd, n)
    BY <1>1, CreateEffects DEF WorldInv
  <2> DEFINE j == n % MaxSockets
  <2>2. j \in Index /\ IsFree(j) /\ sockets' = [sockets EXCEPT ![j] = NewEntry(FirstHandle + n, fd)]
    BY <2>1 DEF Created
  <2> HIDE DEF j
  <2> QED BY <1>0, <2>2
<1> QED BY <1>1 DEF TableStep, TableUnchanged, CreateTableFull, CreateExhausted

\* The entry of a call in flight changes only in that call.
LEMMA EntryStays ==
    ASSUME Disciplined, SocketsInv, [SocketsNext]_sockVars,
           NEW c \in Coros, ~ Idle(c), KeepsEntry(c)
    PROVE  sockets'[call[c].index] = sockets[call[c].index]
<1> DEFINE i == call[c].index
           h == call[c].handle
<1>0. /\ i \in Index /\ sockets \in [Index -> Entry] /\ sockets[i].handle = h
      /\ h # InvalidHandle /\ InFlight(h) /\ ~ IsFree(i)
  BY WorldFacts DEF SocketsInv, CallTypes, KeepsEntry, InFlight, IsFree
<1>2. ASSUME NEW x \in Known, x # h, Finds(x), NEW e,
             sockets' = [sockets EXCEPT ![handle_index(x)] = e]
      PROVE  sockets'[i] = sockets[i]
  <2>1. handle_index(x) # i
    BY <1>0, <1>2 DEF Finds
  <2> QED BY <1>0, <1>2, <2>1
<1>3. ASSUME NEW d \in Coros, NEW x \in Known, SocketDestroy(d, x)
      PROVE  sockets'[i] = sockets[i]
  <2>1. x # h /\ Finds(x) /\ sockets' = [sockets EXCEPT ![handle_index(x)] = FreeEntry]
    BY <1>0, <1>3 DEF SocketDestroy, MayDisturb, Destroy
  <2> QED BY <1>2, <2>1
<1>4. ASSUME NEW d \in Coros, NEW x \in Known, NEW t \in Timeouts, SetTimeout(d, x, t)
      PROVE  sockets'[i] = sockets[i]
  <2>1. x # h /\ Finds(x)
    BY <1>0, <1>4 DEF SetTimeout, MayDisturb, TableSetReadTimeout, TableSetWriteTimeout
  <2>2. PICK e : sockets' = [sockets EXCEPT ![handle_index(x)] = e]
    <3>1. CASE TableSetReadTimeout(x, t)
      BY <3>1 DEF TableSetReadTimeout
    <3>2. CASE TableSetWriteTimeout(x, t)
      BY <3>2 DEF TableSetWriteTimeout
    <3> QED BY <1>4, <3>1, <3>2 DEF SetTimeout
  <2> QED BY <1>2, <2>1, <2>2
<1>5. CASE TableStep
  BY <1>0, <1>5, UsedEntryStays DEF SocketsInv
<1>6. ASSUME NEW d \in Coros, NEW x \in Known, NEW op \in Suspending, Begin(d, op, x)
      PROVE  TableStep
  BY <1>6, BeginEffects
<1>7. ASSUME NEW d \in Coros, Continue(d) PROVE TableStep
  BY <1>7, ContinueEffects
<1>8. ASSUME NEW d \in Coros, NEW fd \in Fds, SocketCreate(d, fd) PROVE TableStep
  BY <1>8 DEF SocketCreate, NoSocket, StaysBlocking, TableStep
<1>9. ASSUME NEW d \in Coros, NEW x \in Known, Bind(d, x) \/ ReuseAddr(d, x) \/ Listen(d, x)
      PROVE  TableStep
  BY <1>9 DEF Bind, ReuseAddr, Configures, Listen, TableStep
<1>10. ASSUME NEW d \in Coros, Wakes(d) \/ Expires(d) PROVE TableStep
  BY <1>10 DEF Wakes, Expires, TableStep
<1>11. CASE (\E fd \in Fds : KernelStep(fd)) \/ ClockTicks \/ UNCHANGED sockVars
  BY <1>5, <1>11 DEF KernelStep, ClockTicks, TableStep, TableUnchanged, sockVars
<1> QED BY <1>3, <1>4, <1>5, <1>6, <1>7, <1>8, <1>9, <1>10, <1>11
    DEF SocketsNext, CoroutineRuns

LEMMA ClockGrows ==
    ASSUME SocketsInv, SocketsInv', [SocketsNext]_sockVars
    PROVE  clock \in U64 /\ clock' \in U64 /\ clock <= clock'
<1>1. clock \in U64 /\ clock' \in U64
  BY ClockIsU64 DEF SocketsInv
<1>2. clock' = clock \/ clock' = clock + 1
  BY DEF SocketsNext, CoroutineRuns, Begin, Continue, SocketCreate, SocketDestroy,
         Bind, ReuseAddr, Configures, Listen, SetTimeout, Wakes, Expires, KernelStep, ClockTicks, sockVars
<1> QED BY <1>1, <1>2 DEF U64

\* The timeout of a call in flight, and how late it may be, only get later.
LEMMA TimeoutStays ==
    ASSUME Disciplined, SocketsInv, SocketsInv', [SocketsNext]_sockVars,
           NEW c \in Coros, ~ Idle(c), KeepsEntry(c),
           SatAdd(clock, TimeoutOf(call[c].op, call[c].index)) >= call[c].limit,
           call'[c].op = call[c].op, call'[c].index = call[c].index,
           call'[c].limit = call[c].limit
    PROVE  SatAdd(clock', TimeoutOf(call[c].op, call[c].index)') >= call'[c].limit
<1> DEFINE k == call[c]
           t == TimeoutOf(k.op, k.index)
<1>1. TimeoutOf(k.op, k.index)' = t
  BY EntryStays DEF TimeoutOf
<1>2. t \in U64
  <2>1. sockets[k.index] \in Entry
    BY WorldFacts DEF SocketsInv, CallTypes
  <2> QED BY <2>1, TimeoutsAreU64 DEF TimeoutOf, Entry
<1>3. clock \in U64 /\ clock' \in U64 /\ clock <= clock'
  BY ClockGrows
<1>4. SatAdd(clock, t) <= SatAdd(clock', t) /\ SatAdd(clock, t) \in U64 /\ SatAdd(clock', t) \in U64
  BY <1>2, <1>3, LaterIsLater, SatAddType
<1>5. k.limit \in U64
  BY DEF SocketsInv, CallTypes
<1> HIDE DEF t
<1>6. SatAdd(clock', t) >= k.limit
  BY <1>4, <1>5 DEF U64, t
<1> QED BY <1>1, <1>6

LEMMA OthersStay ==
    ASSUME Disciplined, SocketsInv, SocketsInv', CallsInv, [SocketsNext]_sockVars,
           NEW c \in Coros, ~ Idle(c), call'[c] = call[c]
    PROVE  (KeepsEntry(c) /\ InTime(c))'
<1>1. sockets'[call[c].index] = sockets[call[c].index] /\ KeepsEntry(c) /\ InTime(c)
  BY EntryStays DEF CallsInv
<1>2. SatAdd(clock', TimeoutOf(call[c].op, call[c].index)') >= call'[c].limit
  BY <1>1, TimeoutStays DEF InTime
<1>3. call[c].at = "late" => clock' >= call[c].deadline
  <2>1. call[c].deadline \in U64
    BY DEF SocketsInv, CallTypes
  <2> QED BY <1>1, <2>1, ClockGrows DEF InTime, U64
<1> QED BY <1>1, <1>2, <1>3 DEF KeepsEntry, InTime

LEMMA CallsStep ==
    ASSUME Disciplined, SocketsInv, SocketsInv', CallsInv, [SocketsNext]_sockVars
    PROVE  CallsInv'
<1> SUFFICES ASSUME NEW d \in Coros, ~ Idle(d)' PROVE (KeepsEntry(d) /\ InTime(d))'
  BY DEF CallsInv
<1>0. call \in [Coros -> [at : {"idle", "wait", "awake", "late"},
                         op : Suspending \union {"none"}, handle : HandleSpace,
                         index : Index, fd : Fds \union {0}, deadline : U64, limit : U64]]
  BY DEF SocketsInv, CallTypes
<1>1. ASSUME call'[d] = call[d] PROVE (KeepsEntry(d) /\ InTime(d))'
  <2>1. ~ Idle(d)
    BY <1>1 DEF Idle
  <2> QED BY <1>1, <2>1, OthersStay
<1>2. ASSUME NEW c \in Coros, Ends(c) PROVE (KeepsEntry(d) /\ InTime(d))'
  <2>1. d # c
    BY <1>0, <1>2 DEF Ends, Idle, NoCall
  <2> QED BY <1>0, <1>1, <1>2, <2>1 DEF Ends
\* A call that suspends: for the first time ...
<1>3. ASSUME NEW c \in Coros, NEW op \in Suspending, NEW h \in Known, Begin(c, op, h)
      PROVE  (KeepsEntry(d) /\ InTime(d))'
  <2> DEFINE i == handle_index(h)
  <2>1. CASE Ends(c)
    BY <1>2, <2>1
  <2>2. CASE /\ Finds(h) /\ h # InvalidHandle /\ i \in Index
             /\ Suspend(c, op, h, i, Limit(op, i))
    <3>1. CASE d # c
      BY <1>0, <1>1, <2>2, <3>1 DEF Suspend
    <3>2. CASE d = c
      <4>1. call'[c] = [at |-> "wait", op |-> op, handle |-> h, index |-> i,
                        fd |-> sockets[i].fd, deadline |-> SatAdd(clock, TimeoutOf(op, i)),
                        limit |-> Limit(op, i)]
        BY <1>0, <2>2 DEF Suspend
      <4>2. sockets' = sockets /\ clock' = clock
        BY <1>3, <2>2 DEF Suspend, TableUnchanged, Begin
      <4>3. Limit(op, i) = SatAdd(clock, TimeoutOf(op, i)) /\ Limit(op, i) \in U64
        <5>1. Limit(op, i) = SatAdd(clock, TimeoutOf(op, i))
          <6>1. Limit(op, i) = SumOrMax(clock, TimeoutOf(op, i))
            BY <2>2, TimeoutAsPromised DEF Limit
          <6>2. TimeoutOf(op, i) \in U64 /\ clock \in U64
            BY <2>2, TableTimeouts, ClockIsU64 DEF SocketsInv, WorldInv
          <6> QED BY <6>1, <6>2, SatAddIsMeant
        <5> QED BY <3>2, <4>1, <5>1 DEF SocketsInv, CallTypes
      <4>4. sockets[i].handle = h
        BY <2>2 DEF Finds
      <4>5. TimeoutOf(op, i)' = TimeoutOf(op, i)
        BY <4>2 DEF TimeoutOf
      <4> HIDE DEF i
      <4>6. KeepsEntry(c)'
        BY <2>2, <4>1, <4>2, <4>4 DEF KeepsEntry
      <4>7. InTime(c)'
        <5>1. /\ call'[c].op = op /\ call'[c].index = i /\ call'[c].at = "wait"
              /\ call'[c].deadline = Limit(op, i) /\ call'[c].limit = Limit(op, i)
          BY <4>1, <4>3
        <5>2. TimeoutOf(call[c].op, call[c].index)' = TimeoutOf(op, i)
          BY <4>5, <5>1
        <5> QED BY <4>2, <4>3, <5>1, <5>2 DEF InTime, U64
      <4> QED BY <3>2, <4>6, <4>7
    <3> QED BY <3>1, <3>2
  <2> QED BY <1>3, <2>1, <2>2, BeginEffects
\* ... or again.
<1>4. ASSUME NEW c \in Coros, Continue(c) PROVE (KeepsEntry(d) /\ InTime(d))'
  <2> DEFINE k == call[c]
  <2>1. CASE Ends(c)
    BY <1>2, <2>1
  <2>2. CASE ~ Idle(c) /\ Suspend(c, k.op, k.handle, k.index, k.limit)
    <3>1. CASE d # c
      BY <1>0, <1>1, <2>2, <3>1 DEF Suspend
    <3>2. CASE d = c
      <4>1. call'[c] = [at |-> "wait", op |-> k.op, handle |-> k.handle, index |-> k.index,
                        fd |-> sockets[k.index].fd,
                        deadline |-> SatAdd(clock, TimeoutOf(k.op, k.index)),
                        limit |-> k.limit]
        BY <1>0, <2>2 DEF Suspend
      <4>2. sockets' = sockets /\ clock' = clock
        BY <1>4, <2>2 DEF Suspend, TableUnchanged, Continue
      <4>3. KeepsEntry(c) /\ SatAdd(clock, TimeoutOf(k.op, k.index)) >= k.limit
        BY <2>2 DEF CallsInv, InTime
      <4>4. KeepsEntry(c)'
        BY <4>1, <4>2, <4>3 DEF KeepsEntry
      <4>5. TimeoutOf(call[c].op, call[c].index)' = TimeoutOf(k.op, k.index)
        BY <4>1, <4>2 DEF TimeoutOf
      <4>6. InTime(c)'
        BY <4>1, <4>2, <4>3, <4>5 DEF InTime
      <4> QED BY <3>2, <4>4, <4>6
    <3> QED BY <3>1, <3>2
  <2> QED BY <1>4, <2>1, <2>2, ContinueEffects
<1>5. ASSUME NEW c \in Coros, Wakes(c) \/ Expires(c) PROVE (KeepsEntry(d) /\ InTime(d))'
  <2>1. CASE d # c
    BY <1>0, <1>1, <1>5, <2>1 DEF Wakes, Expires
  <2>2. CASE d = c
    <3>1. /\ call[c].at = "wait" /\ sockets' = sockets /\ clock' = clock
          /\ call' = [call EXCEPT ![c].at = "awake"]
                \/ (call' = [call EXCEPT ![c].at = "late"] /\ clock >= call[c].deadline)
      BY <1>5 DEF Wakes, Expires, TableUnchanged
    <3>2. KeepsEntry(c) /\ InTime(c)
      BY <3>1 DEF CallsInv, Idle
    <3>3. /\ call'[c].op = call[c].op /\ call'[c].index = call[c].index
          /\ call'[c].handle = call[c].handle /\ call'[c].fd = call[c].fd
          /\ call'[c].deadline = call[c].deadline /\ call'[c].limit = call[c].limit
          /\ call'[c].at = "late" => clock >= call[c].deadline
      BY <1>0, <3>1
    <3>4. TimeoutOf(call[c].op, call[c].index)' = TimeoutOf(call[c].op, call[c].index)
      BY <3>1, <3>3 DEF TimeoutOf
    <3> QED BY <2>2, <3>1, <3>2, <3>3, <3>4 DEF KeepsEntry, InTime
  <2> QED BY <2>1, <2>2
<1>6. ASSUME NEW c \in Coros, CoroutineRuns(c) PROVE (KeepsEntry(d) /\ InTime(d))'
  <2>1. CASE Ends(c)
    BY <1>2, <2>1
  <2>2. CASE Continue(c) \/ \E op \in Suspending, h \in Known : Begin(c, op, h)
    BY <1>3, <1>4, <2>2
  <2>3. CASE ~ (Continue(c) \/ \E op \in Suspending, h \in Known : Begin(c, op, h))
    <3>1. Ends(c)
      BY <1>6, <2>3
      DEF CoroutineRuns, SocketCreate, SocketDestroy, Bind, ReuseAddr, Configures, Listen, SetTimeout,
          NoSocket, StaysBlocking, Return, Ends
    <3> QED BY <2>1, <3>1
  <2> QED BY <2>2, <2>3
<1>7. CASE (\E fd \in Fds : KernelStep(fd)) \/ ClockTicks \/ UNCHANGED sockVars
  BY <1>1, <1>7 DEF KernelStep, ClockTicks, sockVars
<1> QED BY <1>5, <1>6, <1>7 DEF SocketsNext

LEMMA CallsStart == SocketsInit => CallsInv
BY DEF SocketsInit, CallsInv, Idle, NoCall

LEMMA CallsInvariant == ASSUME Disciplined PROVE SocketsSpec => []CallsInv
<1>1. SocketsInv /\ SocketsInv' /\ CallsInv /\ [SocketsNext]_sockVars => CallsInv'
  BY CallsStep
<1> QED BY <1>1, CallsStart, SocketsInvariant, PTL DEF SocketsSpec

(***************************************************************************)
(* With disciplined clients, a call that continues after a suspension      *)
(* still holds its own entry and descriptor (recv.hpp, connect.hpp), for   *)
(* any number of coroutines, sockets and descriptors that are reused.      *)
(***************************************************************************)
THEOREM CallsKeepTheirEntries == ASSUME Disciplined PROVE SocketsSpec => []KeepsItsEntry
<1>1. CallsInv => KeepsItsEntry
  BY DEF CallsInv, KeepsEntry, KeepsItsEntry
<1> QED BY <1>1, CallsInvariant, PTL

(***************************************************************************)
(* With disciplined clients, no call fails with ETIMEDOUT before the       *)
(* timeout that its socket has for it is over, however often it tried.     *)
(***************************************************************************)
THEOREM TimeoutsAreNotEarly == ASSUME Disciplined PROVE SocketsSpec => NeverTimesOutEarly
<1>1. ASSUME SocketsInv, CallsInv, NEW c \in Coros, Continue(c), ret' = "ETIMEDOUT"
      PROVE  clock >= call[c].limit
  <2> DEFINE k == call[c]
  <2>1. k.at = "late"
    <3>1. CASE k.op = "connect"
      BY <1>1, <3>1 DEF Continue, ConnectEnds, Return, getsockopt_error, Outcome
    <3>2. CASE k.at # "late" /\ k.op # "connect"
      <4>1. Try(c, k.op, k.handle, k.index, k.limit)
        BY <1>1, <3>2 DEF Continue
      <4> QED BY <1>1, <3>2, <4>1
          DEF Try, TryRecv, TrySend, RoundFails, TryAccept, Accepted, StaysBlocking,
              Return, Suspend
    <3> QED BY <3>1, <3>2
  <2>2. InTime(c)
    BY <1>1 DEF CallsInv, Continue, Idle
  <2>3. k.deadline \in U64 /\ k.limit \in U64 /\ clock \in U64
    BY <1>1, ClockIsU64 DEF SocketsInv, CallTypes
  <2> QED BY <2>1, <2>2, <2>3 DEF InTime, U64
<1>2. SocketsInv /\ CallsInv =>
        [\A c \in Coros : Continue(c) /\ ret' = "ETIMEDOUT" => clock >= call[c].limit]_sockVars
  BY <1>1
<1> QED BY <1>2, SocketsInvariant, CallsInvariant, PTL DEF SocketsSpec, NeverTimesOutEarly
-----------------------------------------------------------------------------
(***************************************************************************)
(* connect.  A call in connect waits for a descriptor that the kernel is   *)
(* connecting, connected or refused, and once it is awake the kernel has   *)
(* decided: since a coroutine that waits for its connection is the only    *)
(* one with a call on that socket, nobody closes it and nobody else takes  *)
(* the error of a connection that was refused.                             *)
(***************************************************************************)
ConnectingHasNoRoom == \A fd \in Fds : kern[fd].kind = "connecting" => ~ kern[fd].room

InConnect(c) == ~ Idle(c) /\ call[c].op = "connect"
Decides(c) ==
    /\ kern[call[c].fd].kind \in {"connecting", "up", "refused"}
    /\ call[c].at = "awake" => kern[call[c].fd].kind # "connecting"

ConnectInv ==
    /\ ConnectingHasNoRoom
    /\ \A c \in Coros : InConnect(c) => Decides(c)
    /\ \A c, d \in Coros :
          InConnect(c) /\ ~ Idle(d) /\ call[c].handle = call[d].handle => c = d

\* What a step does to what the kernel knows of x: it goes on as it was,
KernelKeeps(x) ==
    /\ kern'[x].kind = kern[x].kind
    /\ kern[x].kind = "connecting" => ~ kern'[x].room
\* the kernel decides about the connection, or it becomes a listener,
KernelSettles(x) == kern[x].kind = "connecting" /\ kern'[x].kind \in {"up", "refused"}
Listens(x) == kern[x].kind = "new" /\ kern'[x].kind = "listener"
\* it is created or accepted,
Opens(x) == x \notin open /\ kern'[x] \in {Closed, New, Up}
\* destroyed, connected or told to have failed, by a client that begins a call,
Connecting == [New EXCEPT !.kind = "connecting"]
Apart(h) == Disciplined => \A c \in Coros : InConnect(c) => call[c].handle # h
Disturbs(h, x) ==
    /\ Finds(h) /\ Apart(h) /\ x = sockets[handle_index(h)].fd
    /\ kern'[x] \in {Closed, New, Up, Connecting, kern[x]}
\* or the failure of its connection is reported to a call that waited.
Reports(d, x) ==
    /\ ~ Idle(d) /\ Ends(d) /\ x = sockets[call[d].index].fd
    /\ kern'[x] \in {New, kern[x]}

KernelMoves ==
    \A x \in Fds : \/ KernelKeeps(x) \/ KernelSettles(x) \/ Listens(x) \/ Opens(x)
                   \/ \E h \in Known : Disturbs(h, x)
                   \/ \E d \in Coros : Reports(d, x)

LEMMA RoundMoves ==
    ASSUME SocketsInv, ConnectingHasNoRoom, NEW c \in Coros,
           NEW op \in {"recv", "send", "accept"}, NEW h, NEW i, NEW limit, Try(c, op, h, i, limit)
    PROVE  \A x \in Fds :
              \/ KernelKeeps(x) \/ Opens(x)
              \/ x = sockets[i].fd /\ Ends(c) /\ kern'[x] = New
<1> DEFINE fd == sockets[i].fd
<1>w. /\ kern \in [Fds -> [kind : {"closed", "new", "listener", "connecting", "refused", "up"},
                           input : {"none", "some", "eof"}, room : BOOLEAN]]
      /\ \A x \in Fds : kern[x].kind = "connecting" => ~ kern[x].room
      /\ Kind(fd) # "closed" => fd \in open /\ fd \in Fds /\ Kind(fd) = kern[fd].kind
  BY WorldFacts DEF SocketsInv, WorldInv, KernType, ConnectingHasNoRoom, Kind
<1>1. CASE UNCHANGED kern
  BY <1>1, <1>w DEF KernelKeeps
<1>2. CASE Kind(fd) = "up" /\ (\/ kern' = [kern EXCEPT ![fd].input = "none"]
                               \/ kern' = [kern EXCEPT ![fd].room = FALSE])
  <2>1. fd \in Fds /\ kern[fd].kind = "up"
    BY <1>2, <1>w
  <2> HIDE DEF fd
  <2>2. CASE kern' = [kern EXCEPT ![fd].input = "none"]
    BY <1>w, <2>1, <2>2 DEF KernelKeeps
  <2>3. CASE kern' = [kern EXCEPT ![fd].room = FALSE]
    BY <1>w, <2>1, <2>3 DEF KernelKeeps
  <2> QED BY <1>2, <2>2, <2>3
<1>3. ASSUME NEW new \in Fds \ open, Kind(fd) = "listener", Accepted(c, fd, new)
      PROVE  \A x \in Fds : KernelKeeps(x) \/ Opens(x)
  <2>1. fd \in Fds /\ kern[fd].kind = "listener" /\ fd # new
    BY <1>3, <1>w
  <2>2. kern' = [kern EXCEPT ![fd].input = "none",
                             ![new] = IF new \in open' THEN Up ELSE Closed]
    BY <1>3 DEF Accepted
  <2> HIDE DEF fd
  <2>3. kern'[new] \in {Up, Closed} /\ Opens(new)
    BY <1>w, <2>1, <2>2 DEF Opens
  <2>4. ASSUME NEW x \in Fds \ {new} PROVE KernelKeeps(x)
    BY <1>w, <2>1, <2>2 DEF KernelKeeps
  <2> QED BY <2>3, <2>4
<1>5. CASE kern' = [kern EXCEPT ![fd] = New] /\ Kind(fd) = "refused" /\ Ends(c)
  <2>1. \A x \in Fds \ {fd} : KernelKeeps(x)
    BY <1>5, <1>w DEF KernelKeeps
  <2>2. fd \in Fds => kern'[fd] = New
    BY <1>5, <1>w
  <2> QED BY <1>5, <2>1, <2>2
<1>4. \/ UNCHANGED kern
      \/ Kind(fd) = "up" /\ (\/ kern' = [kern EXCEPT ![fd].input = "none"]
                             \/ kern' = [kern EXCEPT ![fd].room = FALSE])
      \/ \E new \in Fds \ open : Kind(fd) = "listener" /\ Accepted(c, fd, new)
      \/ kern' = [kern EXCEPT ![fd] = New] /\ Kind(fd) = "refused" /\ Ends(c)
  BY DEF Try, TryRecv, TrySend, TryAccept, RoundFails, Return, Ends
<1> QED BY <1>1, <1>2, <1>3, <1>4, <1>5

LEMMA ConnectMoves ==
    ASSUME SocketsInv, ConnectingHasNoRoom, NEW c \in Coros, NEW h \in Known,
           Begin(c, "connect", h)
    PROVE  KernelMoves
<1> DEFINE fd == sockets[handle_index(h)].fd
<1>1. CASE ~ Finds(h)
  BY <1>1 DEF Begin, KernelMoves, KernelKeeps, ConnectingHasNoRoom
<1>2. CASE Finds(h)
  <2>1. fd \in open /\ fd \in Fds /\ kern[fd].kind # "closed" /\ Kind(fd) = kern[fd].kind
    BY <1>2, WorldFacts DEF SocketsInv, WorldInv, OpenInKernel, Kind
  <2>2. PICK r \in connect(fd) : kern' = [kern EXCEPT ![fd] = r.becomes]
    BY <1>2 DEF Begin, Try, TryConnect
  <2>3. r.becomes \in {Up, New, Connecting, kern[fd]}
    BY <2>2 DEF connect, Outcome, Connecting
  <2>a. Apart(h)
    BY DEF Begin, MayBegin, Apart, InConnect
  <2>4. Disturbs(h, fd)
    BY <1>2, <2>1, <2>2, <2>3, <2>a DEF Disturbs, SocketsInv, WorldInv, KernType
  <2> HIDE DEF fd
  <2>5. \A x \in Fds \ {fd} : KernelKeeps(x)
    BY <2>2 DEF KernelKeeps, ConnectingHasNoRoom, SocketsInv, WorldInv, KernType
  <2> QED BY <2>4, <2>5 DEF KernelMoves
<1> QED BY <1>1, <1>2

LEMMA ContinueMoves ==
    ASSUME SocketsInv, ConnectingHasNoRoom, NEW c \in Coros, Continue(c)
    PROVE  KernelMoves
<1> DEFINE k == call[c]
           fd == sockets[k.index].fd
<1>1. CASE UNCHANGED kern
  BY <1>1 DEF KernelMoves, KernelKeeps, ConnectingHasNoRoom
<1>2. CASE k.at # "late" /\ k.op # "connect"
  <2>1. k.op \in {"recv", "send", "accept"}
    BY <1>2 DEF SocketsInv, CallTypes, Continue, Idle, Suspending
  <2>2. Try(c, k.op, k.handle, k.index, k.limit)
    BY <1>2 DEF Continue
  <2>3. ~ Idle(c)
    BY DEF Continue, Idle
  <2>4. \A x \in Fds : \/ KernelKeeps(x) \/ Opens(x)
                       \/ x = sockets[k.index].fd /\ Ends(c) /\ kern'[x] = New
    BY <2>1, <2>2, RoundMoves
  <2> QED BY <2>3, <2>4 DEF KernelMoves, Reports
<1>3. CASE k.at # "late" /\ k.op = "connect" /\ kern' # kern
  <2>1. fd \in open /\ fd \in Fds /\ ~ Idle(c) /\ Ends(c)
        /\ kern' = [kern EXCEPT ![fd] = getsockopt_error(fd).becomes]
    BY <1>3, WorldFacts DEF SocketsInv, Continue, ConnectEnds, Return, Ends, Idle
  <2>2. getsockopt_error(fd).becomes \in {New, kern[fd]}
    <3>1. Kind(fd) # "closed"
      BY <2>1 DEF SocketsInv, WorldInv, OpenInKernel, Kind
    <3> QED BY <3>1 DEF getsockopt_error, Outcome
  <2>3. Reports(c, fd)
    BY <2>1, <2>2 DEF Reports, SocketsInv, WorldInv, KernType
  <2> HIDE DEF fd
  <2>4. \A x \in Fds \ {fd} : KernelKeeps(x)
    BY <2>1 DEF KernelKeeps, ConnectingHasNoRoom, SocketsInv, WorldInv, KernType
  <2> QED BY <2>3, <2>4 DEF KernelMoves
<1> QED BY <1>1, <1>2, <1>3 DEF Continue

LEMMA QuietMoves ==
    ASSUME ConnectingHasNoRoom, UNCHANGED kern
    PROVE  KernelMoves
BY DEF ConnectingHasNoRoom, KernelMoves, KernelKeeps

\* One descriptor moves, and the others go on as they were.
LEMMA OneMoves ==
    ASSUME SocketsInv, ConnectingHasNoRoom, NEW fd \in Fds, NEW becomes,
           kern' = [kern EXCEPT ![fd] = becomes],
           \/ KernelKeeps(fd) \/ KernelSettles(fd) \/ Listens(fd) \/ Opens(fd)
           \/ \E h \in Known : Disturbs(h, fd)
    PROVE  KernelMoves
<1>1. \A x \in Fds \ {fd} : KernelKeeps(x)
  BY DEF KernelKeeps, ConnectingHasNoRoom, SocketsInv, WorldInv, KernType
<1> QED BY <1>1 DEF KernelMoves

LEMMA KernelStepMoves ==
    ASSUME SocketsInv, ConnectingHasNoRoom, NEW fd \in Fds, KernelStep(fd)
    PROVE  KernelMoves
<1>w. kern \in [Fds -> [kind : {"closed", "new", "listener", "connecting", "refused", "up"},
                        input : {"none", "some", "eof"}, room : BOOLEAN]]
  BY DEF SocketsInv, WorldInv, KernType
<1>1. PICK k : kern' = [kern EXCEPT ![fd] = k] /\ kern'[fd] = k
  BY <1>w DEF KernelStep
<1>2. CASE kern[fd].kind = "connecting"
  <2>1. kern'[fd].kind \in {"up", "refused"}
    BY <1>w, <1>2, KernelRecords DEF KernelStep
  <2> QED BY <1>1, <1>2, <2>1, OneMoves DEF KernelSettles
<1>3. CASE kern[fd].kind # "connecting"
  <2>1. kern'[fd].kind = kern[fd].kind
    BY <1>w, <1>3 DEF KernelStep
  <2> QED BY <1>1, <1>3, <2>1, OneMoves DEF KernelKeeps
<1> QED BY <1>2, <1>3

LEMMA ListenMoves ==
    ASSUME SocketsInv, ConnectingHasNoRoom, NEW c \in Coros, NEW h \in Known, Listen(c, h)
    PROVE  KernelMoves
<1> DEFINE fd == sockets[handle_index(h)].fd
<1>1. fd \in Fds /\ Kind(fd) = kern[fd].kind
  BY WorldFacts DEF SocketsInv, Listen, Kind
<1>2. PICK r \in listen(fd) : kern' = [kern EXCEPT ![fd] = r.becomes]
  BY DEF Listen
<1>3. \/ r.becomes = kern[fd]
      \/ kern[fd].kind \in {"new", "listener"} /\ r.becomes = [kern[fd] EXCEPT !.kind = "listener"]
  BY <1>1, <1>2 DEF listen, Outcome
<1> HIDE DEF fd
<1>4. kern[fd] \in [kind : {"closed", "new", "listener", "connecting", "refused", "up"},
                    input : {"none", "some", "eof"}, room : BOOLEAN]
      /\ kern'[fd] = r.becomes
  BY <1>1, <1>2 DEF SocketsInv, WorldInv, KernType
<1>5. KernelKeeps(fd) \/ Listens(fd)
  <2>1. CASE r.becomes = kern[fd]
    BY <1>1, <1>4, <2>1 DEF KernelKeeps, ConnectingHasNoRoom
  <2>2. CASE kern[fd].kind \in {"new", "listener"} /\ r.becomes = [kern[fd] EXCEPT !.kind = "listener"]
    BY <1>4, <2>2 DEF KernelKeeps, Listens
  <2> QED BY <1>3, <2>1, <2>2
<1> QED BY <1>1, <1>2, <1>5, OneMoves

LEMMA EveryStepMoves ==
    ASSUME SocketsInv, ConnectingHasNoRoom, [SocketsNext]_sockVars
    PROVE  KernelMoves
<1>w. kern \in [Fds -> {kern[x] : x \in Fds}]
  BY DEF SocketsInv, WorldInv, KernType
<1>1. ASSUME NEW c \in Coros, NEW op \in Suspending, NEW h \in Known, Begin(c, op, h)
      PROVE  KernelMoves
  <2>1. CASE op = "connect"
    BY <1>1, <2>1, ConnectMoves
  <2>2. CASE op # "connect" /\ Finds(h)
    <3>1. Try(c, op, h, handle_index(h), Limit(op, handle_index(h)))
      BY <1>1, <2>2 DEF Begin
    <3>2. op \in {"recv", "send", "accept"}
      BY <2>2 DEF Suspending
    <3>3. Apart(h)
      BY <1>1 DEF Begin, MayBegin, Apart, InConnect
    <3>4. \A x \in Fds : \/ KernelKeeps(x) \/ Opens(x)
                         \/ x = sockets[handle_index(h)].fd /\ kern'[x] = New
      BY <3>1, <3>2, RoundMoves
    <3> QED BY <2>2, <3>3, <3>4 DEF KernelMoves, Disturbs
  <2>3. CASE op # "connect" /\ ~ Finds(h)
    BY <1>1, <2>3, QuietMoves DEF Begin
  <2> QED BY <2>1, <2>2, <2>3
<1>2. ASSUME NEW c \in Coros, NEW fd \in Fds, SocketCreate(c, fd) PROVE KernelMoves
  <2>1. kern' = [kern EXCEPT ![fd] = IF fd \in open' THEN New ELSE Closed] /\ fd \notin open
    BY <1>2 DEF SocketCreate
  <2>2. Opens(fd)
    BY <1>w, <2>1 DEF Opens
  <2> QED BY <2>1, <2>2, OneMoves
<1>3. ASSUME NEW c \in Coros, NEW h \in Known, SocketDestroy(c, h) PROVE KernelMoves
  <2> DEFINE fd == sockets[handle_index(h)].fd
  <2>1. /\ Finds(h) /\ Apart(h) /\ fd \in Fds
        /\ kern' = [kern EXCEPT ![fd] = Closed]
    BY <1>3, WorldFacts
    DEF SocketsInv, SocketDestroy, Destroy, MayDisturb, InFlight, Apart, InConnect
  <2>2. Disturbs(h, fd)
    BY <1>w, <2>1 DEF Disturbs
  <2> HIDE DEF fd
  <2> QED BY <2>1, <2>2, OneMoves
<1>4. ASSUME NEW c \in Coros, NEW h \in Known, Bind(c, h) \/ ReuseAddr(c, h)
      PROVE  KernelMoves
  BY <1>4, QuietMoves DEF Bind, ReuseAddr, Configures
<1>5. ASSUME NEW c \in Coros, NEW h \in Known, NEW t \in Timeouts, SetTimeout(c, h, t)
      PROVE  KernelMoves
  BY <1>5, QuietMoves DEF SetTimeout
<1>6. ASSUME NEW c \in Coros, Wakes(c) \/ Expires(c) PROVE KernelMoves
  BY <1>6, QuietMoves DEF Wakes, Expires
<1>7. CASE ClockTicks \/ UNCHANGED sockVars
  BY <1>7, QuietMoves DEF ClockTicks, sockVars
<1> QED BY <1>1, <1>2, <1>3, <1>4, <1>5, <1>6, <1>7, ContinueMoves, KernelStepMoves, ListenMoves
    DEF SocketsNext, CoroutineRuns

\* A call in connect goes on, or it begins and its connection is in progress.
GoesOn(c) ==
    /\ InConnect(c)
    /\ call'[c].handle = call[c].handle /\ call'[c].fd = call[c].fd
    /\ call'[c].at = "awake" => call[c].at = "awake" \/ Wakes(c)
Starts(c, h) ==
    /\ Begin(c, "connect", h) /\ Finds(h)
    /\ call'[c].at = "wait" /\ call'[c].handle = h
    /\ call'[c].fd = sockets[handle_index(h)].fd
    /\ kern' = [kern EXCEPT ![sockets[handle_index(h)].fd] = Connecting]

LEMMA ConnectStarts ==
    ASSUME SocketsInv, NEW c \in Coros, NEW h \in Known, Begin(c, "connect", h), ~ Idle(c)'
    PROVE  Starts(c, h)
<1> DEFINE i == handle_index(h)
<1>0. call \in [Coros -> {call[x] : x \in Coros}]
  BY DEF SocketsInv, CallTypes
<1>1. Finds(h)
  BY <1>0 DEF Begin, Return, Idle, NoCall
<1>2. PICK r \in connect(sockets[i].fd) :
        /\ kern' = [kern EXCEPT ![sockets[i].fd] = r.becomes]
        /\ \/ r.res = "EINPROGRESS" /\ Suspend(c, "connect", h, i, Limit("connect", i))
           \/ r.res # "EINPROGRESS" /\ Return(c, r.res) /\ TableUnchanged
  BY <1>1 DEF Begin, Try, TryConnect
<1>3. r.res = "EINPROGRESS" /\ Suspend(c, "connect", h, i, Limit("connect", i))
  BY <1>0, <1>2 DEF Return, Idle, NoCall
<1>4. r.becomes = Connecting
  BY <1>2, <1>3 DEF connect, Outcome, Connecting
<1>5. call'[c].at = "wait" /\ call'[c].handle = h /\ call'[c].fd = sockets[i].fd
  BY <1>0, <1>3 DEF Suspend
<1> QED BY <1>1, <1>2, <1>4, <1>5 DEF Starts

LEMMA ConnectCalls ==
    ASSUME SocketsInv, [SocketsNext]_sockVars, NEW c \in Coros, InConnect(c)'
    PROVE  GoesOn(c) \/ \E h \in Known : Starts(c, h)
<1>0. call \in [Coros -> {call[x] : x \in Coros}]
  BY DEF SocketsInv, CallTypes
<1>1. ASSUME call'[c] = call[c] PROVE GoesOn(c)
  BY <1>1 DEF GoesOn, InConnect, Idle
<1>2. ASSUME NEW d \in Coros, Ends(d) PROVE GoesOn(c)
  <2>1. d # c
    BY <1>0, <1>2 DEF Ends, InConnect, Idle, NoCall
  <2> QED BY <1>0, <1>1, <1>2, <2>1 DEF Ends
<1>3. ASSUME NEW d \in Coros, d # c, NEW op, NEW h, NEW i, NEW limit, Suspend(d, op, h, i, limit)
      PROVE  GoesOn(c)
  BY <1>0, <1>1, <1>3 DEF Suspend
<1>4. ASSUME NEW d \in Coros, NEW op \in Suspending, NEW h \in Known, Begin(d, op, h)
      PROVE  GoesOn(c) \/ Starts(c, h)
  <2> DEFINE i == handle_index(h)
  <2>1. CASE Ends(d)
    BY <1>2, <2>1
  <2>2. CASE Suspend(d, op, h, i, Limit(op, i)) /\ d # c
    BY <1>3, <2>2
  <2>3. CASE Suspend(d, op, h, i, Limit(op, i)) /\ d = c
    <3>1. call'[c].op = op
      BY <1>0, <2>3 DEF Suspend
    <3> QED BY <1>4, <2>3, <3>1, ConnectStarts DEF InConnect
  <2> QED BY <1>4, <2>1, <2>2, <2>3, BeginEffects
<1>5. ASSUME NEW d \in Coros, Continue(d) PROVE GoesOn(c)
  <2> DEFINE k == call[d]
  <2>1. CASE Ends(d)
    BY <1>2, <2>1
  <2>2. CASE Suspend(d, k.op, k.handle, k.index, k.limit) /\ d # c
    BY <1>3, <2>2
  <2>3. CASE Suspend(d, k.op, k.handle, k.index, k.limit) /\ d = c
    <3>1. call'[c].op = k.op
      BY <1>0, <2>3 DEF Suspend
    <3>2. k.op = "connect"
      BY <2>3, <3>1 DEF InConnect
    <3>3. Ends(d)
      BY <1>5, <3>2 DEF Continue, ConnectEnds, Return, Ends
    <3> QED BY <2>1, <3>3
  <2> QED BY <1>5, <2>1, <2>2, <2>3, ContinueEffects
<1>6. ASSUME NEW d \in Coros, Wakes(d) \/ Expires(d) PROVE GoesOn(c)
  <2>1. CASE d # c
    BY <1>0, <1>1, <1>6, <2>1 DEF Wakes, Expires
  <2>2. CASE d = c
    <3>1. PICK at \in {"awake", "late"} :
            /\ call' = [call EXCEPT ![c].at = at]
            /\ at = "awake" => Wakes(c)
      BY <1>6, <2>2 DEF Wakes, Expires
    <3>2. /\ call'[c].handle = call[c].handle /\ call'[c].fd = call[c].fd
          /\ call'[c].op = call[c].op /\ call'[c].at = at /\ ~ Idle(c)
      <4>1. call[c].at = "wait" /\ call[c] \in [at : {"idle", "wait", "awake", "late"},
                op : Suspending \union {"none"}, handle : HandleSpace, index : Index,
                fd : Fds \union {0}, deadline : U64, limit : U64]
        BY <1>6, <2>2 DEF Wakes, Expires, SocketsInv, CallTypes
      <4>2. call'[c] = [call[c] EXCEPT !.at = at]
        BY <1>0, <3>1
      <4> QED BY <4>1, <4>2 DEF Idle
    <3> QED BY <3>1, <3>2 DEF GoesOn, InConnect
  <2> QED BY <2>1, <2>2
<1>7. ASSUME NEW d \in Coros, CoroutineRuns(d)
      PROVE  GoesOn(c) \/ \E h \in Known : Starts(c, h)
  <2>1. CASE Continue(d) \/ \E op \in Suspending, h \in Known : Begin(d, op, h)
    BY <1>4, <1>5, <2>1
  <2>2. CASE ~ (Continue(d) \/ \E op \in Suspending, h \in Known : Begin(d, op, h))
    <3>1. Ends(d)
      BY <1>7, <2>2
      DEF CoroutineRuns, SocketCreate, SocketDestroy, Bind, ReuseAddr, Configures, Listen, SetTimeout,
          NoSocket, StaysBlocking, Return, Ends
    <3> QED BY <1>2, <3>1
  <2> QED BY <2>1, <2>2
<1>8. CASE (\E fd \in Fds : KernelStep(fd)) \/ ClockTicks \/ UNCHANGED sockVars
  BY <1>1, <1>8 DEF KernelStep, ClockTicks, sockVars
<1> QED BY <1>6, <1>7, <1>8 DEF SocketsNext

\* A call that is not over was there before, on the same socket, or it begins.
InHand(c) == ~ Idle(c) /\ call'[c].handle = call[c].handle

LEMMA CallsInHand ==
    ASSUME SocketsInv, [SocketsNext]_sockVars, NEW c \in Coros, ~ Idle(c)'
    PROVE  InHand(c) \/ \E op \in Suspending, h \in Known :
                            Begin(c, op, h) /\ call'[c].handle = h
<1>0. call \in [Coros -> {call[x] : x \in Coros}]
  BY DEF SocketsInv, CallTypes
<1>1. ASSUME call'[c] = call[c] PROVE InHand(c)
  BY <1>1 DEF InHand, Idle
<1>2. ASSUME NEW d \in Coros, Ends(d) PROVE InHand(c)
  <2>1. d # c
    BY <1>0, <1>2 DEF Ends, Idle, NoCall
  <2> QED BY <1>0, <1>1, <1>2, <2>1 DEF Ends
<1>3. ASSUME NEW d \in Coros, NEW op, NEW h, NEW i, NEW limit, Suspend(d, op, h, i, limit)
      PROVE  IF d = c THEN call'[c].handle = h ELSE InHand(c)
  BY <1>0, <1>1, <1>3 DEF Suspend
<1>4. ASSUME NEW d \in Coros, NEW op \in Suspending, NEW h \in Known, Begin(d, op, h)
      PROVE  InHand(c) \/ (d = c /\ call'[c].handle = h)
  BY <1>2, <1>3, <1>4, BeginEffects
<1>5. ASSUME NEW d \in Coros, Continue(d) PROVE InHand(c)
  <2>1. CASE Ends(d)
    BY <1>2, <2>1
  <2>2. CASE ~ Idle(d) /\ Suspend(d, call[d].op, call[d].handle, call[d].index, call[d].limit)
    BY <1>3, <2>2 DEF InHand
  <2> QED BY <1>5, <2>1, <2>2, ContinueEffects
<1>6. ASSUME NEW d \in Coros, Wakes(d) \/ Expires(d) PROVE InHand(c)
  <2>1. PICK at : call' = [call EXCEPT ![d].at = at] /\ call[d].at = "wait"
    BY <1>6 DEF Wakes, Expires
  <2>2. CASE d # c
    BY <1>0, <1>1, <2>1, <2>2
  <2>3. CASE d = c
    <3>1. call[c] \in [at : {"idle", "wait", "awake", "late"}, op : Suspending \union {"none"},
                       handle : HandleSpace, index : Index, fd : Fds \union {0},
                       deadline : U64, limit : U64]
      BY DEF SocketsInv, CallTypes
    <3>2. call'[c] = [call[c] EXCEPT !.at = at]
      BY <1>0, <2>1, <2>3
    <3> QED BY <2>1, <2>3, <3>1, <3>2 DEF InHand, Idle
  <2> QED BY <2>2, <2>3
<1>7. ASSUME NEW d \in Coros, CoroutineRuns(d), ~ Continue(d),
             ~ \E op \in Suspending, h \in Known : Begin(d, op, h)
      PROVE  InHand(c)
  <2>1. Ends(d)
    BY <1>7
    DEF CoroutineRuns, SocketCreate, SocketDestroy, Bind, ReuseAddr, Configures, Listen, SetTimeout,
        NoSocket, StaysBlocking, Return, Ends
  <2> QED BY <1>2, <2>1
<1>8. CASE (\E fd \in Fds : KernelStep(fd)) \/ ClockTicks \/ UNCHANGED sockVars
  BY <1>1, <1>8 DEF KernelStep, ClockTicks, sockVars
<1> QED BY <1>4, <1>5, <1>6, <1>7, <1>8 DEF SocketsNext

\* Descriptors of entries that are held by different handles are different.
LEMMA OtherDescriptor ==
    ASSUME WorldInv, NEW i \in Index, NEW j \in Index,
           sockets[i].handle # InvalidHandle, sockets[j].handle # InvalidHandle,
           sockets[i].handle # sockets[j].handle
    PROVE  sockets[i].fd # sockets[j].fd
BY DEF WorldInv, DescriptorsHaveOneEntry, Used, IsFree

\* What a call in connect waits for is still being decided, or decided.
LEMMA DecidesStays ==
    ASSUME Disciplined, SocketsInv, CallsInv, ConnectInv, [SocketsNext]_sockVars,
           NEW c \in Coros, GoesOn(c), InConnect(c)'
    PROVE  Decides(c)'
<1> DEFINE x == call[c].fd
           h == call[c].handle
           i == call[c].index
<1>1. /\ ~ Idle(c) /\ i \in Index /\ h # InvalidHandle
      /\ sockets[i].handle = h /\ sockets[i].fd = x
  BY DEF GoesOn, InConnect, CallsInv, KeepsEntry, SocketsInv, CallTypes
<1>2. x \in open /\ x \in Fds
  BY <1>1, WorldFacts DEF SocketsInv, Used, IsFree
<1>3. /\ kern[x].kind \in {"connecting", "up", "refused"}
      /\ call[c].at = "awake" => kern[x].kind # "connecting"
  BY DEF GoesOn, ConnectInv, Decides
<1>4. call'[c].fd = x
  BY DEF GoesOn
<1>5. SUFFICES /\ kern'[x].kind \in {"connecting", "up", "refused"}
               /\ call'[c].at = "awake" => kern'[x].kind # "connecting"
  BY <1>4 DEF Decides
<1>6. CASE Wakes(c)
  <2>1. call[c].op = "connect" /\ Wanted(call[c]) /\ kern' = kern
    BY <1>6 DEF Wakes, GoesOn, InConnect
  <2>2. kern[x].room \/ kern[x].kind \in {"new", "refused"}
    BY <2>1 DEF Wanted, Writable
  <2>3. kern[x].kind # "connecting"
    BY <1>2, <2>2 DEF ConnectInv, ConnectingHasNoRoom
  <2> QED BY <1>3, <2>1, <2>3
<1>7. CASE ~ Wakes(c)
  <2>1. call'[c].at = "awake" => call[c].at = "awake"
    BY <1>7 DEF GoesOn
  <2>2. \/ KernelKeeps(x) \/ KernelSettles(x) \/ Listens(x) \/ Opens(x)
        \/ \E y \in Known : Disturbs(y, x)
        \/ \E d \in Coros : Reports(d, x)
    BY <1>2, EveryStepMoves DEF ConnectInv, KernelMoves
  <2>3. CASE KernelKeeps(x)
    BY <1>3, <2>1, <2>3 DEF KernelKeeps
  <2>4. CASE KernelSettles(x)
    BY <2>4 DEF KernelSettles
  <2>5. CASE Listens(x) \/ Opens(x)
    BY <1>2, <1>3, <2>5 DEF Listens, Opens
  <2>6. ASSUME NEW y \in Known, Disturbs(y, x) PROVE FALSE
    <3>1. y # h /\ Finds(y) /\ x = sockets[handle_index(y)].fd
      BY <2>6 DEF Disturbs, Apart, GoesOn
    <3>2. /\ handle_index(y) \in Index /\ y # InvalidHandle
          /\ sockets[handle_index(y)].handle = y
      BY <3>1, WorldFacts DEF SocketsInv
    <3> HIDE DEF x, h, i
    <3>3. sockets[i].fd # sockets[handle_index(y)].fd
      BY <1>1, <3>1, <3>2, OtherDescriptor DEF SocketsInv
    <3> QED BY <1>1, <3>1, <3>3
  <2>7. ASSUME NEW d \in Coros, Reports(d, x) PROVE FALSE
    <3>1. ~ Idle(d) /\ Ends(d) /\ x = sockets[call[d].index].fd
      BY <2>7 DEF Reports
    <3>2. d # c
      BY <3>1 DEF Ends, InConnect, Idle, NoCall, SocketsInv, CallTypes
    <3>3. call[d].handle # h
      BY <3>1, <3>2 DEF ConnectInv, GoesOn
    <3>4. /\ call[d].index \in Index /\ call[d].handle # InvalidHandle
          /\ sockets[call[d].index].handle = call[d].handle
      BY <3>1 DEF CallsInv, KeepsEntry, SocketsInv, CallTypes
    <3> HIDE DEF x, h, i
    <3>5. sockets[i].fd # sockets[call[d].index].fd
      BY <1>1, <3>3, <3>4, OtherDescriptor DEF SocketsInv
    <3> QED BY <1>1, <3>1, <3>5
  <2> QED BY <2>2, <2>3, <2>4, <2>5, <2>6, <2>7
<1> QED BY <1>6, <1>7

LEMMA NoRoomStays ==
    ASSUME SocketsInv, ConnectingHasNoRoom, [SocketsNext]_sockVars
    PROVE  ConnectingHasNoRoom'
<1>1. ASSUME NEW x \in Fds, kern'[x].kind = "connecting" PROVE ~ kern'[x].room
  <2>1. KernelKeeps(x) \/ kern'[x] \in {Closed, New, Up, Connecting, kern[x]}
    BY <1>1, EveryStepMoves
    DEF KernelMoves, KernelSettles, Listens, Opens, Disturbs, Reports
  <2>2. CASE KernelKeeps(x)
    BY <1>1, <2>2 DEF KernelKeeps
  <2>3. CASE kern'[x] = kern[x]
    BY <1>1, <2>3 DEF ConnectingHasNoRoom
  <2>4. CASE kern'[x] \in {Closed, New, Up, Connecting}
    <3>1. kern'[x] = Connecting
      BY <1>1, <2>4, KernelRecords
    <3>2. Connecting.room = FALSE
      BY DEF Closed, New, Connecting
    <3> QED BY <3>1, <3>2
  <2> QED BY <2>1, <2>2, <2>3, <2>4
<1> QED BY <1>1 DEF ConnectingHasNoRoom

LEMMA ConnectStep ==
    ASSUME Disciplined, SocketsInv, CallsInv, ConnectInv, [SocketsNext]_sockVars
    PROVE  ConnectInv'
<1>1. ConnectingHasNoRoom'
  BY NoRoomStays DEF ConnectInv
<1>2. ASSUME NEW c \in Coros, NEW h \in Known, Starts(c, h)
      PROVE  Decides(c)' /\ ~ InFlight(h)
  <2> DEFINE x == sockets[handle_index(h)].fd
  <2>1. x \in Fds /\ ~ InFlight(h)
    BY <1>2, WorldFacts DEF SocketsInv, Starts, Begin, MayBegin, InFlight
  <2>2. kern'[x] = Connecting /\ call'[c].at = "wait" /\ call'[c].fd = x
    BY <1>2, <2>1 DEF SocketsInv, WorldInv, KernType, Starts
  <2> HIDE DEF x
  <2> QED BY <2>1, <2>2, KernelRecords DEF Decides, Connecting
<1>3. ASSUME NEW c \in Coros, InConnect(c)' PROVE Decides(c)'
  BY <1>2, <1>3, ConnectCalls, DecidesStays
<1>4. ASSUME NEW c \in Coros, NEW d \in Coros, InConnect(c)', ~ Idle(d)',
             call'[c].handle = call'[d].handle
      PROVE  c = d
  <2>1. CASE GoesOn(c) /\ InHand(d)
    BY <1>4, <2>1 DEF GoesOn, InHand, ConnectInv
  <2>2. ASSUME NEW h \in Known, Starts(c, h), InHand(d) PROVE FALSE
    BY <1>2, <1>4, <2>2 DEF Starts, InHand, InFlight
  <2>3. ASSUME NEW op \in Suspending, NEW h \in Known, Begin(d, op, h), call'[d].handle = h,
               GoesOn(c)
        PROVE  FALSE
    BY <1>4, <2>3 DEF Begin, MayBegin, GoesOn, InConnect
  <2>4. ASSUME NEW h \in Known, Starts(c, h), NEW op \in Suspending, NEW y \in Known,
               Begin(d, op, y)
        PROVE  c = d
    <3>1. Idle(d)
      BY <2>4 DEF Begin
    <3>2. Ends(c) \/ \E o, z, j, limit : Suspend(c, o, z, j, limit)
      BY <2>4, BeginEffects DEF Starts, Suspending
    <3>3. c # d => call'[d] = call[d]
      BY <3>2 DEF Ends, Suspend, SocketsInv, CallTypes
    <3> QED BY <1>4, <3>1, <3>3 DEF Idle
  <2>5. InHand(d) \/ \E op \in Suspending, h \in Known :
                        Begin(d, op, h) /\ call'[d].handle = h
    BY <1>4, CallsInHand
  <2> QED BY <1>4, <2>1, <2>2, <2>3, <2>4, <2>5, ConnectCalls
<1> QED BY <1>1, <1>3, <1>4 DEF ConnectInv

LEMMA ConnectInvariant == ASSUME Disciplined PROVE SocketsSpec => []ConnectInv
<1>1. SocketsInit => ConnectInv
  BY KernelRecords DEF SocketsInit, ConnectInv, ConnectingHasNoRoom, InConnect, Idle, NoCall
<1>2. SocketsInv /\ CallsInv /\ ConnectInv /\ [SocketsNext]_sockVars => ConnectInv'
  BY ConnectStep
<1> QED BY <1>1, <1>2, SocketsInvariant, CallsInvariant, PTL DEF SocketsSpec

(***************************************************************************)
(* With disciplined clients, connect returns zero only for a socket that   *)
(* is connected (connect.hpp): getsockopt(SO_ERROR) is asked only when the *)
(* kernel has decided, and its answer is for this connection, whatever     *)
(* else the other coroutines do in the meantime.                           *)
(***************************************************************************)
THEOREM ConnectIsTruthful == ASSUME Disciplined PROVE SocketsSpec => ConnectTellsTheTruth
<1> DEFINE P(h) == h \in LiveHandles' /\ kern'[LiveMap'[h].fd].kind = "up"
<1>0. ASSUME SocketsInv, NEW h, NEW i \in Index, h # InvalidHandle, handle_index(h) = i,
             sockets[i].handle = h, TableUnchanged, kern'[sockets[i].fd].kind = "up"
      PROVE  P(h)
  <2>1. sockets' = sockets
    BY <1>0 DEF TableUnchanged
  <2>2. h \in LiveHandles'
    BY <1>0, <2>1 DEF LiveHandles, Used, IsFree
  <2>3. LiveMap'[h].fd = sockets[i].fd
    BY <1>0, <2>1, <2>2 DEF LiveMap
  <2> QED BY <1>0, <2>2, <2>3
<1>1. ASSUME SocketsInv, NEW c \in Coros, NEW h \in Known, Begin(c, "connect", h), ret' = "OK"
      PROVE  P(h)
  <2> DEFINE i == handle_index(h)
             fd == sockets[i].fd
  <2>1. Finds(h)
    BY <1>1 DEF Begin, Return
  <2>2. i \in Index /\ h # InvalidHandle /\ sockets[i].handle = h /\ fd \in Fds /\ fd \in open
    BY <1>1, <2>1, WorldFacts DEF SocketsInv
  <2>3. PICK r \in connect(fd) :
          /\ kern' = [kern EXCEPT ![fd] = r.becomes]
          /\ r.res = "OK" /\ TableUnchanged
    BY <1>1, <2>1 DEF Begin, Try, TryConnect, Suspend, Return
  <2>4. r.becomes = Up
    BY <2>3 DEF connect, Outcome
  <2>5. kern'[fd].kind = "up"
    BY <1>1, <2>2, <2>3, <2>4, KernelRecords DEF SocketsInv, WorldInv, KernType
  <2> QED BY <1>0, <1>1, <2>2, <2>3, <2>5
<1>2. ASSUME SocketsInv, CallsInv, ConnectInv, NEW c \in Coros, Continue(c),
             call[c].op = "connect", ret' = "OK"
      PROVE  P(call[c].handle)
  <2> DEFINE h == call[c].handle
             i == call[c].index
             fd == sockets[i].fd
  <2>1. call[c].at = "awake" /\ ConnectEnds(c, i) /\ InConnect(c)
    BY <1>2 DEF Continue, Return, InConnect, Idle
  <2>2. /\ i \in Index /\ h # InvalidHandle /\ h \in HandleSpace
        /\ sockets[i].handle = h /\ fd = call[c].fd
    BY <1>2, <2>1 DEF InConnect, CallsInv, KeepsEntry, SocketsInv, CallTypes
  <2>3. fd \in open /\ fd \in Fds /\ handle_index(h) = i
    BY <1>2, <2>2, WorldFacts
    DEF SocketsInv, WorldInv, TableInv, TableConsistent, Used, IsFree
  <2>4. kern[fd].kind \in {"up", "refused"}
    BY <1>2, <2>1, <2>2 DEF ConnectInv, Decides
  <2>5. getsockopt_error(fd).res = "OK" /\ TableUnchanged
        /\ kern' = [kern EXCEPT ![fd] = getsockopt_error(fd).becomes]
    BY <1>2, <2>1, <2>3 DEF ConnectEnds, Return
  <2>6. kern[fd].kind = "up" /\ getsockopt_error(fd).becomes = kern[fd]
    BY <2>3, <2>4, <2>5 DEF getsockopt_error, Outcome, Kind
  <2>7. kern'[fd].kind = "up"
    BY <1>2, <2>3, <2>5, <2>6 DEF SocketsInv, WorldInv, KernType
  <2> HIDE DEF h, i
  <2>8. P(h)
    BY <1>0, <1>2, <2>2, <2>3, <2>5, <2>7
  <2> QED BY <2>8 DEF h
<1>3. SocketsInv /\ CallsInv /\ ConnectInv =>
        [\A c \in Coros, h \in Known : Connects(c, h) /\ ret' = "OK" => P(h)]_sockVars
  BY <1>1, <1>2 DEF Connects
<1> QED BY <1>3, SocketsInvariant, CallsInvariant, ConnectInvariant, PTL DEF ConnectTellsTheTruth

=============================================================================
