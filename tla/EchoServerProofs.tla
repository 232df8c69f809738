-------------------------- MODULE EchoServerProofs --------------------------
(***************************************************************************)
(* The echo server hands its sockets over and cleans up after itself, for  *)
(* any number of coroutines, clients, entries and descriptors.             *)
(*                                                                         *)
(* Its steps are steps of Sockets, so that the table, the kernel and the   *)
(* calls are what they were proved to be there.  Sockets had to assume     *)
(* disciplined clients for a call to keep its entry; here it is proved:    *)
(* nobody destroys a socket but its one owner, whose call is over then.    *)
(***************************************************************************)
EXTENDS EchoServer, SocketsProofs

AtMain == {"create", "setsockopt", "bind", "listen", "go", "run", "running", "cleanup", "exit"}
AtSlot == {"unused", "accept", "pass", "recv", "sendall", "destroy"}

\* main and the coroutines each have their program, and handles they were given.
Tasks == [at : AtMain \union AtSlot, sock : Known, client : Known, left : 0 .. BufferSize]
Programs ==
    /\ task \in [Coros -> Tasks]
    /\ task[Main].at \in AtMain
    /\ \A c \in Slots : task[c].at \in AtSlot

\* main has the CPU but for the time that it is in run, and only a coroutine
\* or main can fail an assertion, which then has the CPU for good.
CpuOk ==
    /\ cpu \in Coros \union {Nobody, Poller}
    /\ cpu = Main <=> task[Main].at # "running"
    /\ cpu \in {Nobody, Poller} => ~ aborted

\* A call in flight is the one that the program is at, and keeps its entry.
OpOf(at) ==
    CASE at = "accept" -> "accept"
      [] at = "recv" -> "recv"
      [] at = "sendall" -> "send"
      [] OTHER -> "none"

CallOk(c) ==
    /\ call[c].op = OpOf(task[c].at)
    /\ call[c].handle = task[c].sock
    /\ KeepsEntry(c)

CallsOk == \A c \in Coros : ~ Idle(c) => CallOk(c)

\* Who accepts uses main's socket while main is in run; before and after,
\* there are no clients; and a lost socket was lost by one who still accepts.
Accepting(c) == task[c].at \in {"accept", "pass"}
Server ==
    /\ \A c \in Slots : Accepting(c) =>
          task[Main].at \in {"run", "running"} /\ task[c].sock = task[Main].sock
    /\ task[Main].at \in {"create", "exit"} => task[Main].sock = InvalidHandle
    /\ task[Main].at # "running" => \A c \in Slots : task[c].at \in {"unused", "accept"}
    /\ lost # {} => \E c \in Slots : Accepting(c)

EchoInv ==
    SocketsInv /\ Programs /\ CpuOk /\ CallsOk /\ Server /\ SocketsHaveOneOwner

-----------------------------------------------------------------------------
(***************************************************************************)
(* The echo server is a client of the sockets.                             *)
(***************************************************************************)
LEMMA PerformsIsCall ==
    ASSUME Programs, ~ aborted, NEW c \in Coros, NEW op \in Suspending, Performs(c, op)
    PROVE  SocketsNext
<1>1. task[c].sock \in Known
  BY DEF Programs, Tasks
<1>2. Begin(c, op, task[c].sock) \/ Continue(c)
  BY DEF Performs
<1> QED BY <1>1, <1>2 DEF SocketsNext, CoroutineRuns

LEMMA MainIsClient ==
    ASSUME Programs, MainRuns
    PROVE  [SocketsNext]_sockVars
<1>1. Main \in Coros /\ task[Main].sock \in Known
  BY EchoAssumption DEF Programs, Tasks
<1>2. CASE MainCreates
  BY <1>1, <1>2 DEF MainCreates, Runs, SocketsNext, CoroutineRuns
<1>3. ASSUME NEW at, NEW next, at \in {"setsockopt", "bind", "listen"}, MainConfigures(at, next)
      PROVE  SocketsNext
  <2>1. /\ ~ aborted
        /\ \/ ReuseAddr(Main, task[Main].sock) \/ Bind(Main, task[Main].sock)
           \/ Listen(Main, task[Main].sock)
    BY <1>3 DEF MainConfigures, Runs
  <2> QED BY <1>1, <2>1 DEF SocketsNext, CoroutineRuns
<1>4. CASE MainGoes \/ MainWaits
  BY <1>4 DEF MainGoes, GoOk, GoFails, MainWaits
<1>5. CASE MainCleansUp
  BY <1>1, <1>5 DEF MainCleansUp, Runs, SocketsNext, CoroutineRuns
<1> QED BY <1>2, <1>3, <1>4, <1>5 DEF MainRuns

LEMMA TaskIsClient ==
    ASSUME Programs, NEW c \in Slots, TaskRuns(c)
    PROVE  [SocketsNext]_sockVars
<1>1. c \in Coros /\ task[c].sock \in Known
  BY DEF Programs, Tasks, Slots
<1>2. CASE LoopAccepts(c)
  BY <1>1, <1>2, PerformsIsCall DEF LoopAccepts, Runs, Suspending
<1>3. CASE LoopGoes(c)
  BY <1>3 DEF LoopGoes, GoOk, GoFails
<1>4. CASE ClientRecvs(c)
  BY <1>1, <1>4, PerformsIsCall DEF ClientRecvs, Runs, Suspending
<1>5. CASE ClientSends(c)
  BY <1>1, <1>5, PerformsIsCall DEF ClientSends, Runs, Suspending
<1>6. CASE ClientEnds(c)
  BY <1>1, <1>6 DEF ClientEnds, Runs, SocketsNext, CoroutineRuns
<1> QED BY <1>2, <1>3, <1>4, <1>5, <1>6 DEF TaskRuns

LEMMA EchoStepIsSocketsStep ==
    ASSUME Programs, CpuOk, [EchoNext]_<<sockVars, echoVars>>
    PROVE  [SocketsNext]_sockVars
<1>1. ASSUME NEW c \in Slots, PollWakes(c) PROVE SocketsNext
  BY <1>1 DEF PollWakes, CpuOk, SocketsNext, Slots
<1>2. CASE RunReturns \/ PollEnds \/ UNCHANGED <<sockVars, echoVars>>
  BY <1>2 DEF RunReturns, PollEnds
<1>3. ASSUME NEW fd \in Fds, Peers(fd) PROVE SocketsNext
  BY <1>3 DEF Peers, SocketsNext
<1> QED BY <1>1, <1>2, <1>3, MainIsClient, TaskIsClient DEF EchoNext
-----------------------------------------------------------------------------
(***************************************************************************)
(* Owners.  A socket is created, handed over, lost, destroyed, or stays.   *)
(***************************************************************************)
LEMMA SameOwners ==
    ASSUME SocketsHaveOneOwner, LiveHandles' = LiveHandles, lost' = lost,
           \A d \in Coros : Owns(d)' = Owns(d)
    PROVE  SocketsHaveOneOwner'
BY DEF SocketsHaveOneOwner

LEMMA NewOwner ==
    ASSUME SocketsHaveOneOwner, NEW c \in Coros, NEW h, h \notin LiveHandles,
           LiveHandles' = LiveHandles \union {h}, lost' = lost,
           Owns(c) = {}, Owns(c)' = {h},
           \A d \in Coros \ {c} : Owns(d)' = Owns(d)
    PROVE  SocketsHaveOneOwner'
<1>1. /\ h \notin lost
      /\ \A d \in Coros : h \notin Owns(d)
  BY DEF SocketsHaveOneOwner
<1>2. LiveHandles' = lost' \union UNION {Owns(d)' : d \in Coros}
  BY DEF SocketsHaveOneOwner
<1>3. ASSUME NEW d \in Coros, NEW e \in Coros, d # e
      PROVE  Owns(d)' \intersect Owns(e)' = {}
  BY <1>1, <1>3 DEF SocketsHaveOneOwner
<1>4. ASSUME NEW d \in Coros PROVE Owns(d)' \intersect lost' = {}
  BY <1>1, <1>4 DEF SocketsHaveOneOwner
<1> QED BY <1>2, <1>3, <1>4 DEF SocketsHaveOneOwner

LEMMA NextOwner ==
    ASSUME SocketsHaveOneOwner, NEW c \in Coros, NEW s \in Coros, s # c, NEW h,
           LiveHandles' = LiveHandles, lost' = lost,
           Owns(c) = {h}, Owns(c)' = {}, Owns(s) = {}, Owns(s)' = {h},
           \A d \in Coros \ {c, s} : Owns(d)' = Owns(d)
    PROVE  SocketsHaveOneOwner'
<1>2. LiveHandles' = lost' \union UNION {Owns(d)' : d \in Coros}
  <2>1. \A x : (\E d \in Coros : x \in Owns(d)') <=> \E d \in Coros : x \in Owns(d)
    OBVIOUS
  <2> QED BY <2>1 DEF SocketsHaveOneOwner
<1>3. ASSUME NEW d \in Coros, NEW e \in Coros, d # e
      PROVE  Owns(d)' \intersect Owns(e)' = {}
  BY <1>3 DEF SocketsHaveOneOwner
<1>4. ASSUME NEW d \in Coros PROVE Owns(d)' \intersect lost' = {}
  BY <1>4 DEF SocketsHaveOneOwner
<1> QED BY <1>2, <1>3, <1>4 DEF SocketsHaveOneOwner

LEMMA NoOwner ==
    ASSUME SocketsHaveOneOwner, NEW c \in Coros, NEW h,
           LiveHandles' = LiveHandles, lost' = lost \union {h},
           Owns(c) = {h}, Owns(c)' = {},
           \A d \in Coros \ {c} : Owns(d)' = Owns(d)
    PROVE  SocketsHaveOneOwner'
<1>2. LiveHandles' = lost' \union UNION {Owns(d)' : d \in Coros}
  BY DEF SocketsHaveOneOwner
<1>3. ASSUME NEW d \in Coros, NEW e \in Coros, d # e
      PROVE  Owns(d)' \intersect Owns(e)' = {}
  BY <1>3 DEF SocketsHaveOneOwner
<1>4. ASSUME NEW d \in Coros PROVE Owns(d)' \intersect lost' = {}
  BY <1>4 DEF SocketsHaveOneOwner
<1> QED BY <1>2, <1>3, <1>4 DEF SocketsHaveOneOwner

LEMMA LastOwner ==
    ASSUME SocketsHaveOneOwner, NEW c \in Coros, NEW h,
           LiveHandles' = LiveHandles \ {h}, lost' = lost,
           Owns(c) = {h}, Owns(c)' = {},
           \A d \in Coros \ {c} : Owns(d)' = Owns(d)
    PROVE  SocketsHaveOneOwner'
<1>1. /\ h \notin lost
      /\ \A d \in Coros \ {c} : h \notin Owns(d)
  BY DEF SocketsHaveOneOwner
<1>2. LiveHandles' = lost' \union UNION {Owns(d)' : d \in Coros}
  BY <1>1 DEF SocketsHaveOneOwner
<1>3. ASSUME NEW d \in Coros, NEW e \in Coros, d # e
      PROVE  Owns(d)' \intersect Owns(e)' = {}
  BY <1>3 DEF SocketsHaveOneOwner
<1>4. ASSUME NEW d \in Coros PROVE Owns(d)' \intersect lost' = {}
  BY <1>4 DEF SocketsHaveOneOwner
<1> QED BY <1>2, <1>3, <1>4 DEF SocketsHaveOneOwner

-----------------------------------------------------------------------------
(***************************************************************************)
(* Calls.  A call of recv, send or accept returns a result, or suspends    *)
(* and gives the CPU back.                                                 *)
(***************************************************************************)
EchoOps == {"recv", "send", "accept"}

Returned(c) == Ends(c) /\ ret' # "none" /\ cpu' = c
Waits(c) ==
    /\ call'[c].at = "wait" /\ (CallOk(c))'
    /\ \A d \in Coros \ {c} : call'[d] = call[d]
    /\ ret' = "none" /\ cpu' = Nobody
    /\ TableUnchanged

LEMMA TryReturns ==
    ASSUME NEW c \in Coros, NEW op \in EchoOps, NEW h, NEW i, NEW limit, Try(c, op, h, i, limit)
    PROVE  (Ends(c) /\ ret' # "none") \/ Suspend(c, op, h, i, limit)
BY DEF EchoOps, Try, TryRecv, TrySend, RoundFails, TryAccept, Accepted, StaysBlocking, Return, Ends

LEMMA IoKeepsTable ==
    ASSUME NEW c \in Coros, NEW op \in {"recv", "send"}, Performs(c, op),
           ~ Idle(c) => call[c].op = op
    PROVE  TableUnchanged
<1>1. ASSUME NEW h, NEW i, NEW limit, Try(c, op, h, i, limit) PROVE TableUnchanged
  BY <1>1 DEF Try, TryRecv, TrySend, RoundFails, Suspend
<1> QED BY <1>1 DEF Performs, Begin, Continue

LEMMA PerformsEffects ==
    ASSUME SocketsInv, Programs, CallsOk, NEW c \in Coros, NEW op \in EchoOps,
           op = OpOf(task[c].at), Performs(c, op),
           task'[c].at = task[c].at \/ ret' # "none", task'[c].sock = task[c].sock
    PROVE  /\ Returned(c) \/ Waits(c)
           /\ TableStep
<1>0. /\ call \in [Coros -> {call[x] : x \in Coros}]
      /\ op \in Suspending /\ op # "connect" /\ task[c].sock \in Known
  BY DEF SocketsInv, CallTypes, EchoOps, Suspending, Programs, Tasks
<1> DEFINE h == IF Idle(c) THEN task[c].sock ELSE call[c].handle
           i == IF Idle(c) THEN handle_index(h) ELSE call[c].index
           limit == IF Idle(c) THEN Limit(op, i) ELSE call[c].limit
<1>1. ~ Idle(c) => call[c].op = op /\ call[c].handle = task[c].sock /\ KeepsEntry(c)
  BY DEF CallsOk, CallOk
<1>2. (Ends(c) /\ ret' # "none") \/ Suspend(c, op, h, i, limit)
  <2>1. CASE Idle(c) /\ ~ Finds(h)
    BY <2>1 DEF Performs, Begin, Return, Ends
  <2>2. CASE ~ Idle(c) /\ call[c].at = "late"
    BY <2>2 DEF Performs, Continue, Return, Ends
  <2>3. CASE ~ (Idle(c) /\ ~ Finds(h)) /\ ~ (~ Idle(c) /\ call[c].at = "late")
    <3>1. Try(c, op, h, i, limit)
      BY <1>0, <1>1, <2>3 DEF Performs, Begin, Continue
    <3> HIDE DEF h, i, limit
    <3> QED BY <3>1, TryReturns
  <2> QED BY <2>1, <2>2, <2>3
<1>3. CASE Ends(c) /\ ret' # "none"
  <2>1. Idle(c)'
    BY <1>0, <1>3 DEF Ends, Idle, NoCall
  <2>2. cpu' = c
    BY <2>1 DEF Performs
  <2>3. Returned(c)
    BY <1>3, <2>2 DEF Returned
  <2>4. TableStep
    BY <1>0, BeginEffects, ContinueEffects DEF Performs
  <2> QED BY <2>3, <2>4
<1>4. CASE Suspend(c, op, h, i, limit)
  <2>1. /\ call'[c] = [at |-> "wait", op |-> op, handle |-> h, index |-> i,
                       fd |-> sockets[i].fd, deadline |-> SatAdd(clock, TimeoutOf(op, i)),
                       limit |-> limit]
        /\ \A d \in Coros \ {c} : call'[d] = call[d]
        /\ ret' = "none" /\ TableUnchanged /\ sockets' = sockets
    BY <1>0, <1>4 DEF Suspend, TableUnchanged
  <2>2. h = task[c].sock /\ h # InvalidHandle /\ sockets[i].handle = h
    <3>1. CASE Idle(c)
      <4>1. Finds(task[c].sock)
        BY <2>1, <3>1 DEF Performs, Begin, Return
      <4> QED BY <1>0, <3>1, <4>1, WorldFacts DEF SocketsInv
    <3>2. CASE ~ Idle(c)
      BY <1>1, <3>2 DEF KeepsEntry
    <3> QED BY <3>1, <3>2
  <2> HIDE DEF h, i, limit
  <2>3. ~ Idle(c)'
    BY <2>1 DEF Idle
  <2>4. cpu' = Nobody
    BY <2>3 DEF Performs
  <2>5. (KeepsEntry(c))'
    BY <2>1, <2>2 DEF KeepsEntry
  <2>6. (CallOk(c))'
    BY <2>1, <2>2, <2>5 DEF CallOk
  <2>7. Waits(c) /\ TableStep
    BY <2>1, <2>4, <2>6 DEF Waits, TableStep
  <2> QED BY <2>7
<1> QED BY <1>2, <1>3, <1>4

-----------------------------------------------------------------------------
(***************************************************************************)
(* What steps of any program have in common.                               *)
(***************************************************************************)
\* A call is over, or suspended, or goes on as it was on an entry that stays.
LEMMA CallsStay ==
    ASSUME CallsOk,
           \A d \in Coros :
              \/ Idle(d)' \/ (CallOk(d))'
              \/ /\ call'[d] = call[d]
                 /\ task'[d].at = task[d].at /\ task'[d].sock = task[d].sock
                 /\ ~ Idle(d) => sockets'[call[d].index] = sockets[call[d].index]
    PROVE  CallsOk'
<1> SUFFICES ASSUME NEW d \in Coros, ~ Idle(d)' PROVE (CallOk(d))'
  BY DEF CallsOk
<1>0. CASE (CallOk(d))'
  BY <1>0
<1> SUFFICES ASSUME ~ (CallOk(d))' PROVE FALSE
  BY <1>0
<1>1. call'[d] = call[d] /\ task'[d].at = task[d].at /\ task'[d].sock = task[d].sock
  OBVIOUS
<1>2. ~ Idle(d) /\ CallOk(d) /\ sockets'[call[d].index] = sockets[call[d].index]
  BY <1>1 DEF Idle, CallsOk
<1> QED BY <1>1, <1>2 DEF CallOk, KeepsEntry

LEMMA CallEntryStays ==
    ASSUME SocketsInv, CallsOk, TableStep, NEW d \in Coros, ~ Idle(d)
    PROVE  sockets'[call[d].index] = sockets[call[d].index]
<1>1. call[d].index \in Index /\ ~ IsFree(call[d].index)
  BY DEF SocketsInv, CallTypes, CallsOk, CallOk, KeepsEntry, IsFree
<1> QED BY <1>1, UsedEntryStays DEF SocketsInv

LEMMA BetweenCalls ==
    ASSUME SocketsInv, CallsOk, NEW c \in Coros, OpOf(task[c].at) = "none"
    PROVE  Idle(c)
BY DEF SocketsInv, CallTypes, CallsOk, CallOk, Suspending

LEMMA OwnsStays == ASSUME NEW d \in Coros, task'[d] = task[d] PROVE Owns(d)' = Owns(d)
BY DEF Owns

LEMMA SameHandles == ASSUME UNCHANGED sockets PROVE LiveHandles' = LiveHandles
BY DEF LiveHandles, Used, IsFree

LEMMA ProgramsStay ==
    ASSUME Programs, used \subseteq used', NEW c \in Coros, NEW r,
           task' = [task EXCEPT ![c] = r], r \in Tasks',
           r.at \in (IF c = Main THEN AtMain ELSE AtSlot)
    PROVE  /\ Programs'
           /\ task'[c] = r /\ \A d \in Coros \ {c} : task'[d] = task[d]
<1>1. Tasks \subseteq Tasks'
  BY DEF Tasks, Known
<1>2. task' \in [Coros -> Tasks']
  BY <1>1 DEF Programs
<1>3. task'[c] = r /\ \A d \in Coros \ {c} : task'[d] = task[d]
  BY DEF Programs
<1> QED BY <1>2, <1>3, EchoAssumption DEF Programs, Slots

\* A move to another place in the program, with the same sockets.
LEMMA Moves ==
    ASSUME Programs, used \subseteq used', NEW c \in Coros, NEW at, MovesTo(c, at),
           at \in (IF c = Main THEN AtMain ELSE AtSlot)
    PROVE  /\ Programs'
           /\ \A d \in Coros \ {c} : task'[d] = task[d]
           /\ task'[c].at = at /\ task'[c].sock = task[c].sock /\ task'[c].client = task[c].client
<1> DEFINE r == [task[c] EXCEPT !.at = at]
<1>1. task[c] \in Tasks
  BY DEF Programs
<1>2. r \in Tasks' /\ r.at = at /\ r.sock = task[c].sock /\ r.client = task[c].client
  BY <1>1 DEF Tasks, Known
<1>3. task' = [task EXCEPT ![c] = r]
  BY DEF MovesTo
<1> HIDE DEF r
<1> QED BY <1>2, <1>3, ProgramsStay

\* The new coroutine gets a slot of its own, and the socket.
GoesTo(c, s, entry, sock, next) ==
    /\ s # c /\ IsUnused(s) /\ Idle(s)
    /\ task'[s] = Task(entry, sock)
    /\ task'[c].at = next /\ task'[c].sock = task[c].sock /\ task'[c].client = task[c].client
    /\ \A d \in Coros \ {c, s} : task'[d] = task[d]
    /\ cpu' = c /\ UNCHANGED sockVars
    /\ Programs'

LEMMA GoEffects ==
    ASSUME SocketsInv, Programs, CallsOk, NEW c \in Coros, ~ IsUnused(c),
           NEW entry \in AtSlot, NEW sock \in Known,
           NEW next \in (IF c = Main THEN AtMain ELSE AtSlot),
           GoOk(c, entry, sock, next)
    PROVE  \E s \in Slots : GoesTo(c, s, entry, sock, next)
<1> DEFINE s == CHOOSE d \in Slots : IsUnused(d)
           r == [task[c] EXCEPT !.at = next]
           n == Task(entry, sock)
<1>1. s \in Slots /\ IsUnused(s) /\ s # c /\ s \in Coros /\ s # Main
  BY DEF GoOk, Slots
<1>2. task' = [task EXCEPT ![s] = n, ![c].at = next] /\ cpu' = c /\ UNCHANGED sockVars
  BY DEF GoOk
<1>3. UNCHANGED used /\ Tasks' = Tasks
  BY <1>2 DEF sockVars, Tasks, Known
<1>4. n \in Tasks /\ n.at = entry
  <2>1. InvalidHandle \in Known /\ 0 \in 0 .. BufferSize
    BY EchoAssumption DEF Known
  <2> QED BY <2>1 DEF Task, Tasks
<1>5. task[c] \in Tasks /\ task \in [Coros -> Tasks]
  BY DEF Programs
<1>6. r \in Tasks /\ r.at = next /\ r.sock = task[c].sock /\ r.client = task[c].client
  BY <1>5 DEF Tasks
<1>7. Idle(s)
  BY <1>1, BetweenCalls DEF IsUnused, OpOf
<1> HIDE DEF s, n
<1>8. task'[c] = r /\ task'[s] = n /\ \A d \in Coros \ {c, s} : task'[d] = task[d]
  BY <1>1, <1>2, <1>5
<1> HIDE DEF r
<1>9. task' \in [Coros -> Tasks]
  <2>1. task' = [d \in Coros |-> task'[d]]
    BY <1>2, <1>5
  <2> QED BY <1>4, <1>5, <1>6, <1>8, <2>1
<1>10. Programs'
  BY <1>1, <1>3, <1>4, <1>6, <1>8, <1>9, EchoAssumption DEF Programs, Slots
<1> QED BY <1>1, <1>2, <1>6, <1>7, <1>8, <1>10 DEF GoesTo, n

-----------------------------------------------------------------------------
(***************************************************************************)
(* main.                                                                   *)
(***************************************************************************)
EchoRest == Programs /\ CpuOk /\ CallsOk /\ Server /\ SocketsHaveOneOwner

\* Before run and after it, main is alone.
MainAlone ==
    /\ Main \in Coros /\ Idle(Main) /\ cpu = Main /\ lost = {}
    /\ \A c \in Slots : task[c].at = "unused" /\ Idle(c) /\ Owns(c) = {}

LEMMA AloneOutsideRun ==
    ASSUME EchoInv, task[Main].at \notin {"run", "running"}
    PROVE  MainAlone
<1>1. Main \in Coros /\ cpu = Main /\ task[Main].at \in AtMain
  BY EchoAssumption DEF EchoInv, CpuOk, Programs
<1>2. \A c \in Slots : task[c].at = "unused"
  BY DEF EchoInv, Server, Accepting
<1>3. \A c \in Slots : c \in Coros /\ c # Main
  BY DEF Slots
<1>4. \A c \in Slots : Idle(c)
  BY <1>2, <1>3, BetweenCalls DEF EchoInv, OpOf
<1>5. \A c \in Slots : Owns(c) = {}
  BY <1>2, <1>3 DEF Owns
<1>6. Idle(Main)
  BY <1>1, BetweenCalls DEF EchoInv, OpOf, AtMain
<1>7. lost = {}
  BY <1>2 DEF EchoInv, Server, Accepting
<1> QED BY <1>1, <1>2, <1>4, <1>5, <1>6, <1>7 DEF MainAlone

\* What main does while it is alone concerns nobody else.
LEMMA AloneStep ==
    ASSUME EchoInv, MainAlone, Programs', SocketsHaveOneOwner',
           Ends(Main), UNCHANGED <<cpu, lost>>,
           \A d \in Coros \ {Main} : task'[d] = task[d],
           task'[Main].at \notin {"run", "running"},
           task'[Main].at \in {"create", "exit"} => task'[Main].sock = InvalidHandle
    PROVE  EchoRest'
<1>1. CpuOk'
  BY EchoAssumption DEF CpuOk, EchoInv, MainAlone
<1>2. CallsOk'
  <2>1. \A d \in Coros : d = Main \/ d \in Slots
    BY DEF Slots
  <2>2. \A d \in Coros : Idle(d)'
    BY <2>1 DEF EchoInv, SocketsInv, CallTypes, MainAlone, Ends, Idle, NoCall
  <2> QED BY <2>2 DEF CallsOk
<1>3. Server'
  BY DEF Server, Accepting, MainAlone, Slots
<1> QED BY <1>1, <1>2, <1>3 DEF EchoRest

LEMMA CreateOutcome ==
    ASSUME NEW c \in Coros, NEW fd \in Fds, SocketCreate(c, fd)
    PROVE  /\ Ends(c)
           /\ (ret' = "OK" /\ Create(fd)) \/ (ret' # "OK" /\ GivesNothing)
BY FailedCreate DEF SocketCreate, NoSocket, StaysBlocking, Return, Ends

LEMMA MainCreatesOk == ASSUME EchoInv, MainCreates PROVE EchoRest'
<1>0. task[Main].at = "create" /\ UNCHANGED <<cpu, lost>> /\ MainAlone
  BY AloneOutsideRun DEF MainCreates, Runs
<1>1. PICK fd \in Fds : SocketCreate(Main, fd)
  BY DEF MainCreates
<1>2. Main \in Coros /\ task[Main].sock = InvalidHandle /\ task[Main] \in Tasks
  BY <1>0 DEF MainAlone, EchoInv, Server, Programs
<1>3. Owns(Main) = {}
  BY <1>0, <1>2 DEF Owns
<1>4. CASE ret' = "OK"
  <2>1. Ends(Main) /\ Create(fd)
    BY <1>1, <1>2, <1>4, CreateOutcome
  <2>2. PICK h : Opened(h, fd)
    BY <2>1, OpenEffects DEF EchoInv, SocketsInv, WorldInv
  <2>3. PICK g \in used' \ used :
          task' = [task EXCEPT ![Main].at = "setsockopt", ![Main].sock = g]
    BY <1>4 DEF MainCreates
  <2>4. /\ g = h /\ h \in used' /\ used \subseteq used' /\ h # InvalidHandle
        /\ LiveHandles' = LiveHandles \union {h} /\ h \notin LiveHandles
    BY <2>2, <2>3, LiveMapIs DEF Opened, EchoInv, SocketsInv, WorldInv
  <2> DEFINE r == [task[Main] EXCEPT !.at = "setsockopt", !.sock = h]
  <2>5. task' = [task EXCEPT ![Main] = r]
    BY <2>3, <2>4
  <2>6. r \in Tasks' /\ r.at = "setsockopt" /\ r.sock = h
    BY <1>2, <2>4 DEF Tasks, Known, AtMain
  <2> HIDE DEF r
  <2>7. /\ Programs'
        /\ task'[Main] = r /\ \A d \in Coros \ {Main} : task'[d] = task[d]
    BY <1>2, <2>4, <2>5, <2>6, ProgramsStay DEF EchoInv, AtMain
  <2>8. Owns(Main)' = {h}
    BY <2>4, <2>6, <2>7 DEF Owns
  <2>9. SocketsHaveOneOwner'
    BY <1>0, <1>2, <1>3, <2>4, <2>7, <2>8, NewOwner, OwnsStays DEF EchoInv
  <2> QED BY <1>0, <2>1, <2>6, <2>7, <2>9, AloneStep
<1>5. CASE ret' # "OK"
  <2>1. Ends(Main) /\ GivesNothing /\ MovesTo(Main, "exit")
    BY <1>1, <1>2, <1>5, CreateOutcome DEF MainCreates
  <2>2. used' = used /\ LiveHandles' = LiveHandles
    BY <2>1, SameHandles DEF GivesNothing
  <2>3. /\ Programs'
        /\ \A d \in Coros \ {Main} : task'[d] = task[d]
        /\ task'[Main].at = "exit" /\ task'[Main].sock = InvalidHandle
    BY <1>2, <2>1, <2>2, Moves DEF EchoInv, AtMain
  <2>4. Owns(Main)' = Owns(Main)
    BY <1>3, <2>3 DEF Owns
  <2>5. SocketsHaveOneOwner'
    BY <1>0, <1>2, <2>2, <2>3, <2>4, SameOwners, OwnsStays DEF EchoInv
  <2> QED BY <1>0, <2>1, <2>3, <2>5, AloneStep
<1> QED BY <1>4, <1>5

LEMMA MainConfiguresOk ==
    ASSUME EchoInv, NEW at \in {"setsockopt", "bind", "listen"},
           NEW next \in {"bind", "listen", "go"}, MainConfigures(at, next)
    PROVE  EchoRest'
<1>0. task[Main].at = at /\ UNCHANGED <<cpu, lost>> /\ MainAlone
  BY AloneOutsideRun DEF MainConfigures, Runs
<1>1. /\ \/ ReuseAddr(Main, task[Main].sock) \/ Bind(Main, task[Main].sock)
         \/ Listen(Main, task[Main].sock)
      /\ MovesTo(Main, next) \/ MovesTo(Main, "cleanup")
  BY DEF MainConfigures, MainFails
<1>2. Ends(Main) /\ UNCHANGED <<sockets, used>>
  BY <1>1 DEF ReuseAddr, Bind, Listen, Configures, Return, Ends, TableUnchanged
<1>3. PICK to \in {"bind", "listen", "go", "cleanup"} : MovesTo(Main, to)
  BY <1>1
<1>4. /\ Programs'
      /\ \A d \in Coros \ {Main} : task'[d] = task[d]
      /\ task'[Main].at = to /\ task'[Main].sock = task[Main].sock
  <2>1. to \in AtMain /\ Main \in Coros
    BY <1>0 DEF AtMain, MainAlone
  <2> QED BY <1>2, <1>3, <2>1, Moves DEF EchoInv
<1>5. Owns(Main)' = Owns(Main)
  BY <1>0, <1>4 DEF Owns
<1>6. SocketsHaveOneOwner'
  BY <1>0, <1>2, <1>4, <1>5, SameOwners, SameHandles, OwnsStays DEF EchoInv
<1> QED BY <1>0, <1>2, <1>4, <1>6, AloneStep

LEMMA MainCleansUpOk == ASSUME EchoInv, MainCleansUp PROVE EchoRest'
<1> DEFINE h == task[Main].sock
           r == Task("exit", InvalidHandle)
<1>0. task[Main].at = "cleanup" /\ UNCHANGED <<cpu, lost>> /\ MainAlone /\ Main \in Coros
  BY AloneOutsideRun DEF MainCleansUp, Runs, MainAlone
<1>1. Destroy(h) /\ Ends(Main) /\ task' = [task EXCEPT ![Main] = r] /\ h \in Known
  BY <1>0 DEF MainCleansUp, SocketDestroy, Return, Ends, EchoInv, Programs, Tasks
<1>2. h \in LiveHandles /\ used' = used /\ LiveHandles' = LiveHandles \ {h}
  BY <1>1, CloseEffects DEF EchoInv, SocketsInv, WorldInv
<1>3. h # InvalidHandle
  BY <1>2, LiveMapIs DEF EchoInv, SocketsInv, WorldInv
<1>4. r \in Tasks' /\ r.at = "exit" /\ r.sock = InvalidHandle
  <2>1. 0 \in 0 .. BufferSize
    BY EchoAssumption
  <2> QED BY <2>1 DEF Task, Tasks, Known, AtMain
<1> HIDE DEF r
<1>5. /\ Programs'
      /\ task'[Main] = r /\ \A d \in Coros \ {Main} : task'[d] = task[d]
  BY <1>0, <1>1, <1>2, <1>4, ProgramsStay DEF EchoInv, AtMain
<1>6. Owns(Main) = {h} /\ Owns(Main)' = {}
  BY <1>0, <1>3, <1>4, <1>5 DEF Owns
<1> HIDE DEF h
<1>7. SocketsHaveOneOwner'
  BY <1>0, <1>2, <1>5, <1>6, LastOwner, OwnsStays DEF EchoInv
<1> QED BY <1>0, <1>1, <1>4, <1>5, <1>7, AloneStep

LEMMA MainGoesOk == ASSUME EchoInv, MainGoes PROVE EchoRest'
<1> DEFINE h == task[Main].sock
<1>0. task[Main].at = "go" /\ lost' = lost /\ MainAlone /\ Main \in Coros /\ h \in Known
  BY AloneOutsideRun DEF MainGoes, Runs, MainAlone, EchoInv, Programs, Tasks
<1>1. UNCHANGED sockVars /\ cpu' = Main
  BY DEF MainGoes, GoOk, GoFails
<1>2. CallsOk'
  <2>1. \A d \in Coros : d = Main \/ d \in Slots
    BY DEF Slots
  <2>2. \A d \in Coros : Idle(d)'
    BY <1>0, <1>1, <2>1 DEF MainAlone, Idle, sockVars
  <2> QED BY <2>2 DEF CallsOk
<1>3. LiveHandles' = LiveHandles /\ used' = used
  BY <1>1, SameHandles DEF sockVars
<1>4. CASE GoOk(Main, "accept", h, "run")
  <2>1. PICK s \in Slots : GoesTo(Main, s, "accept", h, "run")
    BY <1>0, <1>4, GoEffects DEF EchoInv, IsUnused, AtMain, AtSlot
  <2>2. /\ s # Main /\ s \in Coros /\ task'[s].at = "accept" /\ task'[s].sock = h /\ Programs'
        /\ task'[Main].at = "run" /\ task'[Main].sock = h
        /\ \A d \in Coros \ {Main, s} : task'[d] = task[d]
    BY <2>1 DEF GoesTo, Task, Slots
  <2>3. CpuOk'
    BY <1>1, <2>2, EchoAssumption DEF CpuOk
  <2>4. Server'
    BY <1>0, <2>2 DEF Server, Accepting, MainAlone, Slots
  <2>5. Owns(Main)' = Owns(Main) /\ Owns(s)' = Owns(s)
    BY <1>0, <2>2 DEF Owns, MainAlone
  <2>6. SocketsHaveOneOwner'
    <3>1. \A d \in Coros \ {Main, s} : Owns(d)' = Owns(d)
      BY <2>2, OwnsStays
    <3> QED BY <1>0, <1>3, <2>5, <3>1, SameOwners DEF EchoInv
  <2> QED BY <1>2, <2>2, <2>3, <2>4, <2>6 DEF EchoRest
<1>5. CASE GoFails(Main, "run")
  <2>1. /\ Programs' /\ task'[Main].at = "run" /\ task'[Main].sock = h
        /\ \A d \in Coros \ {Main} : task'[d] = task[d]
    BY <1>0, <1>3, <1>5, Moves DEF GoFails, EchoInv, AtMain
  <2>2. CpuOk'
    BY <1>1, <2>1, EchoAssumption DEF CpuOk
  <2>3. Server'
    BY <1>0, <2>1 DEF Server, Accepting, MainAlone, Slots
  <2>4. Owns(Main)' = Owns(Main)
    BY <1>0, <2>1 DEF Owns
  <2>5. SocketsHaveOneOwner'
    BY <1>0, <1>3, <2>1, <2>4, SameOwners, OwnsStays DEF EchoInv
  <2> QED BY <1>2, <2>1, <2>2, <2>3, <2>5 DEF EchoRest
<1> QED BY <1>4, <1>5 DEF MainGoes

\* main enters run, or run returns to it.
LEMMA RunStepOk == ASSUME EchoInv, MainWaits \/ RunReturns PROVE EchoRest'
<1>0. Main \in Coros /\ UNCHANGED sockVars /\ lost' = lost
  BY EchoAssumption DEF MainWaits, RunReturns
<1>1. PICK to \in {"running", "cleanup"} : MovesTo(Main, to)
  BY DEF MainWaits, RunReturns
<1>2. LiveHandles' = LiveHandles /\ used' = used /\ sockets' = sockets
      /\ call' = call /\ aborted' = aborted
  BY <1>0, SameHandles DEF sockVars
<1>3. /\ Programs' /\ task'[Main].at = to /\ task'[Main].sock = task[Main].sock
      /\ \A d \in Coros \ {Main} : task'[d] = task[d]
  BY <1>0, <1>1, <1>2, Moves DEF EchoInv, AtMain
<1>4. CallsOk'
  <2>1. Idle(Main)'
    <3>1. task[Main].at \in {"run", "running"}
      BY DEF MainWaits, RunReturns, Runs
    <3>2. Idle(Main)
      BY <1>0, <3>1, BetweenCalls DEF EchoInv, OpOf
    <3> QED BY <1>2, <3>2 DEF Idle
  <2> QED BY <1>2, <1>3, <2>1, CallsStay DEF EchoInv
<1>5. SocketsHaveOneOwner'
  <2>1. Owns(Main)' = Owns(Main)
    <3>1. task[Main].at # "pass" /\ task'[Main].at # "pass"
      BY <1>3 DEF EchoInv, Programs, AtMain
    <3> QED BY <1>3, <3>1 DEF Owns
  <2> QED BY <1>0, <1>2, <1>3, <2>1, SameOwners, OwnsStays DEF EchoInv
<1>6. CASE MainWaits
  <2>1. task[Main].at = "run" /\ to = "running" /\ cpu' = Nobody /\ ~ aborted
    BY <1>0, <1>1, <1>6 DEF MainWaits, Runs, MovesTo, EchoInv, Programs, Tasks
  <2>2. CpuOk'
    BY <1>2, <1>3, <2>1, EchoAssumption DEF CpuOk
  <2>3. Server'
    BY <1>0, <1>3, <2>1 DEF Server, Accepting, Slots, EchoInv
  <2> QED BY <2>2, <2>3, <1>3, <1>4, <1>5 DEF EchoRest
<1>7. CASE RunReturns
  <2>1. task[Main].at = "running" /\ to = "cleanup" /\ cpu' = Main
        /\ \A c \in Slots : task[c].at = "unused"
    BY <1>0, <1>1, <1>7 DEF RunReturns, IsUnused, MovesTo, EchoInv, Programs, Tasks
  <2>2. CpuOk'
    BY <1>2, <1>3, <2>1, EchoAssumption DEF CpuOk
  <2>3. Server'
    BY <1>0, <1>3, <2>1 DEF Server, Accepting, Slots, EchoInv
  <2> QED BY <2>2, <2>3, <1>3, <1>4, <1>5 DEF EchoRest
<1> QED BY <1>6, <1>7

-----------------------------------------------------------------------------
(***************************************************************************)
(* The coroutines.                                                         *)
(***************************************************************************)
\* While one of them has the CPU, main is in run.
LEMMA WhileInRun ==
    ASSUME EchoInv, NEW c \in Slots, NEW at, Runs(c, at)
    PROVE  /\ c \in Coros /\ c # Main /\ Main \in Coros /\ ~ aborted
           /\ task[c].at = at /\ task[Main].at = "running"
BY EchoAssumption DEF EchoInv, CpuOk, Runs, Slots

\* What is owned is live, and the invalid handle is not.
LEMMA OwnedIsLive ==
    ASSUME EchoInv, NEW c \in Coros, NEW h \in Owns(c)
    PROVE  h \in LiveHandles /\ h # InvalidHandle
<1>1. h \in LiveHandles
  BY DEF EchoInv, SocketsHaveOneOwner
<1> QED BY <1>1, LiveMapIs DEF EchoInv, SocketsInv, WorldInv

\* A coroutine that keeps its place among those who accept, or among the others.
LEMMA ServerStays ==
    ASSUME EchoInv, NEW c \in Slots, task[Main].at = "running",
           \A d \in Coros \ {c} : task'[d] = task[d],
           Accepting(c)' <=> Accepting(c), task'[c].sock = task[c].sock,
           lost' # lost => Accepting(c)
    PROVE  Server'
<1>1. c # Main /\ Main \in Coros /\ task'[Main] = task[Main]
  BY EchoAssumption DEF Slots
<1>2. \A d \in Slots : /\ Accepting(d)' <=> Accepting(d)
                       /\ task'[d].sock = task[d].sock
  BY DEF Slots, Accepting
<1>3. lost' # {} => \E d \in Slots : Accepting(d)
  BY DEF EchoInv, Server
<1> QED BY <1>1, <1>2, <1>3 DEF EchoInv, Server

LEMMA CpuStays ==
    ASSUME EchoInv, NEW c \in Slots, task[Main].at = "running", task'[Main] = task[Main],
           cpu' \in {c, Nobody, Poller}, cpu' # c => ~ aborted'
    PROVE  CpuOk'
BY EchoAssumption DEF CpuOk, Slots

\* Once a call returned or suspended, all calls are what they should be.
LEMMA CallsAfterRound ==
    ASSUME EchoInv, NEW c \in Coros, Returned(c) \/ Waits(c), TableStep,
           \A d \in Coros \ {c} : task'[d] = task[d]
    PROVE  CallsOk'
<1>1. Idle(c)' \/ (CallOk(c))'
  BY DEF Returned, Waits, Ends, Idle, NoCall, EchoInv, SocketsInv, CallTypes
<1>2. \A d \in Coros \ {c} : call'[d] = call[d]
  BY DEF Returned, Waits, Ends, EchoInv, SocketsInv, CallTypes
<1>3. \A d \in Coros : ~ Idle(d) => sockets'[call[d].index] = sockets[call[d].index]
  BY CallEntryStays DEF EchoInv
<1> QED BY <1>1, <1>2, <1>3, CallsStay DEF EchoInv

LEMMA LoopAcceptsOk == ASSUME EchoInv, NEW c \in Slots, LoopAccepts(c) PROVE EchoRest'
<1>0. /\ c \in Coros /\ c # Main /\ Main \in Coros /\ ~ aborted
      /\ task[c].at = "accept" /\ task[Main].at = "running" /\ lost' = lost
  BY WhileInRun DEF LoopAccepts
<1>1. Performs(c, "accept") /\ TakesClient(c)
  BY DEF LoopAccepts
<1>2. task \in [Coros -> Tasks] /\ task[c] \in Tasks
  BY <1>0 DEF EchoInv, Programs
<1>3. /\ task'[c].sock = task[c].sock
      /\ task'[c].at = task[c].at \/ ret' # "none"
      /\ \A d \in Coros \ {c} : task'[d] = task[d]
  BY <1>1, <1>2 DEF TakesClient, Tasks
<1>4. (Returned(c) \/ Waits(c)) /\ TableStep
  BY <1>0, <1>1, <1>3, PerformsEffects DEF EchoInv, EchoOps, OpOf
<1>5. AcceptEffect
  <2>1. Accepts(c)
    BY <1>0, <1>1, <1>2 DEF Performs, Accepts, Tasks, EchoInv, CallsOk, CallOk, OpOf
  <2> QED BY <1>0, <2>1, AcceptEffects DEF EchoInv
<1>6. CallsOk'
  BY <1>0, <1>3, <1>4, CallsAfterRound
<1>7. CpuOk'
  <2>1. cpu' = c \/ (cpu' = Nobody /\ aborted' = aborted)
    BY <1>4 DEF Returned, Waits, TableUnchanged
  <2> QED BY <1>0, <1>3, <2>1, CpuStays
<1>8. Owns(c) = {}
  BY <1>0 DEF Owns
<1>9. CASE ret' = "OK"
  <2>1. PICK new \in Fds : Create(new)
    BY <1>5, <1>9 DEF AcceptEffect, GivesOne
  <2>2. PICK h : Opened(h, new)
    BY <2>1, OpenEffects DEF EchoInv, SocketsInv, WorldInv
  <2>3. PICK g \in used' \ used : task' = [task EXCEPT ![c].at = "pass", ![c].client = g]
    BY <1>1, <1>9 DEF TakesClient
  <2>4. /\ g = h /\ h \in used' /\ used \subseteq used'
        /\ LiveHandles' = LiveHandles \union {h} /\ h \notin LiveHandles
    BY <2>2, <2>3, LiveMapIs DEF Opened, EchoInv, SocketsInv, WorldInv
  <2> DEFINE r == [task[c] EXCEPT !.at = "pass", !.client = h]
  <2>5. task' = [task EXCEPT ![c] = r]
    BY <2>3, <2>4
  <2>6. r \in Tasks' /\ r.at = "pass" /\ r.client = h
    BY <1>2, <2>4 DEF Tasks, Known, AtSlot
  <2> HIDE DEF r
  <2>7. Programs' /\ task'[c] = r
    BY <1>0, <2>4, <2>5, <2>6, ProgramsStay DEF EchoInv, AtSlot
  <2>8. Owns(c)' = {h}
    <3>1. task'[c].at = "pass" /\ task'[c].client = h
      BY <2>6, <2>7
    <3> QED BY <1>0, <3>1 DEF Owns
  <2>9. SocketsHaveOneOwner'
    BY <1>0, <1>3, <1>8, <2>4, <2>8, NewOwner, OwnsStays DEF EchoInv
  <2>10. Server'
    BY <1>0, <1>3, <2>6, <2>7, ServerStays DEF Accepting
  <2> QED BY <1>6, <1>7, <2>7, <2>9, <2>10 DEF EchoRest
<1>10. CASE ret' # "OK"
  <2>1. task' = task /\ used' = used /\ LiveHandles' = LiveHandles
    BY <1>1, <1>5, <1>10, SameHandles DEF TakesClient, AcceptEffect, GivesNothing
  <2>2. Programs'
    BY <2>1 DEF EchoInv, Programs, Tasks, Known
  <2>3. SocketsHaveOneOwner'
    BY <1>0, <2>1, SameOwners, OwnsStays DEF EchoInv
  <2>4. Server'
    BY <1>0, <2>1, ServerStays DEF Accepting
  <2> QED BY <1>6, <1>7, <2>2, <2>3, <2>4 DEF EchoRest
<1> QED BY <1>9, <1>10

LEMMA LoopGoesOk == ASSUME EchoInv, NEW c \in Slots, LoopGoes(c) PROVE EchoRest'
<1> DEFINE h == task[c].client
<1>0. /\ c \in Coros /\ c # Main /\ Main \in Coros /\ ~ aborted
      /\ task[c].at = "pass" /\ task[Main].at = "running" /\ h \in Known
  BY WhileInRun DEF LoopGoes, EchoInv, Programs, Tasks
<1>1. UNCHANGED sockVars /\ cpu' = c
  BY DEF LoopGoes, GoOk, GoFails
<1>2. /\ LiveHandles' = LiveHandles /\ used' = used /\ sockets' = sockets /\ call' = call
  BY <1>1, SameHandles DEF sockVars
<1>3. Idle(c)
  BY <1>0, BetweenCalls DEF EchoInv, OpOf
<1>4. Owns(c) = {h} /\ h # InvalidHandle
  <2>1. Owns(c) = {h}
    BY <1>0 DEF Owns
  <2> QED BY <1>0, <2>1, OwnedIsLive
<1>5. CASE GoOk(c, "recv", h, "accept") /\ lost' = lost
  <2>1. PICK s \in Slots : GoesTo(c, s, "recv", h, "accept")
    BY <1>0, <1>5, GoEffects DEF EchoInv, IsUnused, AtSlot
  <2>2. /\ s # Main /\ s # c /\ s \in Coros /\ task'[s].at = "recv" /\ task'[s].sock = h
        /\ task'[c].at = "accept" /\ task'[c].sock = task[c].sock /\ Programs'
        /\ task[s].at = "unused" /\ Idle(s)
        /\ \A d \in Coros \ {c, s} : task'[d] = task[d]
    BY <2>1 DEF GoesTo, Task, Slots, IsUnused
  <2>3. CpuOk'
    BY <1>0, <1>1, <2>2, CpuStays
  <2>4. CallsOk'
    BY <1>2, <1>3, <2>2, CallsStay DEF EchoInv, Idle
  <2>5. Server'
    BY <1>0, <1>5, <2>2 DEF EchoInv, Server, Accepting, Slots
  <2>6. Owns(c)' = {} /\ Owns(s) = {} /\ Owns(s)' = {h}
    BY <1>0, <1>4, <2>2 DEF Owns
  <2>7. \A d \in Coros \ {c, s} : Owns(d)' = Owns(d)
    BY <2>2, OwnsStays
  <2> HIDE DEF h
  <2>8. SocketsHaveOneOwner'
    BY <1>0, <1>2, <1>4, <1>5, <2>2, <2>6, <2>7, NextOwner DEF EchoInv
  <2> QED BY <2>2, <2>3, <2>4, <2>5, <2>8 DEF EchoRest
<1>6. CASE GoFails(c, "accept") /\ lost' = lost \union {h}
  <2>1. /\ Programs' /\ task'[c].at = "accept" /\ task'[c].sock = task[c].sock
        /\ \A d \in Coros \ {c} : task'[d] = task[d]
    BY <1>0, <1>2, <1>6, Moves DEF GoFails, EchoInv, AtSlot
  <2>2. CpuOk'
    BY <1>0, <1>1, <2>1, CpuStays
  <2>3. CallsOk'
    BY <1>2, <1>3, <2>1, CallsStay DEF EchoInv, Idle
  <2>4. Server'
    BY <1>0, <2>1, ServerStays DEF Accepting
  <2>5. Owns(c)' = {}
    BY <1>0, <2>1 DEF Owns
  <2> HIDE DEF h
  <2>6. SocketsHaveOneOwner'
    BY <1>0, <1>2, <1>4, <1>6, <2>1, <2>5, NoOwner, OwnsStays DEF EchoInv
  <2> QED BY <2>1, <2>2, <2>3, <2>4, <2>6 DEF EchoRest
<1> QED BY <1>5, <1>6 DEF LoopGoes

\* A coroutine of a client, in recv or send, and what it goes on with.
LEMMA ClientIoOk ==
    ASSUME EchoInv, NEW c \in Slots, NEW op \in {"recv", "send"},
           task[c].at \in {"recv", "sendall"}, op = OpOf(task[c].at),
           task[Main].at = "running", ~ aborted, Performs(c, op), lost' = lost,
           NEW r \in Tasks, task' = [task EXCEPT ![c] = r],
           r.at \in {"recv", "sendall", "destroy"}, r.sock = task[c].sock,
           r.at = task[c].at \/ ret' # "none"
    PROVE  EchoRest'
<1>0. c \in Coros /\ c # Main /\ Main \in Coros
  BY EchoAssumption DEF Slots
<1>1. TableUnchanged
  BY <1>0, IoKeepsTable DEF EchoInv, CallsOk, CallOk
<1>2. LiveHandles' = LiveHandles /\ used' = used /\ r \in Tasks'
  BY <1>1, SameHandles DEF TableUnchanged, Tasks, Known
<1>3. /\ Programs'
      /\ task'[c] = r /\ \A d \in Coros \ {c} : task'[d] = task[d]
  BY <1>0, <1>2, ProgramsStay DEF EchoInv, AtSlot
<1>4. /\ task'[c].at \in {"recv", "sendall", "destroy"} /\ task'[c].sock = task[c].sock
      /\ task'[c].at = task[c].at \/ ret' # "none"
  BY <1>3
<1>5. (Returned(c) \/ Waits(c)) /\ TableStep
  BY <1>0, <1>4, PerformsEffects DEF EchoInv, EchoOps
<1>6. CallsOk'
  BY <1>0, <1>3, <1>5, CallsAfterRound
<1>7. CpuOk'
  <2>1. cpu' \in {c, Nobody} /\ aborted' = aborted
    BY <1>1, <1>5 DEF Returned, Waits, TableUnchanged
  <2> QED BY <1>0, <1>3, <2>1, CpuStays
<1>8. Server'
  BY <1>0, <1>3, <1>4, ServerStays DEF Accepting
<1>9. Owns(c)' = Owns(c)
  BY <1>0, <1>4 DEF Owns
<1>10. SocketsHaveOneOwner'
  BY <1>0, <1>2, <1>3, <1>9, SameOwners, OwnsStays DEF EchoInv
<1> QED BY <1>3, <1>6, <1>7, <1>8, <1>10 DEF EchoRest

LEMMA ClientRecvsOk == ASSUME EchoInv, NEW c \in Slots, ClientRecvs(c) PROVE EchoRest'
<1>0. /\ c \in Coros /\ ~ aborted /\ task[c].at = "recv" /\ task[Main].at = "running"
      /\ "recv" = OpOf(task[c].at)
  BY WhileInRun DEF ClientRecvs, OpOf
<1>1. Performs(c, "recv") /\ lost' = lost
  BY DEF ClientRecvs
<1>2. task \in [Coros -> Tasks] /\ task[c] \in Tasks
  BY <1>0 DEF EchoInv, Programs
<1>3. \E r \in Tasks : /\ task' = [task EXCEPT ![c] = r]
                       /\ r.at \in {"recv", "sendall", "destroy"} /\ r.sock = task[c].sock
                       /\ r.at = task[c].at \/ ret' # "none"
  <2>1. CASE ret' = "none"
    <3>1. task' = [task EXCEPT ![c] = task[c]]
      BY <1>2, <2>1 DEF ClientRecvs
    <3> QED BY <1>0, <1>2, <3>1
  <2>2. CASE ret' = "OK"
    <3>1. PICK n \in 1 .. BufferSize :
             task' = [task EXCEPT ![c].at = "sendall", ![c].left = n]
      BY <2>2 DEF ClientRecvs
    <3> DEFINE r == [task[c] EXCEPT !.at = "sendall", !.left = n]
    <3>2. task' = [task EXCEPT ![c] = r]
      BY <3>1
    <3>3. n \in 0 .. BufferSize
      BY EchoAssumption
    <3>4. r \in Tasks /\ r.at = "sendall" /\ r.sock = task[c].sock
      BY <1>2, <3>3 DEF Tasks, AtSlot
    <3> QED BY <2>2, <3>2, <3>4
  <2>3. CASE ret' # "none" /\ ret' # "OK"
    <3> DEFINE r == [task[c] EXCEPT !.at = "destroy"]
    <3>1. task' = [task EXCEPT ![c] = r]
      BY <2>3 DEF ClientRecvs, MovesTo
    <3>2. r \in Tasks /\ r.at = "destroy" /\ r.sock = task[c].sock
      BY <1>2 DEF Tasks, AtSlot
    <3> QED BY <2>3, <3>1, <3>2
  <2> QED BY <2>1, <2>2, <2>3
<1> QED BY <1>0, <1>1, <1>3, ClientIoOk

LEMMA ClientSendsOk == ASSUME EchoInv, NEW c \in Slots, ClientSends(c) PROVE EchoRest'
<1>0. /\ c \in Coros /\ ~ aborted /\ task[c].at = "sendall" /\ task[Main].at = "running"
      /\ "send" = OpOf(task[c].at)
  BY WhileInRun DEF ClientSends, OpOf
<1>1. Performs(c, "send") /\ lost' = lost
  BY DEF ClientSends
<1>2. task \in [Coros -> Tasks] /\ task[c] \in Tasks
  BY <1>0 DEF EchoInv, Programs
<1>3. \E r \in Tasks : /\ task' = [task EXCEPT ![c] = r]
                       /\ r.at \in {"recv", "sendall", "destroy"} /\ r.sock = task[c].sock
                       /\ r.at = task[c].at \/ ret' # "none"
  <2>1. CASE UNCHANGED task
    <3>1. task' = [task EXCEPT ![c] = task[c]]
      BY <1>2, <2>1
    <3> QED BY <1>0, <1>2, <3>1
  <2>2. CASE ret' = "OK"
    <3>1. PICK n \in Unsent(task[c].left) :
             task' = [task EXCEPT ![c].at = IF n = 0 THEN "recv" ELSE "sendall",
                                  ![c].left = n]
      BY <2>2 DEF ClientSends
    <3> DEFINE at == IF n = 0 THEN "recv" ELSE "sendall"
               r == [task[c] EXCEPT !.at = at, !.left = n]
    <3>2. task' = [task EXCEPT ![c] = r]
      BY <3>1
    <3>3. n \in 0 .. BufferSize
      <4>1. task[c].left \in 0 .. BufferSize
        BY <1>2 DEF Tasks
      <4> QED BY <4>1, EchoAssumption DEF Unsent
    <3>4. r \in Tasks /\ r.at \in {"recv", "sendall"} /\ r.sock = task[c].sock
      BY <1>2, <3>3 DEF Tasks, AtSlot
    <3> QED BY <2>2, <3>2, <3>4
  <2>3. CASE ret' # "none" /\ MovesTo(c, "destroy")
    <3> DEFINE r == [task[c] EXCEPT !.at = "destroy"]
    <3>1. task' = [task EXCEPT ![c] = r]
      BY <2>3 DEF MovesTo
    <3>2. r \in Tasks /\ r.at = "destroy" /\ r.sock = task[c].sock
      BY <1>2 DEF Tasks, AtSlot
    <3> QED BY <2>3, <3>1, <3>2
  <2> QED BY <2>1, <2>2, <2>3 DEF ClientSends
<1> QED BY <1>0, <1>1, <1>3, ClientIoOk

\* The socket of the call of another coroutine has another owner, and thus
\* another entry.
LEMMA OtherCallsEntry ==
    ASSUME EchoInv, NEW c \in Slots, task[c].at = "destroy", task[Main].at = "running",
           Finds(task[c].sock), NEW d \in Coros \ {c}, ~ Idle(d)
    PROVE  call[d].index \in Index \ {handle_index(task[c].sock)}
<1> DEFINE h == task[c].sock
           g == task[d].sock
           i == call[d].index
<1>0. /\ c \in Coros /\ c # Main /\ Main \in Coros
      /\ i \in Index /\ call[d].op \in Suspending
      /\ sockets[i].handle = g /\ g # InvalidHandle
      /\ call[d].op = OpOf(task[d].at)
  BY EchoAssumption
     DEF Slots, EchoInv, SocketsInv, CallTypes, CallsOk, CallOk, KeepsEntry
<1>1. sockets[handle_index(h)].handle = h
  BY DEF Finds
<1>2. task[d].at \in {"accept", "recv", "sendall"}
  BY <1>0 DEF Suspending, OpOf
<1>3. \E e \in Coros \ {c} : g \in Owns(e)
  <2>1. CASE task[d].at = "accept"
    <3>1. d \in Slots
      BY <1>0, <2>1 DEF Slots, EchoInv, Programs, AtMain
    <3>2. g = task[Main].sock
      BY <2>1, <3>1 DEF EchoInv, Server, Accepting
    <3>3. g \in Owns(Main)
      BY <1>0, <3>2 DEF Owns
    <3> QED BY <1>0, <3>3
  <2>2. CASE task[d].at \in {"recv", "sendall"}
    <3>1. g \in Owns(d)
      BY <1>0, <2>2 DEF Owns
    <3> QED BY <3>1
  <2> QED BY <1>2, <2>1, <2>2
<1>4. h # InvalidHandle => h \in Owns(c)
  BY <1>0 DEF Owns
<1>5. g # h
  BY <1>0, <1>3, <1>4 DEF EchoInv, SocketsHaveOneOwner
<1> QED BY <1>0, <1>1, <1>5

LEMMA ClientEndsOk == ASSUME EchoInv, NEW c \in Slots, ClientEnds(c) PROVE EchoRest'
<1> DEFINE h == task[c].sock
<1>0. /\ c \in Coros /\ c # Main /\ Main \in Coros /\ ~ aborted
      /\ task[c].at = "destroy" /\ task[Main].at = "running" /\ lost' = lost
  BY WhileInRun DEF ClientEnds
<1>1. /\ Destroy(h) /\ Ends(c) /\ task' = [task EXCEPT ![c] = Unused] /\ cpu' = Nobody
      /\ h \in Known
  BY <1>0 DEF ClientEnds, SocketDestroy, Return, Ends, EchoInv, Programs, Tasks
<1>2. /\ h \in LiveHandles /\ used' = used /\ LiveHandles' = LiveHandles \ {h}
      /\ \A j \in Index \ {handle_index(h)} : sockets'[j] = sockets[j]
      /\ Finds(h) /\ aborted' = aborted
  BY <1>1, CloseEffects DEF EchoInv, SocketsInv, WorldInv, Destroy
<1>3. h # InvalidHandle
  BY <1>2, LiveMapIs DEF EchoInv, SocketsInv, WorldInv
<1>4. Unused \in Tasks' /\ Unused.at = "unused"
  <2>1. 0 \in 0 .. BufferSize
    BY EchoAssumption
  <2> QED BY <2>1 DEF Unused, Task, Tasks, Known, AtSlot
<1>5. /\ Programs'
      /\ task'[c] = Unused /\ \A d \in Coros \ {c} : task'[d] = task[d]
  BY <1>0, <1>1, <1>2, <1>4, ProgramsStay DEF EchoInv, AtSlot
<1>6. task'[c].at = "unused"
  BY <1>4, <1>5
<1>7. CallsOk'
  <2>1. Idle(c)' /\ \A d \in Coros \ {c} : call'[d] = call[d]
    BY <1>0, <1>1 DEF Ends, Idle, NoCall, EchoInv, SocketsInv, CallTypes
  <2>2. \A d \in Coros \ {c} : ~ Idle(d) => sockets'[call[d].index] = sockets[call[d].index]
    BY <1>0, <1>2, OtherCallsEntry
  <2> QED BY <1>5, <2>1, <2>2, CallsStay DEF EchoInv
<1>8. CpuOk'
  BY <1>0, <1>1, <1>2, <1>5, CpuStays
<1>9. Server'
  BY <1>0, <1>5, <1>6 DEF EchoInv, Server, Accepting, Slots
<1>10. Owns(c) = {h} /\ Owns(c)' = {}
  BY <1>0, <1>3, <1>6 DEF Owns
<1> HIDE DEF h
<1>11. SocketsHaveOneOwner'
  BY <1>0, <1>2, <1>5, <1>10, LastOwner, OwnsStays DEF EchoInv
<1> QED BY <1>5, <1>7, <1>8, <1>9, <1>11 DEF EchoRest

-----------------------------------------------------------------------------
(***************************************************************************)
(* poll, the peers, and all of it together.                                *)
(***************************************************************************)
\* What leaves the programs and the table alone.
LEMMA NobodyMoves ==
    ASSUME EchoInv, UNCHANGED <<task, lost>>, TableUnchanged, CallsOk', CpuOk'
    PROVE  EchoRest'
<1>1. LiveHandles' = LiveHandles /\ used' = used
  BY SameHandles DEF TableUnchanged
<1>2. Programs'
  BY <1>1 DEF EchoInv, Programs, Tasks, Known
<1>3. Server'
  BY DEF EchoInv, Server, Accepting
<1>4. SocketsHaveOneOwner'
  BY <1>1, SameOwners, OwnsStays DEF EchoInv
<1> QED BY <1>2, <1>3, <1>4 DEF EchoRest

LEMMA PollWakesOk == ASSUME EchoInv, NEW c \in Slots, PollWakes(c) PROVE EchoRest'
<1>0. /\ c \in Coros /\ Main \in Coros /\ cpu \in {Nobody, Poller}
      /\ cpu' = Poller /\ UNCHANGED <<task, lost>> /\ TableUnchanged
      /\ call[c].at = "wait" /\ call' = [call EXCEPT ![c].at = "awake"]
  BY EchoAssumption DEF PollWakes, Wakes, Slots
<1>1. CpuOk'
  BY <1>0, EchoAssumption DEF EchoInv, CpuOk, TableUnchanged
<1>2. CallsOk'
  <2>1. (CallOk(c))'
    <3>1. CallOk(c) /\ call[c] = [call[c] EXCEPT !.at = "wait"]
      BY <1>0 DEF EchoInv, CallsOk, Idle, SocketsInv, CallTypes
    <3>2. /\ call'[c].op = call[c].op /\ call'[c].handle = call[c].handle
          /\ call'[c].index = call[c].index /\ call'[c].fd = call[c].fd
      BY <1>0 DEF EchoInv, SocketsInv, CallTypes
    <3> QED BY <1>0, <3>1, <3>2 DEF CallOk, KeepsEntry, TableUnchanged
  <2>2. \A d \in Coros \ {c} : call'[d] = call[d]
    BY <1>0 DEF EchoInv, SocketsInv, CallTypes
  <2> QED BY <1>0, <2>1, <2>2, CallsStay DEF EchoInv, TableUnchanged
<1> QED BY <1>0, <1>1, <1>2, NobodyMoves

LEMMA OthersOk ==
    ASSUME EchoInv,
           \/ PollEnds
           \/ \E fd \in Fds : Peers(fd)
           \/ UNCHANGED <<sockVars, echoVars>>
    PROVE  EchoRest'
<1>1. UNCHANGED <<task, lost, call>> /\ TableUnchanged
  BY DEF PollEnds, Peers, KernelStep, sockVars, echoVars, TableUnchanged
<1>2. cpu' = cpu \/ (cpu = Poller /\ cpu' = Nobody)
  BY DEF PollEnds, Peers, echoVars
<1>3. CallsOk'
  BY <1>1, CallsStay DEF EchoInv, TableUnchanged
<1>4. CpuOk'
  BY <1>1, <1>2, EchoAssumption DEF EchoInv, CpuOk, TableUnchanged
<1> QED BY <1>1, <1>3, <1>4, NobodyMoves

LEMMA EchoStart == EchoInit => EchoInv
<1> SUFFICES ASSUME EchoInit PROVE EchoInv
  OBVIOUS
<1>1. SocketsInv
  BY SocketsStart DEF EchoInit
<1>2. /\ \A c \in Coros : call[c] = NoCall
      /\ Main \in Coros /\ cpu = Main /\ lost = {} /\ ~ aborted
      /\ task = [c \in Coros |-> IF c = Main THEN Task("create", InvalidHandle) ELSE Unused]
  BY EchoAssumption DEF EchoInit, SocketsInit, TableInit
<1>3. Task("create", InvalidHandle) \in Tasks /\ Unused \in Tasks
  <2>1. 0 \in 0 .. BufferSize
    BY EchoAssumption
  <2> QED BY <2>1 DEF Unused, Task, Tasks, Known, AtMain, AtSlot
<1>4. /\ task[Main].at = "create" /\ task[Main].sock = InvalidHandle
      /\ \A c \in Slots : task[c].at = "unused"
  BY <1>2 DEF Task, Unused, Slots
<1>5. Programs
  BY <1>2, <1>3, <1>4 DEF Programs, AtMain, AtSlot
<1>6. CpuOk
  BY <1>2, <1>4, EchoAssumption DEF CpuOk
<1>7. CallsOk
  BY <1>2 DEF CallsOk, Idle, NoCall
<1>8. Server
  BY <1>2, <1>4 DEF Server, Accepting
<1>9. SocketsHaveOneOwner
  <2>1. LiveHandles = {}
    BY DEF EchoInit, SocketsInit, TableInit, LiveHandles, Used, IsFree, FreeEntry
  <2>2. \A c \in Coros : Owns(c) = {}
    BY <1>4 DEF Owns, Slots
  <2> QED BY <1>2, <2>1, <2>2 DEF SocketsHaveOneOwner
<1> QED BY <1>1, <1>5, <1>6, <1>7, <1>8, <1>9 DEF EchoInv

LEMMA EchoInvStep == EchoInv /\ [EchoNext]_<<sockVars, echoVars>> => EchoInv'
<1> SUFFICES ASSUME EchoInv, [EchoNext]_<<sockVars, echoVars>> PROVE EchoInv'
  OBVIOUS
<1>1. SocketsInv'
  BY EchoStepIsSocketsStep, SocketsInvStep DEF EchoInv
<1>2. ASSUME MainRuns PROVE EchoRest'
  BY <1>2, MainCreatesOk, MainConfiguresOk, MainGoesOk, RunStepOk, MainCleansUpOk
     DEF MainRuns
<1>3. ASSUME NEW c \in Slots, TaskRuns(c) PROVE EchoRest'
  BY <1>3, LoopAcceptsOk, LoopGoesOk, ClientRecvsOk, ClientSendsOk, ClientEndsOk
     DEF TaskRuns
<1>4. EchoRest'
  BY <1>2, <1>3, RunStepOk, PollWakesOk, OthersOk DEF EchoNext
<1> QED BY <1>1, <1>4 DEF EchoInv, EchoRest

LEMMA EchoInvariant == EchoSpec => []EchoInv
<1> QED BY EchoStart, EchoInvStep, PTL DEF EchoSpec

-----------------------------------------------------------------------------
(***************************************************************************)
(* What the echo server promises.                                          *)
(***************************************************************************)
\* The echo server uses sockets, coroutines and handles as the library allows:
\* whatever is proved of Sockets for all clients holds while it serves
\* (examples/socket/00_echo_server.c over libminimk/socket).
THEOREM EchoServerIsAClient == EchoSpec => SocketsSpec
<1>1. EchoInit => SocketsInit
  BY DEF EchoInit
<1>2. EchoInv /\ [EchoNext]_<<sockVars, echoVars>> => [SocketsNext]_sockVars
  BY EchoStepIsSocketsStep DEF EchoInv
<1> QED BY <1>1, <1>2, EchoInvariant, PTL DEF EchoSpec, SocketsSpec

\* Type correctness of the echo server: programs are where they can be, and
\* their variables hold handles that the library gave out.
THEOREM EchoServerTypeCorrect == EchoSpec => []EchoTypeOK
<1>1. EchoInv /\ SocketsTypeOK => EchoTypeOK
  <2> SUFFICES ASSUME EchoInv, SocketsTypeOK PROVE EchoTypeOK
    OBVIOUS
  <2>1. Known \subseteq HandleSpace
    BY ZeroHandle DEF Known, SocketsTypeOK, TableTypeOK
  <2>2. lost \subseteq used
    BY LiveMapIs DEF EchoInv, SocketsHaveOneOwner, SocketsInv, WorldInv
  <2>3. Tasks \subseteq [at : AtMain \union AtSlot, sock : HandleSpace,
                        client : HandleSpace, left : 0 .. BufferSize]
    BY <2>1 DEF Tasks
  <2>4. task \in [Coros -> [at : AtMain \union AtSlot, sock : HandleSpace,
                           client : HandleSpace, left : 0 .. BufferSize]]
    BY <2>3 DEF EchoInv, Programs
  <2>5. AtMain \union AtSlot
          = {"unused", "create", "setsockopt", "bind", "listen", "go", "run", "running",
             "cleanup", "exit", "accept", "pass", "recv", "sendall", "destroy"}
    BY DEF AtMain, AtSlot
  <2>6. cpu \in Coros \union {Nobody, Poller}
    BY DEF EchoInv, CpuOk
  <2> QED BY <2>2, <2>4, <2>5, <2>6 DEF EchoTypeOK
<1> QED BY <1>1, EchoInvariant, EchoServerIsAClient, SocketsTypeCorrect, PTL

\* Ownership of a socket passes from who creates or accepts it to the coroutine
\* that serves it (examples/socket/00_echo_server.c, accept_loop and
\* handle_client): at every moment every open socket has exactly one owner, or
\* is one that minimk_runtime_go refused, and nobody owns what is not open.
THEOREM OwnershipIsPassedOn == EchoSpec => []SocketsHaveOneOwner
<1>1. EchoInv => SocketsHaveOneOwner
  BY DEF EchoInv
<1> QED BY <1>1, EchoInvariant, PTL

\* main leaves no socket open, whichever step of its setup failed: at its exit
\* nobody is left who owns a socket, and none was lost, because who loses one
\* goes on accepting and then run does not return.
THEOREM MainExitsClean == EchoSpec => []ExitsClean
<1>1. EchoInv => ExitsClean
  <2> SUFFICES ASSUME EchoInv, task[Main].at = "exit" PROVE open = {}
    BY DEF ExitsClean
  <2>1. MainAlone
    BY AloneOutsideRun
  <2>2. task[Main].sock = InvalidHandle
    BY DEF EchoInv, Server
  <2>3. Owns(Main) = {}
    BY <2>2 DEF Owns
  <2>4. \A c \in Coros : Owns(c) = {}
    BY <2>1, <2>3 DEF MainAlone, Slots
  <2>5. LiveHandles = {}
    BY <2>1, <2>4 DEF MainAlone, EchoInv, SocketsHaveOneOwner
  <2>6. \A i \in Index : ~ Used(i)
    BY <2>5 DEF LiveHandles
  <2> QED BY <2>6 DEF EchoInv, SocketsInv, WorldInv, DescriptorsHaveOneEntry
<1> QED BY <1>1, EchoInvariant, PTL

\* A coroutine of the echo server that was suspended in recv, send or accept
\* continues with the socket it was called with (the socket_info that
\* libminimk/socket keeps across the suspension): no discipline of the clients
\* is assumed here, ownership gives it.
THEOREM EchoCallsKeepTheirEntries == EchoSpec => []KeepsItsEntry
<1>1. EchoInv => KeepsItsEntry
  BY DEF EchoInv, CallsOk, CallOk, KeepsEntry, KeepsItsEntry, Idle
<1> QED BY <1>1, EchoInvariant, PTL

=============================================================================
