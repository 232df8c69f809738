------------------------------ MODULE Sockets ------------------------------
(***************************************************************************)
(* The socket operations that suspend their coroutine (accept, connect,    *)
(* recv and send of libminimk/socket) over the socket table, beside the    *)
(* ones that do not.                                                       *)
(*                                                                         *)
(* A coroutine has the CPU until it suspends, so that a call is one step   *)
(* from its lookup of the handle to its return or its first suspension,    *)
(* and one step from the end of a suspension to the next.  In between, the *)
(* call keeps a pointer to its entry of the table (index, the code's info) *)
(* and the scheduler the descriptor it waits for (fd).  Being woken and    *)
(* getting the CPU are different moments, as they are in Scheduler.        *)
(***************************************************************************)
EXTENDS SocketTable, U64

CONSTANTS
    Coros,        \* the coroutines
    Disciplined,  \* clients leave a socket alone while a call on it is suspended
    ClockBound    \* bound: the clock stops here

ASSUME SocketsAssumption ==
    /\ Disciplined \in BOOLEAN
    /\ Forever = U64Max /\ Timeouts \subseteq U64
    /\ ClockBound \in U64

VARIABLES
    kern,    \* what the kernel knows of each descriptor
    call,    \* the call each coroutine is in
    ret,     \* what the last step returned to a client
    clock

sockVars == <<sockets, generation, next_slot, open, aborted, used, kern, call, ret, clock>>

-----------------------------------------------------------------------------
(***************************************************************************)
(* A descriptor in the kernel: what it is, whether there is something to   *)
(* read (for a listener, a connection to accept), and room to write.       *)
(***************************************************************************)
Closed == [kind |-> "closed", input |-> "none", room |-> FALSE]
New == [Closed EXCEPT !.kind = "new"]
Up == [Closed EXCEPT !.kind = "up", !.room = TRUE]

\* The descriptor 0 of a free entry is not a socket.
Kind(fd) == IF fd \in open THEN kern[fd].kind ELSE "closed"

\* poll(2) also reports a socket on which an attempt to connect failed.
Readable(fd) == fd \in open /\ (kern[fd].input # "none" \/ kern[fd].kind \in {"new", "refused"})
Writable(fd) == fd \in open /\ (kern[fd].room \/ kern[fd].kind \in {"new", "refused"})

(***************************************************************************)
(* A call: none, waiting for fd, or awake again because the suspension     *)
(* ended in time or not.  limit is when the timeout of the call expires,   *)
(* counted from its beginning.                                             *)
(***************************************************************************)
NoCall == [at |-> "idle", op |-> "none", handle |-> InvalidHandle, index |-> 0,
           fd |-> 0, deadline |-> 0, limit |-> 0]
Idle(c) == call[c].at = "idle"
InFlight(h) == \E c \in Coros : ~ Idle(c) /\ call[c].handle = h
MayDisturb(h) == Disciplined => ~ InFlight(h)

\* Nor does a disciplined client share a socket whose connect is in flight:
\* the other call could take the error that this connect waits for.
MayBegin(op, h) ==
    Disciplined => \A c \in Coros :
        ~ Idle(c) /\ call[c].handle = h => "connect" \notin {op, call[c].op}

Return(c, r) == call' = [call EXCEPT ![c] = NoCall] /\ ret' = r
TableUnchanged == UNCHANGED <<sockets, generation, next_slot, open, aborted, used>>

\* Slip: reading waits with the write timeout, and writing with the read timeout.
SwappedTimeoutOf(op, i) ==
    IF op \in {"recv", "accept"} THEN sockets[i].write_timeout ELSE sockets[i].read_timeout
TimeoutOf(op, i) ==
    IF op \in {"recv", "accept"} THEN sockets[i].read_timeout ELSE sockets[i].write_timeout

\* History: when the timeout expires that socket.h promises for a call that begins now.
PromisedTimeout ==
    [recv |-> "read_timeout", accept |-> "read_timeout",
     send |-> "write_timeout", connect |-> "write_timeout"]
Limit(op, i) == SumOrMax(clock, sockets[i][PromisedTimeout[op]])

\* minimk_runtime_suspend_read or _write of info->fd with the timeout of info.
Suspend(c, op, h, i, limit) ==
    /\ call' = [call EXCEPT ![c] =
                    [at |-> "wait", op |-> op, handle |-> h, index |-> i,
                     fd |-> sockets[i].fd, deadline |-> SatAdd(clock, TimeoutOf(op, i)),
                     limit |-> limit]]
    /\ ret' = "none"
    /\ TableUnchanged

-----------------------------------------------------------------------------
(***************************************************************************)
(* One round of recv and of send: the system call, on info->fd.  A socket  *)
(* that still connects gives EAGAIN, like an idle connection.  The error   *)
(* of a connection that was refused is reported once.                      *)
(***************************************************************************)
NotReady(fd, idle) == Kind(fd) = "connecting" \/ (Kind(fd) = "up" /\ idle)

\* Refused, not connected, or interrupted.
RoundFails(c, fd) ==
    /\ Return(c, "error") /\ TableUnchanged
    /\ kern' = IF Kind(fd) = "refused" THEN [kern EXCEPT ![fd] = New] ELSE kern

TryRecv(c, h, i, limit) ==
    LET fd == sockets[i].fd
    IN  \/ /\ Kind(fd) = "up" /\ kern[fd].input = "some"
           /\ kern' = [kern EXCEPT ![fd].input = "none"]
           /\ Return(c, "OK")
           /\ TableUnchanged
        \/ /\ Kind(fd) = "up" /\ kern[fd].input = "eof"
           /\ Return(c, "EOF")
           /\ UNCHANGED kern /\ TableUnchanged
        \/ /\ NotReady(fd, kern[fd].input = "none")
           /\ Suspend(c, "recv", h, i, limit) /\ UNCHANGED kern
        \/ RoundFails(c, fd)

TrySend(c, h, i, limit) ==
    LET fd == sockets[i].fd
    IN  \/ /\ Kind(fd) = "up" /\ kern[fd].room
           /\ kern' = [kern EXCEPT ![fd].room = FALSE]
           /\ Return(c, "OK")
           /\ TableUnchanged
        \/ /\ NotReady(fd, ~ kern[fd].room)
           /\ Suspend(c, "send", h, i, limit) /\ UNCHANGED kern
        \/ RoundFails(c, fd)

\* minimk_syscall_socket_setnonblock fails, and the new descriptor is closed again.
StaysBlocking(c) == Return(c, "error") /\ TableUnchanged

\* Slip: what is left of a connection without an entry stays open.
AcceptedLeaks(c, fd, new) ==
    /\ \/ Create(new) /\ Return(c, "OK")
       \/ CreateTableFullLeaks(new) /\ Return(c, "error")
       \/ StaysBlocking(c)
    /\ kern' = [kern EXCEPT ![fd].input = "none",
                            ![new] = IF new \in open' THEN Up ELSE Closed]

(***************************************************************************)
(* One round of accept: the connection that is taken from the listener     *)
(* gets an entry, or its descriptor is closed again because it cannot be   *)
(* made nonblocking or because the table is full.                          *)
(***************************************************************************)
Accepted(c, fd, new) ==
    /\ \/ Create(new) /\ Return(c, "OK")
       \/ (CreateTableFull(new) \/ CreateExhausted(new)) /\ Return(c, "error")
       \/ StaysBlocking(c)
    /\ kern' = [kern EXCEPT ![fd].input = "none",
                            ![new] = IF new \in open' THEN Up ELSE Closed]

TryAccept(c, h, i, limit) ==
    LET fd == sockets[i].fd
    IN  \/ /\ Kind(fd) = "listener" /\ kern[fd].input = "some"
           /\ \E new \in Fds \ open : Accepted(c, fd, new)
        \/ /\ Kind(fd) = "listener" /\ kern[fd].input = "none"
           /\ Suspend(c, "accept", h, i, limit) /\ UNCHANGED kern
        \/ /\ Return(c, "error")    \* not a listener, interrupted, or no descriptor left
           /\ UNCHANGED kern /\ TableUnchanged

(***************************************************************************)
(* connect tries once.  The kernel connects or refuses at once, or is in   *)
(* progress; a connection that was refused meanwhile is reported once.     *)
(* getsockopt(SO_ERROR) reports it too, and clears it.                     *)
(***************************************************************************)
Outcome(res, becomes) == [res |-> res, becomes |-> becomes]
connect(fd) ==
    CASE Kind(fd) = "new" -> {Outcome("OK", Up), Outcome("error", New),
                              Outcome("EINPROGRESS", [New EXCEPT !.kind = "connecting"])}
      [] Kind(fd) = "refused" -> {Outcome("error", New)}
      [] OTHER -> {Outcome("error", kern[fd])}

getsockopt_error(fd) ==
    CASE Kind(fd) = "refused" -> Outcome("error", New)
      [] Kind(fd) = "closed" -> Outcome("error", Closed)
      [] OTHER -> Outcome("OK", kern[fd])

TryConnect(c, h, i, limit) ==
    LET fd == sockets[i].fd
    IN  \E r \in connect(fd) :
            /\ kern' = [kern EXCEPT ![fd] = r.becomes]
            /\ \/ r.res = "EINPROGRESS" /\ Suspend(c, "connect", h, i, limit)
               \/ r.res # "EINPROGRESS" /\ Return(c, r.res) /\ TableUnchanged

\* Slip: that getsockopt succeeded is taken for the success of the connection.
ConnectAlwaysOk(c, i) ==
    /\ Return(c, IF Kind(sockets[i].fd) = "closed" THEN "error" ELSE "OK")
    /\ UNCHANGED kern /\ TableUnchanged
\* The wait for info->fd to be writable is over.
ConnectEnds(c, i) ==
    LET fd == sockets[i].fd
        r == getsockopt_error(fd)
    IN  /\ Return(c, r.res)
        /\ kern' = IF fd \in open THEN [kern EXCEPT ![fd] = r.becomes] ELSE kern
        /\ TableUnchanged

Try(c, op, h, i, limit) ==
    \/ op = "recv" /\ TryRecv(c, h, i, limit)
    \/ op = "send" /\ TrySend(c, h, i, limit)
    \/ op = "accept" /\ TryAccept(c, h, i, limit)
    \/ op = "connect" /\ TryConnect(c, h, i, limit)

-----------------------------------------------------------------------------
(***************************************************************************)
(* The calls of a coroutine that has the CPU.                              *)
(***************************************************************************)
\* recv, send, accept and connect: find the entry, and try.
Begin(c, op, h) ==
    /\ Idle(c)
    /\ MayBegin(op, h)
    /\ IF Finds(h)
       THEN LET i == handle_index(h)
            IN Try(c, op, h, i, Limit(op, i))
       ELSE Return(c, "EBADF") /\ UNCHANGED kern /\ TableUnchanged
    /\ UNCHANGED clock

\* The suspension returned.  recv, send and accept try again.
Continue(c) ==
    /\ call[c].at \in {"awake", "late"}
    /\ LET k == call[c]
       IN IF k.at = "late"
          THEN Return(c, "ETIMEDOUT") /\ UNCHANGED kern /\ TableUnchanged
          ELSE IF k.op = "connect"
               THEN ConnectEnds(c, k.index)
               ELSE Try(c, k.op, k.handle, k.index, k.limit)
    /\ UNCHANGED clock

\* minimk_syscall_socket fails.
NoSocket(c) == Return(c, "error") /\ TableUnchanged

SocketCreate(c, fd) ==
    /\ Idle(c) /\ fd \notin open
    /\ \/ NoSocket(c)
       \/ Create(fd) /\ Return(c, "OK")
       \/ (CreateTableFull(fd) \/ CreateExhausted(fd)) /\ Return(c, "error")
       \/ StaysBlocking(c)
    /\ kern' = [kern EXCEPT ![fd] = IF fd \in open' THEN New ELSE Closed]
    /\ UNCHANGED clock

SocketDestroy(c, h) ==
    /\ Idle(c) /\ MayDisturb(h)
    /\ Destroy(h)
    /\ kern' = [kern EXCEPT ![sockets[handle_index(h)].fd] = Closed]
    /\ Return(c, "OK")
    /\ UNCHANGED clock

SetTimeout(c, h, t) ==
    /\ Idle(c) /\ MayDisturb(h)
    /\ TableSetReadTimeout(h, t) \/ TableSetWriteTimeout(h, t)
    /\ Return(c, "OK")
    /\ UNCHANGED <<kern, clock>>

\* What minimk_syscall_bind may return, "error" also for an address that
\* getaddrinfo does not know, and minimk_syscall_setsockopt_reuseaddr.
bind == {"OK", "error"}
setsockopt_reuseaddr == {"OK", "error"}

\* Neither changes anything of a socket that makes a difference here.
Configures(c, h, results) ==
    /\ Idle(c) /\ Finds(h)
    /\ \E res \in results : Return(c, res)
    /\ TableUnchanged /\ UNCHANGED <<kern, clock>>

Bind(c, h) == Configures(c, h, bind)
ReuseAddr(c, h) == Configures(c, h, setsockopt_reuseaddr)

\* minimk_syscall_listen, on a socket that no one tried to connect.
listen(fd) ==
    {Outcome("error", kern[fd])} \union
    (IF Kind(fd) \in {"new", "listener"}
     THEN {Outcome("OK", [kern[fd] EXCEPT !.kind = "listener"])} ELSE {})

Listen(c, h) ==
    /\ Idle(c) /\ Finds(h)
    /\ LET fd == sockets[handle_index(h)].fd
       IN \E r \in listen(fd) :
            kern' = [kern EXCEPT ![fd] = r.becomes] /\ Return(c, r.res)
    /\ TableUnchanged /\ UNCHANGED clock

(***************************************************************************)
(* What Scheduler does to a waiting coroutine: wake it when poll reports   *)
(* its descriptor, or when its deadline has passed.                        *)
(***************************************************************************)
Wanted(k) == IF k.op \in {"recv", "accept"} THEN Readable(k.fd) ELSE Writable(k.fd)

Wakes(c) ==
    /\ call[c].at = "wait" /\ Wanted(call[c])
    /\ call' = [call EXCEPT ![c].at = "awake"]
    /\ ret' = "none"
    /\ UNCHANGED <<kern, clock>> /\ TableUnchanged

Expires(c) ==
    /\ call[c].at = "wait" /\ clock >= call[c].deadline
    /\ call' = [call EXCEPT ![c].at = "late"]
    /\ ret' = "none"
    /\ UNCHANGED <<kern, clock>> /\ TableUnchanged

(***************************************************************************)
(* The kernel and the peers.                                               *)
(***************************************************************************)
KernelStep(fd) ==
    /\ fd \in open
    /\ \/ /\ kern[fd].kind \in {"up", "listener"} /\ kern[fd].input = "none"
          /\ kern' = [kern EXCEPT ![fd].input = "some"]
       \/ /\ kern[fd].kind = "up" /\ kern[fd].input = "none"
          /\ kern' = [kern EXCEPT ![fd].input = "eof"]
       \/ /\ kern[fd].kind = "up" /\ ~ kern[fd].room
          /\ kern' = [kern EXCEPT ![fd].room = TRUE]
       \/ /\ kern[fd].kind = "connecting"
          /\ \/ kern' = [kern EXCEPT ![fd] = Up]
             \/ kern' = [kern EXCEPT ![fd].kind = "refused"]
    /\ UNCHANGED <<call, clock>> /\ TableUnchanged /\ ret' = "none"

ClockTicks ==
    /\ clock < ClockBound
    /\ clock' = clock + 1
    /\ UNCHANGED <<kern, call>> /\ TableUnchanged /\ ret' = "none"

SocketsInit ==
    /\ TableInit
    /\ kern = [fd \in Fds |-> Closed]
    /\ call = [c \in Coros |-> NoCall]
    /\ ret = "none"
    /\ clock = 0

Suspending == {"recv", "send", "accept", "connect"}

CoroutineRuns(c) ==
    \/ \E op \in Suspending, h \in Known : Begin(c, op, h)
    \/ Continue(c)
    \/ \E fd \in Fds : SocketCreate(c, fd)
    \/ \E h \in Known : \/ SocketDestroy(c, h) \/ Listen(c, h)
                        \/ Bind(c, h) \/ ReuseAddr(c, h)
                        \/ \E t \in Timeouts : SetTimeout(c, h, t)

SocketsNext ==
    \/ ~ aborted /\ \E c \in Coros : CoroutineRuns(c) \/ Wakes(c) \/ Expires(c)
    \/ \E fd \in Fds : KernelStep(fd)
    \/ ClockTicks

SocketsSpec == SocketsInit /\ [][SocketsNext]_sockVars

-----------------------------------------------------------------------------
(***************************************************************************)
(* Type correctness.                                                       *)
(***************************************************************************)
Results == {"none", "OK", "EOF", "EBADF", "ETIMEDOUT", "error"}

SocketsTypeOK ==
    /\ TableTypeOK
    /\ kern \in [Fds -> [kind : {"closed", "new", "listener", "connecting", "refused", "up"},
                         input : {"none", "some", "eof"}, room : BOOLEAN]]
    /\ call \in [Coros -> [at : {"idle", "wait", "awake", "late"}, op : Suspending \union {"none"},
                           handle : HandleSpace, index : Index, fd : Fds \union {0},
                           deadline : U64, limit : U64]]
    /\ ret \in Results
    /\ clock \in 0 .. ClockBound

(***************************************************************************)
(* A call that continues after a suspension still holds its own entry: the *)
(* pointer that it kept leads to the socket that it was given, and what it *)
(* waited for is the descriptor of that socket, although other coroutines  *)
(* created, accepted and destroyed sockets in between.  It holds of        *)
(* disciplined clients; see SucceedsOnItsOwnSocket for the others.         *)
(***************************************************************************)
KeepsItsEntry ==
    \A c \in Coros : ~ Idle(c) =>
        /\ sockets[call[c].index].handle = call[c].handle
        /\ sockets[call[c].index].fd = call[c].fd

(***************************************************************************)
(* The table and the kernel agree on what is open, so that no connection   *)
(* that was accepted and no socket that was created leaks, whatever step   *)
(* of accept or create failed.                                             *)
(***************************************************************************)
KernelAgrees ==
    /\ DescriptorsHaveOneEntry
    /\ \A fd \in Fds : fd \in open <=> kern[fd].kind # "closed"

(***************************************************************************)
(* accept succeeds exactly if it gives out one new handle, that of a       *)
(* connection on a descriptor of its own; if it fails, no handle and no    *)
(* descriptor is left behind (socket.h, minimk_socket_accept).             *)
(***************************************************************************)
Accepts(c) ==
    \/ Continue(c) /\ call[c].op = "accept"
    \/ \E h \in Known : Begin(c, "accept", h)

AcceptGivesOneHandle ==
    [][\A c \in Coros : ~ aborted /\ ~ aborted' /\ Accepts(c) =>
          IF ret' = "OK"
          THEN \E h \in used' \ used :
                  /\ LiveHandles' = LiveHandles \union {h}
                  /\ LiveMap'[h].fd \notin open /\ kern'[LiveMap'[h].fd] = Up
          ELSE LiveHandles' = LiveHandles /\ open' = open]_sockVars

(***************************************************************************)
(* connect returns zero only for a socket that is connected, also if it    *)
(* had to wait, timed out before, or was refused and tried again, or if a  *)
(* recv or send was told of that.  It holds of disciplined clients: with   *)
(* another call on the socket in the meantime, that call could take the    *)
(* error, and getsockopt(SO_ERROR) would find none.                        *)
(***************************************************************************)
Connects(c, h) ==
    \/ Continue(c) /\ call[c].op = "connect" /\ call[c].handle = h
    \/ Begin(c, "connect", h)

ConnectTellsTheTruth ==
    [][\A c \in Coros, h \in Known :
          Connects(c, h) /\ ret' = "OK" =>
              h \in LiveHandles' /\ kern'[LiveMap'[h].fd].kind = "up"]_sockVars

(***************************************************************************)
(* socket.h says of recv: "Function to read bytes from a given socket".    *)
(* An operation that succeeds after a suspension then succeeded on the     *)
(* socket that it was given, and that socket still exists.                 *)
(***************************************************************************)
SucceedsOnItsOwnSocket ==
    [][\A c \in Coros :
          Continue(c) /\ ret' \in {"OK", "EOF"} =>
              sockets[call[c].index].handle = call[c].handle]_sockVars

(***************************************************************************)
(* A call that fails with ETIMEDOUT lasted at least the timeout that its   *)
(* socket has for it, the read timeout for recv and accept and the write   *)
(* timeout for send and connect, however often it tried.  It may last      *)
(* longer, for every retry waits for a whole timeout.                      *)
(***************************************************************************)
NeverTimesOutEarly ==
    [][\A c \in Coros : Continue(c) /\ ret' = "ETIMEDOUT" => clock >= call[c].limit]_sockVars
=============================================================================
