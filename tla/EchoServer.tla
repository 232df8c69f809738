----------------------------- MODULE EchoServer -----------------------------
(***************************************************************************)
(* The echo server of examples/socket/00_echo_server.c over Sockets: main, *)
(* the coroutine that accepts, and one coroutine per client.               *)
(*                                                                         *)
(* Sockets lets every coroutine call anything at any time.  Here they are  *)
(* programs, and one of them has the CPU until it suspends or ends: an     *)
(* operation that need not wait keeps it.  Which coroutine gets the CPU    *)
(* next is left open (RoundRobin is about that), and poll is reached only  *)
(* when no coroutine can run.                                              *)
(***************************************************************************)
EXTENDS Sockets

CONSTANTS
    Main,         \* main(), which calls the library but is no coroutine
    Nobody,       \* the run loop has the CPU
    Poller,       \* the run loop has it, and poll returned
    BufferSize    \* 4096: what a client's coroutine reads at most

ASSUME EchoAssumption ==
    /\ Main \in Coros
    /\ {Nobody, Poller} \intersect Coros = {} /\ Nobody # Poller
    /\ BufferSize \in Nat \ {0}

VARIABLES
    cpu,     \* who has the CPU
    task,    \* where main and each coroutine are in their program
    lost     \* history: the sockets of clients for which there was no coroutine

echoVars == <<cpu, task, lost>>

-----------------------------------------------------------------------------
(***************************************************************************)
(* main has at hand server_sock, and so has the accepting coroutine, with  *)
(* the last client_sock; a client's coroutine has its client_sock, and     *)
(* what is left to send of what it read.  A coroutine that returns is      *)
(* cleaned up before anyone else gets the CPU.                             *)
(***************************************************************************)
Slots == Coros \ {Main}
Task(at, sock) == [at |-> at, sock |-> sock, client |-> InvalidHandle, left |-> 0]
Unused == Task("unused", InvalidHandle)

IsUnused(c) == task[c].at = "unused"
Runnable(c) == c \in Slots /\ ~ IsUnused(c) /\ call[c].at \in {"idle", "awake"}

Runs(c, at) ==
    /\ ~ aborted
    /\ cpu = c \/ (cpu = Nobody /\ Runnable(c))
    /\ task[c].at = at

\* A suspending operation on the socket sock, called or continued.
Performs(c, op) ==
    /\ IF Idle(c) THEN Begin(c, op, task[c].sock) ELSE Continue(c)
    /\ cpu' = IF Idle(c)' THEN c ELSE Nobody

MovesTo(c, at) == task' = [task EXCEPT ![c].at = at]

\* minimk_runtime_go(entry, sock), after which c is at next; it may fail.
\* Which slot it takes depends on which are free only.
GoOk(c, entry, sock, next) ==
    /\ \E d \in Slots : IsUnused(d)
    /\ LET slot == CHOOSE d \in Slots : IsUnused(d)
       IN task' = [task EXCEPT ![slot] = Task(entry, sock), ![c].at = next]
    /\ cpu' = c
    /\ UNCHANGED sockVars

\* All slots are taken (EAGAIN), or there is no memory for a stack (ENOMEM).
GoFails(c, next) ==
    /\ MovesTo(c, next)
    /\ cpu' = c
    /\ UNCHANGED sockVars

-----------------------------------------------------------------------------
(***************************************************************************)
(* main.  Nothing suspends here.                                           *)
(***************************************************************************)
MainCreates ==
    /\ Runs(Main, "create")
    /\ \E fd \in Fds : SocketCreate(Main, fd)
    /\ IF ret' = "OK"
       THEN \E h \in used' \ used :
                task' = [task EXCEPT ![Main].at = "setsockopt", ![Main].sock = h]
       ELSE MovesTo(Main, "exit")
    /\ UNCHANGED <<cpu, lost>>

\* Slip: main exits without its cleanup.
MainFailsDirty == MovesTo(Main, "exit")
MainFails == MovesTo(Main, "cleanup")

MainConfigures(at, next) ==
    /\ Runs(Main, at)
    /\ LET sock == task[Main].sock
       IN CASE at = "setsockopt" -> ReuseAddr(Main, sock)
            [] at = "bind" -> Bind(Main, sock)
            [] at = "listen" -> Listen(Main, sock)
    /\ IF ret' = "OK" THEN MovesTo(Main, next) ELSE MainFails
    /\ UNCHANGED <<cpu, lost>>

\* The result of go is not looked at.
MainGoes ==
    /\ Runs(Main, "go")
    /\ GoOk(Main, "accept", task[Main].sock, "run") \/ GoFails(Main, "run")
    /\ UNCHANGED lost

MainWaits ==
    /\ Runs(Main, "run")
    /\ MovesTo(Main, "running") /\ cpu' = Nobody
    /\ UNCHANGED <<sockVars, lost>>

\* run returns when there is no coroutine.
RunReturns ==
    /\ task[Main].at = "running" /\ cpu = Nobody
    /\ \A c \in Slots : IsUnused(c)
    /\ MovesTo(Main, "cleanup") /\ cpu' = Main
    /\ UNCHANGED <<sockVars, lost>>

MainCleansUp ==
    /\ Runs(Main, "cleanup")
    /\ SocketDestroy(Main, task[Main].sock)
    /\ task' = [task EXCEPT ![Main] = Task("exit", InvalidHandle)]
    /\ UNCHANGED <<cpu, lost>>

(***************************************************************************)
(* accept_loop.  It tries again at once when accept failed.                *)
(***************************************************************************)
TakesClient(c) ==
    IF ret' = "OK"
    THEN \E h \in used' \ used :
            task' = [task EXCEPT ![c].at = "pass", ![c].client = h]
    ELSE UNCHANGED task

\* Slip: client_sock outlives its round, and is destroyed when accept fails.
LoopAcceptsOrDestroys(c) ==
    /\ Runs(c, "accept")
    /\ \/ Performs(c, "accept") /\ TakesClient(c)
       \/ SocketDestroy(c, task[c].client) /\ cpu' = c /\ UNCHANGED task
    /\ UNCHANGED lost
LoopAccepts(c) ==
    /\ Runs(c, "accept")
    /\ Performs(c, "accept") /\ TakesClient(c)
    /\ UNCHANGED lost

\* The result of go is not looked at: a client_sock that go refused stays open.
LoopGoes(c) ==
    /\ Runs(c, "pass")
    /\ \/ GoOk(c, "recv", task[c].client, "accept") /\ UNCHANGED lost
       \/ GoFails(c, "accept") /\ lost' = lost \union {task[c].client}

(***************************************************************************)
(* handle_client: recv, then sendall, which sends again after a short or   *)
(* interrupted send; then recv again, or destroy.                          *)
(***************************************************************************)
ClientRecvs(c) ==
    /\ Runs(c, "recv")
    /\ Performs(c, "recv")
    /\ CASE ret' = "none" -> UNCHANGED task
         [] ret' = "OK" ->
                \E n \in 1 .. BufferSize :
                    task' = [task EXCEPT ![c].at = "sendall", ![c].left = n]
         [] OTHER -> MovesTo(c, "destroy")
    /\ UNCHANGED lost

\* Slip: sendall counts a byte too much.
SentTooMuch(left) == -1 .. left - 1
Unsent(left) == 0 .. left - 1

ClientSends(c) ==
    /\ Runs(c, "sendall")
    /\ Performs(c, "send")
    /\ CASE ret' = "none" -> UNCHANGED task
         [] ret' = "OK" ->
                \E n \in Unsent(task[c].left) :
                    task' = [task EXCEPT ![c].at = IF n = 0 THEN "recv" ELSE "sendall",
                                         ![c].left = n]
         [] OTHER -> UNCHANGED task \/ MovesTo(c, "destroy")
    /\ UNCHANGED lost

\* Slip: handle_client returns without destroying its socket.
ClientLeaves(c) ==
    /\ Runs(c, "destroy")
    /\ task' = [task EXCEPT ![c] = Unused] /\ cpu' = Nobody
    /\ UNCHANGED <<sockVars, lost>>
ClientEnds(c) ==
    /\ Runs(c, "destroy")
    /\ SocketDestroy(c, task[c].sock)
    /\ task' = [task EXCEPT ![c] = Unused] /\ cpu' = Nobody
    /\ UNCHANGED lost

-----------------------------------------------------------------------------
(***************************************************************************)
(* poll wakes everyone whose descriptor is ready.                          *)
(***************************************************************************)
PollWakes(c) ==
    /\ cpu = Poller \/ (cpu = Nobody /\ \A d \in Slots : ~ Runnable(d))
    /\ Wakes(c)
    /\ cpu' = Poller
    /\ UNCHANGED <<task, lost>>

PollEnds ==
    /\ cpu = Poller
    /\ ~ \E c \in Slots : call[c].at = "wait" /\ Wanted(call[c])
    /\ cpu' = Nobody
    /\ UNCHANGED <<sockVars, task, lost>>

\* Bound: clients connect while there are handles to give out.
Peers(fd) ==
    /\ kern[fd].kind = "listener" => CanProbe
    /\ KernelStep(fd)
    /\ UNCHANGED echoVars

EchoInit ==
    /\ SocketsInit
    /\ cpu = Main
    /\ task = [c \in Coros |->
                  IF c = Main THEN Task("create", InvalidHandle) ELSE Unused]
    /\ lost = {}

MainRuns ==
    \/ MainCreates \/ MainConfigures("setsockopt", "bind")
    \/ MainConfigures("bind", "listen") \/ MainConfigures("listen", "go")
    \/ MainGoes \/ MainWaits \/ MainCleansUp

TaskRuns(c) ==
    LoopAccepts(c) \/ LoopGoes(c) \/ ClientRecvs(c) \/ ClientSends(c) \/ ClientEnds(c)

EchoNext ==
    \/ MainRuns \/ RunReturns
    \/ \E c \in Slots : TaskRuns(c) \/ PollWakes(c)
    \/ PollEnds
    \/ \E fd \in Fds : Peers(fd)

(***************************************************************************)
(* Who has the CPU goes on, and who can run gets the CPU if the run loop   *)
(* has it often enough (RoundRobin, NobodyRunsTwice); a client reads what  *)
(* it is sent.                                                             *)
(***************************************************************************)
Drains(fd) == Peers(fd) /\ ~ kern[fd].room /\ kern'[fd].room
EchoFairness ==
    /\ \A c \in Slots : SF_<<sockVars, echoVars>>(TaskRuns(c))
    /\ WF_<<sockVars, echoVars>>(PollEnds \/ \E c \in Slots : PollWakes(c))
    /\ \A fd \in Fds : WF_<<sockVars, echoVars>>(Drains(fd))

EchoSpec == EchoInit /\ [][EchoNext]_<<sockVars, echoVars>> /\ EchoFairness

-----------------------------------------------------------------------------
(***************************************************************************)
(* Type correctness.                                                       *)
(***************************************************************************)
EchoTypeOK ==
    /\ SocketsTypeOK
    /\ cpu \in Coros \union {Nobody, Poller}
    /\ task \in [Coros -> [at : {"unused", "create", "setsockopt", "bind", "listen", "go",
                                 "run", "running", "cleanup", "exit", "accept", "pass",
                                 "recv", "sendall", "destroy"},
                           sock : HandleSpace, client : HandleSpace, left : 0 .. BufferSize]]
    /\ lost \subseteq used

(***************************************************************************)
(* "Start the coroutine and pass socket ownership": every open socket has  *)
(* exactly one owner, who will destroy it, or is one that go refused and   *)
(* that nobody will ever destroy.  Nobody owns a socket that is not open.  *)
(***************************************************************************)
Owns(c) ==
    CASE task[c].at = "pass" -> {task[c].client}
      [] c = Main \/ task[c].at \in {"recv", "sendall", "destroy"} ->
            {task[c].sock} \ {InvalidHandle}
      [] OTHER -> {}

SocketsHaveOneOwner ==
    /\ LiveHandles = lost \union UNION {Owns(c) : c \in Coros}
    /\ \A c, d \in Coros : c # d => Owns(c) \intersect Owns(d) = {}
    /\ \A c \in Coros : Owns(c) \intersect lost = {}

(***************************************************************************)
(* However main ends, no socket is left open: also when a step of its      *)
(* setup failed, or when run returned because go had failed.               *)
(***************************************************************************)
ExitsClean == task[Main].at = "exit" => open = {}

(***************************************************************************)
(* When a client is done, its coroutine closes the connection and frees    *)
(* its slot, whatever it was doing and however many others there are: as   *)
(* long as the CPU comes back to the run loop again and again.  That is    *)
(* not for granted: accept_loop tries again at once when accept fails, and *)
(* a coroutine whose operations need not wait never suspends.              *)
(***************************************************************************)
HungUp(fd) ==
    \E c \in Slots :
        /\ task[c].at \in {"recv", "sendall"} /\ sockets[handle_index(task[c].sock)].fd = fd
        /\ kern[fd].input = "eof"

EveryHangUpIsSeen ==
    []<>(cpu = Nobody) => \A fd \in Fds : HungUp(fd) ~> fd \notin open
=============================================================================
