---------------------------- MODULE SocketTable ----------------------------
(***************************************************************************)
(* The table of sockets of libminimk/socket/info.cpp, the handles of       *)
(* handle.hpp, and the operations that do nothing but use them: create,    *)
(* destroy and the timeouts.                                               *)
(*                                                                         *)
(* A handle is the number type.generation.index in the bits of a uint64_t. *)
(* Slots are probed at next_slot, next_slot + 1, ... modulo MaxSockets, and*)
(* generation counts how often next_slot went around.                      *)
(***************************************************************************)
EXTENDS Integers

CONSTANTS
    MaxSockets,     \* MAX_SOCKETS = MAX_HANDLES, 2^8: the indices a handle can have
    MaxGeneration,  \* 2^48 - 1, the largest generation a handle can have
    Fds,            \* descriptors of the operating system
    Timeouts,       \* timeouts a client may set
    Forever,        \* UINT64_MAX, as a timeout
    ProbeBound      \* bound: next_slot stays below it (size_t never wraps)

ASSUME SocketTableAssumption ==
    /\ MaxSockets \in Nat /\ MaxSockets >= 2
    /\ MaxGeneration \in Nat
    /\ Fds \subseteq Nat \* a descriptor is an int that is not negative
    /\ ProbeBound \in Nat

VARIABLES
    sockets,      \* the table
    generation,
    next_slot,
    open,         \* the descriptors that are open in the operating system
    aborted,      \* an assertion fired
    used          \* history: every handle that was ever given out

tableVars == <<sockets, generation, next_slot, open, aborted, used>>

-----------------------------------------------------------------------------
(***************************************************************************)
(* Handles: handle_type, handle_generation, handle_index, make_handle.     *)
(* Shifting and masking are division and remainder by powers of two.       *)
(***************************************************************************)
Index == 0 .. MaxSockets - 1
InvalidHandle == 0            \* MINIMK_SOCKET_INVALID
SocketType == 1               \* HANDLE_TYPE_SOCKET
Generations == MaxGeneration + 1

handle_type(h) == h \div (Generations * MaxSockets)
handle_generation(h) == (h \div MaxSockets) % Generations
handle_index(h) == h % MaxSockets

\* Slip: a generation that does not fit its bits is let through.
any_generation_valid(g) == TRUE
handle_generation_valid(g) == g <= MaxGeneration
HandleSpace == 0 .. 2 * Generations * MaxSockets - 1    \* of type 0 or 1
make_handle(type, g, i) == (type * Generations + g) * MaxSockets + i

(***************************************************************************)
(* An entry, and a free one: the zero handle says so.  *info = {} zeroes   *)
(* the descriptor too.                                                     *)
(***************************************************************************)
FreeEntry == [handle |-> InvalidHandle, fd |-> 0, read_timeout |-> 0, write_timeout |-> 0]
IsFree(i) == sockets[i].handle = InvalidHandle

\* Slip: a new entry has the timeouts that forget left in it.
NewEntryUninitialized(h, fd) == [FreeEntry EXCEPT !.handle = h, !.fd = fd]
NewEntry(h, fd) ==
    [handle |-> h, fd |-> fd, read_timeout |-> Forever, write_timeout |-> Forever]

(***************************************************************************)
(* minimk_socket_info_find: h names the entry at its index if it is of the *)
(* right type and is the very handle that is stored there.                 *)
(***************************************************************************)
\* Slip: any entry in use will do.
FindsAnyEntry(h) == handle_type(h) = SocketType /\ sockets[handle_index(h)].handle # InvalidHandle
Finds(h) ==
    /\ handle_type(h) = SocketType
    /\ sockets[handle_index(h)].handle = h

-----------------------------------------------------------------------------
(***************************************************************************)
(* minimk_socket_info_create probes at most MaxSockets slots.  Before the  *)
(* probe at next_slot + k, k slots were found taken.                       *)
(***************************************************************************)
Probe(k) == (next_slot + k) % MaxSockets
FirstFreeProbe(k) ==
    /\ IsFree(Probe(k))
    /\ \A j \in 0 .. k - 1 : ~ IsFree(Probe(j))

(***************************************************************************)
(* next_slot advances by one per probe; generation advances whenever       *)
(* next_slot becomes a multiple of MaxSockets, which happens at most once  *)
(* in MaxSockets probes.                                                   *)
(***************************************************************************)
\* Slip: the wrap is looked for once, after all probes.
WrapsAfter(k) == k > 0 /\ next_slot + k >= 2 /\ (next_slot + k) % MaxSockets = 0
\* Slip: the first wrap is not one.
WrapsBeyond(k) == \E n \in next_slot + 1 .. next_slot + k : n > MaxSockets /\ n % MaxSockets = 0
WrapsWithin(k) ==
    \E n \in next_slot + 1 .. next_slot + k : n >= 2 /\ n % MaxSockets = 0
GenerationAfter(k) == IF WrapsWithin(k) THEN generation + 1 ELSE generation

\* minimk_syscall_closesocket: whatever close(2) returns, fd is closed.
closesocket(fds, fd) == fds \ {fd}

TableInit ==
    /\ sockets = [i \in Index |-> FreeEntry]
    /\ generation = 0
    /\ next_slot = 0
    /\ open = {}
    /\ aborted = FALSE
    /\ used = {}

CanProbe == ~ aborted /\ next_slot + MaxSockets <= ProbeBound

(***************************************************************************)
(* minimk_socket_create, when the operating system gives it a descriptor   *)
(* and makes it nonblocking: the descriptor gets an entry and a handle ... *)
(***************************************************************************)
Create(fd) ==
    /\ CanProbe /\ fd \notin open
    /\ \E k \in Index :
        /\ FirstFreeProbe(k)
        /\ handle_generation_valid(GenerationAfter(k))
        /\ LET h == make_handle(SocketType, GenerationAfter(k), Probe(k))
           IN /\ sockets' = [sockets EXCEPT ![Probe(k)] = NewEntry(h, fd)]
              /\ used' = used \union {h}
        /\ next_slot' = next_slot + k + 1
        /\ generation' = GenerationAfter(k + 1)
    /\ open' = open \union {fd}
    /\ UNCHANGED aborted

\* ... or make_handle asserts that generations are exhausted ...
CreateExhausted(fd) ==
    /\ CanProbe /\ fd \notin open
    /\ \E k \in Index :
        FirstFreeProbe(k) /\ ~ handle_generation_valid(GenerationAfter(k))
    /\ aborted' = TRUE
    /\ UNCHANGED <<sockets, generation, next_slot, open, used>>

\* Slip: the descriptor that gets no entry stays open.
CreateTableFullLeaks(fd) ==
    /\ CanProbe /\ fd \notin open
    /\ \A i \in Index : ~ IsFree(i)
    /\ next_slot' = next_slot + MaxSockets
    /\ generation' = GenerationAfter(MaxSockets)
    /\ open' = open \union {fd}
    /\ UNCHANGED <<sockets, aborted, used>>

\* ... or the table is full (EMFILE) and the descriptor is closed again.
CreateTableFull(fd) ==
    /\ CanProbe /\ fd \notin open
    /\ \A i \in Index : ~ IsFree(i)
    /\ next_slot' = next_slot + MaxSockets
    /\ generation' = GenerationAfter(MaxSockets)
    /\ open' = closesocket(open \union {fd}, fd)
    /\ UNCHANGED <<sockets, aborted, used>>

(***************************************************************************)
(* minimk_socket_destroy: close the descriptor and forget the entry.       *)
(***************************************************************************)
Destroy(h) ==
    /\ ~ aborted /\ Finds(h)
    /\ open' = closesocket(open, sockets[handle_index(h)].fd)
    /\ sockets' = [sockets EXCEPT ![handle_index(h)] = FreeEntry]
    /\ UNCHANGED <<generation, next_slot, aborted, used>>

(***************************************************************************)
(* minimk_socket_set_read_timeout and _write_timeout.                      *)
(***************************************************************************)
TableSetReadTimeout(h, t) ==
    /\ ~ aborted /\ Finds(h)
    /\ sockets' = [sockets EXCEPT ![handle_index(h)].read_timeout = t]
    /\ UNCHANGED <<generation, next_slot, open, aborted, used>>

TableSetWriteTimeout(h, t) ==
    /\ ~ aborted /\ Finds(h)
    /\ sockets' = [sockets EXCEPT ![handle_index(h)].write_timeout = t]
    /\ UNCHANGED <<generation, next_slot, open, aborted, used>>

\* A client uses the handles it was given, however long ago, and zero.
Known == used \union {InvalidHandle}

TableNext ==
    \/ \E fd \in Fds : Create(fd) \/ CreateExhausted(fd) \/ CreateTableFull(fd)
    \/ \E h \in Known :
        \/ Destroy(h)
        \/ \E t \in Timeouts : TableSetReadTimeout(h, t) \/ TableSetWriteTimeout(h, t)

TableSpec == TableInit /\ [][TableNext]_tableVars

-----------------------------------------------------------------------------
(***************************************************************************)
(* Type correctness.                                                       *)
(***************************************************************************)
Used(i) == ~ IsFree(i)
Entry == [handle : Nat, fd : Fds \union {0},
          read_timeout : Timeouts \union {Forever, 0},
          write_timeout : Timeouts \union {Forever, 0}]

TableTypeOK ==
    /\ sockets \in [Index -> Entry]
    /\ generation \in Nat /\ next_slot \in Nat
    /\ open \subseteq Fds
    /\ aborted \in BOOLEAN
    /\ used \subseteq HandleSpace

(***************************************************************************)
(* generation and next_slot never disagree, so that a slot is probed at    *)
(* most once per generation; the entry at i holds a handle of index i that *)
(* was given out; and every handle that was given out was made for a probe *)
(* that already happened, so that the next one is larger than all of them. *)
(***************************************************************************)
FirstHandle == make_handle(SocketType, 0, 0)

TableConsistent ==
    /\ generation = next_slot \div MaxSockets
    /\ \A i \in Index :
        Used(i) => sockets[i].handle \in used /\ handle_index(sockets[i].handle) = i
    /\ \A h \in used : /\ handle_type(h) = SocketType
                       /\ FirstHandle <= h /\ h < FirstHandle + next_slot

(***************************************************************************)
(* No descriptor leaks and none is closed twice: the descriptors that are  *)
(* open are those of the entries in use, each of exactly one entry, also   *)
(* after a create that failed half-way.                                    *)
(***************************************************************************)
DescriptorsHaveOneEntry ==
    /\ open = {sockets[i].fd : i \in {i \in Index : Used(i)}}
    /\ \A i, j \in Index : Used(i) /\ Used(j) /\ sockets[i].fd = sockets[j].fd => i = j

(***************************************************************************)
(* The table implements the map from handles to sockets: no handle is ever *)
(* given out twice, and a handle whose socket was destroyed finds nothing, *)
(* although entries and descriptors are reused.                            *)
(***************************************************************************)
LiveHandles == {sockets[i].handle : i \in {i \in Index : Used(i)}}
LiveMap ==
    [h \in LiveHandles |->
        LET e == sockets[handle_index(h)]
        IN [fd |-> e.fd, read_timeout |-> e.read_timeout, write_timeout |-> e.write_timeout]]

M == INSTANCE SocketMap
        WITH Handles <- HandleSpace, live <- LiveMap, used <- used

ImplementsMap == M!MapSpec

(***************************************************************************)
(* A handle is never mistaken for another one (minimk_socket_info_find): a *)
(* call that changes something was given the handle of a live socket, and  *)
(* every other live socket stays as it was.  A handle that was kept after  *)
(* its socket was destroyed therefore never reaches the socket that reuses *)
(* its entry or its descriptor.                                            *)
(***************************************************************************)
Changes(h) ==
    \/ Destroy(h)
    \/ \E t \in Timeouts : TableSetReadTimeout(h, t) \/ TableSetWriteTimeout(h, t)

OnlyItsOwnSocket ==
    [][\A h \in Known : Changes(h) =>
          /\ h \in LiveHandles
          /\ \A x \in LiveHandles \ {h} : x \in LiveHandles' /\ LiveMap'[x] = LiveMap[x]]_tableVars
=============================================================================
