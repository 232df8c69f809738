----------------------------- MODULE SocketMap -----------------------------
(***************************************************************************)
(* What the socket table promises to the rest of the library: handles name *)
(* open sockets, a handle that was given out once never names another      *)
(* socket ("We never reuse socket IDs", socket/handle.hpp), and an         *)
(* operation on one handle leaves every other socket alone.                *)
(***************************************************************************)
CONSTANTS
    Handles,     \* every value a handle may have
    Fds,         \* descriptors of the operating system
    Timeouts,    \* timeouts a client may set
    Forever      \* the timeout of a new socket

VARIABLES
    live,        \* the open sockets: a function from handles to their state
    used         \* every handle that was ever given out

mapVars == <<live, used>>

MapInit ==
    /\ live = [h \in {} |-> 0]
    /\ used = {}

\* A new handle, and a descriptor that no open socket has.
Open(h, fd) ==
    /\ h \notin used
    /\ \A x \in DOMAIN live : live[x].fd # fd
    /\ used' = used \union {h}
    /\ live' = [x \in DOMAIN live \union {h} |->
                    IF x = h
                    THEN [fd |-> fd, read_timeout |-> Forever, write_timeout |-> Forever]
                    ELSE live[x]]

Close(h) ==
    /\ h \in DOMAIN live
    /\ live' = [x \in DOMAIN live \ {h} |-> live[x]]
    /\ UNCHANGED used

SetReadTimeout(h, t) ==
    /\ h \in DOMAIN live
    /\ live' = [live EXCEPT ![h].read_timeout = t]
    /\ UNCHANGED used

SetWriteTimeout(h, t) ==
    /\ h \in DOMAIN live
    /\ live' = [live EXCEPT ![h].write_timeout = t]
    /\ UNCHANGED used

MapNext ==
    \/ \E h \in Handles, fd \in Fds : Open(h, fd)
    \/ \E h \in Handles : Close(h)
    \/ \E h \in Handles, t \in Timeouts : SetReadTimeout(h, t) \/ SetWriteTimeout(h, t)

MapSpec == MapInit /\ [][MapNext]_mapVars
=============================================================================
