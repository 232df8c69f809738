------------------------------- MODULE IoAll -------------------------------
(***************************************************************************)
(* minimk_socket_sendall and minimk_socket_recvall: the loops of           *)
(* minimk/io.hpp over minimk_socket_send and _recv, down to the mapping of *)
(* what send(2) and recv(2) return (syscall/send_posix.hpp, recv_posix.hpp)*)
(*                                                                         *)
(* One coroutine sends a message into a connection, and one receives it at *)
(* the other end.  The kernel holds at most Capacity bytes in between,     *)
(* takes and gives as many at a time as it likes, and may interrupt,       *)
(* reset, or keep a coroutine waiting until its timeout.                   *)
(***************************************************************************)
EXTENDS Integers, Sequences, Errno

CONSTANTS
    Count,       \* the count argument of sendall and of recvall
    Capacity,    \* bytes the kernel buffers
    SSizeMax,    \* SSIZE_MAX, the most that one system call is asked for
    Faults       \* what may go wrong: "EINTR", "ECONNRESET", "ETIMEDOUT"

ASSUME IoAllAssumption ==
    /\ Count \in Nat /\ Capacity \in Nat \ {0} /\ SSizeMax \in Nat \ {0}
    /\ Faults \subseteq {"EINTR", "ECONNRESET", "ETIMEDOUT"}

VARIABLES
    snd, rcv,    \* the locals of the loop of either coroutine
    pipe,        \* the bytes in the kernel
    got,         \* the receiver's buffer, as far as it was written
    closed,      \* the sender destroyed its socket
    reset        \* the connection was reset

ioVars == <<snd, rcv, pipe, got, closed, reset>>

-----------------------------------------------------------------------------
Byte == 1 .. Count
Message == [i \in Byte |-> i]     \* the buffer to send: every byte is different

Least(a, b) == IF a <= b THEN a ELSE b

(***************************************************************************)
(* minimk_syscall_recv and minimk_syscall_send: the result and the number  *)
(* of bytes, from what the system call returned.                           *)
(***************************************************************************)
Sys(rv) == [rv |-> rv, errno |-> NoErrno]
Fails(errno) == [rv |-> -1, errno |-> errno]

\* Slip: end of file is taken for success.
recv_eof_is_ok(count, sys) ==
    IF count <= 0 THEN [res |-> "EINVAL", n |-> 0]
    ELSE [res |-> IF sys.rv = -1 THEN geterrno(sys.errno) ELSE "OK",
          n |-> IF sys.rv > 0 THEN sys.rv ELSE 0]
recv(count, sys) ==
    IF count <= 0 THEN [res |-> "EINVAL", n |-> 0]
    ELSE [res |-> CASE sys.rv = -1 -> geterrno(sys.errno) [] sys.rv = 0 -> "EOF" [] OTHER -> "OK",
          n |-> IF sys.rv > 0 THEN sys.rv ELSE 0]
send(count, sys) ==
    IF count <= 0 THEN [res |-> "EINVAL", n |-> 0]
    ELSE [res |-> IF sys.rv = -1 THEN geterrno(sys.errno) ELSE "OK",
          n |-> IF sys.rv > 0 THEN sys.rv ELSE 0]

(***************************************************************************)
(* What recv(2) and send(2) may return to one who asks for count bytes on  *)
(* this connection.  Neither returns zero but recv(2) at end of file: of   *)
(* send(2) that is assumed, as stream sockets have it for a count above 0. *)
(***************************************************************************)
Interruptions == {Fails(e) : e \in Faults \intersect {"EINTR"}}

\* After a reset: EPIPE, which minimk has no code for, if the peer had closed.
ResetErrors == {Fails("ECONNRESET"), Fails("EPIPE")}
SysRecv(count) ==
    Interruptions \union
    (IF reset THEN ResetErrors
     ELSE IF pipe # <<>>
          THEN {Sys(n) : n \in 1 .. Least(Least(count, SSizeMax), Len(pipe))}
          ELSE IF closed THEN {Sys(0)} ELSE {Fails("EAGAIN")})
SysSend(count) ==
    Interruptions \union
    (IF reset THEN ResetErrors
     ELSE IF Len(pipe) < Capacity
          THEN {Sys(n) : n \in 1 .. Least(Least(count, SSizeMax), Capacity - Len(pipe))}
          ELSE {Fails("EAGAIN")})

-----------------------------------------------------------------------------
(***************************************************************************)
(* A loop: total bytes were transferred so far; at says whether it is at   *)
(* its next round, suspended by minimk_socket_send or _recv, or at its end *)
(* with the result res; "abort" is a failed assertion.                     *)
(***************************************************************************)
Loop == [at |-> "round", total |-> 0, res |-> "none"]

Ended(loop, res) == [loop EXCEPT !.at = "end", !.res = res]

\* What a round does with the result of a transfer of at most amount bytes.
\* Slips: an interruption ends the loop, and so does a transfer that was short.
InterruptedEnds(loop, amount, r) ==
    IF r.res = "EAGAIN" THEN [loop EXCEPT !.at = "wait"]
    ELSE IF r.res # "OK" THEN Ended(loop, r.res)
    ELSE IF r.n > 0 /\ r.n <= amount THEN [loop EXCEPT !.total = @ + r.n]
    ELSE [loop EXCEPT !.at = "abort"]
ShortEnds(loop, amount, r) ==
    IF r.res = "EAGAIN" THEN [loop EXCEPT !.at = "wait"]
    ELSE IF r.res = "EINTR" THEN loop
    ELSE Ended([loop EXCEPT !.total = @ + r.n], r.res)
AfterRound(loop, amount, r) ==
    IF r.res = "EAGAIN" THEN [loop EXCEPT !.at = "wait"]
    ELSE IF r.res = "EINTR" THEN loop
    ELSE IF r.res # "OK" THEN Ended(loop, r.res)
    ELSE IF r.n > 0 /\ r.n <= amount THEN [loop EXCEPT !.total = @ + r.n]
    ELSE [loop EXCEPT !.at = "abort"]

\* The bytes a round of writeall passes to send, from buf + total on; and a slip.
FromTheStart(total, n) == SubSeq(Message, 1, n)
Chunk(total, n) == SubSeq(Message, total + 1, total + n)

IoInit ==
    /\ snd = Loop /\ rcv = Loop
    /\ pipe = <<>> /\ got = <<>>
    /\ closed = FALSE /\ reset = FALSE

(***************************************************************************)
(* minimk_io_writeall.                                                     *)
(***************************************************************************)
SendRound ==
    /\ snd.at = "round" /\ snd.total < Count
    /\ LET amount == Count - snd.total
       IN \E sys \in SysSend(amount) :
            /\ snd' = AfterRound(snd, amount, send(amount, sys))
            /\ pipe' = pipe \o Chunk(snd.total, send(amount, sys).n)
    /\ UNCHANGED <<rcv, got, closed, reset>>

SendEnds ==
    /\ snd.at = "round" /\ snd.total >= Count
    /\ snd' = Ended(snd, "OK")
    /\ UNCHANGED <<rcv, pipe, got, closed, reset>>

\* minimk_runtime_suspend_write returns zero, and send tries again, or ETIMEDOUT.
SendResumes ==
    /\ snd.at = "wait"
    /\ Len(pipe) < Capacity \/ reset
    /\ snd' = [snd EXCEPT !.at = "round"]
    /\ UNCHANGED <<rcv, pipe, got, closed, reset>>

SendTimesOut ==
    /\ snd.at = "wait" /\ "ETIMEDOUT" \in Faults
    /\ snd' = Ended(snd, "ETIMEDOUT")
    /\ UNCHANGED <<rcv, pipe, got, closed, reset>>

\* The sender is done with its socket.
SenderCloses ==
    /\ snd.at = "end" /\ ~ closed
    /\ closed' = TRUE
    /\ UNCHANGED <<snd, rcv, pipe, got, reset>>

(***************************************************************************)
(* minimk_io_readall.                                                      *)
(***************************************************************************)
RecvRound ==
    /\ rcv.at = "round" /\ rcv.total < Count
    /\ LET amount == Count - rcv.total
       IN \E sys \in SysRecv(amount) :
            LET r == recv(amount, sys)
            IN /\ rcv' = AfterRound(rcv, amount, r)
               /\ got' = SubSeq(got, 1, rcv.total) \o SubSeq(pipe, 1, r.n)
               /\ pipe' = SubSeq(pipe, r.n + 1, Len(pipe))
    /\ UNCHANGED <<snd, closed, reset>>

RecvEnds ==
    /\ rcv.at = "round" /\ rcv.total >= Count
    /\ rcv' = Ended(rcv, "OK")
    /\ UNCHANGED <<snd, pipe, got, closed, reset>>

RecvResumes ==
    /\ rcv.at = "wait"
    /\ pipe # <<>> \/ closed \/ reset
    /\ rcv' = [rcv EXCEPT !.at = "round"]
    /\ UNCHANGED <<snd, pipe, got, closed, reset>>

RecvTimesOut ==
    /\ rcv.at = "wait" /\ "ETIMEDOUT" \in Faults
    /\ rcv' = Ended(rcv, "ETIMEDOUT")
    /\ UNCHANGED <<snd, pipe, got, closed, reset>>

\* The connection is reset: the kernel drops what it holds.
Resets ==
    /\ "ECONNRESET" \in Faults /\ ~ reset
    /\ reset' = TRUE /\ pipe' = <<>>
    /\ UNCHANGED <<snd, rcv, got, closed>>

Sender == SendRound \/ SendEnds \/ SendResumes \/ SenderCloses
Receiver == RecvRound \/ RecvEnds \/ RecvResumes
IoNext == Sender \/ Receiver \/ SendTimesOut \/ RecvTimesOut \/ Resets

IoSpec == IoInit /\ [][IoNext]_ioVars

(***************************************************************************)
(* Fairness.  A coroutine that can run gets the CPU, and one whose         *)
(* descriptor stays ready is resumed (Scheduler).  A signal may interrupt  *)
(* a system call as often as it likes, but not for ever.                   *)
(***************************************************************************)
IoFairSpec ==
    /\ IoSpec
    /\ WF_ioVars(Sender) /\ WF_ioVars(Receiver)
    /\ SF_ioVars(SendRound /\ snd' # snd) /\ SF_ioVars(RecvRound /\ rcv' # rcv)

-----------------------------------------------------------------------------
(***************************************************************************)
(* Type correctness.                                                       *)
(***************************************************************************)
LoopType ==
    [at : {"round", "wait", "end", "abort"}, total : 0 .. Count,
     res : {"none", "OK", "EOF", "ECONNRESET", "EUNKNOWN", "ETIMEDOUT"}]

IoTypeOK ==
    /\ snd \in LoopType /\ rcv \in LoopType
    /\ pipe \in Seq(Byte) /\ got \in Seq(Byte)
    /\ Len(pipe) <= Capacity
    /\ closed \in BOOLEAN /\ reset \in BOOLEAN

(***************************************************************************)
(* What io.hpp requires of its send and recv ("must return nwritten > 0    *)
(* when its return code is zero", "must return MINIMK_EOF on EOF") holds   *)
(* of minimk's own, whichever of their results the system calls return, so *)
(* that no assertion fires.                                                *)
(***************************************************************************)
IoNoAssertFires == snd.at # "abort" /\ rcv.at # "abort"

(***************************************************************************)
(* Exactly once and in order (io.hpp): through short writes, short reads,  *)
(* interruptions and suspensions, what was received is a prefix of the     *)
(* message, what is in the kernel follows it, and together they are what   *)
(* the sender believes to have sent, unless a reset dropped the rest.      *)
(***************************************************************************)
ExactlyOnce ==
    /\ got = SubSeq(Message, 1, rcv.total)
    /\ ~ reset => got \o pipe = SubSeq(Message, 1, snd.total)

(***************************************************************************)
(* Success of recvall means that the whole message is in the buffer, and   *)
(* success of sendall that the kernel was given all of it.  End of file is *)
(* reported only to one who received less than was asked for, and only     *)
(* when the sender gave up.                                                *)
(***************************************************************************)
SuccessMeansAll ==
    /\ snd.res = "OK" => snd.total = Count
    /\ rcv.res = "OK" => got = Message
    /\ rcv.res = "EOF" => /\ got # Message
                          /\ closed /\ snd.res \notin {"none", "OK"}

(***************************************************************************)
(* The transfer completes at both ends, however often it is interrupted,   *)
(* cut short and suspended, unless the connection is reset or a timeout    *)
(* expires.                                                                *)
(***************************************************************************)
TransferCompletes ==
    <>(\/ snd.res = "OK" /\ rcv.res = "OK" /\ got = Message
       \/ reset \/ "ETIMEDOUT" \in {snd.res, rcv.res})
=============================================================================
