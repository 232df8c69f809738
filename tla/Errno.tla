------------------------------- MODULE Errno -------------------------------
(***************************************************************************)
(* The error codes of minimk/errno.h and the mapping of the system's onto  *)
(* them (errno/errno_posix.c).  An error of either kind is its name.       *)
(***************************************************************************)

Success == "OK"
NoErrno == "0"      \* errno, or SO_ERROR, when nothing failed

\* The errors that both sides have, and by the same name.  EAGAIN and
\* EWOULDBLOCK are one error, which the code asserts of the system.
Shared ==
    {"EAGAIN", "ECONNREFUSED", "ECONNRESET", "EFAULT", "EHOSTUNREACH", "EINPROGRESS",
     "EINTR", "EINVAL", "EACCES", "EADDRINUSE", "EAFNOSUPPORT", "ENETUNREACH", "ENOBUFS",
     "EPROTONOSUPPORT", "ETIMEDOUT", "ENOMEM", "EBADF", "EMFILE"}

minimk_errno_map(posix_errno) ==
    CASE posix_errno = NoErrno -> Success
      [] posix_errno \in Shared -> posix_errno
      [] OTHER -> "EUNKNOWN"

\* What a wrapper returns when its system call failed: errno was cleared
\* before the call and is read right after it.
geterrno(errno) == minimk_errno_map(errno)
=============================================================================
