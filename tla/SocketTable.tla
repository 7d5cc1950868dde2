---------------------------- MODULE SocketTable ----------------------------
(***************************************************************************)
(* The kernel's descriptor table, as NetUtils uses it.  It maps each       *)
(* number the process may have open to the socket behind it.  A number is  *)
(* reused as soon as it is free: that reuse is what makes a stale copy of  *)
(* a descriptor dangerous.                                                 *)
(***************************************************************************)
EXTENDS Integers

CONSTANT Fds   \* the descriptor numbers the process may have open

ASSUME FdsAssumption == Fds \subseteq Nat

\* The value of a descriptor variable that names no socket.
INVALID_FD == -1

\* What the table holds for a number that is not in use.
Free == "free"

\* What it holds while an accept() that has not returned owns the number.
Reserved == "reserved"

IsOpen(table, fd) == fd \in Fds /\ table[fd] \notin {Free, Reserved}

\* POSIX: a new descriptor is the lowest number not in use.
IsLowestFree(table, fd) ==
  /\ table[fd] = Free
  /\ \A g \in Fds : table[g] = Free => fd <= g

\* The table after close(fd); closing a number that is not open is EBADF
\* and changes nothing.
Closed(table, fd) ==
  [f \in Fds |-> IF f = fd /\ IsOpen(table, fd) THEN Free ELSE table[f]]
=============================================================================
