------------------------ MODULE ConnectionLifecycle ------------------------
(***************************************************************************)
(* What the server promises of its connections, whatever threads serve     *)
(* them: a connection is opened once, on a free descriptor; it is closed   *)
(* at most once; closing it frees the descriptor it was opened on; and     *)
(* nothing else ever changes what the descriptors of connections name.     *)
(***************************************************************************)
EXTENDS SocketTable

CONSTANT Clients

VARIABLES
  status,    \* of each connection: "absent", "open", then "closed" for good
  fdTable    \* the connection behind each descriptor

lifecycleVars == <<status, fdTable>>

LifecycleInit ==
  /\ status = [c \in Clients |-> "absent"]
  /\ fdTable = [f \in Fds |-> Free]

OpenConnection(c) ==
  /\ status[c] = "absent"
  /\ \E f \in Fds : fdTable[f] = Free /\ fdTable' = [fdTable EXCEPT ![f] = c]
  /\ status' = [status EXCEPT ![c] = "open"]

CloseConnection(c) ==
  /\ status[c] = "open"
  /\ \E f \in Fds : fdTable[f] = c /\ fdTable' = [fdTable EXCEPT ![f] = Free]
  /\ status' = [status EXCEPT ![c] = "closed"]

LifecycleNext == \E c \in Clients : OpenConnection(c) \/ CloseConnection(c)

LifecycleSpec == LifecycleInit /\ [][LifecycleNext]_lifecycleVars
=============================================================================
