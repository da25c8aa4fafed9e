----------------------------- MODULE MuxServer -----------------------------
(***************************************************************************)
(* The process that owns the public port of TCP_Port_Multiplexer.cpp:      *)
(* main()'s accept loop, the child it forks for every connection, and      *)
(* child_reaper(), the SIGCHLD handler that interrupts the loop.           *)
(*                                                                         *)
(* A process is its open descriptors and its copy of the variable s_sock:  *)
(* fork() duplicates both, and a connection is closed towards its client   *)
(* when no process has it open any more.  What a child says to its client  *)
(* is module MuxSession; here a child serves for as long as it likes and   *)
(* then exits.                                                             *)
(***************************************************************************)
EXTENDS Naturals, Sequences

CONSTANTS
  Main,      \* the process that runs main()
  Procs,     \* process ids the kernel can give to children
  Conns,     \* connections clients open; an id is used again once closed
  Listener,  \* the passive socket m_sock
  NoConn,    \* the -1 a failed accept() returns
  QLen       \* the backlog passiveTCP() asks for; the kernel queues one more

ASSUME MuxServerAssumption ==
  /\ Main \notin Procs
  /\ Listener \notin Conns
  /\ NoConn \notin Conns \cup {Listener}
  /\ QLen \in Nat

VARIABLES
  pc,        \* where main() stands
  s_sock,    \* every process's copy of the variable s_sock
  fds,       \* the descriptors every process has open
  child,     \* the life of every child process
  chld,      \* SIGCHLD is pending for Main (a bit: signals do not queue)
  reaping,   \* Main is inside child_reaper()
  backlog,   \* established connections nobody has accepted yet
  connected  \* the connections whose client has not seen them closed

vars == <<pc, s_sock, fds, child, chld, reaping, backlog, connected>>

All  == {Main} \cup Procs
Live == {"forked", "serving"}

Queued(c) == \E i \in 1..Len(backlog) : backlog[i] = c
Held(c)   == \E x \in All : c \in fds[x]
Runs(loc) == pc = loc /\ ~reaping   \* a handler suspends the loop

Init ==
  /\ pc = "start"
  /\ s_sock = [x \in All |-> NoConn]
  /\ fds = [x \in All |-> {}]
  /\ child = [p \in Procs |-> "none"]
  /\ chld = FALSE
  /\ reaping = FALSE
  /\ backlog = <<>>
  /\ connected = {}

-----------------------------------------------------------------------------
(* main() *)

\* signal() and passiveTCP(): socket(), bind() and listen() succeed ...
Start ==
  /\ Runs("start")
  /\ pc' = "accept"
  /\ fds' = [fds EXCEPT ![Main] = {Listener}]
  /\ UNCHANGED <<s_sock, child, chld, reaping, backlog, connected>>

\* ... or one of them fails, and passiveTCP() calls exit(1).
StartFails ==
  /\ Runs("start")
  /\ pc' = "exited"
  /\ UNCHANGED <<s_sock, fds, child, chld, reaping, backlog, connected>>

\* accept() returns the oldest connection of the backlog; while there is none
\* it blocks, and SIGCHLD only interrupts it to restart it.
Accept ==
  /\ Runs("accept")
  /\ backlog # <<>>
  /\ s_sock' = [s_sock EXCEPT ![Main] = Head(backlog)]
  /\ fds' = [fds EXCEPT ![Main] = @ \cup {Head(backlog)}]
  /\ backlog' = Tail(backlog)
  /\ pc' = "fork"
  /\ UNCHANGED <<child, chld, reaping, connected>>

\* accept() fails (ENFILE, ECONNABORTED ...): nothing looks at its -1, and the
\* loop goes on to fork a child that has no client.
AcceptFails ==
  /\ Runs("accept")
  /\ s_sock' = [s_sock EXCEPT ![Main] = NoConn]
  /\ pc' = "fork"
  /\ UNCHANGED <<fds, child, chld, reaping, backlog, connected>>

Fork(p) ==
  /\ Runs("fork")
  /\ child[p] = "none"
  /\ child' = [child EXCEPT ![p] = "forked"]
  /\ s_sock' = [s_sock EXCEPT ![p] = s_sock[Main]]
  /\ fds' = [fds EXCEPT ![p] = fds[Main]]
  /\ pc' = "close"
  /\ UNCHANGED <<chld, reaping, backlog, connected>>

\* continue instead of going on to close()
Mut_ForkFails == Runs("fork") /\ pc' = "accept"
  /\ UNCHANGED <<s_sock, fds, child, chld, reaping, backlog, connected>>

\* No memory or no process id left.
ForkFails ==
  /\ Runs("fork")
  /\ pc' = "close"
  /\ UNCHANGED <<s_sock, fds, child, chld, reaping, backlog, connected>>

Mut_KeepOpen == Runs("close") /\ pc' = "accept"
  /\ UNCHANGED <<s_sock, fds, child, chld, reaping, backlog, connected>>

Close ==
  /\ Runs("close")
  /\ fds' = [fds EXCEPT ![Main] = @ \ {s_sock[Main]}]
  /\ pc' = "accept"
  /\ UNCHANGED <<s_sock, child, chld, reaping, backlog, connected>>

-----------------------------------------------------------------------------
(* child_reaper(), run on top of whatever main() was doing *)

Deliver ==
  /\ pc # "exited"
  /\ chld
  /\ ~reaping
  /\ reaping' = TRUE
  /\ chld' = FALSE
  /\ UNCHANGED <<pc, s_sock, fds, child, backlog, connected>>

Mut_ReapOne(p) == reaping /\ child[p] = "zombie" /\ reaping' = FALSE
  /\ child' = [child EXCEPT ![p] = "none"]
  /\ UNCHANGED <<pc, s_sock, fds, chld, backlog, connected>>

\* One turn of the while: wait3() collects some zombie.
Reap(p) ==
  /\ reaping
  /\ child[p] = "zombie"
  /\ child' = [child EXCEPT ![p] = "none"]
  /\ UNCHANGED <<pc, s_sock, fds, chld, reaping, backlog, connected>>

Mut_Wait == reaping /\ (\A p \in Procs : child[p] = "none") /\ reaping' = FALSE
  /\ UNCHANGED <<pc, s_sock, fds, child, chld, backlog, connected>>

\* wait3() with WNOHANG finds none, and the handler returns.
ReaperReturns ==
  /\ reaping
  /\ \A p \in Procs : child[p] # "zombie"
  /\ reaping' = FALSE
  /\ UNCHANGED <<pc, s_sock, fds, child, chld, backlog, connected>>

-----------------------------------------------------------------------------
(* A child *)

Mut_CloseWrong(p) == child[p] = "forked"
  /\ child' = [child EXCEPT ![p] = "serving"]
  /\ fds' = [fds EXCEPT ![p] = @ \ {s_sock[p]}]
  /\ UNCHANGED <<pc, s_sock, chld, reaping, backlog, connected>>

\* close(m_sock), then handle_client().
ChildStart(p) ==
  /\ child[p] = "forked"
  /\ child' = [child EXCEPT ![p] = "serving"]
  /\ fds' = [fds EXCEPT ![p] = @ \ {Listener}]
  /\ UNCHANGED <<pc, s_sock, chld, reaping, backlog, connected>>

\* exit(0), or SIGPIPE: the kernel closes its descriptors and signals Main.
ChildExit(p) ==
  /\ child[p] = "serving"
  /\ child' = [child EXCEPT ![p] = "zombie"]
  /\ fds' = [fds EXCEPT ![p] = {}]
  /\ chld' = TRUE
  /\ UNCHANGED <<pc, s_sock, reaping, backlog, connected>>

-----------------------------------------------------------------------------
(* Clients *)

Connect(c) ==
  /\ Listener \in fds[Main]
  /\ c \notin connected
  /\ Len(backlog) <= QLen
  /\ connected' = connected \cup {c}
  /\ backlog' = Append(backlog, c)
  /\ UNCHANGED <<pc, s_sock, fds, child, chld, reaping>>

SeesClosed(c) ==
  /\ c \in connected
  /\ ~Queued(c)
  /\ ~Held(c)
  /\ connected' = connected \ {c}
  /\ UNCHANGED <<pc, s_sock, fds, child, chld, reaping, backlog>>

-----------------------------------------------------------------------------

Next ==
  \/ Start \/ StartFails
  \/ Accept \/ AcceptFails
  \/ \E p \in Procs : Fork(p)
  \/ ForkFails
  \/ Close
  \/ Deliver
  \/ \E p \in Procs : Reap(p)
  \/ ReaperReturns
  \/ \E p \in Procs : ChildStart(p)
  \/ \E p \in Procs : ChildExit(p)
  \/ \E c \in Conns : Connect(c)
  \/ \E c \in Conns : SeesClosed(c)

\* The scheduler runs Main, its handler and a fresh child; accept() does not
\* fail for ever while a connection waits.  No child has to exit, and no
\* client has to connect.
Fairness ==
  /\ SF_vars(Accept)
  /\ WF_vars(ForkFails \/ \E p \in Procs : Fork(p))
  /\ WF_vars(Close)
  /\ WF_vars(Deliver)
  /\ WF_vars(\E p \in Procs : Reap(p))
  /\ WF_vars(ReaperReturns)
  /\ \A p \in Procs : WF_vars(ChildStart(p))

Spec == Init /\ [][Next]_vars /\ Fairness

-----------------------------------------------------------------------------

\* Every variable has its type; and besides m_sock no process has more than one
\* socket open at a time, so that none runs out of descriptors, however many
\* clients come and whichever of accept() and fork() fails.
TypeOK ==
  /\ pc \in {"start", "accept", "fork", "close", "exited"}
  /\ s_sock \in [All -> Conns \cup {NoConn}]
  /\ fds \in [All -> SUBSET (Conns \cup {Listener})]
  /\ \A x \in All : \A c, d \in fds[x] \ {Listener} : c = d
  /\ child \in [Procs -> {"none", "forked", "serving", "zombie"}]
  /\ chld \in BOOLEAN
  /\ reaping \in BOOLEAN
  /\ backlog \in Seq(Conns)
  /\ connected \in SUBSET Conns

\* A child that serves has its own client's socket open and nothing else, and
\* no client is open in two children: because main() closes s_sock before the
\* next accept() and the child closes m_sock, a session can neither read
\* another client's bytes nor take connections from the port.
PrivateSockets ==
  /\ \A p \in Procs : child[p] = "serving" => fds[p] \subseteq {s_sock[p]}
  /\ \A p, q \in Procs : p # q => fds[p] \cap fds[q] \subseteq {Listener}

\* While any child waits to be collected, the handler is running or a SIGCHLD
\* is pending, although children that die together raise one signal: the
\* while of child_reaper() is what makes up for the lost ones.
NoLostZombie ==
  (\E p \in Procs : child[p] = "zombie") => chld \/ reaping

\* If this step closes the last descriptor of c, then it is the exit of the
\* child that serves c, or main()'s close() when no child serves c.
ClosedByOwner(c) ==
  Held(c) /\ ~Held(c)' =>
    \/ \E p \in Procs : child[p] = "serving" /\ s_sock[p] = c /\ child'[p] = "zombie"
    \/ pc = "close" /\ \A p \in Procs : child[p] \in Live => s_sock[p] # c

\* A client's connection is closed only because its own child exited, or by
\* main() when no child has it (fork() failed, or the child is gone already).
NoEarlyClose == [][\A c \in Conns : ClosedByOwner(c)]_vars

\* Every zombie is collected, so the process ids come back.
ZombiesReaped == \A p \in Procs : child[p] = "zombie" ~> child[p] = "none"

\* Every connection in the backlog is accepted, whatever children do: neither
\* a session that never ends nor the handler holds up the loop.
QueuedAccepted == \A c \in Conns : Queued(c) ~> ~Queued(c)

\* No child will answer c any more, and none is about to be forked for it.
Abandoned(c) ==
  /\ c \in connected
  /\ ~Queued(c)
  /\ ~(pc = "fork" /\ s_sock[Main] = c)
  /\ \A p \in Procs : child[p] \in Live => s_sock[p] # c

\* A client whose child has exited, or for whom fork() failed, sees its
\* connection closed: main() keeps no descriptor of it.
AbandonedClosed == \A c \in Conns : Abandoned(c) ~> ~Held(c)
=============================================================================
