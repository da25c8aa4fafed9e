----------------------------- MODULE MuxSystem -----------------------------
(***************************************************************************)
(* The whole of TCP_Port_Multiplexer.cpp: MuxServer's processes, of which  *)
(* one is looked into as it runs MuxSession.  The session begins with the  *)
(* process, has the client that main() had accepted, or none, and runs     *)
(* when the process does; its exit is the process's, which closes its      *)
(* descriptors and sends SIGCHLD.                                          *)
(***************************************************************************)
EXTENDS MuxServer

CONSTANTS
  Watched,  \* the process id whose sessions are looked into
  NServices, BufSize, Chunk, Cap, IdxModulus, LongMax,
  Typed, ServiceBytes, MaxTyped, MaxServed, SelectFaults

VARIABLES at, i, buff, idx, dialed, sel, ready, out, sent, taken, written, drained, ending

session == <<at, i, buff, idx, dialed, sel, ready, out, sent, taken, written, drained, ending>>

S == INSTANCE MuxSession WITH pc <- at

ASSUME MuxSystemAssumption == Watched \in Procs /\ S!MuxSessionAssumption

SystemInit == Init /\ S!Init /\ ending["client"] = "open"

\* A session begins, as in S!Init; s_sock is the client's, or -1.
Begins(client) ==
  /\ at' = "menu" /\ i' = 0
  /\ buff' = [k \in 0..BufSize - 1 |-> S!NUL]
  /\ idx' = 0 /\ dialed' = S!NoService /\ sel' = 0
  /\ ready' = {} /\ out' = <<>>
  /\ sent' = [e \in S!Ends |-> <<>>] /\ taken' = [e \in S!Ends |-> 0]
  /\ written' = [e \in S!Ends |-> <<>>] /\ drained' = [e \in S!Ends |-> 0]
  /\ ending' = [client |-> IF client = NoConn THEN "absent" ELSE "open", service |-> "open"]

-----------------------------------------------------------------------------

Serving == child[Watched] = "serving"

Forked == child[Watched] = "none" /\ child'[Watched] = "forked"
Exits  == child[Watched] = "serving" /\ child'[Watched] = "zombie"

\* A step of the server; its child begins with nothing but a socket, or -1,
\* and is gone when its session has called exit() or was killed.
ServerStep ==
  /\ Next
  /\ \/ Forked /\ Begins(s_sock[Main])
     \/ Exits /\ at = "exited" /\ Begins(s_sock[Watched])
     \/ ~Forked /\ ~Exits /\ UNCHANGED session

SessionStep == Serving /\ S!Step /\ UNCHANGED vars

\* The two ends and the kernel between.
EndStep(e) ==
  /\ child[Watched] \in Live
  /\ S!Send(e) \/ S!Drain(e) \/ S!End(e) \/ S!Refuse(e)
  /\ UNCHANGED vars

SystemNext ==
  \/ ServerStep
  \/ SessionStep
  \/ \E e \in S!Ends : EndStep(e)

all == <<vars, session>>

\* As in MuxServer and MuxSession, and a process that called exit() exits.
SystemFairness ==
  /\ Fairness
  /\ WF_all(SessionStep)
  /\ WF_vars(at = "exited" /\ ChildExit(Watched))
  /\ \A e \in S!Ends : WF_session(Serving /\ S!Drain(e)) /\ WF_session(Serving /\ S!Refuse(e))

SystemSpec == SystemInit /\ [][SystemNext]_all /\ SystemFairness

-----------------------------------------------------------------------------

Ended(e) == ending[e] \notin {"open", "absent"}

\* When an end of a session ends, whatever the other end and main() are doing,
\* its process exits, is collected, and its id is free again; and when it was
\* the service's end, the client sees its connection closed: neither the child
\* nor main() keeps it, even if the session was over before main() came to
\* close its own copy.
Released ==
  /\ \A e \in S!Ends : child[Watched] \in Live /\ Ended(e) ~> child[Watched] = "none"
  /\ \A c \in Conns :
       child[Watched] \in Live /\ s_sock[Watched] = c /\ Ended("service") ~> ~Held(c)

\* As in MuxSession: what one end sends, the other gets, also when the session
\* runs beside main() and the signal handler.
Delivered == S!Delivered
=============================================================================
