-------------------------- MODULE MuxSystemProofs --------------------------
(***************************************************************************)
(* Safety of the multiplexer for any set of process ids and connections,   *)
(* any backlog, any services and any data.                                 *)
(*                                                                         *)
(* MuxServer: none of the properties is inductive.  That two children      *)
(* never share a socket depends on which descriptors main() has open at    *)
(* every point of its loop, and on the connections in the backlog being    *)
(* ones nobody has open.  IInv is their conjunction with those facts.      *)
(*                                                                         *)
(* MuxSystem: the whole implements MuxServer, and what MuxSessionProofs    *)
(* has of one session holds of every session of the watched process, one   *)
(* after the other.                                                        *)
(***************************************************************************)
EXTENDS MuxSystem, SequenceTheorems, TLAPS

\* The client's socket of x, none when accept() had failed.
Own(x) == {s_sock[x]} \cap Conns

\* The descriptors of main(): m_sock once it listens, and between accept()
\* and close() the client's socket too.
MainFds ==
  /\ pc \in {"start", "exited"} => fds[Main] = {}
  /\ pc = "accept" => fds[Main] = {Listener}
  /\ pc \in {"fork", "close"} => fds[Main] = {Listener} \cup Own(Main)

\* The descriptors of a child: a copy of main()'s, m_sock closed first.
ChildFds ==
  \A p \in Procs :
    /\ child[p] \in {"none", "zombie"} => fds[p] = {}
    /\ child[p] = "forked" => fds[p] = {Listener} \cup Own(p)
    /\ child[p] = "serving" => fds[p] = Own(p)

\* No connection is open in two children, and the one main() is about to
\* fork for is open in none.
Disjoint ==
  /\ \A p, q \in Procs : p # q => fds[p] \cap fds[q] \subseteq {Listener}
  /\ pc = "fork" => \A p \in Procs : s_sock[Main] \notin fds[p]

\* The backlog holds each connection once; its connections are open in no
\* process; and a client has not seen closed what is queued or open.
BacklogFresh ==
  /\ \A k, l \in 1..Len(backlog) : k # l => backlog[k] # backlog[l]
  /\ \A k \in 1..Len(backlog) : backlog[k] \in connected
  /\ \A k \in 1..Len(backlog), x \in All : backlog[k] \notin fds[x]
  /\ \A x \in All : fds[x] \cap Conns \subseteq connected

\* TypeOK, but for the number of descriptors.
Types ==
  /\ pc \in {"start", "accept", "fork", "close", "exited"}
  /\ s_sock \in [All -> Conns \cup {NoConn}]
  /\ fds \in [All -> SUBSET (Conns \cup {Listener})]
  /\ child \in [Procs -> {"none", "forked", "serving", "zombie"}]
  /\ chld \in BOOLEAN
  /\ reaping \in BOOLEAN
  /\ backlog \in Seq(Conns)
  /\ connected \in SUBSET Conns

IInv ==
  /\ Types
  /\ MainFds
  /\ ChildFds
  /\ Disjoint
  /\ BacklogFresh
  /\ NoLostZombie

-----------------------------------------------------------------------------

\* At the start nothing is open, queued or forked.
LEMMA InitInv == Init => IInv
<1> SUFFICES ASSUME Init PROVE IInv
  OBVIOUS
<1> USE MuxServerAssumption DEF Init, All
<1>1. Types
  <2>1. backlog \in Seq(Conns)
    BY EmptySeq
  <2>2. s_sock \in [All -> Conns \cup {NoConn}]
    OBVIOUS
  <2>3. fds \in [All -> SUBSET (Conns \cup {Listener})]
    OBVIOUS
  <2>4. child \in [Procs -> {"none", "forked", "serving", "zombie"}]
    OBVIOUS
  <2> QED
    BY <2>1, <2>2, <2>3, <2>4 DEF Types
<1>2. MainFds /\ ChildFds /\ Disjoint
  BY DEF MainFds, ChildFds, Disjoint, Own
<1>3. BacklogFresh /\ NoLostZombie
  BY DEF BacklogFresh, NoLostZombie
<1> QED
  BY <1>1, <1>2, <1>3 DEF IInv

\* Every step of main(), its handler, a child or a client keeps IInv.
LEMMA StepInv == IInv /\ [Next]_vars => IInv'
<1> SUFFICES ASSUME IInv, [Next]_vars PROVE IInv'
  OBVIOUS
<1> USE MuxServerAssumption DEF IInv, All, Runs
<1>1. CASE Start
  <2>1. Types'
    BY <1>1 DEF Start, Types
  <2>2. MainFds' /\ ChildFds'
    BY <1>1 DEF Start, Types, MainFds, ChildFds, Own
  <2>3. Disjoint'
    BY <1>1 DEF Start, Types, MainFds, ChildFds, Disjoint,
       BacklogFresh, Own
  <2>4. BacklogFresh'
    BY <1>1 DEF Start, Types, MainFds, ChildFds, BacklogFresh, Own
  <2>5. NoLostZombie'
    BY <1>1 DEF Start, Types, NoLostZombie
  <2> QED BY <2>1, <2>2, <2>3, <2>4, <2>5
<1>2. CASE StartFails
  BY <1>2 DEF StartFails, Types, MainFds, ChildFds, Disjoint, BacklogFresh,
     NoLostZombie, Own
<1>3. CASE Accept
  <2>1. Types'
    BY <1>3 DEF Accept, Types
  <2>2. MainFds' /\ ChildFds'
    BY <1>3 DEF Accept, Types, MainFds, ChildFds, Own
  <2>3. Disjoint'
    BY <1>3 DEF Accept, Types, MainFds, ChildFds, Disjoint,
       BacklogFresh, Own
  <2>4. BacklogFresh'
    BY <1>3 DEF Accept, Types, MainFds, ChildFds, BacklogFresh, Own
  <2>5. NoLostZombie'
    BY <1>3 DEF Accept, Types, NoLostZombie
  <2> QED BY <2>1, <2>2, <2>3, <2>4, <2>5
<1>4. CASE AcceptFails
  BY <1>4 DEF AcceptFails, Types, MainFds, ChildFds, Disjoint, BacklogFresh,
     NoLostZombie, Own
<1>5. ASSUME NEW p \in Procs, Fork(p) PROVE IInv'
  <2>1. Types'
    BY <1>5 DEF Fork, Types
  <2>2. MainFds' /\ ChildFds'
    BY <1>5 DEF Fork, Types, MainFds, ChildFds, Own
  <2>3. Disjoint'
    BY <1>5 DEF Fork, Types, MainFds, ChildFds, Disjoint,
       BacklogFresh, Own
  <2>4. BacklogFresh'
    BY <1>5 DEF Fork, Types, MainFds, ChildFds, BacklogFresh, Own
  <2>5. NoLostZombie'
    BY <1>5 DEF Fork, Types, NoLostZombie
  <2> QED BY <2>1, <2>2, <2>3, <2>4, <2>5
<1>6. CASE ForkFails
  BY <1>6 DEF ForkFails, Types, MainFds, ChildFds, Disjoint, BacklogFresh,
     NoLostZombie, Own
<1>7. CASE Close
  <2>1. Types'
    BY <1>7 DEF Close, Types
  <2>2. MainFds' /\ ChildFds'
    BY <1>7 DEF Close, Types, MainFds, ChildFds, Own
  <2>3. Disjoint'
    BY <1>7 DEF Close, Types, MainFds, ChildFds, Disjoint,
       BacklogFresh, Own
  <2>4. BacklogFresh'
    BY <1>7 DEF Close, Types, MainFds, ChildFds, BacklogFresh, Own
  <2>5. NoLostZombie'
    BY <1>7 DEF Close, Types, NoLostZombie
  <2> QED BY <2>1, <2>2, <2>3, <2>4, <2>5
<1>8. CASE Deliver
  BY <1>8 DEF Deliver, Types, MainFds, ChildFds, Disjoint, BacklogFresh,
     NoLostZombie, Own
<1>9. ASSUME NEW p \in Procs, Reap(p) PROVE IInv'
  BY <1>9 DEF Reap, Types, MainFds, ChildFds, Disjoint, BacklogFresh,
     NoLostZombie, Own
<1>10. CASE ReaperReturns
  BY <1>10 DEF ReaperReturns, Types, MainFds, ChildFds, Disjoint, BacklogFresh,
     NoLostZombie, Own
<1>11. ASSUME NEW p \in Procs, ChildStart(p) PROVE IInv'
  <2>1. Types'
    BY <1>11 DEF ChildStart, Types
  <2>2. MainFds' /\ ChildFds'
    BY <1>11 DEF ChildStart, Types, MainFds, ChildFds, Own
  <2>3. Disjoint'
    BY <1>11 DEF ChildStart, Types, MainFds, ChildFds, Disjoint,
       BacklogFresh, Own
  <2>4. BacklogFresh'
    BY <1>11 DEF ChildStart, Types, MainFds, ChildFds, BacklogFresh, Own
  <2>5. NoLostZombie'
    BY <1>11 DEF ChildStart, Types, NoLostZombie
  <2> QED BY <2>1, <2>2, <2>3, <2>4, <2>5
<1>12. ASSUME NEW p \in Procs, ChildExit(p) PROVE IInv'
  <2>1. Types'
    BY <1>12 DEF ChildExit, Types
  <2>2. MainFds' /\ ChildFds'
    BY <1>12 DEF ChildExit, Types, MainFds, ChildFds, Own
  <2>3. Disjoint'
    BY <1>12 DEF ChildExit, Types, MainFds, ChildFds, Disjoint,
       BacklogFresh, Own
  <2>4. BacklogFresh'
    BY <1>12 DEF ChildExit, Types, MainFds, ChildFds, BacklogFresh, Own
  <2>5. NoLostZombie'
    BY <1>12 DEF ChildExit, Types, NoLostZombie
  <2> QED BY <2>1, <2>2, <2>3, <2>4, <2>5
<1>13. ASSUME NEW c \in Conns, Connect(c) PROVE IInv'
  <2>1. Types'
    BY <1>13 DEF Connect, Types
  <2>2. MainFds' /\ ChildFds'
    BY <1>13 DEF Connect, Types, MainFds, ChildFds, Own
  <2>3. Disjoint'
    BY <1>13 DEF Connect, Types, MainFds, ChildFds, Disjoint,
       BacklogFresh, Own
  <2>4. BacklogFresh'
    BY <1>13 DEF Connect, Types, MainFds, ChildFds, BacklogFresh, Own
  <2>5. NoLostZombie'
    BY <1>13 DEF Connect, Types, NoLostZombie
  <2> QED BY <2>1, <2>2, <2>3, <2>4, <2>5
<1>14. ASSUME NEW c \in Conns, SeesClosed(c) PROVE IInv'
  <2>1. Types'
    BY <1>14 DEF SeesClosed, Types
  <2>2. MainFds' /\ ChildFds'
    BY <1>14 DEF SeesClosed, Types, MainFds, ChildFds, Own
  <2>3. Disjoint'
    BY <1>14 DEF SeesClosed, Types, MainFds, ChildFds, Disjoint,
       BacklogFresh, Own
  <2>4. BacklogFresh'
    BY <1>14 DEF SeesClosed, Types, BacklogFresh, Queued, Held
  <2>5. NoLostZombie'
    BY <1>14 DEF SeesClosed, Types, NoLostZombie
  <2> QED BY <2>1, <2>2, <2>3, <2>4, <2>5
<1>15. CASE UNCHANGED vars
  <2>1. Types' /\ NoLostZombie'
    BY <1>15 DEF vars, Types, NoLostZombie
  <2>2. MainFds' /\ ChildFds' /\ Disjoint'
    BY <1>15 DEF vars, MainFds, ChildFds, Disjoint, Own
  <2>3. BacklogFresh'
    BY <1>15 DEF vars, BacklogFresh
  <2> QED BY <2>1, <2>2, <2>3
<1> QED
  BY <1>1, <1>2, <1>3, <1>4, <1>5, <1>6, <1>7, <1>8, <1>9, <1>10, <1>11, <1>12, <1>13, <1>14, <1>15 DEF Next

\* IInv holds throughout.
LEMMA Invariance == Spec => []IInv
  BY InitInv, StepInv, PTL DEF Spec

\* Every variable keeps its type, and no process ever has more than one socket
\* open besides m_sock: main() closes what it accepted before it accepts again,
\* and a child inherits no more than that.
THEOREM TypeCorrect == Spec => []TypeOK
<1>1. IInv => TypeOK
  <2> SUFFICES ASSUME IInv PROVE TypeOK
    OBVIOUS
  <2>1. ASSUME NEW x \in All, NEW c \in fds[x] \ {Listener}, NEW d \in fds[x] \ {Listener}
        PROVE  c = d
    <3>1. fds[x] \subseteq {Listener} \cup Own(x)
      <4>1. CASE x = Main
        BY <4>1 DEF IInv, Types, MainFds
      <4>2. CASE x \in Procs
        BY <4>2 DEF IInv, Types, ChildFds
      <4> QED
        BY <4>1, <4>2 DEF All
    <3> QED
      BY <2>1, <3>1 DEF Own
  <2> QED
    BY <2>1 DEF IInv, Types, TypeOK
<1> QED
  BY <1>1, Invariance, PTL

\* Sessions are isolated: a serving child has its own client's socket only,
\* and no two children have the same one, however accept(), fork(), close()
\* and the exits interleave.
THEOREM SessionsPrivate == Spec => []PrivateSockets
<1>1. IInv => PrivateSockets
  BY DEF IInv, ChildFds, Disjoint, PrivateSockets, Own
<1> QED
  BY <1>1, Invariance, PTL

\* A zombie is always known to the handler, or to a SIGCHLD on its way.
THEOREM ZombieKnown == Spec => []NoLostZombie
<1>1. IInv => NoLostZombie
  BY DEF IInv
<1> QED
  BY <1>1, Invariance, PTL

\* Only the exit of its own child closes a client's connection, or main()
\* when no child serves it.
THEOREM NeverClosedEarly == Spec => NoEarlyClose
<1>1. ASSUME IInv, [Next]_vars, NEW c \in Conns PROVE ClosedByOwner(c)
  <2> SUFFICES ASSUME Held(c), ~Held(c)'
      PROVE \/ \E p \in Procs : child[p] = "serving" /\ s_sock[p] = c /\ child'[p] = "zombie"
            \/ pc = "close" /\ \A p \in Procs : child[p] \in Live => s_sock[p] # c
    BY DEF ClosedByOwner
  <2> USE <1>1, MuxServerAssumption DEF IInv, Types, All
  <2>1. PICK x \in All : c \in fds[x] /\ c \notin fds'[x]
    BY DEF Held
  <2>2. \A y \in All : c \notin fds'[y]
    BY DEF Held
  <2>3. CASE Close
    BY <2>1, <2>2, <2>3 DEF Close, MainFds, ChildFds, Own, Runs, Live
  <2>4. CASE \E p \in Procs : ChildStart(p) \/ ChildExit(p)
    BY <2>1, <2>4 DEF ChildStart, ChildExit, ChildFds, Own
  <2>5. CASE Start \/ \E p \in Procs : Fork(p)
    BY <2>1, <2>5 DEF Start, Fork, MainFds, ChildFds, Runs
  <2>6. CASE UNCHANGED fds \/ Accept
    BY <2>1, <2>6 DEF Accept
  <2> QED
    BY <2>3, <2>4, <2>5, <2>6 DEF Next, vars, StartFails, AcceptFails, ForkFails,
       Deliver, Reap, ReaperReturns, Connect, SeesClosed
<1>2. IInv /\ [Next]_vars => [\A c \in Conns : ClosedByOwner(c)]_vars
  BY <1>1
<1> QED
  BY <1>2, Invariance, PTL DEF Spec, NoEarlyClose
-----------------------------------------------------------------------------
(* The whole system: the server's steps go on beside the sessions *)

\* The server's part of the state moves as MuxServer says, by the definition of
\* the whole: what is proved of the server alone may be used for it.
LEMMA ServerImplemented == SystemSpec => Spec
<1>1. SystemInit => Init
  BY DEF SystemInit
<1>2. [SystemNext]_all => [Next]_vars
  <2> SUFFICES ASSUME [SystemNext]_all PROVE [Next]_vars
    OBVIOUS
  <2>1. CASE ServerStep
    BY <2>1 DEF ServerStep
  <2>2. CASE SessionStep \/ \E e \in S!Ends : EndStep(e)
    BY <2>2 DEF SessionStep, EndStep
  <2>3. CASE UNCHANGED all
    BY <2>3 DEF all, vars
  <2> QED
    BY <2>1, <2>2, <2>3 DEF SystemNext
<1>3. SystemFairness => Fairness
  BY PTL DEF SystemFairness
<1> QED
  BY <1>1, <1>2, <1>3, PTL DEF SystemSpec, Spec

-----------------------------------------------------------------------------
(* The session, as MuxSessionProofs knows it, and as MuxSystem runs it *)

SP == INSTANCE MuxSessionProofs WITH pc <- at

\* Every step of the session, and of its ends, is one of the session alone.
LEMMA SameSteps ==
  /\ S!Step => SP!Next
  /\ \A e \in S!Ends : S!Send(e) \/ S!Drain(e) \/ S!End(e) \/ S!Refuse(e) => SP!Next
<1> USE DEF S!choosing, SP!choosing, S!relaying, SP!relaying, S!input, SP!input, S!output,
       SP!output, S!Data, SP!Data, S!Reported, SP!Reported, S!To, SP!To, S!Ends, SP!Ends,
       S!Peer, SP!Peer, S!Range, SP!Range, S!DigitOf, SP!DigitOf, S!NUL, SP!NUL, S!After,
       SP!After, S!Eof, SP!Eof, S!Failed, SP!Failed, S!There, SP!There, S!Relaying, SP!Relaying
<1>1. S!Menu => SP!Menu
  BY DEF S!Menu, SP!Menu, S!Line, SP!Line
<1>2. S!MenuKilled => SP!MenuKilled
  BY DEF S!MenuKilled, SP!MenuKilled
<1>3. S!ReadFirst => SP!ReadFirst
  BY DEF S!ReadFirst, SP!ReadFirst, S!Take, SP!Take, S!NextByte, SP!NextByte
<1>4. S!FirstEof => SP!FirstEof
  BY DEF S!FirstEof, SP!FirstEof
<1>5. S!ReadMore => SP!ReadMore
  BY DEF S!ReadMore, SP!ReadMore, S!Take, SP!Take, S!NextByte, SP!NextByte, S!Digits, SP!Digits,
     S!InLoop, SP!InLoop
<1>6. S!LoopEnds => SP!LoopEnds
  BY DEF S!LoopEnds, SP!LoopEnds, S!InLoop, SP!InLoop
<1>7. S!ReadIntReturns => SP!ReadIntReturns
  BY DEF S!ReadIntReturns, SP!ReadIntReturns, S!Atoi, SP!Atoi, S!Blanks, SP!Blanks, S!Digits, SP!Digits, S!DigitVal,
     SP!DigitVal
<1>8. S!WrongIndex => SP!WrongIndex
  BY DEF S!WrongIndex, SP!WrongIndex
<1>9. S!Connect => SP!Connect
  BY DEF S!Connect, SP!Connect
<1>10. S!ConnectFails => SP!ConnectFails
  BY DEF S!ConnectFails, SP!ConnectFails
<1>11. S!Select => SP!Select
  BY DEF S!Select, SP!Select, S!Readable, SP!Readable
<1>12. S!SelectFails => SP!SelectFails
  BY DEF S!SelectFails, SP!SelectFails
<1>13. S!SelectAborts => SP!SelectAborts
  BY DEF S!SelectAborts, SP!SelectAborts
<1>14. ASSUME NEW e \in S!Ends, S!NotReady(e) PROVE SP!NotReady(e)
  BY <1>14 DEF S!NotReady, SP!NotReady
<1>15. ASSUME NEW e \in S!Ends, S!Forward(e) PROVE SP!Forward(e)
  BY <1>15 DEF S!Forward, SP!Forward
<1>16. ASSUME NEW e \in S!Ends, S!ForwardEnds(e) PROVE SP!ForwardEnds(e)
  BY <1>16 DEF S!ForwardEnds, SP!ForwardEnds
<1>17. ASSUME NEW e \in S!Ends, S!Write(e) PROVE SP!Write(e)
  BY <1>17 DEF S!Write, SP!Write, S!Healthy, SP!Healthy
<1>18. ASSUME NEW e \in S!Ends, S!WriteFails(e) PROVE SP!WriteFails(e)
  BY <1>18 DEF S!WriteFails, SP!WriteFails
<1>19. ASSUME NEW e \in S!Ends, S!WriteKilled(e) PROVE SP!WriteKilled(e)
  BY <1>19 DEF S!WriteKilled, SP!WriteKilled
<1>20. ASSUME NEW e \in S!Ends, S!Send(e) PROVE SP!Send(e)
  BY <1>20 DEF S!Send, SP!Send
<1>21. ASSUME NEW e \in S!Ends, S!Drain(e) PROVE SP!Drain(e)
  BY <1>21 DEF S!Drain, SP!Drain
<1>22. ASSUME NEW e \in S!Ends, S!End(e) PROVE SP!End(e)
  BY <1>22 DEF S!End, SP!End
<1>23. ASSUME NEW e \in S!Ends, S!Refuse(e) PROVE SP!Refuse(e)
  BY <1>23 DEF S!Refuse, SP!Refuse
<1>24. S!Step => SP!Step
  BY <1>1, <1>2, <1>3, <1>4, <1>5, <1>6, <1>7, <1>8, <1>9, <1>10, <1>11, <1>12, <1>13,
     <1>14, <1>15, <1>16, <1>17, <1>18, <1>19 DEF S!Step, SP!Step
<1>25. ASSUME NEW e \in S!Ends, S!Send(e) \/ S!Drain(e) \/ S!End(e) \/ S!Refuse(e)
       PROVE  SP!Next
  BY <1>25, <1>20, <1>21, <1>22, <1>23 DEF SP!Next
<1> QED
  BY <1>24, <1>25 DEF SP!Next

LEMMA SameRelay == SP!RelayExact => S!RelayExact
  BY DEF S!RelayExact, SP!RelayExact, S!NoService, SP!NoService, S!Ends, SP!Ends, S!Peer,
     SP!Peer, S!Healthy, SP!Healthy, S!To, SP!To, S!Relayed, SP!Relayed, S!Base, SP!Base,
     S!IsPrefix, SP!IsPrefix

LEMMA SameChoice == SP!RightService => S!RightService
  BY DEF S!RightService, SP!RightService, S!Digits, SP!Digits, S!Range, SP!Range, S!DigitOf,
     SP!DigitOf, S!NoService, SP!NoService, S!Number, SP!Number, S!DigitVal, SP!DigitVal

\* It begins as a session alone does.
LEMMA SameInit == S!Init => SP!Init
  BY DEF S!Init, SP!Init, S!NUL, SP!NUL, S!NoService, SP!NoService, S!Ends, SP!Ends

\* What is known of the session at any time.
SessionInv == SP!IInv /\ SP!ChoiceInv

LEMMA SessionBegins == SP!Init => SessionInv
  BY MuxSystemAssumption, SP!InitInv, SP!InitChoice DEF S!MuxSessionAssumption, SessionInv

LEMMA SessionGoesOn == SessionInv /\ [SP!Next]_(SP!vars) => SessionInv'
  BY MuxSystemAssumption, SP!StepInv, SP!ChoiceStep DEF S!MuxSessionAssumption, SessionInv

\* A process that is forked begins a session, and so does an id that is free
\* again, although nothing of the one before is undone first.
LEMMA Anew == ASSUME NEW client, Begins(client) PROVE SP!Init'
  BY DEF Begins, SP!Init, S!NUL, SP!NUL, S!NoService, SP!NoService, S!Ends, SP!Ends

LEMMA AnewInv == SP!Init' => SessionInv'
<1>1. SP!Init => SessionInv
  BY SessionBegins
<1> QED
  BY <1>1, PTL

\* A step of the system lets the session be, begins one, or goes on with it.
LEMMA SystemSteps == [SystemNext]_all => [SP!Next]_(SP!vars) \/ (\E client : Begins(client))
<1> SUFFICES ASSUME [SystemNext]_all PROVE [SP!Next]_(SP!vars) \/ (\E client : Begins(client))
  OBVIOUS
<1>1. UNCHANGED session => UNCHANGED SP!vars
  BY DEF session, SP!vars, SP!choosing, SP!relaying, SP!input, SP!output
<1>2. CASE ServerStep
  BY <1>1, <1>2 DEF ServerStep
<1>3. CASE SessionStep
  BY <1>3, SameSteps DEF SessionStep
<1>4. ASSUME NEW e \in S!Ends, EndStep(e) PROVE SP!Next
  BY <1>4, SameSteps DEF EndStep
<1>5. CASE UNCHANGED all
  BY <1>1, <1>5 DEF all
<1> QED
  BY <1>2, <1>3, <1>4, <1>5 DEF SystemNext

LEMMA SessionInvariance == SystemSpec => []SessionInv
<1>1. SystemInit => SessionInv
  BY SameInit, SessionBegins DEF SystemInit
<1>2. SessionInv /\ [SystemNext]_all => SessionInv'
  BY SystemSteps, SessionGoesOn, Anew, AnewInv
<1> QED
  BY <1>1, <1>2, PTL DEF SystemSpec

\* In the whole, as alone: nothing is lost, repeated or reordered between the
\* two ends, whatever the server, its other children and the signals do, and
\* nothing of one session is left over in the next of the same process.
THEOREM SessionsRelayExactly == SystemSpec => []S!RelayExact
<1>1. SessionInv => S!RelayExact
  BY SameRelay DEF SessionInv, SP!IInv
<1> QED
  BY <1>1, SessionInvariance, PTL

\* Each client is connected to the service whose number it typed, all of it, as
\* far as it fits buff.
THEOREM SessionsConnectRight == SystemSpec => []S!RightService
<1>1. SessionInv => S!RightService
  BY MuxSystemAssumption, SP!RightChoice, SameChoice DEF S!MuxSessionAssumption, SessionInv
<1> QED
  BY <1>1, SessionInvariance, PTL

\* What ends a session alone ends it here too.
SaidHere ==
  \E e \in S!Ends :
    \/ at = S!To[e] /\ ending[e] = "dead"
    \/ /\ ending[e] # "open"
       /\ S!Healthy(S!Peer(e)) => written[S!Peer(e)] = S!Relayed(e, Len(sent[e]))

LEMMA SameSaid == SP!Said => SaidHere
  BY DEF SP!Said, SaidHere, S!Ends, SP!Ends, S!To, SP!To, S!Healthy, SP!Healthy, S!Peer, SP!Peer,
     S!Relayed, SP!Relayed, S!Base, SP!Base

\* A session that relays ends for the reasons it has alone, and no other:
\* neither the server nor the signals end it.
THEOREM SessionsEndAsSaid == SystemSpec => S!EndsWhenSaid
<1>1. ASSUME SessionInv, [SystemNext]_all, S!Relaying, at' = "exited" PROVE SaidHere
  <2>1. SP!Relaying
    BY <1>1 DEF S!Relaying, SP!Relaying, S!Range, SP!Range, S!To, SP!To
  <2>2. at # "exited"
    BY <2>1, MuxSystemAssumption, SP!PcFacts DEF S!MuxSessionAssumption
  <2>3. ~UNCHANGED SP!vars /\ ~\E client : Begins(client)
    BY <1>1, <2>2 DEF Begins, SP!vars
  <2>4. SP!Next
    BY <1>1, <2>3, SystemSteps
  <2> QED
    BY <1>1, <2>1, <2>4, MuxSystemAssumption, SP!ExitSaid, SameSaid
    DEF S!MuxSessionAssumption, SessionInv
<1>2. SessionInv /\ [SystemNext]_all => [S!Relaying /\ at' = "exited" => SaidHere]_(S!vars)
  BY <1>1
<1> QED
  BY <1>2, SessionInvariance, PTL DEF SystemSpec, S!EndsWhenSaid, SaidHere

-----------------------------------------------------------------------------
(* The two halves together: whose socket the session has *)

\* The session that a process runs is with the client that main() had
\* accepted before the fork, or with none.
ForItsClient ==
  child[Watched] \in Live => (ending["client"] = "absent" <=> s_sock[Watched] = NoConn)

\* Where a session runs its own client's socket is open, unless it has no
\* client, and nothing else is; and no other child has that socket.
OwnSocket ==
  Serving =>
    /\ fds[Watched] = IF ending["client"] = "absent" THEN {} ELSE {s_sock[Watched]}
    /\ \A p \in Procs \ {Watched} : s_sock[Watched] \notin fds[p]

\* The server's steps leave the watched child and its socket alone, but for
\* its fork, which hands main()'s socket on.
LEMMA WatchedKept ==
  ASSUME IInv, [Next]_vars
  PROVE  /\ Forked => s_sock'[Watched] = s_sock[Main]
         /\ ~Forked => s_sock'[Watched] = s_sock[Watched]
         /\ child'[Watched] \in Live /\ ~Forked => child[Watched] \in Live
<1> USE MuxServerAssumption, MuxSystemAssumption DEF Live, Forked
<1>1. /\ child \in [Procs -> {"none", "forked", "serving", "zombie"}]
      /\ s_sock \in [All -> Conns \cup {NoConn}] /\ Main \in All /\ Watched \in All
      /\ Watched \in Procs /\ Watched # Main
  BY DEF IInv, Types, All
<1>2. CASE Accept \/ AcceptFails
  BY <1>1, <1>2 DEF Accept, AcceptFails
<1>3. ASSUME NEW p \in Procs, Fork(p)
      PROVE  IF p = Watched THEN Forked /\ s_sock'[Watched] = s_sock[Main]
             ELSE child'[Watched] = child[Watched] /\ s_sock'[Watched] = s_sock[Watched]
  BY <1>1, <1>3 DEF Fork, All
<1>4. ASSUME NEW p \in Procs, Reap(p) \/ ChildStart(p) \/ ChildExit(p)
      PROVE  /\ s_sock'[Watched] = s_sock[Watched]
             /\ \/ child'[Watched] = child[Watched]
                \/ child'[Watched] = "none" /\ child[Watched] = "zombie"
                \/ child'[Watched] = "serving" /\ child[Watched] = "forked"
                \/ child'[Watched] = "zombie" /\ child[Watched] = "serving"
  <2>1. CASE p = Watched
    BY <1>1, <1>4, <2>1 DEF Reap, ChildStart, ChildExit
  <2>2. CASE p # Watched
    BY <1>1, <1>4, <2>2 DEF Reap, ChildStart, ChildExit
  <2> QED
    BY <2>1, <2>2
<1>5. CASE UNCHANGED <<s_sock, child>>
  BY <1>1, <1>5
<1> QED
  BY <1>1, <1>2, <1>3, <1>4, <1>5 DEF Next, vars, Start, StartFails, ForkFails, Close, Deliver,
     ReaperReturns, Connect, SeesClosed

LEMMA ClientKept == IInv /\ SessionInv /\ ForItsClient /\ [SystemNext]_all => ForItsClient'
<1> SUFFICES ASSUME IInv, SessionInv, ForItsClient, [SystemNext]_all, child'[Watched] \in Live
    PROVE  ending'["client"] = "absent" <=> s_sock'[Watched] = NoConn
  BY DEF ForItsClient
<1>1. [SP!Next]_(SP!vars) => (ending'["client"] = "absent" <=> ending["client"] = "absent")
  BY MuxSystemAssumption, SP!GoneStaysGone, SP!NoneVanishes DEF S!MuxSessionAssumption, SessionInv
<1>2. CASE ServerStep
  <2>1. CASE Forked /\ Begins(s_sock[Main])
    BY <1>2, <2>1, WatchedKept DEF ServerStep, Begins
  <2>2. CASE Exits
    BY <2>2 DEF Exits, Live
  <2>3. CASE ~Forked /\ ~Exits /\ UNCHANGED session
    BY <1>2, <2>3, WatchedKept DEF ServerStep, ForItsClient, session
  <2> QED
    BY <1>2, <2>1, <2>2, <2>3 DEF ServerStep
<1>3. CASE SessionStep \/ \E e \in S!Ends : EndStep(e)
  BY <1>1, <1>3, SameSteps DEF SessionStep, EndStep, ForItsClient, vars
<1>4. CASE UNCHANGED all
  BY <1>4 DEF all, vars, session, ForItsClient
<1> QED
  BY <1>2, <1>3, <1>4 DEF SystemNext

\* What a session reads and writes is its own client's, whoever else is
\* served: no other child has that socket.  (main() has its copy until it comes
\* to its close().)
THEOREM SessionsOnOwnSockets == SystemSpec => []OwnSocket
<1>1. SystemInit => ForItsClient
  BY MuxSystemAssumption DEF SystemInit, Init, ForItsClient, Live
<1>2. IInv /\ SessionInv /\ ForItsClient => OwnSocket
  <2> SUFFICES ASSUME IInv, ForItsClient, Serving PROVE OwnSocket
    BY DEF OwnSocket
  <2>1. /\ Watched \in Procs /\ s_sock[Watched] \in Conns \cup {NoConn}
        /\ NoConn \notin Conns /\ Listener \notin Conns /\ Listener # NoConn
        /\ fds \in [All -> SUBSET (Conns \cup {Listener})]
    BY MuxServerAssumption, MuxSystemAssumption DEF IInv, Types, All
  <2>2. fds[Watched] = {s_sock[Watched]} \cap Conns
    BY <2>1 DEF IInv, ChildFds, Serving, Own
  <2>3. ending["client"] = "absent" <=> s_sock[Watched] = NoConn
    BY DEF ForItsClient, Serving, Live
  <2>4. ASSUME NEW p \in Procs \ {Watched} PROVE s_sock[Watched] \notin fds[p]
    <3>1. fds[p] \cap fds[Watched] \subseteq {Listener} /\ fds[p] \subseteq Conns \cup {Listener}
      BY <2>1, <2>4 DEF IInv, Disjoint, All
    <3> QED
      BY <2>1, <2>2, <3>1
  <2> QED
    BY <2>1, <2>2, <2>3, <2>4 DEF OwnSocket
<1>3. SystemSpec => []IInv
  BY ServerImplemented, Invariance, PTL
<1>4. SystemSpec => []ForItsClient
  BY <1>1, <1>3, SessionInvariance, ClientKept, PTL DEF SystemSpec
<1> QED
  BY <1>2, <1>3, <1>4, SessionInvariance, PTL
=============================================================================
