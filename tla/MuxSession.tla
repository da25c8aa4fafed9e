----------------------------- MODULE MuxSession -----------------------------
(***************************************************************************)
(* One session of TCP_Port_Multiplexer.cpp, as the child forked for it     *)
(* runs it: handle_client() shows the menu, read_int() reads the number    *)
(* the client types, connectTCP() dials the service, and redirect() copies *)
(* bytes both ways until an end closes.                                    *)
(*                                                                         *)
(* The other ends of the two sockets and the kernel between them are part  *)
(* of the model.  An end may                                               *)
(*   shut   stop sending and go on reading,                                *)
(*   closed stop both,                                                     *)
(*   reset  abort: the mux's next read() or write() fails, and after that  *)
(*   dead   read() says end of file and write() raises SIGPIPE.            *)
(* A client is absent if accept() failed: the child's socket is -1, and    *)
(* every read() and write() of it fails.                                   *)
(* Bytes that had arrived are still read first.  The menu, and the one     *)
(* line a refused client gets, fit the empty buffer of a fresh socket, so  *)
(* `written' counts relayed bytes only.                                    *)
(***************************************************************************)
EXTENDS Integers, Sequences, SequencesExt

CONSTANTS
  NServices,    \* services.size()
  BufSize,      \* sizeof(buff) in handle_client()
  Chunk,        \* what one read() of forward_msg_to() asks for
  Cap,          \* what a socket takes from write() before its end reads it
  IdxModulus,   \* 2^32: unsigned idx
  LongMax,      \* 2^63 - 1: where atoi() saturates
  Typed,        \* the characters the client may send
  ServiceBytes, \* the bytes the service may send
  MaxTyped,     \* bound: bytes the client sends
  MaxServed,    \* bound: bytes the service sends
  SelectFaults  \* whether select() may fail

NoService == -1
NUL == "NUL"
DigitOf == <<"0", "1", "2", "3", "4", "5", "6", "7", "8", "9">>
Digits  == Range(DigitOf)
DigitVal(c) == CHOOSE n \in 0..9 : DigitOf[n + 1] = c

ASSUME MuxSessionAssumption ==
  /\ NServices \in 1..10 /\ BufSize \in Nat /\ BufSize >= 3
  /\ Chunk \in Nat \ {0} /\ Cap \in Nat \ {0}
  /\ IdxModulus \in Nat /\ NServices < IdxModulus
  /\ LongMax \in Nat /\ (LongMax + 1) % IdxModulus = 0
  /\ MaxTyped \in Nat /\ MaxServed \in Nat /\ SelectFaults \in BOOLEAN

Ends == {"client", "service"}
Peer(e) == CHOOSE f \in Ends : f # e
To == [client |-> "to client", service |-> "to service"]

VARIABLES
  pc,      \* where the child stands
  i,       \* the index of the menu loop, then of read_int()'s
  buff,    \* handle_client()'s buff: first the menu lines, then the number
  idx,     \* the number chosen
  dialed,  \* history: the service connectTCP() was called for
  sel,     \* history: how many bytes of the client read_int() took
  ready,   \* read_fds as select() left it
  out,     \* what forward_msg_to() has read and not yet written
  sent,    \* per end: what it sent towards the mux
  taken,   \* per end: how much of it the mux has read
  written, \* per end: what the mux wrote to it
  drained, \* per end: how much of that it has read
  ending   \* per end: how it ended, if it did

choosing == <<i, buff, idx, dialed, sel>>
relaying == <<ready, out>>
input    == <<sent, taken>>
output   == <<written, drained>>
vars == <<pc, choosing, relaying, input, output, ending>>

Init ==
  /\ pc = "menu"
  /\ i = 0
  /\ buff = [k \in 0..BufSize - 1 |-> NUL]
  /\ idx = 0 /\ dialed = NoService /\ sel = 0
  /\ ready = {} /\ out = <<>>
  /\ sent = [e \in Ends |-> <<>>] /\ taken = [e \in Ends |-> 0]
  /\ written = [e \in Ends |-> <<>>] /\ drained = [e \in Ends |-> 0]
  /\ \E there \in {"open", "absent"} : ending = [client |-> there, service |-> "open"]

-----------------------------------------------------------------------------
(* What read() does *)

Data(e)   == taken[e] < Len(sent[e])
Eof(e)    == ~Data(e) /\ ending[e] \in {"shut", "closed", "dead"}
Failed(e) == ~Data(e) /\ ending[e] \in {"reset", "absent"}

Healthy(e) == ending[e] \in {"open", "shut", "closed"}

\* The error of a reset connection is reported once.
Reported(e) == ending' = [ending EXCEPT ![e] = IF @ = "reset" THEN "dead" ELSE @]

-----------------------------------------------------------------------------
(* handle_client(): the menu *)

\* snprintf() of menu line k; "]" stands for all that follows the number.
Line(k) == [j \in 0..BufSize - 1 |->
              CASE j = BufSize - 1 -> NUL
                [] j = 0 -> "["
                [] j = 1 -> DigitOf[k + 1]
                [] OTHER -> "]"]

\* A line of the menu, and last the prompt.
Menu ==
  /\ pc = "menu"
  /\ ending["client"] # "dead"
  /\ i' = i + 1
  /\ buff' = IF i < NServices THEN Line(i) ELSE buff
  /\ pc' = IF i < NServices THEN "menu" ELSE "first"
  /\ Reported("client")
  /\ UNCHANGED <<idx, dialed, sel, relaying, input, output>>

MenuKilled ==
  /\ pc = "menu"
  /\ ending["client"] = "dead"
  /\ pc' = "exited"
  /\ UNCHANGED <<choosing, relaying, input, output, ending>>

-----------------------------------------------------------------------------
(* read_int().  Its `count' is unsigned: the -1 of a failed read() is neither *)
(* 0 nor <= 0, and buff keeps what it held.                                   *)

NextByte == sent["client"][taken["client"] + 1]
Take     == taken' = [taken EXCEPT !["client"] = @ + 1] /\ UNCHANGED sent

ReadFirst ==
  /\ pc = "first"
  /\ \/ Data("client") /\ Take /\ buff' = [buff EXCEPT ![0] = NextByte] /\ UNCHANGED ending
     \/ Failed("client") /\ Reported("client") /\ UNCHANGED <<buff, input>>
  /\ i' = 1
  /\ pc' = "more"
  /\ UNCHANGED <<idx, dialed, sel, relaying, output>>

\* Read nothing: return -1.
FirstEof ==
  /\ pc = "first"
  /\ Eof("client")
  /\ idx' = IdxModulus - 1
  /\ pc' = "decide"
  /\ UNCHANGED <<i, buff, dialed, sel, relaying, input, output, ending>>

Mut_InLoop == i < BufSize - 2

\* The condition of the for loop, which keeps a place for the terminator.
InLoop == i < BufSize - 1

\* One turn of it; its break leaves i where it is.
ReadMore ==
  /\ pc = "more"
  /\ InLoop
  /\ \/ Data("client") /\ Take /\ buff' = [buff EXCEPT ![i] = NextByte] /\ UNCHANGED ending
     \/ Failed("client") /\ Reported("client") /\ UNCHANGED <<buff, input>>
  /\ IF buff'[i] \in Digits THEN i' = i + 1 /\ UNCHANGED pc
                            ELSE pc' = "atoi" /\ UNCHANGED i
  /\ UNCHANGED <<idx, dialed, sel, relaying, output>>

LoopEnds ==
  /\ pc = "more"
  /\ ~InLoop \/ Eof("client")
  /\ pc' = "atoi"
  /\ UNCHANGED <<choosing, relaying, input, output, ending>>

\* What isspace() holds of; names stand for those that have no glyph.
Blanks == {" ", "TAB", "LF", "VT", "FF", "CR"}

\* atoi() of the string b, converted to unsigned: one sign or blank, which only
\* the first byte read can be, then digits up to the first other character.
Atoi(b) ==
  LET start == IF b[0] \in Digits THEN 0 ELSE 1
      end == CHOOSE n \in start..BufSize - 1 :
               b[n] \notin Digits /\ \A k \in start..n - 1 : b[k] \in Digits
      upTo[k \in start..end] == IF k = start THEN 0 ELSE 10 * upTo[k - 1] + DigitVal(b[k - 1])
  IN CASE b[0] \in Digits \cup Blanks \cup {"+"} ->
            (IF upTo[end] > LongMax THEN LongMax ELSE upTo[end]) % IdxModulus
       [] b[0] = "-" ->
            (0 - (IF upTo[end] > LongMax THEN LongMax + 1 ELSE upTo[end])) % IdxModulus
       [] OTHER -> 0

ReadIntReturns ==
  /\ pc = "atoi"
  /\ buff' = [buff EXCEPT ![i] = NUL]
  /\ idx' = Atoi(buff')
  /\ sel' = taken["client"]
  /\ pc' = "decide"
  /\ UNCHANGED <<i, dialed, relaying, input, output, ending>>

-----------------------------------------------------------------------------
(* handle_client(): the choice *)

\* "Wrong index", return and exit(0).
WrongIndex ==
  /\ pc = "decide"
  /\ idx >= NServices
  /\ pc' = "exited"
  /\ UNCHANGED <<choosing, relaying, input, output, ending>>

Mut_Connect == pc = "decide" /\ idx <= NServices /\ dialed' = idx /\ pc' = "select"
  /\ UNCHANGED <<i, buff, idx, sel, relaying, input, output, ending>>

Connect ==
  /\ pc = "decide"
  /\ idx < NServices
  /\ dialed' = idx
  /\ pc' = "select"
  /\ UNCHANGED <<i, buff, idx, sel, relaying, input, output, ending>>

\* Nobody listens on the service's port: say so, return and exit(0).
ConnectFails ==
  /\ pc = "decide"
  /\ idx < NServices
  /\ dialed' = idx
  /\ pc' = "exited"
  /\ UNCHANGED <<i, buff, idx, sel, relaying, input, output, ending>>

-----------------------------------------------------------------------------
(* redirect(): the client's socket is looked at first, pc = "client", then   *)
(* the service's, and in between forward_msg_to() writes, pc = To[e].       *)

After(e) == IF e = "client" THEN "service" ELSE "select"

\* What select() finds: the bit that FD_SET(-1) sets is none that it looks at.
Readable(e) == Data(e) \/ ending[e] \notin {"open", "absent"}

Mut_Select == pc = "select"
  /\ ready' = {e \in (IF ready = {} THEN Ends ELSE ready) : Readable(e)}
  /\ ready' # {} /\ pc' = "client"
  /\ UNCHANGED <<choosing, out, input, output, ending>>

Select ==
  /\ pc = "select"
  /\ ready' = {e \in Ends : Readable(e)}
  /\ ready' # {}
  /\ pc' = "client"
  /\ UNCHANGED <<choosing, out, input, output, ending>>

\* Only logged: read_fds still names both sockets, and both get read.
SelectFails ==
  /\ SelectFaults
  /\ pc = "select"
  /\ ready' = Ends
  /\ pc' = "client"
  /\ UNCHANGED <<choosing, out, input, output, ending>>

\* FD_SET(-1) is undefined; a fortified build aborts.
SelectAborts ==
  /\ pc = "select"
  /\ ending["client"] = "absent"
  /\ pc' = "exited"
  /\ UNCHANGED <<choosing, relaying, input, output, ending>>

NotReady(e) ==
  /\ pc = e
  /\ e \notin ready
  /\ pc' = After(e)
  /\ UNCHANGED <<choosing, relaying, input, output, ending>>

\* forward_msg_to(): read up to Chunk bytes; it blocks while there are none.
Forward(e) ==
  /\ pc = e
  /\ e \in ready
  /\ Data(e)
  /\ LET n == IF taken[e] + Chunk < Len(sent[e]) THEN taken[e] + Chunk ELSE Len(sent[e])
     IN  /\ out' = SubSeq(sent[e], taken[e] + 1, n)
         /\ taken' = [taken EXCEPT ![e] = n]
  /\ pc' = To[Peer(e)]
  /\ UNCHANGED <<choosing, ready, sent, output, ending>>

Mut_ForwardEnds(e) == pc = e /\ e \in ready /\ ending[e] # "open" /\ Reported(e)
  /\ pc' = "exited"
  /\ UNCHANGED <<choosing, relaying, input, output>>

Mut_IgnoreEnd(e) == pc = e /\ e \in ready /\ (Eof(e) \/ Failed(e)) /\ Reported(e)
  /\ pc' = After(e)
  /\ UNCHANGED <<choosing, relaying, input, output>>

\* count <= 0: exit(0).
ForwardEnds(e) ==
  /\ pc = e
  /\ e \in ready
  /\ Eof(e) \/ Failed(e)
  /\ Reported(e)
  /\ pc' = "exited"
  /\ UNCHANGED <<choosing, relaying, input, output>>

Mut_Write(e) == pc = To[e] /\ Healthy(e)
  /\ Len(written[e]) - drained[e] < Cap
  /\ written' = [written EXCEPT ![e] = Append(@, Head(out))] /\ out' = <<>>
  /\ pc' = After(Peer(e))
  /\ UNCHANGED <<choosing, ready, input, drained, ending>>

\* write() copies byte by byte, blocks while the socket is full, and returns
\* when it has copied all.
Write(e) ==
  /\ pc = To[e]
  /\ Healthy(e)
  /\ Len(written[e]) - drained[e] < Cap
  /\ written' = [written EXCEPT ![e] = Append(@, Head(out))]
  /\ out' = Tail(out)
  /\ pc' = IF Tail(out) = <<>> THEN After(Peer(e)) ELSE pc
  /\ UNCHANGED <<choosing, ready, input, drained, ending>>

\* write() reports the error, which nobody looks at.
WriteFails(e) ==
  /\ pc = To[e]
  /\ ending[e] \in {"reset", "absent"}
  /\ Reported(e)
  /\ out' = <<>>
  /\ pc' = After(Peer(e))
  /\ UNCHANGED <<choosing, ready, input, output>>

\* SIGPIPE.
WriteKilled(e) ==
  /\ pc = To[e]
  /\ ending[e] = "dead"
  /\ pc' = "exited"
  /\ UNCHANGED <<choosing, relaying, input, output, ending>>

-----------------------------------------------------------------------------
(* The client, the service and the kernel *)

Relaying == pc \in {"select", "client", "service"} \cup Range(To)

\* The client is there from the start, the service once it is connected.
There(e) == pc # "exited" /\ (e = "client" \/ Relaying)

Send(e) ==
  /\ There(e)
  /\ ending[e] = "open"
  /\ Len(sent[e]) < IF e = "client" THEN MaxTyped ELSE MaxServed
  /\ \E c \in IF e = "client" THEN Typed ELSE ServiceBytes :
       sent' = [sent EXCEPT ![e] = Append(@, c)]
  /\ UNCHANGED <<pc, choosing, relaying, taken, output, ending>>

Drain(e) ==
  /\ ending[e] \in {"open", "shut"}
  /\ drained[e] < Len(written[e])
  /\ drained' = [drained EXCEPT ![e] = @ + 1]
  /\ UNCHANGED <<pc, choosing, relaying, input, written, ending>>

End(e) ==
  /\ There(e)
  /\ \/ ending[e] = "open" /\ ending' = [ending EXCEPT ![e] = "shut"]
     \/ ending[e] \in {"open", "shut"} /\ ending' = [ending EXCEPT ![e] = "closed"]
     \/ ending[e] \in {"open", "shut", "closed"} /\ ending' = [ending EXCEPT ![e] = "reset"]
  /\ UNCHANGED <<pc, choosing, relaying, input, output>>

\* What comes for a closed end is answered with a reset.
Refuse(e) ==
  /\ ending[e] = "closed"
  /\ drained[e] < Len(written[e])
  /\ ending' = [ending EXCEPT ![e] = "reset"]
  /\ UNCHANGED <<pc, choosing, relaying, input, output>>

-----------------------------------------------------------------------------

Step ==
  \/ Menu \/ MenuKilled
  \/ ReadFirst \/ FirstEof \/ ReadMore \/ LoopEnds \/ ReadIntReturns
  \/ WrongIndex \/ Connect \/ ConnectFails
  \/ Select \/ SelectFails \/ SelectAborts
  \/ \E e \in Ends : \/ NotReady(e) \/ Forward(e) \/ ForwardEnds(e)
                     \/ Write(e) \/ WriteFails(e) \/ WriteKilled(e)

Next ==
  \/ Step
  \/ \E e \in Ends : Send(e) \/ Drain(e) \/ End(e) \/ Refuse(e)

\* The child is scheduled, an end that can read reads what comes, and the
\* kernel answers for one that closed.  Nobody has to send or to end.
Fairness ==
  /\ WF_vars(Step)
  /\ \A e \in Ends : WF_vars(Drain(e)) /\ WF_vars(Refuse(e))

Spec == Init /\ [][Next]_vars /\ Fairness

-----------------------------------------------------------------------------

\* Every variable has its type; in particular services[i] of the menu,
\* services[idx] and the buff[i] that read_int() writes are there whenever they
\* are evaluated.
TypeOK ==
  /\ pc \in {"menu", "first", "more", "atoi", "decide", "select", "exited"}
           \cup Ends \cup Range(To)
  /\ i \in CASE pc = "menu" -> 0..NServices
            [] pc \in {"more", "atoi"} -> 1..BufSize - 1
            [] OTHER -> Nat
  /\ buff \in [0..BufSize - 1 -> Typed \cup Digits \cup {"[", "]", NUL}]
  /\ idx \in 0..IdxModulus - 1
  /\ dialed \in 0..NServices - 1 \cup {NoService}
  /\ sel \in Nat
  /\ ready \subseteq Ends
  /\ out \in Seq(Typed \cup ServiceBytes)
  /\ \A e \in Ends : sent[e] \in Seq(Typed \cup ServiceBytes) /\ taken[e] \in 0..Len(sent[e])
  /\ \A e \in Ends : written[e] \in Seq(Typed \cup ServiceBytes)
                     /\ Len(written[e]) - drained[e] \in 0..Cap
  /\ \A e \in Ends : ending[e] \in {"open", "shut", "closed", "reset", "dead", "absent"}

\* The number at the head of a text, by place value.
Number(text, digits) ==
  LET tenTo[k \in 0..digits] == IF k = 0 THEN 1 ELSE 10 * tenTo[k - 1]
      upTo[k \in 0..digits] ==
        IF k = 0 THEN 0 ELSE upTo[k - 1] + DigitVal(text[k]) * tenTo[digits - k]
  IN  upTo[digits]

\* A client that types a number is connected to the service of that number
\* and loses at most the one character after it, whenever its bytes arrive and
\* whatever is left over in buff from the menu.  The number is all the digits
\* the client sends before anything else, read or not; it has to fit buff with
\* its terminator and an unsigned int, and the connection must not be reset
\* while it is read.
RightService ==
  LET text == sent["client"]
      digits == CHOOSE n \in 0..Len(text) :
                  /\ \A k \in 1..n : text[k] \in Digits
                  /\ n < Len(text) => text[n + 1] \notin Digits
  IN  /\ dialed # NoService /\ ending["client"] # "dead"
      /\ digits \in 1..BufSize - 1 /\ Number(text, digits) < IdxModulus
      => /\ dialed = Number(text, digits)
         /\ sel <= digits + 1

\* The first byte of e that is relayed comes after those read_int() took.
Base(e) == IF e = "client" THEN sel ELSE 0
Relayed(e, n) == SubSeq(sent[e], Base(e) + 1, n)

\* What the mux has written to an end and what it is about to write there are
\* together exactly what it has read from the other end, in order, however
\* the reads, the blocked writes and the endings interleave; only an end
\* that was reset may have missed bytes, and even it got them in order.  For
\* a client that is absent nothing reaches the service.
RelayExact ==
  dialed # NoService =>
    \A e \in Ends :
      LET d == Peer(e) IN
      IF Healthy(d)
      THEN written[d] \o (IF pc = To[d] THEN out ELSE <<>>) = Relayed(e, taken[e])
      ELSE IsPrefix(written[d], Relayed(e, taken[e]))

\* A session that relays ends only by SIGPIPE on an end that was reset, or
\* when an end has ended, or is absent, and each of its bytes was written to
\* the other.
EndsWhenSaid ==
  [][Relaying /\ pc' = "exited" =>
       \E e \in Ends :
         \/ pc = To[e] /\ ending[e] = "dead"
         \/ /\ ending[e] # "open"
            /\ Healthy(Peer(e)) => written[Peer(e)] = Relayed(e, Len(sent[e]))]_vars

\* Each byte is relayed as long as both ends read what they are sent and
\* neither ends: no direction starves, and redirect() never waits in read()
\* for one end while the other has sent something.
Delivered ==
  \A e \in Ends : \A n \in 1..(IF e = "client" THEN MaxTyped - 1 ELSE MaxServed) :
    Relaying /\ Len(sent[e]) - Base(e) >= n
      ~> pc = "exited" \/ Len(written[Peer(e)]) >= n

\* read_int() says of itself that it returns -1 if it read nothing, so that
\* nothing is dialed for a client that typed nothing.
NothingReadNothingDialed == dialed # NoService => taken["client"] > 0
=============================================================================
