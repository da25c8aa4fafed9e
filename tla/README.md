# Coding-for-Fun in TLA+

The repository is a collection of small programs. This directory holds TLA+
models of those that have logic of their own, the TLC configurations that check
them on small instances, and proofs, checked by TLAPS, of the properties that
hold for every value of the constants. `PROJECT.json` maps every definition to
the lines it models, and lists the runs, the mutants that show that each
property can fail, the hazards and the findings.

    tlc -config MCMuxServer.cfg MCMuxServer.tla     # one run
    tlapm MuxSystemProofs.tla                       # one proof

## 1. The system and its parts

The programs do not talk to each other; inside them, these parts do. `MuxSystem`
composes the two halves of the multiplexer, and `HashTable` is built on `HList`.

| Part | State | Operations | Talks to | What is hard |
|---|---|---|---|---|
| Port multiplexer, server process (`TCP_Port_Multiplexer.cpp`: `main`, `passiveTCP`, `child_reaper`) | the passive socket, `s_sock`, the open descriptors of every process, the children | accept, fork, close; SIGCHLD handler | kernel (backlog, signals), its children | handler against loop, merged signals, descriptors that `fork()` duplicates, failing `accept()` and `fork()` |
| Port multiplexer, session (`handle_client`, `read_int`, `connectTCP`, `redirect`, `forward_msg_to`) | `buff`, the index, the two sockets, `read_fds` | menu, reading a number byte by byte, dialing, relaying | the client and the service, through the kernel's buffers | partial writes, half closes, resets, SIGPIPE, stale buffer, signed and unsigned mixed |
| `list.h`, hlist | `first` of heads, `next` and `pprev` of nodes | add, delete, move, test, iterate | used by the hash table | the order of pointer updates; nodes that are deleted without their list being known |
| `list.h`, list_head | circular `next` and `prev` of heads and nodes | add, delete, replace, swap, move, rotate, cut, splice, questions, loops that are safe against removal, a test without the lock | nobody in this repository | neighbours, ends, empty lists and the head itself as arguments; a loop whose body takes its entry away or drops the lock; stores that another CPU sees one by one |
| `simple_ht` | buckets of hlists, entries, ownership of keys and values | create, insert, lookup, remove, destroy, bucket_stats | hlist, the hash callback, malloc | use after free, ownership, malloc failure, collisions, the size of the array that is cleared |
| Hash benchmark (`main.cpp`, Makefile) | a generator, timings | a fixed series of calls | simple_ht, std::unordered_map | none of its own |
| `jhash.h` | none | hash of bytes, of words; mix, final | simple_ht, as callback | keys of every length, the last block, bytes put into words, words that overflow |
| Countdown timer | `remain`, `target`, `cur`, `is_last_min` | one turn of the loop | the wall clock, `timeout /t 2` | a clock known by minute and second only; sleeps of any length |
| Prefix and postfix notation | the operator stack, the result | scan right to left, then left to right | standard input | grouping of equal priorities in both directions, unbalanced lines |
| Positional fuzzy search | the array of lines, the keyword typed so far | load, type a character, match, score, sort | a file, standard input | growth of the array, greedy matching, full input |
| Format 8.3 converter, random-number hash, scripts and notebook | none that lasts | one call each | Windows commands, random numbers | nothing over time |

What makes each part correct, in a sentence:

* server: sessions are isolated, every client that nobody serves is let go, no
  zombie stays, and the port goes on being served;
* session: the number typed is the service dialed, and bytes are relayed
  exactly, in order, until an end ends, and only until then;
* hlist and list_head: the links in both directions agree, the lists are
  sequences, and each call does to them what its comment says;
* simple_ht: it is a map, it never touches freed memory, every value handed to it
  is freed exactly once, and so is every key object, but for one that is handed
  over for a key that is there already (see 3.);
* jhash: a key has one hash however it is given, and mixing loses nothing;
* countdown: it goes off at its time, not before and not long after;
* notation: no character is lost, and the output is the notation of the
  expression with operators grouped to the left;
* fuzzy search: the lines shown are those that match, the best one last.

## 2. Modules

| Module | What it is |
|---|---|
| `MuxServer` | the server process, its children's lives, signals and descriptors |
| `MuxSession` | one session, both ends and the kernel's buffers between them |
| `MuxSessionProofs` | what it relays, when it ends and what it dials, for any services, buffers and amounts of data |
| `MuxSystem` | the server, and the session of one of its children, which is looked into |
| `MuxSystemProofs` | the server's invariants, for any clients, process ids and backlog; and that what `MuxSessionProofs` proves of a session holds of each session in the whole |
| `HList` | the hlist operations, as operators on a memory of pointers (no state) |
| `HLists` | hlist operations in every order that their contract allows |
| `ListHead` | the list_head operations, as operators on a memory of pointers (no state) |
| `ListHeads` | list_head operations in every order, loops with their bodies, and `list_empty_careful()` on another CPU |
| `Deques` | abstract: sequences of nodes and what each call does to them; `HLists` implements it (`AreLists`), and so does `ListHeads` (`AreDeques`) |
| `HListsProofs` | the links, and that they hold the sequences of `Deques`, for any heads and nodes |
| `ListHeadsProofs` | the same for the circular lists, their loops and the test without the lock |
| `HashTable` | simple_ht with its allocator and its callers; extends `HList` |
| `KeyValueMap` | abstract: what `simple_ht.h` promises; `HashTable` implements it (`IsMap`) |
| `HashTableProofs` | all properties of the table, for any size, hash, keys, entries and objects |
| `JHash`, `JHashProofs` | the hash functions on words of any width; that mixing is reversible, and bytes and words of a key hash alike |
| `Countdown` | the timer's loop and the wall clock |
| `Notation` | the two passes over a line, and what a line means |
| `FuzzySearch` | loading, typing, matching and sorting |
| `ConsoleProofs` | the properties of the last three, for any lines, hours, sleeps and keywords |
| `NatRecursion` | induction over a set of numbers, and recursion as the existence of a function: what the proofs about walks and numbers rest on |
| `MC*` | the instances for TLC |

Operators whose name begins with `Mut_` are no part of a model. Each is what a
plausible bug would make of the definition after it, and replaces that
definition to show that a property notices.

### MuxServer

`pc` is the place of `main()`: `Start`/`StartFails` are `signal()` and
`passiveTCP()`, then `Accept` or `AcceptFails`, `Fork` or `ForkFails`, and
`Close`, for ever. A process is the set of descriptors it has open and its copy
of the variable `s_sock`; `Fork` copies both, which is the reason for the two
`close()` calls in the code. Clients and the kernel's queue are the environment:
`Connect` completes a connection while there is room, which in Linux is one more
than the backlog `listen()` is given. `Deliver`, `Reap` and `ReaperReturns` are
`child_reaper()`, which runs on top of the loop: while `reaping` holds, `main()`
makes no step. SIGCHLD is a bit, as signals do not queue. A child is forked,
closes `m_sock` (`ChildStart`), serves and exits; what it does in between is
`MuxSession`. A client sees its connection closed when no process has it open
(`SeesClosed`), after which its id stands for another client.

`accept()` that fails returns -1, which nothing looks at: the loop forks a
child that has no client (`AcceptFails` then `Fork` with `s_sock = NoConn`).
The properties are about that child too, and `MuxSession` says what it does.

### MuxSession

The step relation follows the calls in order: `Menu`, `ReadFirst`/`ReadMore`
(`read_int()`, one byte at a time), `ReadIntReturns` (the terminator and
`atoi()`), `WrongIndex`/`Connect`/`ConnectFails`, then `Select`, and for each
socket in turn `NotReady`, `Forward` or `ForwardEnds`, with `Write` once for
each byte that fits. `Atoi` saturates at `LongMax` and is reduced modulo
`IdxModulus`, as the conversion of a `long` to `int` to `unsigned` does, and
`count` is unsigned, so that a failed `read()` passes for a byte. `InLoop` is the
condition of the loop. `atoi()` skips whatever `isspace()` holds of (`Blanks`). The ends may stop sending,
close, or abort (`End`); the kernel answers what is sent to a closed end with a
reset (`Refuse`), of which one call hears and by which the next is killed.
`dialed` and `sel` are history variables.

A client may be `absent`: the session of an `accept()` that failed has -1 for
its socket. Its `write()` and `read()` fail, which the code does not notice, so
that it dials what `read_int()` makes of the untouched `buff`; `select()` does not look
at the bit that `FD_SET(-1)` sets, or the run-time check of a fortified build stops
the process there (`SelectAborts`). `RelayExact` and `EndsWhenSaid` hold for it too: no
byte reaches the service in such a session.

### MuxSystem

The state of the two modules side by side, for one process id, `Watched`. A
session begins when `main()` forks that process (`Begins`), with the client
that is in the child's copy of `s_sock`, or none; it runs while the process is
serving, and a process exits when and only when its session has called `exit()`
or was killed. The other processes are as `MuxServer` has them. The fairness is
that of the parts, with one difference: in `MuxServer` no child ever has to exit,
and here the session decides. `Released` needs both parts: an end that closes must make
the session stop, the exit must be noticed by the signal handler, the
id must become free and no copy of the client's socket may remain, neither the
child's nor the one `main()` has until it comes to its `close()`.

### HList, HLists, ListHead, ListHeads, HashTable

A slot is a place that holds a pointer to a node: `First(h)` or `NextOf(n)`.
`pprev` is a slot. That makes every inline function of the header two function
updates, in which an update through `pprev` goes to wherever it points, right
or wrong. `HLists` knows which nodes are on a list but not on which; the list a
slot leads to is computed (`Items`), never stored. The history variable `last`
is the call and its arguments, for which `Deques!Effect` says what must become of
the lists, whichever pointers were written.

`ListHeads` is the same for the circular lists of `ListHead`. Its guards are what a
caller has to know and the functions do not look at: which heads are
initialised and not left behind by a splice (`live`), and which nodes are on a list
(`listed`). A node that was deleted with `list_del_init()` may be deleted again;
one whose pointers are poisoned may not. `list_cut_position()` on an empty list
leaves the head it is given as it was, initialised or not; `list_cut_before()`
initialises it. `AskList` and `AskEntry` are the functions that only read, whose
answers `Deques!Answered` fixes.

`loop` is the state of a `list_for_each_safe()` or one of its variants: `dir` is the
direction, and `LoopStart` begins at the head, at an entry (`_from`) or behind one
(`_continue`). Its body may delete its entry or move it to the other list. It
may also drop the lock (`DropLock`), whereupon others add, delete and move other
entries, but not the one that is pinned, and `ResetNext` is
`list_safe_reset_next()`. That is what the comment on this macro says it is for; the
repository has no loop that does it. `rest` is history, and `Ahead` what it is set to.

`others` is the memory as another CPU sees it. All calls are made under a
lock, whose release shows everything, but for `DelInit`: the stores of
`list_del_init()` and `list_del_init_careful()` arrive one by one (`Arrive`), in
an order that `InOrder` limits, while `TestNext` and `TestPrev` are the two reads of
`list_empty_careful()`. `smp_store_release()` and `smp_load_acquire()` are
barriers for the compiler in this header, so that the CPU is assumed to keep
its stores and its loads in order, as x86 does; a CPU that does not is not modelled.

`HashTable` splits a call into turns of its loop. Each turn reads memory as it
is, so that a cursor into a freed entry shows (`Wild` is what freed memory
holds). `owner` says who has to free a key or value object. `InsertCall`
includes the caller's allocation; `InsertFails` is `malloc()` returning NULL,
after which the caller frees what it kept. `ret` is the last call, what it was
called with and what it answered, with the value of an insert, so that
`KeyValueMap` fixes what the key stands for afterwards. `BucketStats` is one action, because it
changes the caller's array only; `Cleared` is what `memset()` leaves of it.

### JHash, Countdown, Notation, FuzzySearch

`JHash`: a state is a key being typed, byte by byte, and an initval; all else is
operators. Words have `Bits` bits and four bytes of base `ByteBase`; `Plus`,
`Minus` and `rol32` are what the C operators do to them. `Round` is one line of
`__jhash_mix()`. `Hashed` is the loop and the switch, which `jhash()` and
`jhash2()` share, and `WordAt` the bytes of a word, of which those behind the
key are not added. `Unmix` is no part of the code: it is what reversible means.

`Countdown`: one action, `Turn`, is one turn of `main()`'s loop: a sleep of
some seconds, `remain.sec -= 2` or a new look at the clock, the flag, and the
test for the end. `duration`, `elapsed` and `overrun`, what sleeps took beyond
the two seconds they were asked for, are history variables. `timer` says whether
the loop has been left.

`Notation`: `preorder()` and `postorder()` differ in the direction of the scan,
the side at which results are added, and the test by which an operator makes
the top of the stack yield; one set of actions stands for both. Stack and
result hold places of the line, so that two equal characters are not confused.
`Undefined` is `top()` of an empty stack, or a priority that has no value.

`FuzzySearch`: `phase` is loading, typing, or the end; `LoadLine` is one turn of
`list_construct()`, `Type` one of `main()`: the character, the match and score of every line, and a `qsort()` that
leaves the order of equals open.

## 3. What the runs show

| Run | Question | States |
|---|---|---|
| `mux_server` | Are sessions isolated, clients let go, children collected and the port served, whatever fails and whenever signals come? | 116,522 |
| `mux_choice` | Is the service dialed the one typed, and is every byte relayed exactly, for all that a client can type, all ways of ending, and no client at all? | 1,380,696 |
| `mux_system` | Does every byte arrive, and does an end that ends free the process, its id and its client, whatever `main()` and the handler are at? | 35,709 |
| `mux_unread` | (violated) Does `read_int()` return -1 when it reads nothing? | |
| `hash_table` | Is the table a map, with sound lists, safe cursors, and ownership; is no key left behind? | 24,865 |
| `jhash` | Has a key one hash, as bytes and as words; can mixing be undone? | 262,142 |
| `bucket_stats` | (violated) Do the statistics count, whatever the array held? | |
| `countdown` | When does the timer go off, and what does it show, also after sleeps that took too long? | 398,272 |
| `hlists` | Are the lists sequences, and does every operation do to them what its name says? | 10,289 |
| `list_heads` | The same for the circular lists, and their questions; is a loop that is safe against removal at every entry; is the test without the lock never early? | 143,666 |
| `notation` | Is the stack ordered, is nothing lost, is the output right? | 94,113 |
| `fuzzy_search` | Does the array hold, and are the right lines shown in the right order? | 99,688 |

Bounds, and why they suffice:

* `mux_server`: three clients, two process ids, a backlog of one, so that two are
  queued. Two ids let two
  sessions overlap, two children die under one signal, and `fork()` meet a full
  table; the third client waits in the backlog meanwhile, and the backlog fills.
* `mux_choice`: two services; the characters `0`, `1`, `2` and `-`, so that the
  first, the last and the first invalid index and a sign can be typed; at most
  four of them, in a `buff` of three that two fill, so that numbers are typed which
  just fit and which do not; an `int` of two bits, which two digits overflow; sockets that take one byte, so that a chunk of two is always
  cut. Every ending of either end is possible at every point.
* `mux_system`: one child, one client, one service: the question is what the
  parts do to each other. One character per end suffices, as it is about
  progress; the client types up to three, which is a number, the character
  that ends it, and one to relay. The same client and id are used again and again.
* `hlists`: four nodes on two lists: first, middle and last are different nodes,
  while another is free. Moves have an empty and a full list.
* `list_heads`: three nodes on two lists: a node between two others, neighbours
  in both orders, a list of one, an empty one, sections of every length, cuts at
  every place, and two lists to join; the entry of a loop and both its neighbours.
  One deletion at a time is seen by other CPUs. Nodes are symmetric and so are heads: the
  model names none, and no liveness is checked.
* `hash_table`: three keys that collide, three entries, one value more than
  keys, so that a replacement is possible in a full table; a requested size of three,
  which is rounded down. Entries and objects are symmetric: the model never names one,
  and no liveness is checked.
* `jhash`: bytes of one bit, words of four bits, keys up to sixteen bytes: every
  length up to one block and every one of a second block that is begun, and every state
  of three words. Words whose rotations are taken modulo four bits differ
  from the real ones in what they mix, not in what is asked.
* `countdown`: hours of four minutes of eight seconds keep the two carries and the
  wrap of the hour apart; every second of the hour is a start, every duration
  below the hour is asked for. Sleeps take one to four seconds, and all of them
  together at most three too many, which is enough to miss the target's
  minute (see below). `MaxOverrun` is the only bound; a run of the timer ends by
  itself. A minute has an even number of seconds (`CountdownAssumption`): with an odd
  one, looks at the clock, which are two seconds apart, could step over the last
  second of the target's minute, and this would be another way to be hours late.
* `notation`: every line of up to five of the six kinds of characters, and every
  well-formed line of up to eleven, where nested braces and chains of
  equal operators next to braces occur.
* `fuzzy_search`: files of up to three lines and an array that starts with one
  cell, so that it grows twice; a line longer than `buf`; keywords up to a full `input`.

### Fairness

`mux_server`: the scheduler runs `main()`, a handler and a fresh child (weak
fairness). Strong fairness of `Accept` says that `accept()` does not fail for
ever while a connection waits. No child ever has to exit and no client has to come.
`mux_system`: besides, the session is scheduled, an end that reads goes on
reading, and the kernel answers for one that has closed; nobody has to send or
end. Two ends that both stop reading until they have written block each other
and the relay: the code is single-threaded, and this assumption is what excludes
it. `select()` does not fail there: a failure that repeats makes the loop read a
silent socket, and wait there while the other has data. The other runs are
about safety only and assume nothing: that the timer goes off is `EndsPromptly`,
which bounds the time.

### What the code does otherwise than it says

* `read_int()` (`TCP_Port_Multiplexer.cpp:41`) says it returns -1 if it read
  nothing. `count` is unsigned, and a failed `read()` goes unnoticed; `buff` still
  starts with the `[` of the menu, and service 0 is dialed (`mux_unread`).
* `simple_ht.h:23` says that ownership of the key goes to the table. If an equal
  key is there, nobody stores or frees the new one, and the benchmark never
  inserts a key twice. `KeysKept` states that this is the only way in which a
  key object is left behind.
* `simple_ht_bucket_stats()` clears `nb_stats` bytes of `nb_stats` words
  (`bucket_stats`). Into an array of zeros it counts exactly (`StatsCounted`).
* The countdown's `README.md:9` says the arguments are its duration. With less
  than a minute, where the seconds carry into the next, it goes off at once;
  `NotEarly` states that this, and the same at 59 minutes, is the only
  exception (`FlagTooEarly`). The other way round, `countdown 1 0` started at second
  57 of a minute has its target at second 57 of the next: if sleeps take one
  second too long in all, no look at the clock falls into 57 to 59 before the
  minute is over, the flag is not set, and the timer runs for another hour
  (`EndsPromptly` says when this can happen, and bounds it).

## 4. What is proved

| Theorem | For all | Statement |
|---|---|---|
| `MuxSystemProofs!TypeCorrect` | clients, ids, backlog | `Spec => []TypeOK` |
| `MuxSystemProofs!SessionsPrivate` | " | `Spec => []PrivateSockets` |
| `MuxSystemProofs!ZombieKnown` | " | `Spec => []NoLostZombie` |
| `MuxSystemProofs!NeverClosedEarly` | " | `Spec => NoEarlyClose`, an action property |
| `MuxSystemProofs!SessionsRelayExactly` | ", and any sessions | `SystemSpec => []S!RelayExact` |
| `MuxSystemProofs!SessionsConnectRight` | " | `SystemSpec => []S!RightService` |
| `MuxSystemProofs!SessionsEndAsSaid` | " | `SystemSpec => S!EndsWhenSaid` |
| `MuxSystemProofs!SessionsOnOwnSockets` | " | `SystemSpec => []OwnSocket` |
| `MuxSessionProofs!TypeCorrect` | services, sizes of buffer, chunk and socket, data | `Spec => []TypeOK` |
| `MuxSessionProofs!RelaysExactly` | " | `Spec => []RelayExact` |
| `MuxSessionProofs!EndsAsSaid` | " | `Spec => EndsWhenSaid`, an action property |
| `MuxSessionProofs!ConnectsRight` | " | `Spec => []RightService` |
| `HListsProofs!LinksSound` | heads, nodes | `Spec => []Linked` |
| `HListsProofs!SingularAlone` | " | `Spec => []SingularMeansAlone` |
| `HListsProofs!ImplementsDeques` | " | `Spec => AreLists`, a refinement |
| `ListHeadsProofs!RingsSound` | heads, nodes | `Spec => []Ringed` |
| `ListHeadsProofs!ImplementsDeques` | " | `Spec => AreDeques`, a refinement |
| `ListHeadsProofs!DoneWhenSaid` | " | `Spec => []TestSaysDone` |
| `ListHeadsProofs!VisitsAll` | " | `Spec => []LoopVisitsAll` |
| `HashTableProofs!TypeCorrect` | sizes, hashes, keys, entries, objects | `Spec => []TypeOK` |
| `HashTableProofs!CursorStaysSafe` | " | `Spec => []CursorSafe` |
| `HashTableProofs!OwnershipHolds` | " | `Spec => []ObjectsOwned` |
| `HashTableProofs!ListsStaySound` | " | `Spec => []ListsSound` |
| `HashTableProofs!ImplementsMap` | " | `Spec => IsMap`, a refinement |
| `HashTableProofs!KeysStayKept` | " | `Spec => KeysKept`, an action property |
| `HashTableProofs!StatsStayCounted` | " | `Spec => []StatsCounted` |
| `JHashProofs!MixReversible` | words of any width | `\A v \in State : Unmix(jhash_mix(v)) = v` |
| `JHashProofs!KeyReversible` | ", keys of any length | `Spec => []Reversible` |
| `JHashProofs!OneHash` | " | `Spec => []SameHash` |
| `ConsoleProofs!TypeCorrect` | lines | `Spec => []TypeOK` |
| `ConsoleProofs!StackAlwaysOrdered` | lines | `Spec => []StackOrdered` |
| `ConsoleProofs!NoneLost` | lines | `Spec => []NothingLost` |
| `ConsoleProofs!ShowsRightNotation` | lines | `Spec => []RightNotation` |
| `ConsoleProofs!TimerTypeCorrect` | minutes, hours, sleeps | `TimerSpec => []TimerTypeOK` |
| `ConsoleProofs!GoesOffNotEarly` | " | `TimerSpec => []NotEarly` |
| `ConsoleProofs!GoesOffPromptly` | " | `TimerSpec => []EndsPromptly` |
| `ConsoleProofs!ShowsNotMore` | " | `TimerSpec => []ShownNotMore` |
| `ConsoleProofs!SearchTypeCorrect` | lines, sizes, characters | `SearchSpec => []SearchTypeOK` |
| `ConsoleProofs!MatchesAreExact` | " | `SearchSpec => []MatchedExactly` |
| `ConsoleProofs!KeywordComesLast` | " | `SearchSpec => []KeywordPreferred` |

Assumptions are the named `ASSUME`s of the modules only: ids, descriptors,
heads, nodes and the special pointers are distinct, nodes are finitely many, the
backlog is a natural number, lines are made of the six kinds of characters, minutes have an
even number of seconds, a zero is no character of a line or a keyword's, the indices of
services have one digit and fit an `int`, words have the bits and bytes their base
says (powers are spelt out, as the provers know none), and an exclusive or undoes
itself. TLC evaluates them in every run.

*Induction.* No induction theorem of the library can be used directly, as each
takes a formula as an operator. `NatRecursion` derives from the least element of
a set (`LeastNat`) an induction over sets (`Upward`), and that a function exists
which makes each of its values from the one before (`Recursion`), or from those of
smaller arguments (`SizeRecursion`). What the
recursive functions of the models compute for every input, walks along lists
(`Cursor`) and the value of digits (`Atoi`), is proved with these.

*MuxServer.* `PrivateSockets` is not inductive: which descriptors a child
inherits depends on what `main()` has open at its fork. `IInv` adds what
`main()` has open at every place of its loop (`MainFds`), what a child has at
each stage of its life (`ChildFds`), that the connection about to be forked for
is open in no child (`Disjoint`), and why it cannot be: connections in the
backlog are open nowhere and are there once (`BacklogFresh`). `NoEarlyClose`
follows from the same invariant by cases on the step that closes. That no
process has more than one socket open besides `m_sock` (`TypeOK`) follows from
`MainFds` and `ChildFds` too: it is not inductive without them, as a fork that
failed must not leave `main()` with the client of the last turn.

*MuxSession.* `RelayExact` speaks of what was sent behind the number, and says
nothing before a service is dialed. `IInv` adds what the child has not done by
then (`BeforeDial`: nothing is relayed, what is taken is what `sel` counts, and the
menu's index and `read_int()`'s stay in their ranges),
and that between two reads there is nothing in hand (`BetweenReads`). A byte is
in exactly one place, so that each of the two directions can be proved alone:
`Write` moves one from `out`, `Forward` a chunk into it. `EndsWhenSaid` is an
invariant's consequence by cases on the step that exits. `RightService` needs
what `buff` holds while the number is read (`ReadSoFar`: the client's bytes in
order, of which all but the first, which may be a sign, are digits, as long as
no read has failed), and what it comes to (`Chosen`). The property is about all
digits the client sends, also those not read, while `read_int()` knows only what it has
read: `Over` says why it stopped, which is a byte that is no digit, the end of what
the client sends, or a full `buff`. In the first two cases what was read is the
number, whatever is sent later (`StaysEnded`, `SameNumber`); in the third it is if
the number fits. That `Atoi` gives the value of the digits, or saturates, is
`AtoiValue`.

*MuxSystem.* The whole is composed of the actions of `MuxServer`, so that it
implements the server by its definition (the lemma `ServerImplemented`, which
is no result about the code). What is proved about a session on its own is used through `INSTANCE MuxSessionProofs`: a step of the
whole is a step of the session, leaves it alone, or begins another
(`SystemSteps`), and what begins is an initial state (`Anew`), whatever the session
before has left. `Watched` is any
process id, so that this holds of every child. `OwnSocket` needs both
halves: that the session believes to have no client exactly if its process
has none (`ForItsClient`), and the server's `IInv` for who has which socket.

*HLists.* `Linked` speaks of single links, not of lists, and is inductive as it
stands. That is the point of `pprev`: no operation has to know which list its
node is on. `ListsHeld` adds that every node that is on a list is met by the
walk from some head (`Holds`). `WalkIs` says that where memory holds a sequence,
the walk finds it, by induction along the cursor, so that each call has to be
looked at only where it stores: a node goes in at a place (`LinkedIn`), comes
out of one (`LinkedOut`), or a whole list changes its head, and the sequences
become what `Deques` says.

*ListHeads.* Here the ring is the list, and there is no weaker invariant about
single links that would do: two links that agree with each other may as well be
of two rings, or of one that has lost its head. `Holds` says which sequence each
head's ring holds, in both directions. A call takes a section of a ring out
(`SectionOut`) or puts a chain in (`SectionIn`), and most functions of the
header are one, or two, or three of these; what differs is which neighbours
coincide when the section is empty, is all of the ring, or borders on the other
one. The invariant is `ListsHeld`, `Ringed` a part of it, and the refinement is
that every call moves from the sequences walked before to those `Deques!Effect`
gives. Two things need more:

* `TestSaysDone` needs `Tests`: stores are on their way only for the deletion
  last called; if it was the careful one, the store the test reads first arrives
  last, so that what another CPU finds empty is deleted.
* `LoopVisitsAll` needs `Loops`: from the entry kept in `n` the pointers of the
  loop's direction lead through what is left to visit and back to the head
  (`OnCourse`). What the body does to its own entry touches none of these links
  (`OutOfTheWay`, `OntoAnother`), and while the lock is dropped nothing is known
  but that the pinned entry stays on the list, which is what
  `list_safe_reset_next()` starts from.

*HashTable.* The properties speak of whole lists, as they are walked; the
invariant does not, and is inductive for that reason. It has the single links
(`Links`), a rank that grows along them, so that they cannot return (`Acyclic`),
the bucket an entry's key hashes to (`Buckets`), what entries and the running
call own (`Owned`), and the entries it has come past (`Passed`). That walks end,
meet each entry once, and meet all of a bucket follows in one place,
`BucketList`. With it a lookup that reaches the end has seen all keys, so that
the map kept in buckets is what the steps of `KeyValueMap` make of it (`MapIs`),
and a replacement frees the value that nobody else has. `KeysKept` is by cases
on the step, and uses the map too. For `StatsCounted`, a walk of a bucket is as long
as the map has keys in it (`ItemsCounted`); what is counted stays so until a
call forgets it (`StatsInv`). `RoundsDown` says that the size of the table is at
most the one asked for, and more than half of it.

*JHash.* `MixReversible` holds for every state, so it needs no invariant. Each
of the six lines of `__jhash_mix()` is undone (`RoundUndone`), because a sum and
a difference within a word undo each other (`PlusMinus`) and what is put in by
exclusive or is a function of a word that the line does not lose: that a
rotation stays within a word (`RotateIsWord`) is the only fact about it that is
needed. `OneHash` does not look into the mixing at all: four bytes are a word in
one way only (`BytesOfWord`, `WordOfBytes`), so that `jhash()` puts into its
state what `jhash2()` puts there, at every turn of the loop and in the switch
behind it.

*Notation.* The order of the stack is inductive together with two facts: no
digit is ever pushed, so that `priority()` is defined on what is compared, and a
pass starts with an empty stack (`Clear`). `NothingLost` needs where the
characters are during a pass (`Kept`): those looked at, and no others, are on
the stack or in the result, once and never in both, and only braces are in
neither. `RightNotation` is about the whole of a line, and its proof has three
parts:

* What a line means. `WellFormed` and `Written` are recursive over sections of
  the line, and such functions have to exist before anything can be said of them
  (`SizeRecursion`, `GrammarExists`, `WritesExist`). The grammar does not say
  where an expression is divided; `RootDivides` shows that it may be at
  the root, by counting braces (`ExpressionBalanced`, `ExpressionDivided`).
* What a scan does. `Goes` is a step of either pass, and `Reaches` any number of
  them. By induction along the expression (`ExpressionInduction`), from any
  stack whose top none of its operators makes yield, the scan of an
  expression adds its notation to the result, but for operators left on the
  stack that come to the rest when they are popped (`Reads`, `Drains`). At a root, the
  operators of the side scanned first are popped, and those of the other are not
  to touch it: from the left this is `<=`, from the right `<` (`ReadsOperator`).
* The invariant, `OnItsWay`: while a well-formed line is scanned, the place, the
  stack and the result are such that the steps lead to its notation at
  the end of the line. There is only one step at a time (`OneWay`), so each
  keeps this. Undefined behaviour has no step, hence cannot be on the way.

*Countdown.* The loop does not know the hour. `Looked(l, o, k)` says what it does
know: its last look at the clock was `l` seconds after the start, when sleeps
had taken `o` too many, and the target, that long ago or that far away, was
missed by `k` whole hours; and what was counted since is what has passed, but
for what keys cut off and what sleeps took beyond. `k` cannot exceed `o`, as one missed
hour takes one second too many at least, and it is 0 for a target that is far enough from
the end of its minute. `WhatALookFinds` is the arithmetic: of the time that is
left by the clock and the time counted, one fixes the other up to an hour. The
flag is set in the last look before the target if that is in the target's minute,
and if not, the seconds left carry the loop there (`InLastMinute`). Products of
variables are beyond the solver; `Hours`, `MinutesApart` and the like are the few facts
about multiples of `SecBase` and `Hour` that are used.

*FuzzySearch.* Nearly all is about pure functions. The first places that
`strchr()` finds are the least at which the keyword's characters can be, by induction
along the keyword, so that taking them misses no line (`FirstPlaces`,
`MatchExact`). A line that starts with the keyword has its characters at the places 1,
2, and so on, each right behind the one before, and has the point for the
first: the greatest score there is (`MatchPerfect`), and one that no other line has, which
is why it may be behind no other. `SearchInv` adds to the properties that nothing
is shown before a character is typed, and that `input` has room while typing goes on.

Only model-checked:

* liveness (`ZombiesReaped`, `QueuedAccepted`, `AbandonedClosed`, `Delivered`,
  `Released`), as the prover has no rules for fairness. The first three are checked
  of `MuxServer` alone, where children may live for ever; `mux_system` checks the
  other two of the whole.

## 5. What is not modelled

* Of list_head, what a hardened build would check (`CONFIG_LIST_HARDENED`, which
  nothing defines), CPUs that reorder stores, and the macros that convert
  between a link and its structure.
* Of `jhash.h`, `jhash_3words()` and its two shorthands: `__jhash_final()` on their
  arguments, called by nobody. They start from other words than `jhash2()`, so
  there is nothing to relate them to. `HashTable` needs of its hash that it is a
  function of the key and nothing more.
* The benchmark: a fixed series of calls, where `HashTable`'s callers do any.
* Format 8.3: its result is cut out of a line that `DIR /X` of Windows prints, and
  the layout of that line, which the repository does not describe, is all there is to it.
* The random-number hash, the scripts and the notebook: one call each, no state
  that lasts. The countdown's tests were read for what they expect.
* Logging, the layout of menus and lists, the wording of messages.
  `printf()` in a signal handler, and buffered output that a child inherits,
  have their outcomes inside the C library, of whose buffers there is no model.
* The deadlock of two ends that write without reading is listed as a hazard
  without a property: the fairness of `mux_system` excludes it.
* After undefined behaviour in `Notation` nothing more is said (`pc =
  "undefined"`). For a full `input`, `FuzzySearch` models the read of what lies behind it,
  and its properties are about shorter ones,
  as nothing is promised for it.

## 6. Plan

1. Done: `MuxServer`, `MuxSession`, hlist, list_head, simple_ht, countdown,
   notation, fuzzy search, with the first proofs.
2. Done: `MuxSystem`, the sessions without a client, jhash and its proof, sleeps
   that take too long, the loops, the questions and the lockless test of list_head.
3. Done: of the multiplexer's session, hlist, list_head, simple_ht, jhash and
   notation all that is proved above, with the refinements of `Deques` and `KeyValueMap`.
4. Done: the proofs of `MuxSystem`, `Countdown` and `FuzzySearch`.
5. Done: the proof of `RightNotation`. Every safety property that a run checks has
   its theorem; what is left is liveness, which stays with TLC.
