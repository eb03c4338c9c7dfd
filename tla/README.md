# Verification of libcpp-core

TLA+ models, TLC runs and TLAPS proofs for libcpp-core, a small C++ library
that wraps POSIX descriptors, processes, signals, sockets and OpenSSL in
classes. Paths are relative to the repository; source lines are those of
`src/src/`.

## The system

The library starts no threads. What is concurrent in it is the operating
system: children run, exit and are reaped beside the program, pids and
descriptor numbers are used again, signals interrupt calls, and each system
call may fail. What is hard is the protocol of each object over a long sequence
of calls, the partial failure of operations that make several calls, and the
destructors, which run at unpredictable points and must neither throw nor hang.

| component | state | operations | hard part, and what makes it correct |
|---|---|---|---|
| `FD`, `PFD` (FD.h, FD.cpp) | `fd_` | construct, move, copy, assign, Close, Detach, destroy, pipe | one owner per descriptor; nothing lost; the throwing destructor |
| `Process` (Process.cpp) | `pid_`, `waited_`, `xstat_` | New, Kill, Terminated, Wait, destroy | pids are used again; three ways to reap; a destructor that waits |
| child side of `Process::New` | the descriptor table of the child | dup2 and close, exec or abort | the order of three redirections; what else is inherited |
| `SigMask` (Signal.cpp) | `oldset_` | scope entry and exit | nesting; children inherit the mask |
| `SockFN`, `SockAddr` (Sock.cpp) | none between calls; within one the list, the socket | Connect, Listen, AddrList, assignment of a text | every error path with two resources; EINTR, EISCONN |
| `NetAddr`, `NetMask` (Sock.cpp) | family and bits; `name_`, `addr_[2]` | bit operations, assignment of texts, valid, match, print | boundaries of masks; failed assignments; text and meaning |
| `BasicSock` (Sock.h) | streams, `in_`, `out_` | constructors, shutrd, shutwr, destroy | who owns the streams and descriptors; flush before shutdown |
| `OStreamBuf`, `IStreamBuf` (StreamBuf.h) | buffer positions | overflow, sync, underflow | full buffers, putback |
| `FDStream`, `Pipe` (FDStream.h, Pipe.h) | a `filebuf` on a descriptor | construct, Detach by mode | end of file when several processes hold an end |
| `SSLH`, `BasicSSLSock` (SSL.cpp, SSL.h) | OpenSSL handles, `vify_`, `vifyrslt_`, `lasterr_` | connect, verify, read, write, shutrd, shutwr | shutdown flags, retries, the cached verification |
| `IOManip` | none | get_cstr, put_cstr, get_cint | reading back what was written |
| `Log`, `App`, `UMask` | a device; three cached strings; a mode | get, set | `logexc` and `logsxc` throw at `endl` |

The components interact by calls and by descriptors. `SockFN` returns an `FD`;
`BasicSock`, `BasicSSLSock` and `Pipe` detach the number from an `FD` and give
it to a stream; `Process::New` takes three numbers and inherits all the others,
and the mask of the `SigMask` scopes it runs in. Every error goes through `Log`:
`logsxc << ... << endl` throws, `logerr` and `logwrn` only print. In the models
a throw is the branch that leaves the operation at once with the members as
they are.

## Modules

### FD (`FD.tla`; TLC: `MCFD`; proofs: `FD_proofs`)

`open` is the kernel's set of open descriptors, `obj` the `fd_` of every object
(or that there is no such object), `raw` the numbers the client holds itself.
Each member function is one action. An operation that calls close and dup, as
the copy assignment does, is one action over the outcomes of both
(`CopyOutcomes`). A close that reports an error has released the number, as on
Linux; the class then throws with `fd_` unchanged. The copy constructor
assigns to an uninitialised `fd_` (FD.h:21): the model takes any number for it.
Passing a number to `FD` that the client does not hold is not modelled.
`ConstructPipe` is the constructor of a `Pipe` on its `PFD`: one end is detached
for the stream, the other stays in an `FD`, and a bad mode throws with both
ends closed again.

### Process (`Process.tla`; TLC: `MCProcess`; proofs: `Process_proofs`)

`tab` is the kernel's process table; `obj` the members of every object with how
far its life has got; `blocked` and `scopes` the signal mask and the `SigMask`
objects in scope. The kernel's entry of a process keeps every signal it was sent
together with the object whose Kill() sent it, which `SignalsOnlyOwnChild`
compares with the object that forked the process. `exited` and `ans` record, for the properties, what the child
exited with and what Terminated() answered last. The destructor is two actions,
`BeginDestroy` (Kill) and `FinishDestroy` (Wait), because the child runs in
between. waitpid is enabled when there is a zombie to reap; a blocked Wait() is
one that is not enabled. Foreign processes take and leave pids at any time. A
call that throws and changes nothing (ECHILD) is a stuttering step, except in
the destructor, where it ends the program (`up`). The fork failure is behind
the constant `ForkMayFail`. `new Process(pid)` is taken to have memory: where it
has none (Process.cpp:26) the child that was forked stays without an object, and
is to all others a foreign process that nobody reaps. `SigMask` scopes end
innermost first, as C++ blocks do; masks on the heap, destroyed in another
order, are not modelled.

### Redirect (`Redirect.tla`; proofs: `Process_proofs`)

The loop in the child (Process.cpp:40-49 and 72-81): `table` maps every number
to the file that was behind some number at the fork, `i` is the loop counter.
An *orderly* request names open, distinct sources, each either above 2 or a
standard descriptor that is redirected later itself. `OrderlyIsServed` and
`OnlyOrderlyIsServed` say that these are exactly the requests the loop serves.
The names of its specification (`ChildSpec`, `ChildTypeOK`) differ from those of
`Process`, so that one module can hold the proofs about both.

### SockFN (`SockFN.tla`; proofs: `SockFN_proofs`)

One call of Connect or Listen (of an address or of a text), of AddrList, or of
the assignment of a text to a SockAddr, from its start to its end. `list` is
the addrinfo list, by family; `k` the candidate that is tried; `sk` the kernel's
state of the socket made for each candidate; `sfd` which of them the local `FD`
holds; `lists` how many lists are allocated. The text is one of the five forms
the parsing tells apart. Where the code closes and throws the close may fail:
then `~FD()` closes the stale number again and terminates (see FD).

### NetAddr and NetMask (`NetAddr.tla`, `NetMask.tla`; proofs: `NetMask_proofs`)

`NetAddr` has the bit operations over sets of bit positions: for INET one word,
for INET6 a row of bytes that `setmsbit` and `getmsbit` go through. `NetMask` is
one object with texts assigned to it in turn; an assignment that fails leaves
the members where it got to. The meaning of a text is defined in arithmetic
(`Number`, `Denoted`), apart from the bits of the code; `Binary` builds a number
digit by digit, a form that can be reasoned about where `2 ^ n` cannot. `match` by name asks the
resolver and is left out. On a platform whose `unsigned long` has 32 bits the
shift by 32 in Sock.cpp:312 is undefined; the model is that of the 64 bits the
library is built with.

### CharStream and StreamBuf (`CharStream.tla`, `StreamBuf.tla`; proofs: `StreamBuf_proofs`)

`StreamBuf` puts an `OStreamBuf` and an `IStreamBuf` at the two ends of a
connection. `pend` is what lies from pbase() to pptr(), `wire` what was flushed
and not filled yet, `cells`, `gptr` and `egptr` the buffer and the positions of
the input. _flush takes everything or fails; _fill gives some of what is on the
connection, or nothing. The public calls are those of `std::basic_streambuf` as
libstdc++ has them. Once overflow() has stored a character beyond the buffer the
behaviour is undefined, and the model stops. `CharStream` is the abstract
specification: numbered characters are sent, passed on, received and given back.
The refinement mapping takes as passed all characters that were put and no
longer wait in the output buffer. The abstract stream may break; the mapping
lets it do so when overflow() has left the buffer, and when sungetc() has
stepped into the putback area, which no code fills and which therefore gives a
character that was not the last one read.

### Sock (`Sock.tla`; proofs: `Sock_proofs`)

One `BasicSock` from its constructor to its end. The two directions have a
pointer each (`ptr`: `in_`, `out_`), possibly a stream object (`strm`) and
possibly an entry in the unique_ptrs (`owned`); a direction that is shut points
to `eofr_` or `eofw_`. `_BasicSock(int)` is `NewStreams` with its three fates:
everything made; nothing made; out_ made and then no memory for in_. `open`,
`file` and `shut` are the kernel's view of the two descriptors, `peer` whether
there still is somebody at the other end. `buf` counts the characters in the
output buffer; deleting an `FDStream` writes them, after the shutdown, which on
a socket means EPIPE and, unless it is ignored, the end of the program by
SIGPIPE (`up`). The destructor is two actions, shutwr() and shutrd(), between
which the peer may go away. A failing `fdopen` inside `stdio_filebuf` is left
out, as is one stream handed over for both directions.

### SSLH (`SSLH.tla`; proofs: `SSLH_proofs`)

Objects (`obj`: the handles, `vify_` and what verify() found) on connections
(`conn`): the handshake, the shutdown flags that OpenSSL keeps, our close_notify
(unsent means that it was tried), whether theirs was taken in, and the peer,
which sends records, ends the stream, or goes, in an orderly way or with a
reset. `reads` says whether the peer reads, has to read before any more can be
sent (`Write` fills its window), or has closed its socket. OpenSSL is external,
in the version that first has `BIO_up_ref`. A call that is repeated while it
answers WANT_READ or WANT_WRITE is one step, enabled when there is another
answer, with the exception of shutwr() and shutrd(). These go through two loops,
and `waiting` and `loop` say whose call is in which: `ShutWr` and `ShutRd` make
the first SSL_shutdown, `Retry` the next ones of the loop of shutwr(), with
which shutrd() begins as well, and `FinishShutRd` the one that ends the loop of
shutrd(). The first loop waits for a peer that is slow to read, the second for
one that has not ended; an SSL_shutdown that fails has set the write flag none
the less, and is tried once more by shutrd(). `held` are the sockets in
an `FD` of the client; `lost` and `stale` record the two ways in which the code
gives up one owner for a socket, a move assignment over handles and a
constructor of `BasicSSLSock` that fails half way. A `BasicSSLSock` is an object
that connects in its constructor (`ConstructSock`). The constructor on two
descriptors is taken for the one on a socket. `lasterr_`, the two names,
`_FD_NOCLOSE` and fatal alerts are left out, and SIGPIPE is taken to be ignored:
OpenSSL writes to the socket with write(), so that a close_notify for a peer
that is gone would otherwise end the program. The streams of a `BasicSSLSock`
are not modelled, and so neither are its own shutrd() and shutwr()
(SSL.h:139-152), which call those of SSLH and set failbit on the stream.

### IOManip (`IOManip.tla`; proofs: `IOManip_proofs`)

A stream to which fields are written, each by `put_cstr` or as a number with
`showbase`, with a separator between them; then each is read by `get_cstr` or
`get_cint` and the separator taken. `type` is the `cstrtype` together with the
separator and the skipws flag. `Quoted` folds the turn of the loop of
get_cstr, `QuotedStep`, over the text, and `pos` is where the stream stands in
it; `GetNum` and `PutInt` are what the library does with a number.
`IsReadable` says, apart from how the code works, which fields can be read back.

## Runs

| run | instance | shows |
|---|---|---|
| `fd` | 3 objects, 4 descriptors, symmetric | ownership, termination and leaks over every sequence of operations |
| `process` | 2 objects, 2 pids, 2 scopes, fair | objects stay tied to their children; signals, statuses, masks, destructors |
| `process_fork` | the same, fork may fail | violation: New() returns an object for pid -1 |
| `redirect` | 6 descriptors, all requests, all sets of open ones | which requests are served, and what the child keeps |
| `sockfn` | up to 3 candidates, fair | no socket or list left behind; the right socket is returned; calls end |
| `netmask` | INET 3 bits, INET6 2 bytes of 2 bits | matching is the meaning of the text; refused texts; printing of CIDRs |
| `netmask_print` | the same | violation: a range is printed as a CIDR that denotes other addresses |
| `streambuf` | buffers of 2, 5 characters, 1 to put back | the buffers implement `CharStream`; nothing lost, repeated or reordered |
| `sock` | one object, 2 characters | owners and leaks of descriptors; the end of the output; what becomes of late output |
| `sslh` | 2 objects, 2 connections, 1 good certificate, 1 record unread, fair | owners of sockets; verify() and read() answer for their own connection and its end; the flags are earned; shutwr() and shutrd() return |
| `iomanip` | 2 fields of up to 2 characters or 4 bits | which fields are read back as they were put; what a wrong number is taken for |
| `streambuf_overflow` | the same as `streambuf` | violation: the character after a full buffer is stored behind it |

Bounds. Three objects let a move, a copy and a third party interact, and four
descriptors leave one free. Two pids and two objects are enough for a pid to be
reaped through one object and to come back as the other's child or as a
stranger; two scopes nest. Six descriptor numbers have three sources beyond the
standard ones, so that all requests of distinct and of coinciding sources occur.
Three candidates give one that fails, one that is interrupted and one behind it.
Two bytes of two bits have masks that end before, within and at the end of a
byte. Five characters through buffers of two fill each buffer twice and once in
part, so that a fill may bring one or two characters and follow a failed one.
Two characters let one be flushed and the other be late. Two objects and two
connections let handles be moved onto one another, an answer of verify() meet a
connection it is not about, and a socket be closed by one object under another;
one unread record is enough to stand before the peer's close_notify, and a
connection keeps no count of them; one write fills the window of the peer, since
all that matters of the bytes in it is that no more fit. Two characters hold an escape before a quote
or at the end, and two fields show what a wrong one does to the next; four bits
give numbers of two octal digits, in and out of range. Runs of `IOManip`
with one field of four characters or eight bits, and with three fields of one
character or three bits, find nothing else. In `fd` and `redirect`
the system may stop (after terminate, exec or abort), in `streambuf` after a
character beyond the buffer, in `sock` when the object is gone, in `sslh` when
all sockets are closed, and in `iomanip` when
all is read, so that deadlock is not checked there.

`TypeOK` of `SSLH` is proved and not a run's invariant; `NetMask`, `StreamBuf`
and `IOManip` have none, since their properties say more of the same variables.

Fairness. In `process` the kernel ends a process that has a fatal signal
pending, and a waitpid that can return does: both are scheduling by the kernel.
Nothing makes a child exit of its own accord. In `sockfn` the program takes its
next step and a system call ends some time with an answer other than EINTR;
being interrupted for ever is excluded by that alone. In `sslh` only the
loops of shutwr() and shutrd() are fair: they call SSL_shutdown again without a
pause, so that they go on as soon as there is an answer. Nothing makes the peer
do anything: that it reads on, and that it ends its side some time, is the
premise of `ShutdownReturns`, and without either half the property is false. A
peer that goes needs no premise, only one that stays.

Every property is accompanied by a mutant of a definition, of the kind a slip
in the code would produce, under which the same run finds it violated. The
mutants stand in the modules just before the definitions they replace.

## What the runs found

- Process.cpp:23 and 60 test `pid == 1` for a failed fork. A failing fork gives
  an object with pid -1: its Kill() signals every process the user may signal,
  and its Wait() reaps any child (run `process_fork`).
- Sock.cpp:744 prints a range as a CIDR if the bits in which its ends differ are
  all 0 in the first and all 1 in the last, wherever they are: 10.0.0.0-10.0.1.0
  is printed as 10.0.0.0/23 (run `netmask_print`).
- StreamBuf.h:32 stores the character for which the buffer has no room at
  epptr(), one past `buf_`, and the test for a full buffer then misses: pptr()
  is beyond epptr() (run `streambuf_overflow`).

Conditions in the properties that a user of the classes should know: a failing
close leaves the stale number in an `FD`; copy construction of an `FD` may close
any descriptor; move assignment leaks the old one; Terminated() answers FALSE
once for a child that exited with 0; a child started in a scope that blocks
SIGTERM can make its destructor hang; only orderly redirections work (not, for
example, one descriptor for both stdout and stderr); a NetMask may be valid
after a failed assignment of a CIDR; sungetc() after an underflow() gives a
character that was never put; a BasicSock made from a descriptor or an address
never closes its two descriptors, though the peer sees the end of the output;
output must be flushed before shutwr() or the destructor, which otherwise lose
it and, for streams that the object owns on a socket, raise SIGPIPE.

Of `SSLH`: a move assignment leaks the handles of the target, with the socket;
a `BasicSSLSock` from an `FD` whose streams cannot be made has closed the
descriptor that the `FD` then closes again; connect() after an orderly shutdown
answers TRUE although there is no connection; shutwr() answers TRUE after one
that answered FALSE, with nothing sent; shutrd() waits for ever for a silent
peer, and both spin for as long as a peer does not read; with unread
records shutrd() sets both flags itself; the destructor sends no close_notify.
Of `BasicSSLSock`, read and not modelled: its shutrd() and shutwr() set failbit
when the shutdown has succeeded, and not when it has failed.

Of `IOManip`: `put_cstr` does not escape the escape character, so that a
backslash before a quote, another backslash or the end of a string is not read
back; an empty string is written as nothing at all if there are break
characters; at the end of the stream `get_cstr` leaves its string as it was;
`get_cint` reads "-0777" as a decimal, and any failing number behind a leading 0,
so each negative one that was written in octal, as a 0 that succeeds; it leaves
the base of the stream changed.

## Proofs

All are about every value of the constants, under their assumptions.

- `FD_proofs`. Ownership is inductive together with the type invariant: every
  operation moves a number between one object, the client and the free numbers.
  Once a fault has happened nothing is claimed. That the destructor terminates
  only after a fault follows from `Held` being open. `LeaksOnlyByMoveAssign`
  needs no more than the types, so it holds after faults too: every other
  operation hands on the number that it does not close.
- `Process_proofs`. With `ForkMayFail = FALSE` as an assumption, `TypeOK`,
  `DesignatesOwnChild` and `NoChildUnattended` together are inductive: each
  direction alone is not, since a reap through one object must not free the
  child of another. That the destructor never throws follows from it. So does
  that a signal was sent by the object that forked its target, which is inductive
  with `DesignatesOwnChild`: a pid that an object still signals is its own child's. `StatusIsOwnChilds` needs
  `ChildHasStatus` besides: the zombie of every object that still waits has the
  status its child exited with. Without the assumption: `AnswersMatchChild`, and
  `BlockedByOpenScopes` with `ScopesNest` (`oldset_` of each scope is what the
  scopes around it ask for).
- `Process_proofs`, the child (`Redirect`). The invariant `InOrder` says what the
  loop has done after i turns: for an orderly request the targets below i have
  their files, sources still to come are untouched, and sources that were used
  are closed. Two theorems follow at i = 3. That no other request is served is
  proved from `Unrolled`, the table after each turn as a function of the one at
  the fork, by cases on where the sources lie.
- `Sock_proofs`. The invariant adds `Phase` to the types and `OneOwner`: which
  pointers, streams and unique_ptrs go together in each part of the object's
  life; without it a stream could be deleted twice or not at all. The leaks
  follow from it. For the end of the output, `Ending` says that it is shut once
  and while its stream still has its descriptor. `LateOutput` needs `Buffered`: in
  which kind of stream, made by whom, output can wait.
- `SSLH_proofs`. The invariant `IInv` is, besides the types, `Sound` (of each
  connection: an end that was read was the peer's, and the flags are in order),
  `Unique` (`OneOwner` without the set of owners), `Kept` (what is lost stays
  open, what a failed constructor closed stays closed, and no handshake is made
  on a socket the client holds), `Waits` (shutrd() waits on an object with a
  connection whose write flag is set, without which setting both flags could
  break their order) and `Tried` (a close_notify is unsent only while a call is
  about to send it again, or when the peer is gone). The lemmas take the calls on one connection one by one;
  that verify() answers for its own connection is a separate induction under
  `IInv`.
- `SockFN_proofs`. The invariant has, besides the types, `Control` (what the
  point of control says of the call), `Sockets` (only sfd's socket is open, and
  sfd is k while a call is on it), `Lists` (a list exists exactly while its
  candidates are tried) and `Order` (those tried are the ones before k, and
  Listen() of a text is on its preferred one). That the preferred candidate is
  one of the list rests on the least element of a set of numbers
  (`MinOfNats`, by well-founded induction).
- `StreamBuf_proofs`. `Placed` says of every place, cell by cell, which character
  lies there; it is inductive until sungetc() strays, and `NothingLostOrRepeated`
  is `Placed` put together. `Refinement` is the refinement theorem: `StepSimulates`
  maps every step to a step of `CharStream` or to a stutter, a step after which
  the stream is broken to `Break`. The overrun of the finding shows there: when
  sputc() comes to overflow() the buffer is full already, so that with one
  character more the test for a full buffer fails and sync() is not called.
- `NetMask_proofs`. The bits of the code and the numbers of the texts meet in
  `NumberOrder`: the first bit that differs decides which number is less, and
  `LeadingDigits`: the first n digits are the quotient by the power of two of the
  others. Both are by induction on the digits. The prover cannot instantiate the
  library's induction theorems, so `SetInduction` states induction with a set of
  numbers, from the well-foundedness of `<`; that a recursive function has a
  value at all is proved the same way (`BinaryExists`, `LeftIsRest`). `MaskBits`
  and `MsbitOfMask` say that `setmsbit` makes, and `getmsbit` reads, a mask of n
  ones, in a word and byte by byte. The invariant is `Accepted`: what the members
  are after each kind of text that was taken; `MatchesCorrect` and
  `PrintsAsGiven` follow from it in every state. `RefusedCorrect` needs no
  invariant: an assignment that fails decides by itself what valid() says.
- `IOManip_proofs`. A parser is proved right against its printer, for strings of
  any length, numbers of any width and any number of fields. The invariant says
  where each field lies in the text (`Layout`), and of each field that was read
  behind readable ones that it is what was put, with the stream just behind its
  separator, or else that it is something else or a failure (`Reading`): what is
  read behind a field that is not readable is left open, or it would not be
  inductive. `FieldRead` is the step, one lemma for each way to write a field:
  `IntRead` (numerals by induction on their digits, `NumeralValue` and
  `DigitsRead`), `PlainRead`, `EmptyRead` (which may have to go over any number of
  empty fields, `SkippedTo`) and `QuotedRead`. In the last one the loop over the
  quoted text and the printer's pieces are compared piece by piece (`Progress`):
  what was read so far is what was put (`Clean`), or lacks some of the escape
  characters of a run that is not over (`Lagging`), or is wrong for good (`Wrong`,
  kept by `WrongStays`), so that a string that is not readable is never read back
  by chance.

Only model-checked: the three findings, which are violations, and all liveness
(`DestructorReturns`, `CallEnds`, `ShutdownReturns`): liveness under fairness and
ENABLED are out of the prover's reach. Every other property of a run that passes
is a theorem.

## Not modelled

The data in a `Pipe`, and the reader that waits for its end, are in the plan
below; who owns its ends is in `FD`.
`Log`, `App` and `UMask` have no behaviour that a model would add to. Neither have
`SigSet` and `SigSetData`, but a copy of a `SigSetData` uses the set of the
original (Signal.h:34). The streams of `BasicSSLSock`, with its shutrd() and
shutwr(), are left out.
The accessors and the comparison of `SockAddr` read fields by address family.
Formatting, parsing by `inet_pton` and the resolver's work are outside.
Multi-threaded use of one object is not supported by the code.

## Plan

Done: `FD`, `Process`, `Redirect`, `SockFN`, `NetMask`, `StreamBuf`, `Sock`,
`SSLH`, `IOManip`. To come:

1. `PipeSpawn`: Pipe and Process composed, with the end of file that depends on
   who holds the write end.
