# Cherokee: a verification project

Cherokee is a small HTTP file server in C++: a client lists, downloads, deletes and
uploads the files of `filedir/`. One thread waits in epoll, a pool of four threads runs
the handlers. This directory holds TLA+ models of it, the TLC runs that check them, and
proofs of what holds for every number of threads, connections and requests.

Paths such as `event/myevent.cpp:113` are relative to `src/`.

## 1. The system

| component | state | operations | talks to |
|---|---|---|---|
| thread pool (`threadpool/`) | a `std::queue` of events, a mutex, a counting semaphore, detached threads | `appendEvent` (main thread), `run` (every worker), destructor | is given events by the event loop, calls `process()` of each and deletes it |
| event loop (`fileserver/`) | listening socket, epoll instance, `isStop`, the event pipe | `createListenFd`, `createEpoll`, `epollAddListenFd`, `waitEpoll`, signal set-up | turns what epoll reports into events for the pool |
| registrations (`utils/`) | epoll's interest in each descriptor | `addWaitFd`, `modifyWaitFd`, `deleteWaitFd` | called by the handlers |
| `AcceptConn` (`event/`) | none | one `accept`, one `addWaitFd` | the listening socket, epoll |
| `HandleRecv` (`event/`) | `requestStatus[fd]`: the state machine of a request | receive, parse, act on uploads, ask for an answer, close | the connection, `responseStatus`, epoll, `filedir/` |
| `HandleSend` (`event/`) | `responseStatus[fd]`: the answer and how much of it is sent | build an answer, send it piece by piece, erase it | the connection, `requestStatus`, epoll, `filedir/` |
| `Request`, `Response` (`message/`) | the records in the two maps | parsing of request line and header lines, getters and setters | used by the two handlers |
| file store | the files of `filedir/`, open descriptors | upload appends, PUT truncates, download reads, delete unlinks | none |
| start-up and shutdown (`main.cpp`) | order of construction, signals | `main`, `addHandleSig`, destructors | everything |
| cache manager (`main.cpp`, `utils/`) | a semaphore | a child process that takes and releases it for ever | nothing |

How they interact, and what is hard about it:

* A connection has no thread and no lock. Its handlers follow each other only because its
  descriptor is registered with `EPOLLONESHOT`: a report disarms it, and the handler arms
  it again with `modifyWaitFd`. Whatever a handler does after its `modifyWaitFd` runs
  beside the next handler of the same connection. `HandleRecv` and `HandleSend` both do
  something there.
* The maps are keyed by descriptor number, and numbers are used again, by connections and
  by files. An entry or a handler that outlives its connection meets the next one.
* A forgotten `modifyWaitFd` on some path leaves a connection that nobody looks at again.
* The listening socket is edge triggered and `AcceptConn` accepts once.
* Requests arrive in pieces, answers leave in pieces, and clients close and reset at any
  moment. Errors of `send` are recorded in the request, not in the response.
* The pool keeps a semaphore and a queue in step without ever holding both.
* An upload is a stream cut anywhere; what is content and what is the boundary is decided
  letter by letter as it comes.
* Requests of different connections act on one file at once, and no lock keeps them apart.
* Each file list page opens `filedir/` and never closes it: a descriptor is gone for good.
* The workers are detached: nothing waits for them when the pool is destroyed, whether the
  start-up fails half-way or the server ends.

What makes each part correct: the pool hands each event to one worker, in order, and frees
it; the handlers of a connection do not run at once; a connection is not lost; every
request gets its own answer, whole and in order; a file stays open while it is sent; only
clients that left lose their connection; every connection is accepted; the process lives;
an upload is saved exactly; a download sends the file as it was when its length was taken;
the loop runs only with a
pool that was set up whole, and ends when it is told to.

## 2. The modules

| module | models | lines of code |
|---|---|---|
| `WorkQueue` | what the pool promises: a FIFO queue from which idle workers take events | `threadpool/threadpool.h` |
| `ThreadPool` | `appendEvent` and `run`, one action for each call on mutex, semaphore and queue | `threadpool/threadpool.cpp:3-102` |
| `Sockets` | descriptors, epoll, the listening socket, connections and their clients | external, and `utils/utils.cpp:101-151` |
| `Reactor` | `waitEpoll`, `AcceptConn`, `HandleRecv`, `HandleSend` | `fileserver/fileserver.cpp`, `event/myevent.cpp`, `message/message.h` |
| `Exchange` | what the server promises its clients: one reply to each request, in order | the abstract service, no code of its own |
| `Upload` | the scanner that separates content from the final boundary | `event/myevent.cpp:171-213` |
| `FileStore` | one name of `filedir/` under uploads, PUTs, downloads and deletes | `event/myevent.cpp:171-221, 230-237, 291-348, 407-456` |
| `Lifecycle` | start-up, signals, the end of the loop, destruction | `main.cpp`, `fileserver/fileserver.cpp`, `threadpool/threadpool.cpp:3-34` |
| `ThreadPoolProofs` | theorems about `ThreadPool` | |
| `ReactorProofs` | type correctness and turn passing of `Reactor` | |
| `ReactorAcceptProofs` | the accept events of `Reactor` | |
| `ReactorTurnProofs` | why no connection of `Reactor` is lost, and none is answered out of nothing | |
| `ReactorApartProofs` | `Reactor` as long as no handler is overtaken: open files, who is closed, what ends the process | |
| `UploadProofs` | theorems about `Upload` | |
| `FileStoreProofs` | theorems about `FileStore` | |
| `LifecycleProofs` | theorems about `Lifecycle` | |
| `MC...` | instances for TLC; each `.cfg` says in its first line what it is about | |

`ThreadPool` implements `WorkQueue` (`WQ == INSTANCE WorkQueue WITH ...`, property
`ImplementsWorkQueue`), and `Reactor` is built on `WorkQueue` and not on the pool's calls:
`WQ!Submit`, `WQ!Take` and `WQ!Finish` are conjuncts of its actions. `Reactor` with polite
clients, and as long as no handler is overtaken, implements `Exchange`
(`EX == INSTANCE Exchange WITH ...`, property `ImplementsExchange`). `Upload` opens up the one step `SaveContent` of `Reactor`, and
`FileStore` what `Reactor` keeps as `filePresent`. `Lifecycle` is about the threads
themselves: its workers take events it does not look into.

### ThreadPool

`queueLocker` is the owner of the mutex, `queueEventNum` the value of the semaphore,
`workQueue` the queue, `heap` the event objects allocated. `mainPc` and `workerPc` are the
places of the main thread in `appendEvent` (threadpool.cpp:36-59) and of the workers in
`run` (67-102). `RunPop` has both branches of line 81: the empty queue sends the worker
back to `sem_wait`, its token spent. `SemWaitFails` is line 70: an interrupted `sem_wait`
ends the thread for good. An event is the address of an object, which `new` may return
again after `delete`.

### Sockets and Reactor

`interest[fd]` is what epoll knows of a descriptor: `off` (not registered), `disarmed`,
`in` (EPOLLIN) or `inout` (EPOLLIN | EPOLLOUT). `Modify` is EPOLL_CTL_MOD: it fails on a
number epoll does not know and otherwise looks at the socket again. `fdUse[fd]` says what
the number is now, `gen[fd]` how many connections have had it. `conn[fd]` holds both ends
of the connection: what arrived and was not received, what was sent and not read, what the
client asked and the answers it read. `listenEdge` says that connections came since epoll
last reported the listening socket.

`pc[w]` is the place of worker `w` in its handler, named for what it does next:

| places | code |
|---|---|
| `accept`, `add` | `AcceptConn::process`, myevent.cpp:20-35 |
| `recv`, `parse`, `save` | the loop of `HandleRecv::process`, 49-239 |
| `armIn`, `armOut`, `armPut` | the `modifyWaitFd` calls on its paths (61, 112, 233 and the like) |
| `complete`, `putBody` | `setStatus` after them (113, 234) |
| `check`, `ended`, `close`, `eraseRequest` | its tail, 241-251; `ended` is the tail of a handler that armed nothing |
| `find`, `build`, `send` | `HandleSend::process`: look-up 258-264, building 266-361, the loop 362-437 |
| `tail`, `eraseResponse`, `rearmIn`, `closeFile`, `rearm` | its tail, 439-457 |

A request travels as *units*: its request line, a header line, the blank line, the
boundary, the lines that describe a file, a piece of content. `RecvData` receives any
number of the units that have come, so a request is cut at every place between two units.
An answer is `HeadUnits` units of head and, if it is a page or a file, `BodyUnits` of body;
the first unit tells which answer it is, and a client that gets the wrong unit next reads
`garbled`. `SendCap` is the socket buffer: with it smaller than the answer, `HandleSend` is
interrupted at every place, inside the head too, and resumed by the next one from
`curStatusHasSendLen`.

The kinds of request: `list` (GET /), `downl` and `del` (GET with an operation), `other` (a
GET of something unknown), `put`, `form` (a POST that is no upload), `upload`, `badupload`
(a multipart POST without its boundary) and `unknown` (a method that no branch of
myevent.cpp:109-238 answers, such as HEAD). A `form` has a body, and a `badupload` goes on
after the line where its boundary should be. Nobody reads these bodies to their end: the
redirection is decided before (134, 222). What comes later makes the descriptor readable, and
`Dispatch` prefers `HandleRecv` (fileserver.cpp:133), which takes it for the next request. A
piece of content holds a line end, so it does for a request line: of a method nobody knows
(`junk`).

Abstractions, each with its reason:

* One access to a map is one step. The maps are not protected, so this is more than the
  code guarantees; the runs show what goes wrong even so.
* `deleteWaitFd`, `shutdown` and `close` are one step: between them nothing else can be
  done with the number.
* `HandleSend` after the erase (454-455) reads members that no constructor sets. The
  allocator returns the node that the erase freed, so `FileToClose` gives the worker the
  members of the response it erased; if another worker created the entry meanwhile they are
  unset, or those of an older response.
* `BuildPage` takes the lowest free number for the directory and keeps it (`fdUse` is
  `"dir"`), and needs another for the template while it reads it. With fewer than two free
  numbers the process ends (`BuildPageDies`): `readdir` of a null pointer, or a loop that
  adds lines to the page until memory is used up (474-480).
* The branch for `HANDLE_ERROR` of a response (443-448) is not modelled: nothing sets a
  response to it.
* The process ends (`alive`) when a `send` raises SIGPIPE and when the exception of
  `substr` leaves `HandleSend`. A `send` on a connection that was reset reports the error
  once (ECONNRESET) and raises SIGPIPE the next time; after a close followed by a reset the
  first `send` raises it.
* `SendSpins` is a loop that does not end: the code has no case for a response that
  another worker finished or erased while this one was sending it.

`HandlersApart` says that no two workers handle the same number at the same time, and
`SafetyApart` is the server as long as that is so. The code does not see to it: a handler
arms its descriptor before it is done, and `main.cpp:46` starts four workers. `wrong_answer`
and `file_closed` are what comes of it. `SafetyApart` is for the other question: is this
overlap all that is wrong, or do answers get mixed up even without it, by the reuse of
numbers, by partial sends, by failures, by requests in between? Any number of workers
handle different connections at once there.

### Exchange

A connection is what was asked and what was replied. A reply is decided at one moment
(`Reply`), which in `Reactor` is when `HandleSend` builds the head. Two requests have an
effect or an outcome before that. A delete calls `remove` (`Delete`), and the page that answers
is built one round through epoll later. A download whose file cannot be opened (`Miss`:
291-299) replaces its response by the redirection and answers that one round later, too: by then
another upload may have made the file, and the answer is still "moved". `settled` holds the
connections between the two moments. An upload makes the file exist (`Store`). `open` also
fails when the server is out of descriptors, which a client cannot see: `full` changes at
any time and allows a miss; in `Reactor` it is the lack of a free number. A request of no
known kind is never replied to, nor is any after it on its connection.

So the runs say: replies come one for each request and in
order, on each connection; a download gets the file only if it existed at the moment of the
reply, and the redirection only if it did not exist, or could not be opened, at one moment
since the request; the page after a delete comes after the delete; only a connection on which
nothing is owed ends. `Replied` and `Settled` in `Reactor` are the refinement mapping.

### Upload

`recvMsg` and `file` are sequences of letters, and `Contents` contains no final boundary, as
a browser sees to. One action is one turn of the loop 178-210: `ScanEmpty` (181), `ScanPlain` (no
carriage return), `ScanUpTo` (write what precedes one that begins the boundary or may begin
it), `ScanPast` (it begins nothing: 196-199), `ScanWait` (202), `ScanFinal` (189-193).
`Whole(e)` is the test of line 187: enough letters from `e` on to hold a final boundary.

### FileStore

`name` is the file the name stands for and `data[f]` the content of file `f`: a deleted file
lives on as long as it is open. Each step is one system call: open (append, truncate, read),
write, fstat, sendfile, close, remove. An upload opens the file again for every receive,
writes any number of pieces and closes it. A PUT is stored whenever `HandleSend` runs: all
that has come, from the beginning of the file. `disturbed` collects the requests from
which a PUT or a delete took content, and which the properties leave out; `promised[d]`
is what the file held when the length of download `d` was taken.

### Lifecycle

`Calls` is the start-up of main.cpp in order; `have` is what its calls have set up, and each
may fail. `SignalCalls` are the calls of a program that handles signals. `ThreadFails` is the failure of `pthread_create` or `pthread_detach`: the
constructor destroys mutex and semaphore and the pool is freed while the threads created
before wait on it. Nobody catches an exception of `main`'s, so `Terminate` ends the process;
the `return -1` to `-5` are never reached. `main.cpp` installs no signal handler: a signal has
its default action and ends the process. `usesSignals` is a program that also calls
`epollAddEventPipe` and `addHandleSig`, as the class is made for; the run has both.
`handling[t]` is the place of a thread in `setSigHandler`: it sets `isStop`, then sends. The
socket pair is edge triggered, is never read and has room for `PipeCap` signals. `HandlerSends`
also is the end of the handler, where a waiting worker is lost (threadpool.cpp:70-72): it
has `Ended`, and no thread is created again.

## 3. The runs

Bounds have names: `MaxConns` connections, `MaxRequests` requests on each, `HeadUnits`,
`BodyUnits`, `SendCap`, `MaxInterrupts`, `MaxSignals`, `MaxEvents`. The number of events in the queue of
`Reactor` is bounded by the descriptors and not by a constant of its own. `Polite` clients ask
only with every answer read, `MayClose` lets them leave, `WriteOpens` says whether files open
for writing.

`Reactor` runs have `CHECK_DEADLOCK FALSE`: with `MaxConns` and `MaxRequests` spent and all
answers read nothing is left to do, a process that ended does nothing, and in the violation
runs stopping is the point. So it is in the others: a file is saved, all requests are done, a
process ends. The pool run checks deadlock.

Passing runs:

| run | instance | shows |
|---|---|---|
| `pool` | 2 workers, 3 addresses, one interrupted `sem_wait` | tokens and queue agree, the queue is used by one thread, every event has one owner, the pool implements the work queue with its liveness, every event is freed while a worker is left |
| `serial` | 1 worker, 4 numbers, 1 polite client that may leave, any 3 of 8 kinds of request one after the other, answers of two to four units and a buffer of two, files that may fail to open | implements `Exchange`; only a page without descriptors ends the process; every request of a client that stays is answered but in three named cases |
| `reuse` | 2 workers of which none is overtaken, 7 numbers, 2 polite connections with a request each: download, delete or form | right answers, and `Exchange` implemented, with two connections on one file; numbers that pass between files, directories and connections disturb nobody; a file stays open until it is sent; only clients that left are closed |
| `race` | 2 workers, 1 number, 2 connections, any client, GET, PUT and list | types; turns on the first connection of a number, which is never lost; accept events and connections agree; no answer is built from an entry without a name |
| `upload` | every content of up to 3 of 4 letters, near misses of the boundary, every way to cut them | saved exactly, recognised as complete, less than a boundary kept |
| `file_store` | 2 uploads (one in two pieces), a PUT, a download, a delete | a download sends the file as it was; undisturbed requests are stored whole; uploads keep their order; a download ends unless its file was cut short |
| `lifecycle` | 2 workers, 3 signals, room for 2 | the loop runs only with a pool set up whole, of which signals ended at most one thread each; a stop ends the loop whatever thread it comes on; a process without its pool ends |

Between them the passing runs take every disjunct of the next-state relations.

Why the bounds are enough: two workers are the least that race, and a handler only meets
the one that comes after it on its connection; two connections on one number are the least
that show what a connection leaves behind; two requests on a connection are the least that
show what a request leaves behind, three that it leaves nothing for the one after; a head
and a body of two units and a buffer of one or two make an answer that is cut at its head and inside
its body; the numbers of a run are what its connections, one open file and its pages can take, and one
number where running out is the case; contents of up to 12 letters around a boundary of 9 hold every
partial match followed by a match, a mismatch or another partial match; two uploads are the
least that mix, one of them in two pieces so that another can come between; a PUT in one piece is
still stored twice, before and after the piece; three signals fill a pair with room for two. The properties that are
also proved do not depend on the bounds.

`RightAnswers`, `FileStaysOpen` and `ImplementsExchange` fail when a handler is overtaken, and
the first and the last when clients leave before they have read. A PUT is answered once its
headers are read and again for each later piece of data (234-242); its client cannot tell
where its body ends. `RightAnswers` therefore speaks of the requests up to the first PUT of a
connection, and the runs of `ImplementsExchange` ask for none.

`EventuallyAnswered` names what the code does not answer:

* `Abandoned`: line 173 leaves the loop without `modifyWaitFd` when the file of an upload
  cannot be opened, although the log it writes says the file "is being reopened".
* a request with an unknown method: `HandleRecv` receives it, and all that follows, for ever.
* `Misread`: the rest of a body that came after its redirection was decided. If it comes
  before the redirection is sent, `HandleRecv` reads it, finds no request in it and arms for
  EPOLLIN alone (61): the redirection waits for more from the client. Otherwise it begins the
  next request, which is not answered then. This is any `form` or `badupload` longer than
  one receive (2048 bytes, 43-47).

What ends the process: a page without descriptors (`BuildPageDies`), SIGPIPE (`SendKills`:
`send` and `sendfile` on a connection its client reset, where 368 and 411 expect an error), or
the exception of `BuildThrows`. The run `race` takes all three, the last when a number is used
again. `OnlyShortageEndsServer` says that polite clients, who leave at any moment but with
every answer read, cause only the first; `serial` has descriptors for two pages and clients
that ask for three. `ResponsesNamed` says that the exception is not raised on the first
connection of a number, whatever clients do. `StaysAlive`, which no run can claim, is left for
`leak`.

Violation runs, each listed under `findings` in `PROJECT.json`:

| run | property | what happens |
|---|---|---|
| `wrong_answer` | `RightAnswers` | 2 workers. `HandleRecv` arms the descriptor (112) before it marks the request complete (113) and erases it (243). The client reads its answer and asks again; the second worker finds the old request in HANDLE_BODY and answers that |
| `file_closed` | `FileStaysOpen` | 2 workers. `HandleSend` arms the descriptor (441) before it reads from the entry which file to close (454-455). The entry is by then that of the next download |
| `stale_answer` | `RightAnswers` | 1 worker. Closing a connection leaves its response; the next connection on the number gets the rest of it |
| `accept` | `EventuallyAccepted` | two connections are reported once, and one is accepted |
| `leak` | `StaysAlive` | 1 worker, 1 polite client that reads the list twice, 3 numbers: no `closedir` (493-507), so the second page finds no number for its template |

### Fairness

The pool: the main thread's calls and each worker's are weakly fair, because threads are
scheduled. The mutex is not fair: a worker may lose it every time. No fairness makes an
event arrive or a signal interrupt a thread.

The server: the main thread reports each ready descriptor in the end (`epoll_wait` returns
them all, 1024 at most), each worker is scheduled, and a client sends the request it began
and reads what arrives. Nobody has to connect, ask, close or reset. `EventuallyAnswered`
needs the client's part: an answer that nobody reads stays in the buffer.

The upload: the client sends all it has and the handler runs. The file store: a download is
weakly fair, because its client reads and its worker is scheduled; no piece of an upload or
a PUT has to come. The life cycle: the main thread, each worker and each signal handler are
scheduled; no signal has to come and no call has to succeed.

## 4. The proofs

Assumptions: `PoolAssumption` (finitely many workers, the null pointer is no event, thread
names are distinct), `SocketsAssumption` and `ReactorAssumption` (numbers are naturals,
heads, bodies and buffers hold at least one unit, finitely many workers, `NoFd` is no number), and
`NoEntryAssumption` (a missing entry of a map is not a response). `UploadAssumption` says what a
boundary is, `FileStoreAssumption` that a request is of one kind and the deletes are finitely
many, `LifecycleAssumption` that the pool has at least one thread. TLC evaluates them in every
run. The theorems are about `Safety` and `SafetyApart`, so they need no fairness.

* `ThreadPoolProofs!TypeCorrect`. `TypeOK` is not inductive: `AppendPush` queues
  `mainEvent`, so the invariant adds that the main thread has an event from `new` to `push`.
* `QueueIsExclusive`. `QueueExclusive` does not say who owns the mutex. `LockHeld` does: a
  thread is between lock and unlock exactly when it is the owner.
* `TokensAlwaysMatchQueue`, and from it `PopAlwaysFindsEvent`: a worker at the queue holds a
  token, so the queue is not empty and the branch of threadpool.cpp:81-84 is dead.
* `ImplementsWorkQueueSafety`: push is `Submit`, front and pop are `Take`, delete is
  `Finish`, all else stutters. It needs `Hands`: who has an event in hand is known from
  where he is. Without `PopFindsEvent` the step of `RunPop` would not refine `Take`.
* `EventsHaveOneOwner`: events in hand and in the queue are all different (`Apart`) and are
  the ones allocated (`Allocated`); the count of owners follows.
* `ReactorProofs!TypeCorrect`. Strengthened with `HandlerHasFd` (a handler past accept has
  a descriptor) and `ResponsesHeaded` (a response being sent has a head); without the
  second, `SendHead` could send nothing.
* `FirstUseIsExclusive`: the main result on concurrency. `FirstUseExclusive` says that of
  the handlers before their `modifyWaitFd`, the queued events and the armed registration of
  a connection there is at most one. It is not inductive, because a handler could hold the
  number before there is a connection. `TurnInv` adds that a number which no connection ever
  had is unknown to epoll, to the queue and to the handlers. Steps fall into those that pass
  the turn (`Dispatch`, `Take`, `Accept`, the `modifyWaitFd` calls) and `Quiet` ones, and
  one lemma shows that quiet steps keep the invariant.
* `AcceptsFindConnections`: the inductive form also counts the report that epoll has yet to
  make (`Edge`), which becomes an accept event. The count of events after a `Take` needs a
  bijection between the positions before and after.
* `NoneIsLost`: the converse of `FirstUseIsExclusive`. A first connection always has a handler
  before its `modifyWaitFd`, an event or an armed registration, while its client stays. The
  inductive form is `KeptInv`: besides, epoll knows the number from its `addWaitFd` on (so a
  `modifyWaitFd` does arm it), whoever comes to answer finds a response (so `HandleSend`
  does not return at 257-260 with the connection disarmed), and a handler that gives up has a
  client that left. It uses `TurnInv`: with a second handler on the connection, that one could
  erase the response, or close the number, between report and look. The hypothesis
  `UploadsOpen` is that files open for writing, if there are uploads: when the open fails, line
  173 does lose the connection. Nothing is asked of the clients or the number of workers.

Why only the first connection of a number: afterwards a handler of an earlier connection may
still be between its `modifyWaitFd` and its end, and its steps then act on the new one. TLC
refutes the property without that restriction, and `stale_answer` and `wrong_answer` show
two ways in which it matters.

* `BuildsWhatIsNamed` comes of the same invariant: whenever EPOLLOUT is waited for, or a
  `HandleSend` is on its way, the entry exists and has a name. Line 454 makes one without a name
  after every answer, but then only EPOLLIN is waited for, until the next request names it.

* `LifecycleTypeCorrect` and `PoolIsThere`: `StartInv` ties what exists to the position in
  `Calls` (mutex and semaphore are the third and fourth call, thread `i` is call `i + 4`, the
  listener comes after the last thread), and says that nothing is destroyed before the loop
  has returned. `CallsAt` is the lemma on where each call is. `EndedInv` counts the threads a
  signal has ended together with those still in the handler, which it may end next: they are
  no more than the signals, and none without a handler installed. How many are left depends
  on how many signals come; with as many signals as threads, none may be.

The theorems of `ReactorApartProofs` are about `SafetyApart`, and about every connection of a
number. Nothing else is asked: any number of workers, any kinds of request, clients that
leave, reset or ask whenever they like. All rest on `ApartInv`.

* `AllFit` says of every number that what is known of it fits together (`Fit`): whether it is a
  connection and its client there, the status of its request, its response, the place of
  its handler, its events and its registration. A connection whose handler has the turn has
  no event and is not armed; a handler that closes has a client that left, and nobody else comes
  to a number after it is closed until that handler is through; a request is in error only if
  the client left; whoever comes to send finds an entry with a name. `HandlersApart`, which
  each step keeps by hypothesis, makes `Place(fd)` one place.
* `FilesOpen`: a response with a file has an open one, no two have the same, and the file that
  a `HandleSend` is about to close is in no response any more. That is where 454-455 matter:
  the entry that the handler reads is still missing, because no other handler of the number was
  there since the erase (`Fit`), so it is the file of its own answer that is closed.

* `FilesAreOpen` and `OnlyGoneClientsLeave` follow from it, and `NoExceptionEndsServer`: of the
  three ways to end the process, `BuildThrows` is impossible.

* `UploadProofs!UploadSavesExactly`. What is written, what is kept and what has not come make
  up what the client sends (`file \o recvMsg` is a prefix of it), and `file` ends at or before
  the content. A step writes only up to a carriage return that may begin the boundary, and
  `UploadAssumption` says that the boundary occurs at the end of the content and not
  before: so a match is the end, and a mismatch is content.
* `UploadBufferIsBounded`: the scanner waits only on an empty buffer or on a carriage return
  at its beginning with too few letters after it.
* `FileStoreProofs!TypeCorrect`. There are never more files than deletes and one: `NamesInv`
  counts the deletes that are through (`Gone`). It also says that the name stands for the
  last file made, which the other proofs need: an upload that goes back to the name finds
  the same file or a later one.
* `DownloadsAreSnapshots`: while a file is sent it begins with what it held when its length
  was taken. An append keeps that; opening it for a PUT does not, and disturbs its readers.
* `UploadsStayInOrder`: `UploadsInOrder` alone allows a new piece to come after a gap. What
  makes it inductive is `StretchInv`: the file that the next piece goes to (`Current`) has
  all of the upload since the first piece still in it, and all other files with pieces of
  it are earlier ones. A PUT that overwrites a file leaves the end of such a stretch.
* `WhatIsDoneIsStored`: an undisturbed writer has open the file that the name stands for,
  and that file has all pieces written. A PUT that finds its file empty, or its own text in
  it, takes nothing from anybody, so it need not disturb.

Model-checked only: all liveness (`EventsFreed`, the liveness half of `ImplementsWorkQueue`,
`EventuallyAnswered`, `EventuallyComplete`, `DownloadsEnd`, `StopEndsLoop`,
`ProcessEndsWithPool`), which is out of the prover's reach; `RightAnswers`, `ImplementsExchange` and
`OnlyShortageEndsServer`, which need an account of every unit of every request and answer
besides `ApartInv`.

## 5. Not modelled

* The unordered_maps themselves: all workers insert and erase without a lock, which is
  undefined behaviour in C++. See the plan.
* Bytes other than those of an upload: where lines end, header syntax, the text of pages and
  headers. Units stand for them. Malformed headers can make `std::stoll`, `pop_back` or
  `at("boundary")` throw (message.h:68-77, myevent.cpp:129), which ends the process as
  `BuildThrows` does.
* More than one name in `filedir/`: requests for different files do not meet.
* Contents of directories: which names a page lists.
* The cache manager: a child process that takes and releases a semaphore nobody shares.
* The destructors of the static maps, which `exit` runs while workers may still use them:
  `ReturnFromMain` ends the process in one step.
* A signal that comes after `addHandleSig` and before waitEpoll resets `isStop`
  (fileserver.cpp:117) is forgotten: the model does it, no property forbids it.
* Failures of the mutex, of `epoll_ctl` for want of memory, of `setNonBlocking`; the limit of
  1024 events of one `epoll_wait`.

## 6. The plan

Runs stay few, one for each question. A later module replaces a run whose question it
answers better: `Exchange` that of `serial`, and a violation run that only confirms what
another shows.

In this order; 1 to 7 and 9 are done.

1. `WorkQueue`, `ThreadPool`, run `pool`; proofs of its safety properties.
2. `Sockets`, `Reactor` and its runs: everything the handlers of a connection do to each
   other.
3. `ReactorProofs`, `ReactorAcceptProofs`: types, turns, accepts.
4. `Upload`, run `upload`, and `UploadProofs`.
5. `FileStore`, run `file_store`, and `FileStoreProofs`.
6. `Exchange`, in the runs `serial` and `reuse`.
7. `Lifecycle`, run `lifecycle`.
8. `Headers`: request line and header lines, routing of the resource to an operation
   (message.h:54-121, myevent.cpp:266-274). Mostly text; worth it only for the exceptions.
9. Proofs: `NoConnectionLost` (the converse of `FirstUseIsExclusive`), the invariant of
   `Lifecycle`, what holds while no handler is overtaken.
10. Proofs still worth having: `RightAnswers` and the refinement of `Exchange` under
    `SafetyApart`, for polite clients and requests whose bodies are read; how many pages a
    server with a given number of descriptors survives (the count of directories is the count
    of pages built); the other action properties of `Lifecycle`.
