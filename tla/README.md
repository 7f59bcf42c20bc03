# A verification of the msdev programs

The repository is a set of Windows programs after the chapters of a book on
systems programming, one directory per chapter: file utilities (`run1` to
`run5`), processes and jobs (`run6`), threads (`run7` to `run10`), pipes and
sockets (`run11`, `run12`), a service (`run13`) and asynchronous I/O (`run14`).
This directory holds TLA+ models of its concurrent parts, the TLC runs that
check them and the TLAPS proofs about them. The programs have no tests and
hardly a comment, so the properties are those the code is evidently written
for.

The centre is `run10`: two synchronisation objects that other programs are
built from, a message queue and a threshold barrier, and a pipeline of four
kinds of threads over the queue. They are modelled first and completely, with
the one-slot exchange of `run8` and the job file of `run6`, and proved about.
Around them stand the servers (sockets, pipes, the service) and the programs
that share work among threads, overlap their input and output, or keep a file
in order: the servers are proved about too, and of the other programs the
condition-variable queue, `simplePC`, the work counters, the overlapped copies
and reads, the sorts, the threads of `grepMT`, and the record file.

## Inventory

| Component | State | Operations | What is hard | What makes it correct |
|---|---|---|---|---|
| Message queue, `run10/QueueObj.cpp` | ring of `qSize` slots, `qFirst`, `qLast`, mutex, two events | Initialize, Get, Put, Destroy | events are pulsed, so wake-ups get lost; timeouts; destroying a queue in use; early return that keeps the mutex | FIFO buffer; truthful results; calls return |
| Threshold barrier, `run10/ThbObject.cpp` | count, mutex, event | Create, Wait, Close | close while released threads still have to wake up | nobody passes early, everybody passes, close strands nobody |
| Pipeline, `run10/ThreeStage.cpp` | `p2tq`, `t2rq`, `r2cqArray`, `ShutDown`, the counts of producers to end | Producer, Transmitter, Receiver, Consumer, main | three bounded queues in a row, termination messages, shutdown | nothing lost or reordered; the stages end with their input |
| Condition-variable queue, `run10/QueueObjCV.cpp` | as the queue, with condition variables | as the queue | one thread woken per change, which others overtake; destroy leaves sleepers | no wake-up is lost |
| One-slot exchange, `run8/eventPC.cpp`, `simplePC.cpp` | `mBlock` with `fReady`, `fStop`, `nCons`, `mSequence`, `nLost` | Produce, Consume, main | auto-reset event against a flag; stop flag written outside the lock | whole messages, counts exact, everything stops |
| Job management, `run6/JobMgt.cpp`, `JobShell.cpp` | a file of job records shared by all shells of a user | GetJobNumber, DisplayJobs, FindProcessId, Kill | region locks computed before they are taken, untested writes, reuse of slots | the printed number names the job |
| Socket server, `run12/serverSK.cpp`, `clientSK.cpp` | per client slot: state, socket, thread handle, critical section; `shutFlag` | main, AcceptThread, Server, Handler | waiting with a critical section held; slots handed on before their state says so; shutdown against accept | a slot serves one client; shutdown ends |
| Message framing, `run12/SendReceiveSK*.cpp` | rest of the last chunk per socket or thread | Send, Receive | chunks cut anywhere; a length counted twice | no byte lost or reordered, short messages whole |
| Pipe server, `run11/serverNP.cpp`, `clientNP.cpp` | `shutdownFlag`, one pipe and temporary file per thread | Server, Connect, Handler | a pipe is reused while a thread of its own waits for the next client; clients killed while a command runs | a response only for the client that waits |
| Service, `run13/SimpleService.cpp`, `ServiceShell.cpp` | `hServStatus`, `shutDown`, `pauseFlag` | ServiceMain, ServiceCtrlHandler, UpdateStatus | handler thread against main thread; reports that fail, or overtake each other | the manager knows the state; a stop ends the service |
| Overlapped copies, `run14/cciOV.cpp`, `cciEX.cpp` | a few buffers, events or completion routines, a count | completion of read and write | any order of completions | output equals converted input |
| Threaded sort, `run7/sortMT.cpp` | the record array, one thread per part | SortThread, main | tree of waits | sorted permutation |
| Threaded grep and matcher, `run7/grepMT.cpp`, `grep.cpp`, `obtask.cpp` | arrays of handles and file names, the pattern buffer, the request kept | main, ThGrep, patternMatch | entries move while threads run; retries within a line | each result printed once under its name; only lines that match |
| Record file, `run3/RecordAccess.cpp` | header and records on disk | read, write, delete | crash between two writes; counts that wrap | header counts the records |
| Work counters, `run9` | one counter per worker, a mutex or copies of a lock | Worker, main | main reads what workers wrote | the total is of all tasks |
| Tree sort, `run5/sortbt.cpp` | a tree on a heap per file | FillTree, Scan | exceptions end a file, not the program | sorted, equal keys in order |
| Overlapped read, `run10/splitf.cpp` | offset, pending read | AsyncTestForEnd | reads that stay pending, fail or meet the end | every piece once |
| Utilities, `run1` to `run5`, `run7`, `reference` | none between calls | | sequential I/O | |

Interaction: the pipeline uses the queue through `QueueGet` and `QueuePut` with
`INFINITE`; main of the pipeline destroys the queues after waiting for the
threads. The socket client and server share the framing library. The other
programs stand alone and meet only through files, pipes and sockets.

`PROJECT.json` lists every component with its status, the map from definitions
to source lines, and the hazards, each at its line, with the properties that
watch it or the module that is planned for it.

## Modules

| Module | What it is |
|---|---|
| `BoundedQueue` | abstract specification: a FIFO buffer with clients that hold one message each |
| `MsgQueue` | `QueueObj.cpp` in detail |
| `MsgQueueProofs` | its theorems: typing, safety, and that it implements `BoundedQueue` |
| `Barrier` | abstract specification of a barrier that opens once |
| `ThresholdBarrier` | `ThbObject.cpp` in detail |
| `ThresholdBarrierProofs` | its theorems, the implementation of `Barrier` among them |
| `ThreeStage` | `ThreeStage.cpp`, with queues at the granularity of `BoundedQueue` |
| `ThreeStageProofs` | its theorems |
| `SequenceLemmas` | induction over naturals and sequences, flattening and cutting a stream, remainders and powers of two, counting and order in a sequence, merging and the sort tree, selected elements, for the proofs |
| `EventPC` | `eventPC.cpp` in detail |
| `EventPCProofs` | its theorems |
| `JobMgt` | `JobMgt.cpp` and the commands of `JobShell.cpp`, several shells |
| `JobMgtProofs` | its theorems |
| `ServerSK` | `serverSK.cpp` and `clientSK.cpp` in detail |
| `CSMessage` | the framing of `SendReceiveSKHA.cpp` over one connection |
| `ServerNP` | `serverNP.cpp` and `clientNP.cpp` |
| `SimpleService` | `SimpleService.cpp` under the service control manager, with `ServiceShell.cpp` |
| `ServersProofs` | the theorems of these four, as `MCServers` composes them |
| `CVQueue` | `QueueObjCV.cpp` |
| `SimplePC` | `simplePC.cpp` |
| `WorkCounters` | `statsMX.cpp` and `statsSRW_VTP.cpp` |
| `Overlapped` | `cciOV.cpp` and `cciEX.cpp` |
| `Sorting` | what the sorts compute: `MergeArrays` of `sortMT.cpp`, the tree of `sortbt.cpp` |
| `SortMT` | `sortMT.cpp`, its threads |
| `SortTree` | `sortbt.cpp`, its files |
| `PatternMatch` | the matcher that `grepMT.cpp`, `grep.cpp` and `obtask.cpp` share, and what its comment says of patterns |
| `GrepMT` | `grepMT.cpp` |
| `LogTask` | the loops of `grep.cpp` and `obtask.cpp` |
| `RecordAccess` | `RecordAccess.cpp` |
| `AsyncRead` | `AsyncTestForEnd` of `splitf.cpp` |
| `WorkersProofs` | the theorems of `CVQueue`, `SimplePC`, `WorkCounters`, `Overlapped`, `AsyncRead`, `SortMT`, `SortTree`, `GrepMT` and `RecordAccess`, and the typing of all worker programs, as `MCWorkers` composes them |
| `MC*` | instances for TLC; `MCSamples` composes `EventPC` and `ThresholdBarrier`, whose names differ for that, `MCServers` and `MCWorkers` the servers and the worker programs; `MCWorkers` extends `CVQueue` and instantiates the others; the theorems of `ServersProofs` and `WorkersProofs` are about these compositions, so that they state what the runs check |

In every module a definition introduced as "a bug of that kind" is a mutated
form of the one after it: a run whose module uses it instead must report the
property named with it in `PROJECT.json`, which shows that the property can fail.

### MsgQueue

Variables are the members of `QUEUE_OBJECT` (`qFirst`, `qLast`, `buf` for the
contents of `msgArray`, `allocated` for `msgArray != NULL`, `guard` for the
owner of `qGuard`), the locals of each call (`maxWait`, `waited` for
`TotalWaitTime`, `timedOut`, `msg`) and a position per thread. `QueueGet` and
`QueuePut` are the same code but for the condition, the copy and the two
events, so one set of actions serves both, with `Blocked(t)`, `Transfer(t)` and
`Waiters(t)` for the differences.

| Action | Lines of QueueGet (QueuePut) |
|---|---|
| `Call`, `Acquire`, `AcquireFails` | 9 and 19 (33, 43): the wait for the mutex, which fails on a closed handle and is not checked |
| `ReturnDestroyed` | 10 (34): the return that keeps the mutex |
| `TestBlocked` | 12, 13 (36, 37) |
| `BeginWait` | 14 (38) begins: from here a pulse is noticed |
| `WaitTimesOut` | 14 (38) ends by `CV_TIMEOUT` |
| `TestPasses`, `Transfer`, `Crash` | 12, 21 (36, 45) |
| `PulseAndReturn` | 22 to 25 (46 to 49) |
| `DestroyLock`, `DestroyFree`, `DestroyClose` | 65; 66 to 70; 71 |

`PulseEvent` wakes exactly the threads in `waiting`; a thread in `unlocked`
misses it. The copy and the pulse are separate steps, since threads without the
mutex can run in between once the handle is closed. `Exit` ends a thread, and
an owned mutex is then abandoned and may be taken by another. The accounting of
lines 15 to 18 touches only locals and is taken with the wait at line 19. `Joined`
is the set of threads that main waits for before `QueueDestroy`: all users for
`p2tq` and `t2rq`, not the consumer for the queues in `r2cqArray`.

### ThresholdBarrier

One action per line that takes or gives up the mutex or the event. The count is
not reset, so the barrier opens once; a thread may call again. `Close` may run
at any time, as its interface allows. A released thread that touches the object
after `free` ends the behaviour (`Fault`): what it does then is undefined.

### ThreeStage

A queue is a sequence, and a get or a put is one step. This is what `MsgQueue`
is proved to implement for calls that wait with `INFINITE`; a queue of `n`
slots holds `n - 1` messages. `t2rq` carries blocks. `main` waits for the
producers, then for handles that were never stored (an uninitialised array, so
`JoinConsumers` may happen at any time), sets `ShutDown`, waits for both stages
and destroys the queues. A consumer that is still running then returns, spins
in its call or uses the freed array.

`MessageFill` has no definition in `run10`; its use fixes what the fields must
be.

### EventPC

The members of `mBlock`, with the data and the checksum abstracted to `block`:
never filled, half filled, new or displayed. `overwritten` is a history variable
that counts the messages overwritten before they were seen; no action reads it.
The producer's steps are lines 48, 50, 52 to 54, 54 to 57 and 61, the consumer's
the commands, the wait for the event, the mutex, the test of `fReady`, the
display with its counting, and the stop.

### JobMgt

`file` is the sequence of records of the job file, each the process id it holds;
the place is the job's number. Per shell there are its position, the locals
`size` (`fileSizeLow` in records), `pos` (the file pointer, or the argument of
kill) and `target` (the id to record or to kill), the process handle of the
command (`using`) and the handles that `GetJobNumber` and `DisplayJobs` open and
never close (`handles`). Two variables are history: `number`, the number that was
printed for the process of an id, and `refused`, the ids whose record was not
written. The constant `Protected` says which processes a shell is denied access to:
`OpenProcess` returns NULL for them as for those that are gone (`Opens`), so that
`jobs` frees and `jobbg` reuses the record of such a process although it runs.

| Actions | Code |
|---|---|
| `Jobbg`, `JobbgOfNothing` | `Jobbg` to line 100, with a process or with the untested failure of `CreateProcess` |
| `AddOpen`, `AddFails`, `AddLock`, `AddScan`, `AddWrite`, `AddResume` | `GetJobNumber`, then lines 101 to 113 of `Jobbg` |
| `Jobs`, `ListLock`, `ListScan`, `ListClear` | `DisplayJobs`, one step per record |
| `Kill`, `KillLock`, `KillRead`, `KillOpen`, `KillWait` | `Kill` with `FindProcessId` |
| `Quit` | the quit command, or the end of the shell anywhere |
| `Exit`, `Start` | processes end; vanished ids are given to other programs |

The system's part is external: a lock waits for overlapping locks of other
handles, a read or write of what another handle has locked is refused, a
process object lives as long as a handle to it, an id is reused after that. The
read of one record and the test of its process are one step, since the record
is locked meanwhile or the shell locks nothing at all. `UnlockFileEx` of line 65
names a length that was not locked and fails; `CloseHandle` gives up the lock,
so write and close are one step.

`kill` of a number past the size that `jobbg` has read locks a place that the lock
of `jobbg` does not cover; the write into it is refused, which is not tested (line
62), and the number is printed all the same. `jobs_list` shows it against the help
text. `JobKeepsItsNumber` therefore has two parts: a job with a record that was
written, and that no shell is denied access to, is named by its number
(`NumberNames`), and no write is refused in any other case (`RefusedPastSize`).

Three things the model shows that no text in the repository denies: a shell with
fewer rights frees the record of a job that it may not open; `kill` without a number
reads the first record (the seek of line 140 fails); and when a new process has
the id that a stale record holds, its own registration takes that record for
active and adds another.

### The servers

`ServerSK`. `thState`, `sock` and `server` are the members of `SERVER_ARG` per
slot (the handle is the position of the thread, `none` without one), `accept`
the accept thread with the slot it was given, `mainAt`, `iThread` and
`nRunningThreads` the state of main. A critical section has no variable: only
main waits while it holds one, and does so at three positions, so `CsFree` says
when others get in.

| Actions | Code |
|---|---|
| `Search`, `JoinStopped`, `Spawn`, `WaitAccept` | lines 58 to 94: the search for a free slot; line 76, which assigns to `iThread` twice without order, leaves 0 or 1 |
| `DrainSlot`, `DrainJoin`, `DrainTimeout`, `CloseListener`, `Exit` | lines 96 to 132 |
| `Accept`, `BeginServer` | `AcceptThread` |
| `LoopTest`, `Receive`, `CloseConnection`, `Stop`, `Return` | `Server` |
| `Connect`, `Command`, `ReceiveResponse` | `clientSK` |

Two things the model shows: the server waits for `"$Quid"` where the client says
`"$Quit"`, and it sends no response (the lines are comments), so a client that
gave a command waits until the connection is closed; and one connected client
that says nothing keeps its server thread in `recv` and main in the drain for
ever. `ServerEnds` has just that exception.

`CSMessage`. `staticBuff` is what the socket handle keeps, `message` and
`nRemainRecv` are the call in progress, `wire` the stream; `send` and `recv` take
any part. A chunk without an end mark is subtracted twice (lines 78 and 86), so
a call may return the start of a message that is longer than half the buffer:
`ShortMessagesWhole` says what holds. `Batches`, the lengths that a peer sends, is a
constant: a message may be longer than the buffer, and one longer than `MaxMessage`
is cut and has no end mark (line 111). The same bug makes no byte go astray, which is
`StreamIntact`.

`ServerNP`. One server thread and its Connect thread per pipe, clients that come
and go. The loops test `shutdown`, a variable that nobody sets, while requests and
the handler set `shutdownFlag`; after that every request is taken and none
answered, so `Answered` ends there. The wait for the command is a step of its own
(`CommandEnds`), with no fairness: the command is any program, and the server waits
without limit (line 105). `Answered` is for the clients whose commands end. A client
may be killed while it waits (`Killed`), which leaves its request to be run and its
response to be thrown away.

`SimpleService`. `UpdateStatus` is three steps: it changes the shared status
(`SetState`), passes what is there then to the system (`Pass`), and the report
arrives or fails (`Report`), after one that the other thread passed later perhaps;
`call` holds the call in progress of each thread. A failed report calls
`UpdateStatus` again. When the handler could not be registered (`hStat` is 0) every
report fails, the calls go on inside of each other, and the process ends when the
stack is used up (`StackOverflow`) or the manager finds it stopped. The manager
(`Deliver`, `Start`, `Delete`, `ProcessEnds`) is external and known from how
`ServiceShell` and the service use it: a request to stop is also passed to a service
that is starting, since line 57 accepts controls from the first report on.

The handler may write `SERVICE_STOP_PENDING` over the `SERVICE_STOPPED` that
ServiceMain has just written, and its report may arrive behind the one of
ServiceMain; the service is then known as stopping for ever. No text denies it, so
`StatusKnown` names the exception (`overlapped`: the last calls of the two threads
overlapped, and a stop was asked for or a report failed) and `StopEndsService` what
is left then. While the service runs its loop makes up for a late report
(`StatusCatchesUp`).

### The worker programs

`CVQueue`. Sleeping gives up the critical section and is the end of a step;
`waiter` tells whom a thread waits for or that it was woken and tests again. A
spurious wake-up is allowed. Where main of the program would destroy a queue with
sleepers nothing is promised, so `QueueDestroy` has the guard that no thread is in
a call. `SleepersWoken` is the invariant behind one wake per change: while a
thread sleeps on an empty (full) queue that has since changed, enough others are
on their way.

`SimplePC` has the steps of `EventPC` without the event; `fStop` is written
outside the section. `nLost` counts the message at hand as lost, which
`CountsExact` states as it is.

`WorkCounters`, `SortMT`: the work that a thread does on data of its own is one
step. In `SortMT` a behaviour stops (`fault`) where the records are not divided
into 2^k equal parts and a handle or record past the end of its array would be
read; with even parts `SortRight` says that it does not.

`Overlapped`: the system completes operations in any order and moves the data
some time before; cciOV is given the lowest index, cciEX any.

In `PatternMatch` `Again` is one place of the label `Again` of the matcher, given what
follows at the others, and `patternMatch` the recursive function over all places;
`Documented` is the comment of `grepMT.cpp` lines 94 to 105. `GrepMT` has a step per
line of a file, `Collect` with the move of the last entry; a thread reads its entry
when it starts, which may be after the move. `LogTask` uses the matcher for the
loops of grep and obtask. obtask looks for the thread number anywhere in the line,
not in its column; `Answers` states it so, and `Wanted` what is to be printed for a line.
`Answers` also takes every line with `r.length()` in it for an answer, as line 181
does; the comments of the program ask for more, which is the finding of `obtask_doc`.

An argument that begins with a minus sign is an option (`IsOption`). When that is the
pattern, each thread takes the name of its file for the pattern, searches nothing and
prints nothing; the temporary files are left open. main waits for no more than
`MAXIMUM_WAIT_OBJECTS` threads: with more files `WaitForMultipleObjects` fails and
line 49 makes an index of its result. The model says that this happens (`WaitFails`
sets `wild`) and not what comes of it.

`RecordAccess` writes the record, then the header, and may be killed between:
`CountAfterCrash`, a part of `CountsExact` of `MCWorkers`, bounds the difference by
the number of such crashes and of counts that wrapped around. `SortTree` has one action per record.
`AsyncRead` has a step for the read, one for the system and one for each request for
the result. Any read may fail, any number of times; before the end of the file it is
then tried again at once and without end (line 198), which `AsyncReadEnds` excepts
together with a read that stays pending.

## Runs

| Run | Instance | What it shows |
|---|---|---|
| `queue_ring` | 2 putters, 2 getters, 2 messages, 3 slots, `maxWait` INFINITE or 0, all joined | typing, `StatusTruthful`, `MutualExclusion`, `ImplementsBoundedQueue`; about 1.5 million states up to symmetry |
| `queue_live` | 2 putters, 1 getter that is not joined, 2 slots, `maxWait` INFINITE or 10 | `NoSuccessAfterDestroy`, `LostPulseHarmless`, `TimedCallReturns`, with the queue destroyed in use |
| `pipeline` | 2 producers of 6 messages, blocks of 3, queues of 3, 2 and 2 slots | `NothingLostOrReordered`, `StagesEndWithTheirInput`, `ProducersFinish`, `GoalsReached` |
| `samples` | the exchange with a DWORD of 5 values, or the barrier with 3 threads, threshold 3, 2 calls each, close at any time | `DisplayedOnceAndWhole`, `ReadyIsAnnounced`, `LostCountExact`, `ConsumeCompletes`; `ImplementsBarrier`, `ClosedGateIsOpen`, `BarrierOpens`; about 10,700 states |
| `jobs` | 2 shells, 3 process ids, one of them closed to one shell, 2 commands, one record at the start | `JobKeepsItsNumber`, `OneScanner`, `CommandsEnd`; about 125,000 states |
| `jobs_list` | 2 ids, 3 commands, also an empty file | a violation, below |
| `event_stop` | the exchange of `samples` | a violation, below |
| `pipeline_join` | that of `pipeline` with 3 messages each | a violation, below |
| `servers` | socket server with 2 slots and 2 clients; framing with a buffer of 4 bytes, messages of at most 6 and up to 2 of them, of 0, 1, 2, 5 or 7 characters; 2 pipes and 3 clients; a service with 2 failing calls | `SlotServesOneClient`, `DrainLeavesLateAccept`, `MessagesFramed`, `PipeServesOneClient`, `StatusKnown`, `ServersSettle`; about 128,000 states |
| `workers` | the ten worker programs, one chosen at the start | `SleepersWoken`, `CountsExact`, `CopyConverted`, `SortRight`, `GrepReports`, `MatchesRight`, `WorkersEnd`; about 60,000 states |
| `grep_doc` | 3 patterns, 2 files | a violation, below |
| `obtask_doc` | logs of up to 3 lines of one thread | a violation, below |

Bounds. Three slots are the fewest in which both tests of `QueueFull` and the
wrap of both indexes occur with more than one message inside; two putters and
two getters are the fewest in which a pulse wakes more threads than can be
served and a woken thread is overtaken. `maxWait = 0` still waits one round
(the test is `TotalWaitTime > maxWait`), 10 waits two; `TotalWaitTime` is bounded by
that and never wraps around. In the barrier the six calls exceed the threshold, so late calls are
covered; `MaxCalls` bounds the calls of one thread. In the pipeline 14
messages in blocks of three make a partly filled last block, an end message
within a block, and blocks that mix both streams; all buffers together hold
fewer, so every queue fills and a stage that stopped would stop the producers.

`EventPC` has two threads; its counters wrap around at `Wrap`, five in place of
2^32, so that every difference is also taken across the wrap.

Two commands are every pair of adding, listing and killing, at every
interleaving; the third process id is one that another program can take from a
stale record, and closed to one of the shells (`Protected`). Without three commands no shell sees what two others left, which
the theorems of `JobMgtProofs` cover for any number. Shells really may all quit,
so deadlock is not checked there; `CommandsEnd` says that none is stuck before.

Servers and workers. The programs of one run share no state, so the states add
up instead of multiplying. Two slots and two clients are the fewest in which a
slot is handed on while another is served, and the drain meets both kinds of
slots; the buffer of `CSMessage` has four bytes and a message at most six, so the
messages are shorter than half a buffer, equal to it (1 and 2 bytes with the end
mark), longer, longer than the buffer (6) and too long to be sent whole (8). Three clients of two pipes
reuse one. Four threads on rings of two and three slots wake each other in every
way. Files of up to nine bytes make up to five records of two bytes for the
three slots of the overlapped copy, so that a slot is used twice, and a last
record that is full or short; the shift wraps a byte. Up to eight records in up
to four threads have two rounds of merges and the uneven divisions. The patterns are all of up to two elements, anchored or not, and some
of three, against all lines of up to three letters; the grep threads have two
and three files of every kind, an option in place of the pattern, and four files where
main can wait for three (`MAXIMUM_WAIT_OBJECTS`). Logs of obtask have up to four lines of two
threads. One crash and one wrapped count (`MaxTorn`, `MaxWrapped`) suffice to
tell their effects apart. These programs really stop or wait for their users,
so deadlock is not checked there; the liveness properties say where they may
not stop.

Fairness. The Windows scheduler runs every ready thread, hence weak fairness of
the steps of a call. A mutex serves its waiters in turn, hence strong fairness
of taking it: it is not continuously free, but free again and again. A wait with
`CV_TIMEOUT` ends. Nobody is obliged to call or exit; main need not
destroy the queue, but goes on once it has begun. The user of `eventPC` need not
type, nor that of a job shell; a shell that has begun a command goes on, and gets
a lock that is free again and again. The closer of the
barrier is only obliged to give the mutex back. In the pipeline each thread has
weak fairness; main has none. In the servers the threads have weak fairness,
and strong fairness where they enter a critical section that main takes again and
again. No user need type, connect or leave, and no command that a client sends need
end. The system completes its operations; the reads of `splitf` may fail every time.
In `simplePC` the producer takes the section again and again, hence strong
fairness of the consumer that waits for it.

Where deadlock is checked, `Finished` and `Stopped` describe the states in which
the program has ended or really stops. `Stopped` of `ThreeStage` includes two
hangs of the program that `ShutDown` leads to: the transmitter leaves at line 161
while the receiver waits for a block at line 186, or the receiver leaves at line
185 while the transmitter waits for room at line 172; main then waits for ever at
line 114 or 115. No text in the repository denies it, so this is recorded here
and among the hazards only.

## Findings

`event_stop`: the prompt of `run8/eventPC.cpp` offers "'s' to stop" (line 73). The
stop command computes `ShutDown = mBlock.fStop - 1` (line 77), which ends the
consumer, but nothing ever sets `fStop`, so the producer goes on (line 48) and
main waits for it for ever (line 36).

`pipeline_join`: main stores the handles of the consumers in
`produceThreadArray` (line 87), overwrites them with those of the producers (line
91) and waits on `consumerThreadArray`, which it never wrote (line 109). It may
therefore report "all consumers have completed their work" (line 112) and set
`ShutDown` while consumers are running.

`jobs_list`: `GetJobNumber` locks as many bytes as the file had before the lock
(lines 46 and 47), so the place where a new record goes is not locked. While another
shell is about to read that place to kill the job of this number (lines 142 to 144)
the write is refused; line 62 does not test it and line 68 prints the number. The job
runs without being listed, while `JobShell.cpp` line 9 promises "List all background
jobs". When the file is new nothing is locked at all: two shells that register
their first jobs together write the same record. Once there is a record all regions
overlap, and `JobKeepsItsNumber` says what holds then.

`grep_doc`: `grepMT.cpp` line 95 "Looks for pattern in files" and line 103 "$
matches the end of the line". There is no case for `$` in the preparation of
patterns, so `b$` misses the line `b`. Nor does the matcher go back in the line
after a partial match (line 320), so `ab` misses the line `aab`; and the second star
of `**` stays a character. `MatcherRight` states what does hold: no line is
selected wrongly, and none is missed by patterns that are anchored, begin with a
star or have one element.

`obtask_doc`: `obtask.cpp` line 6 asks to print a line when `length > 0`, and line 180
speaks of `r.length()>0`; line 181 only looks for the text `r.length()`, so a request is
printed with an answer that tells of no result. `TasksPaired`, which `GrepReports`
contains, states what the code does hold to: that requests and answers are paired.

## Proofs

All theorems hold for every value of the constants under the assumptions named
in the modules: more than one slot, disjoint putters and getters, owners
distinct from `None`, finitely many threads and, for the condition-variable
queue, positive sizes. `PipelineAssumption` asks for finitely many
producers and at least one, blocks of at least one message and queues of more than one slot, without
which a queue is full and empty at once. `ServersAssumption` asks for a slot, a
buffer of at least one byte, that what a peer may send is sequences of lengths, and
that no socket and no client is the value for none. `WorkersAssumption` asks that a DWORD and a byte have more than one value, that
buffers, records and the number of overlapped operations are positive, and that the
sizes of files, the bounds and the keys of records are natural numbers; the files of
`sortbt` number their records (`tag` is the place in the file), which is what tells
records with one key apart; the files of a command line of `grepMT` are sequences of
lines of characters. `LogAssumption` says that the lines of a log have a thread number,
and that it is no code of a metacharacter.

`MsgQueueProofs`. The inductive invariant `IInv` is the conjunction of

- `TypeOK`;
- `DestroyInv`: how `allocated`, the two handles and main's position agree;
- `GuardInv`: while the array exists, a thread at a critical point owns the
  mutex, and main owns it while it frees;
- `TransferInv`: for a thread about to copy the loop test still holds and its
  time is not up;
- `RingInv`: the slots between the indexes hold messages;
- `HandInv`: a putter holds a message until it has copied it, a getter none
  before;
- `StatusTruthful` and `NoSuccessAfterDestroy` themselves.

`StatusTruthful` is not inductive alone. That the ignored result of
`QueueRemove` is always 0 needs `TransferInv`; that this survives the steps of
other threads needs `GuardInv` as long as the array exists, and afterwards that
nothing changes the ring any more: a copy through the freed array ends the
process. Which of the two cases holds is `DestroyInv`. Theorems: `TypeCorrect`, `StatusIsTruthful`,
`QueueMutualExclusion`, `DestroyedQueueIsDead`.

There too, `QueueImplementsBoundedQueue`: `QueueContents` reads the ring from
`qFirst` on; the lemmas `RemoveIsTail` and `InsertIsAppend` relate the modular
arithmetic of the indexes to `Tail` and `Append`, and every step is mapped to one
of `BoundedQueue` or to a stutter.

`ThresholdBarrierProofs`. `BarrierTypeCorrect`, `CloseLeavesNoWaiter` and
`BarrierImplemented`. The invariant says that a thread that counts or
tests, and the closer that tests, own the mutex (`GuardInv`); that once the
threshold is reached the event is set, or nobody waits, or a thread stands at
its test and will set it (`GateInv`); and that a closer past its test found the
threshold reached and the event set for whoever waits (`CloseInv`). Since the
closer's test needs the mutex, the last case of `GateInv` is excluded there.

`EventPCProofs`. `EventTypeCorrect`, `EventDisplaysWhole`, `EventAnnounces`,
`EventCountsLost`. Whoever looks at the block owns the mutex (`GuardInv`), the flag
tells whether the block is new (`FlagInv`), and every message produced is consumed,
overwritten or in the block (`CountInv`). The sums are modulo `Wrap`;
`CountOverwritten` and `CountConsumed` prove what one step does to them.

`JobMgtProofs`. `JobTypeCorrect`, `JobOneScanner`, `JobNumbersStable`, for a file
that is not empty at the start (`SeededSpec`). The file never shrinks, so every
size is at least one and every two regions share the first record
(`RegionsOverlap`); hence one shell scans at a time. `JobKeepsItsNumber` is not
inductive alone: it needs `ChosenInv`, that no active job is known by the record
a shell has chosen to write, which only the shell that writes could change.
`RefusedPastSize` follows from `OneScanner` and `KillApart`: while a shell scans no other
has a region, and a kill that reads has its lock behind the size.

`SequenceLemmas`. `LeastElement`, from the well-foundedness of the order of
finite sets, gives induction over the naturals (`SetInduction`) and over sequences
(`SequenceInduction`), stated with a set in place of a predicate. With it the
`Flatten` lemmas say what `FlattenSeq` does at either end of a sequence of
sequences. The `Regroup` lemmas say that the concatenation of a message, what the
handle keeps, the wire and what is still to send stays the same when one of them
hands bytes to the next. The `Remainder` lemmas prove from the definition of division
what a remainder by any positive number is, and what adding or taking one does to it.
`Powers` is the least set with 1 that is closed under doubling, which gives induction
over it; of two powers one divides the other (`PowersCompare`), and a multiple of one
that is not a multiple of the next is followed by one that is (`NextGroup`). The
`Count` lemmas count an element in a part of a sequence when the part is cut, copied
or grows; `SameCounts` is how often every element occurs. The lemmas about `Sorting`
say what `MergeArrays` and the tree of `sortbt` compute: `MergePath` which records
are taken, `PathOrdered` and `PathCounts` that they come in order and none is lost.
The links of a tree lead to later nodes (`IsTree`), so what `Scan` and the descent of
`InsertTree` compute is found by induction from the last node (`FromLast`). A new node
changes what is printed of the nodes on its way only (`ElsewhereSame`), and there it is
put behind all records whose keys are not after its own and before the others
(`GrowsOnTheWay`); `InsertSorts` adds it up for the root. The `Kept` lemmas are about the
elements of a sequence at given places, in their order (`KeptUpTo` of `GrepMT`).

`ThreeStageProofs`. `PipelineTyping`, `StagesEnd` and `PipelineKeepsOrder`. `For(i, s)`,
the messages in `s` for consumer `i`, is a recursive function; `ForAppend`, `ForHead` and
`ForConcat` are proved by induction. `StageInv` is about who is done. `Stream` is all that is
under way to the receiver's output, in order; it is `Closed`: no message follows
the end message of its producer, and a producer that has exited and of which a
message is left has its end message in it. `Counted` says that the two counts are the
numbers of producers whose end message is still to come, so that a count of zero
means that nothing comes any more. `OrderInv` adds that the messages under way to a
consumer are those that its producer sent and the consumer has not counted; each
step moves one message or one block from the end of one part to the next, which
leaves `Stream` as it is, or appends to it, or takes its head.

`ServersProofs`. Its theorems are about `MCServers`, which composes the programs, so
that they state the very properties that `servers` checks. `ServersInv` is a conjunct
for each program, and a step of one leaves the variables of the others alone.

- `serverSK` (`SlotNotShared`, `DrainCountsAll`): `SlotsInv` says that a slot that main
  may give away, or that the accept thread fills, has no server thread; `DrainInv`, that
  in a round of the drain that has counted nobody the slots behind main hold at
  most the thread of a late accept.
- framing (`FramingKeepsMessages`): `ReceiveInv` says that a call in progress has left
  nothing in the handle, holds no end mark, and has subtracted each byte of its
  message twice. From that a message that was returned is `Whole`: it ends with its
  only end mark, or is at least half as long as the buffer, from which
  `ShortMessagesWhole` follows with `StreamIntact` by counting end marks. Nothing is
  assumed of the lengths.
- `serverNP` (`PipeNotShared`): `RequestInv` says that a request is at one place only,
  while its client reads unless it was killed; `UserInv` that a client is known to one pipe.
- service (`ManagerKnowsStatus`): `CallInv` says that nothing runs before the service is
  started, that without a handle only the report that never succeeds does, and that
  every call in progress after `ServiceMain` has returned leads to a stopped state;
  `AloneInv`, that a call which overlaps no other reports the state that is there;
  `SmoothInv`, that while no stop was asked for and no report failed the state is
  changed once only, so that an overlap does no harm.

`WorkersProofs`. As with the servers, its theorems are about `MCWorkers`, which composes
the programs: `WorkersInv` has a conjunct for each, and `OneProgramMoves` says that a
step is one of a single program or leaves it alone. Every conjunct contains the typing
of its program, which is `WorkersTypeCorrect`.

- condition-variable queue (`CVTypeCorrect`, `NoWakeUpLost`): a step changes the state
  of the caller and of at most one thread it wakes; `OneMoves` says what one change
  does to the number of threads in each state, `RemoveCounts` and `InsertCounts` what
  the modular arithmetic of an index does to the numbers of messages and of free
  slots. `SleepersWoken` restates as an inequality between these numbers (`Enough`),
  which every call keeps: when a thread still sleeps after a message was put, one more
  is awake for one message more. `IdleInv`, that nobody is in a call while there is no
  array, is needed for the new sizes of `QueueIntialize`.
- `simplePC` and the counters (`CountsStayExact`): `Balanced` says that the messages
  produced and not consumed are those replaced and the one that is ready, all modulo
  `Wrap`. In the stats programs main adds up the workers it has awaited; `SumOf` is the sum
  over them, and the counter of a worker that has ended is its number of tasks.
- overlapped copy (`CopyStaysConverted`): `SlotInv` says that a slot works on records
  of its own residue modulo `MAX_OVERLP` (`Place`), so that no two slots have one
  record, and that what it has written is converted.
  `nDone` is the number of records read and handled and of those written and
  handled, each counted as a finite set (`OneMoreRecord`); when it has reached twice
  the number of records, every slot is past the end of the file, so that nothing is
  under way and every byte is written. For `splitf`, `ARInv` says that the pieces
  read so far end where the next read begins.
- threaded sort (`FilesStaySorted`): `Groups(th)` says that a thread's `twoToi` is a
  power of two that divides its number, that the records of its group are in order
  once it has sorted, and that the other threads of its group have ended, each with a
  group inside. A thread that merges waits for the first thread behind its group; that
  one has ended, so its group is as large as it could become, which is the size of the
  group that waits (`SameSize`). When thread
  0 has ended its group holds all records, so all threads have ended. `EvenRoom` says
  that a group that goes on has a whole group behind it when 2^k threads divide the
  records evenly, which rules out the fault.
- tree sort (`FilesStaySorted` too): the records of a file that could be read
  (`FirstRecords`) are filled into its tree one after the other, and their tags grow, so
  `InsertSorts` applies to each; a tree that an exception has ended is empty again
  before the next file.
- threads of grepMT (`FilesReportedOnce`): a thread reads the entry of the tables with its
  own number, which may be after main has moved entries. It still finds its own file and
  temporary file there (`OwnEntry`), for main overwrites only the entry of a thread that
  has ended (`CollectKeeps`). No thread is twice among those that main waits for
  (`Waiting`), so what is printed (`IsReport`) is of a thread that has ended, has left the
  table and was not printed before. `IsSearch` says which lines a thread has kept so far;
  with no option `-y` among the files these are the lines up to its place that the
  matcher accepts, whatever it accepts. When the pattern is an option no thread gets to
  read a line.
- loops of grep and obtask (`FilesReportedOnce` too): what was printed is `AllWanted` of
  the lines read. obtask keeps one request only; `KeepsRequest` says that it is the only one
  among the lines read that waits for an answer (`Pending`), for of two such requests the
  second has replaced the first (`OnePending`), and that `threadID` is its number.
  `CharacterFound` says what the matcher does with a pattern of one character, which a
  thread number is: it finds it in the lines that have it. The matcher is the fixed point
  of `Again`; `MatcherDefined` gives one, `Finds`, and the value of any other is determined
  from the end of the line to its start (`PlaceIs`).
- record file (`CountsStayExact` too): `OffBy(d)` says that the header differs from the
  number of used records by `d` and no more than the crashes and wrapped counts
  allow; between the two writes of a command it is off by the change that is still to
  be written, and a crash there is counted.

Only model-checked: all liveness (`LostPulseHarmless`, `TimedCallReturns`,
`BarrierOpens`, `ConsumeCompletes`, `CommandsEnd`, `ProducersFinish`, `GoalsReached`,
`ServersSettle`, `WorkersEnd`), which is out of the prover's reach; and `MatchesRight`:
it holds for the patterns of the run and not for all (`$` has no meaning for the
matcher, see `grep_doc`), and the preparation of a pattern is a fold, which the
prover cannot unfold.

## Not modelled

Failure of `calloc`, `CreateMutex` and `CreateEvent`, whose results the callers
ignore, printing, the CPU delay and the trace flag. The programs that are
sequential I/O, and those listed with status `not_modelled` in `PROJECT.json`
with their reasons. Within modelled parts:

- `SendReceiveSKST.cpp`, the framing with thread local storage: line 91 sets
  `pBuff` to a place in the message and line 93 writes a member through it, so what
  the code does next is undefined;
- the contents of the messages of `QueueObjCV.cpp`, whose address line 68
  computes with a `+` for a `*`; its line 60 lacks a parenthesis, read as there;
- `QueueObjCancel.cpp`: two flags that nothing reads;
- `serverCP.cpp`, whose `Server` and `Handler` have no body; `socket.cpp`, one call
  after the other;
- `sortfl.cpp` and `sortmm.cpp`: `qsort` on a buffer or a file mapping;
- a crash of `RecordAccess` while it creates the file, and the data and times of a
  record, and writes that fail without a crash, which are not tested; `ObAccess.cpp`
  is nearly the same program;
- what grepMT does after its wait for too many threads has failed;
- `dwCheckPoint` and the log of the service;
- options of `grep` and `obtask`, but for what `-y` makes of the lines; `extractf.cpp`,
  `tree.cpp`;
- the part of `serverNP.cpp` behind the loop that nothing ends.

## Plan

All safety properties of the passing runs but `MatchesRight` are theorems. What is left is to say for
which patterns of any length the matcher misses no line (`Complete` on the given
patterns), and to prove it; and the hazards that no property covers yet, which
`PROJECT.json` lists with the reasons.
