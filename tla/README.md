# packetSentinel in TLA+

This directory specifies packetSentinel, a deep-packet-inspection engine in C++
that reads a PCAP file, drops the packets that a rule forbids and writes the
others to a second PCAP file. TLC checks the specifications on small instances;
the TLA+ proof system proves the theorems for every value of the constants.
Paths below are relative to the repository.

1. [Inventory](#1-inventory): the parts of the program and what is hard about them
2. [Plan](#2-plan): which module models what, what comes next
3. [The modules and the code](#3-the-modules-and-the-code)
4. [The runs](#4-the-runs): what each one asks, its bounds
5. [Fairness](#5-fairness)
6. [The proofs](#6-the-proofs)
7. [Where the program and its documentation disagree](#7-where-the-program-and-its-documentation-disagree)
8. [What is not modelled](#8-what-is-not-modelled)

## 1. Inventory

```
processFile --> reader --> LB queue --> load balancer --> FP queue --> fast path --> output queue --> writer
  (caller)     1 thread    1 per LB      num_lbs threads   1 per FP     num_lbs*fps_per_lb threads    1 thread
                                                                           |  |
                                                     own ConnectionTracker +  + shared RuleManager <-- caller
```

| Part | State it keeps | Operations | What is hard about it | What makes it correct |
|---|---|---|---|---|
| `ThreadSafeQueue` (include/thread_safe_queue.h) | `queue_`, `shutdown_`, one mutex, two condition variables | push, pop, tryPop, shutdown | `notify_one` with several waiters, deadline against notification, notify after unlock | bounded FIFO, no lost wake-up, shutdown releases everybody |
| `DPIEngine` (src/dpi_engine.cpp) | `running_`, `processing_complete_`, the threads, the output file, `stats_` | processFile, start, stop, waitForCompletion, reader and writer loops | stop while packets are on their way; order of the joins; draining by a sleep | no packet duplicated, unaccounted for or reordered in its flow; stop ends |
| `LoadBalancer`, `LBManager` (src/load_balancer.cpp) | input queue, `running_`, counters | run, selectFP, getLBForPacket, startAll, stopAll | a push into a full fast-path queue blocks it | a flow always takes the same way |
| `FastPath`, `FPManager` (src/fast_path.cpp, src/fp_manager.cpp) | input queue, `running_`, counters, a tracker | run, processPacket, inspectApplication, shouldDrop | blocks on the output queue; the rules change while it reads them | only checked packets are forwarded; a blocked flow stays blocked |
| `ConnectionTracker`, `GlobalConnectionTable` (src/connection_tracker.cpp) | the flow table, three counters | getOrCreate, update, classify, block, close, cleanup, evict | eviction at the limit; statistics read by other threads without a lock | the table is bounded, a flow keeps its classification and verdict |
| `RuleManager` (src/rule_manager.cpp) | four kinds of rules, each under its own shared mutex | block, unblock, is...Blocked, save, load, clear, statistics | operations over all four kinds are not atomic | a rule that stands is enforced; a saved file restores the rules |
| `PcapReader`, `PacketParser`, `createPacketJob`, `SNIExtractor` | none that outlives a call | offset arithmetic on a byte array | lengths inside lengths, read from the packet; unsigned subtraction | never read outside the packet; the host found lies where it was announced; every walk ends |
| `PipelineManager` (src/pipeline_manager.cpp), the same workers under another owner | `running_`, `packets_submitted_` | start, stop, submit, getStats | restart; a submit counted although the queue is shut; statistics read while the workers run | what it counts is accounted for, in the order of its flow; every call returns |
| reports, command line | none | formatting | nothing | - |

The parts interact in three ways only: packets travel by value through the
bounded queues; all fast paths read the one `RuleManager`, which the caller's
thread may change at any time; and the caller starts, stops and joins the
threads through their `running_` flags and the `shutdown_` flags of their
queues. Each `ConnectionTracker` belongs to one fast path; other threads only
read it, for reports.

The hazards of this code, each with its line and the properties that would
catch it, are listed in PROJECT.json.

## 2. Plan

Done, in this order, the most important behaviour first:

| Module | Component | Abstract specification | Proofs |
|---|---|---|---|
| ThreadSafeQueue | the monitor, critical section by critical section | BoundedFifo, by refinement | ThreadSafeQueueProof |
| DPIEngine | the threads, queues, flags and joins of the pipeline | PacketFilter, by refinement | DPIEngineProof, Sums |
| RuleManager | the rules and the calls that take four mutexes in turn | - (CheckRegular says what a check promises) | RuleManagerProof |
| FastPath | a fast path, its flow table, and the rules it shares | RuleManager, by refinement | FastPathProof |
| Dissection | from the record in the file to the host in the payload | - | DissectionProof |
| RuleFile | RuleManager with saveRules, the file, and loadRules | the changes of RuleManager: a load is a sequence of them | RuleFileProof |
| Dispatch, Pipeline | how the two levels of workers are picked; PipelineManager and its workers | - | PipelineProof, Sums |

DPIEngine and Pipeline are the two tops of the same workers: the first has the
reader, the verdicts, the writer and the way processFile stops them, the second
the owner's submit and getStats, the restart, and the counters of both levels.

What could follow: closeConnection, cleanupStale, clear and getConnection of the
tracker, once anything in the program calls them (today only
tests/connection_tracker_test.cpp does, from one thread). Every invariant that a
run checks is also a theorem, and so is what liveness needs of safety: that a
sleeper is owed a notification in ThreadSafeQueue, and who waits for whom in both
pipelines.

## 3. The modules and the code

PROJECT.json maps every definition to its lines. In short:

**ThreadSafeQueue.** `queue_`, `shutdown_` and `max_size_` are the members of
these names. `pc` says where a thread is in its call and `slot` what it carries.
A step is a critical section: from the acquisition of the mutex to the return,
or to the wait that releases it. What lies between two critical sections of a
thread is interleaved: the way from a notification back to the mutex, spurious
wake-ups, the absolute deadline of `wait_for` (also when it passes between the
wake-up and the mutex), and the two `notify_all` of shutdown, made after the
mutex has been released. `notify_one` under the mutex in push and pop is in the
same step; whom it wakes is free. `BoundedFifo` has none of this: a call takes
effect in one step.

**DPIEngine.** One variable per member and one program counter per thread
(`main` for the caller, `at[t]` for the others); one action per statement that
another thread can see. Threads are numbered along the pipeline, so that stopAll
is a cursor that goes from 1 to NumLBs + NumFPs and an order along the pipeline
is an order of numbers. A push or a pop is one step, which ThreadSafeQueue's
refinement of BoundedFifo justifies. `total_packets`, `per_fp_counts_`,
`packets_processed_`, `packets_dropped_` and `forwarded_packets` are the
counters of the code, incremented where the code does it: a balancer pushes a
packet (src/load_balancer.cpp:103) and counts it in a later step
(CountDispatched, 107-108), in between `fp_index` is the local variable of that
name and the fast path may already have judged the packet. `fate` is a history
variable. The verdict is a free choice, since FastPath says what it may be and
nothing in the pipeline depends on it. `Capture` holds the records of all input
files one after another; a call of processFile reads the next one.
`PacketFilter` knows no threads and queues: one verdict per packet, at most one
writing, both in the order of the flow.

**RuleManager.** Blocking or unblocking one thing is one step. A check
(shouldBlock, and shouldDrop of the fast path, which repeats it with the same
four lookups) and clearAll take the mutexes one after another: one step for
each, the rules may change in between. Domains are sequences of labels, as
normalizeDomain leaves them. `stood` and `ever` are history: the rules in force
during all, or some, of a call.

**RuleFile** extends RuleManager with the file. saveRules copies one kind of
rules after the other under their mutexes, in any order that the hash table may
list them: four steps, with the rules changing in between. loadRules reads one
word a step, as operator>> does, and a type with its value is one call of
blockIP, blockApp, blockDomain or blockPort, a change that RuleManager has. What
the conversions make of a word (`parseIP`, the names of applications,
normalizeDomain, stoi and the cut to 16 bits) are constant functions of the
words; Word is what is written for a rule. An empty domain is written as an
empty word, which reading skips. `kept`, `seen`, `saved`, `loaded` and `ours` are
history. One thread at a time uses the file, and holds it from a save to the
load of what it saved.

**Dispatch** picks a balancer and one of its fast paths from one and the same
hash, and numbers the workers. **Pipeline** has one owner, whose calls follow one
another as the plain members of PipelineManager require: `main` says how far it
is, and `cursor` at which worker stopAll or getStats is. getStats reads one
counter a step, in the order of the code, while balancers and fast paths go on;
packets_dispatched_ is stepped after the push, in a step of its own, for that is
what getStats can see. Receiving and counting the packet as received is one
step, since no reader of the counter sees the queue. `fate` and `settled` are
history. Without rules and without an output queue processPacket accepts, and
pushes nothing.

**FastPath** instantiates RuleManager with the fast path and other threads as
its clients. TakePacket is processPacket up to shouldDrop: look-up or
creation with eviction, update, inspection, classification, all on data of one
thread and therefore one step. Then the four steps of the check, then Drop
(blockConnection and the counter) or Accept.

**Dissection** is one chain of reads of headers of their real sizes: record,
Ethernet, IPv4, TCP or UDP, createPacketJob, the tests inspectApplication
repeats, and then either the walk record - handshake - hello - session id -
cipher suites - compression methods - extensions - server_name list - name, or
the lines of an HTTP request. Bytes are not stored: what a length field says is
chosen from `Number` when it is read, which is sound because the code reads no
length twice. `left` is what the code's end offset minus its current offset
would be; `outer` (the end of the structure around that one), `read` and
`headers` are history variables. HostInside therefore has a server name end
within its list (`at + left`), and the list within its extension (`outer`). normalizeHost is
any part of the line behind "Host:". A payload that begins as a TLS record does
not begin with an HTTP method, so a failed TLS walk ends the inspection there,
although the code asks isHTTP as well.

| Abstracted | How, and why that is harmless |
|---|---|
| addresses, ports, applications | model values; the code compares them only |
| packets of the pipeline | their position in the capture; payloads matter in FastPath and Dissection only |
| payloads in FastPath | the host the extractors find in them, or none; Dissection says where it lies |
| time in FastPath | one tick per packet: `steady_clock` is taken to grow between two packets, so that the least recently seen flow is unique |
| packets_in, packets_out, byte counts of a connection | left out; nothing depends on them |
| packets_received_ and packets_dispatched_ of a balancer | in Pipeline; DPIEngine has per_fp_counts_, whose sum is packets_dispatched_, which a report prints, but for the moment between the two statements that step them (src/load_balancer.cpp:107, 108) |
| texts of rules | sequences of labels; no blanks inside, which would make two words of a domain in the file |

## 4. The runs

Every pass run explores its instance completely. Sizes are distinct states.

| Run | Question | Instance | States |
|---|---|---|---|
| queue | Is a notification ever lost, does shutdown release everybody, does tryPop return, is it a FIFO? | 3 threads that make any calls for ever, 2 items, capacity 2 | 20 thousand |
| engine_safety | Are packets duplicated, lost without a trace, miscounted, reordered, or written without a check, whenever stop comes? | 1 balancer, 2 fast paths, two calls of processFile of 3 and 1 packets and an ignored record, QueueCap 1, OutCap 3 | 256 thousand |
| engine_drain | If the sleep is long enough, is every packet answered, and does processFile return? | 1 balancer, 2 fast paths, all capacities 1 | liveness |
| engine_blocked | Does stop always return? (No.) | 1 balancer, 1 fast path, 2 packets, OutCap 1 | violation |
| engine_restart | Does a second processFile work? (No.) | two files | violation |
| pipeline | Are packets accounted for and in order, statistics in bounds, across stops and restarts; does every call return, and is what is submitted processed? | 1 balancer, 2 fast paths, 4 packets of two flows, QueueCap 1, up to 2 starts | 36 thousand |
| pipeline_counts | When everything has been processed, do the statistics say it was dispatched? (No.) | 1 balancer, 1 fast path, 1 packet | violation |
| dissection | Can lengths in a packet lead a read, or the host, outside? | a file of 133 bytes, records up to 117 | 770 thousand |
| rules | What do a check, clearAll and a saved file promise while rules change? Do saved rules come back? | 1 thread with all calls, all changes; one value of each kind but domains: two names, a pattern and the empty one; three files written by hand | 1.6 million |
| fastpath | Does a blocked flow stay blocked, is the first host of a flow always enforced, while rules are only added? | 2 flows, table of 2, 4 packets | 1 million |
| fastpath_table | Is the table bounded, do the counters count connections, is the verdict regular, while rules change? | 2 flows, table of 1, 2 packets, another thread that clears | 1.6 million |
| fastpath_evicted | Does a blocked flow stay blocked in a full table? (No.) | as fastpath, table of 1 | violation |

Why the bounds are enough:

- *queue.* Three threads are the least with which a notified thread can find
  its item taken by a second one while a third sleeps; with capacity 2 the queue
  can be empty, between and full. Nothing bounds the number of calls.
- *engine, pipeline.* Capacity 1 makes every queue full and empty. Two flows that
  share the balancer and have different fast paths make packets overtake each
  other; that flows also keep their order between several balancers is what the
  proofs add. OutCap 3 in engine_safety is chosen so that stop always ends
  there; engine_blocked is the run for a full output queue. Two files, or two
  starts (MaxStarts), are enough to restart, with leftovers of the first time in
  the queues. engine_safety leaves the length of the sleep open
  (SleepOutlastsDrain = FALSE: stop may come at any moment after the reader has
  ended).
- *dissection.* A TCP frame with a server name of one byte has 113 bytes. With
  records of up to 117 bytes, that frame and one with an empty extension in front
  are reached with all their nested lengths right, next to all lengths that are
  wrong by a little or by much; the rest of the file holds no second large frame
  but many small ones. `Number` and `Nibble` are sets of what fields may say.
- *rules.* One thread in a call is enough: the changes that any others make are
  steps of their own, free at any moment, and two calls do not see each other but
  through the rules. The words of MCRuleFile are those of the rules and the types,
  a port that does not fit (65616, which becomes 80), a word that is no number and
  a type that is none; one of the domains is written like a value of another
  kind could be, so that a file whose words have shifted is still read as rules.
- *fastpath.* Every kind of rule has one value at least. fastpath has two texts,
  a name and a pattern; fastpath_table has the name only. MaxPatterns bounds
  domain_patterns_ (1: a pattern there or not; 0 where patterns play no part);
  MaxPackets bounds the packets of a fast path, 4 being enough for a flow to be
  seen, blocked, followed by another and seen again.

Deadlock is checked in every run but one. A program that has finished stutters
on purpose (`Finished` in DPIEngine, "stopped" in Dissection), so a deadlock is
a state where somebody waits for ever. engine_blocked reaches just that state
and is about the liveness property it violates; there CHECK_DEADLOCK is FALSE.

Each property of a passing run has a mutant in PROJECT.json: a definition
changed as a plausible mistake would change it, marked "Wrong:" in the module,
under which the property fails.

## 5. Fairness

*ThreadSafeQueue*: weak fairness of every thread's own steps: it is scheduled
and gets the mutex eventually. Nobody has to call anything, so that
ShutdownReleases and TryPopReturns hold whatever the others do. TryPopTimeout
has strong fairness: the deadline of `wait_for` is absolute, and a thread that
is woken and sleeps again, over and over, still reaches it.

*DPIEngine*: weak fairness of every thread. The caller need not call
processFile; once it has, its thread goes on. A blocked push or join is not
enabled, so nothing there is forced. ProcessFileReturns holds in engine_drain
under the assumption SleepOutlastsDrain (stop only begins once the pipeline is
empty), which the code does not guarantee: without it, engine_blocked refutes
the same property under the same fairness.

*Pipeline*: weak fairness of each balancer, of each fast path, and of the rest of
the call the owner is in; the owner need not call anything. That is enough for
CallsReturn: a fast path pushes nowhere, so that in the end it takes a packet
from a full queue, whoever waits behind it, and stop joins the balancers, which
may be waiting for their fast paths, before it stops these. AllProcessed is
about a pipeline that is not stopped: what stop leaves in the queues stays there
after a restart too, since the queues stay shut but the workers still pop.

No liveness is claimed of the other modules, which run sequentially or under
locks held for one step.

## 6. The proofs

All are machine-checked to the last leaf, with the assumptions stated with the
CONSTANTS of each module and no other. They hold for every number of threads,
packets, rules and flows, and every capacity.

**ThreadSafeQueueProof.** TypeOK is inductive, and so is each of NoLostNotEmpty
and NoLostNotFull with it: a push adds an item and wakes a sleeper if there is
one, so both sides of the inequality grow; a taker that leaves takes an item;
and a timed-out one remains a taker until it has looked. WithinCapacity and
SleeperIsOwedNotify likewise. The refinement maps each critical section to the
call's one step, or to none.

**DPIEngineProof.** TypeOK includes which threads may be running by where the
caller is (PhaseOK). NoPushIntoShutQueue needs a strengthening, ShutInOrder: the
queues are shut in the order of the pipeline. FlowOrder is far from inductive;
PipelineOrder is, and consists of
  - Lanes: all packets of a flow are on one way;
  - FatesInPlace: what a packet's place says of its fate;
  - Frontier: what has not been read is unread;
  - InOrder: of two packets of a flow, the earlier is further along, in a queue,
    between a queue and the hand of its thread, and between threads;
  - Judgements: what is still to be judged, or written, follows what has been.

A step moves one packet from one place to the next or leaves all places alone
(MovesOrStill), which keeps the case analysis small. FlowOrder,
OnlyCheckedPackets and the refinement of PacketFilter follow: that a
verdict or a writing comes in the order of the flow is Judgements.

The second half of the module is about what becomes of the packets. OnePlace
follows from InOrder, by which no packet can be in two places (it would come
before itself), and Present: what has been read and not settled is somewhere.
HeaderFirst needs that before the header is written nothing has been read
(HeaderPending). DispatchedArrives becomes inductive with NoPushIntoShutQueue: no
push of a balancer is thrown away, so that a push makes the queue one longer and
its balancer one of those that have still to count (DispatchedPush, ArrivedPush),
and counting it takes the balancer from these and steps the counter
(DispatchedCount). Without the balancers between push and count the counters are
too low: the equality holds for what was pushed, not for what has been counted.
Accounting is inductive given TypeOK and PipelineOrder (a packet that is thrown
away had not been before): a packet that moves takes one from the length of a
queue, or frees a hand, as it adds one elsewhere. AllAnswered is proved for the
first call (engine_restart refutes it for a second): the reader has read all of
the file when it has returned (ReadSoFar), nothing is thrown away in the first
call (NothingLost), and a pipeline that was empty when stop began stays so
(StaysQuiet, in any call). That the sleep outlasts the drain is its hypothesis, as
in the run. FirstCallAddsUp combines this with Accounting: then the counters of
the status report add up.

OnlyTheWriterLeaves says how far one can rely on the waits of the pipeline: whoever
waits for room in the queue of a balancer or a fast path waits for one that is
running and has a packet to take (KeptRun: a worker whose turn in stopAll has not
come is running; and those that push to it are stopped before it), and whoever
stop joins has been told to go (ToldToGo). For the output queue it holds only
while `running_` is set (WriterStays), and engine_blocked is the other case;
EnoughSleepNeverBlocks says that it cannot occur if the sleep outlasts the drain.
Both assume capacities greater than 0.

**Sums** is what both accounts rest on. SumFunction of the community modules is a
fold: a function on the subsets of the domain, chosen to satisfy a recursion. That
such a function exists is SumsExist, by induction on the number of elements, and
what it says of the sum is SumRecursion. Since no prover here can instantiate an
induction theorem that takes a predicate, the inductions are on sets instead:
those subsets for which the fact holds are a set, and a smallest subset outside it
would exist, strict subsets being well-founded (SubsetInduction). The facts used
elsewhere are that sums of naturals are naturals, grow with their terms, add up
(SumOfTwo), and change by as much as one term does (SumOfChange).

**RuleManagerProof.** CheckRegular and ClearRegular speak of the end of a call.
Progress says what holds in the middle: of the rules that stood all the time so
far, none of a kind already passed matches (check), or is left at all (clear).
A rule that such a call missed has been added since.

**RuleFileProof.** FileStepsAreChanges: each step beside the file is one of
RuleManager, or none, so its theorems hold with saves and loads going on.
SaveRegular is the end of Copied: of the kinds passed so far, the file has every
rule that stood all the time, and only rules that were in force at some time.
RoundTrip rests on Written, which says what a file written by saveRules looks
like: a type before each value, one line for each rule of `saved` and no other
line, addresses and applications first; and on Aligned: as long as no empty word
has been passed, the reader is at a type exactly when it holds none, and has
blocked just the rules behind it. After an empty word a type may be taken for a
value and a value for a type; no value is written like a type, so that what is
blocked from then on can only be a domain.

**PipelineProof.** TypeOK includes which workers may run by where the owner is.
ProcessedInOrder follows from FlowsInOrder, which is PipelineOrder's counterpart:
Lanes, Found (what was submitted and not settled is somewhere), QueuesInOrder,
HandsFirst, StagesInOrder and DoneFirst. It is preserved by stop and start too:
the leftovers of a queue are ahead of what comes later. FlowsNotSpread says what
the choice of both levels by one hash costs: if each balancer has as many fast
paths as there are balancers, all flows of a balancer go to the same one.

Accounting has two parts. Balanced, the first, is like that of DPIEngine and holds
through restarts. The second, for the first start, needs ShutInOrder (which queues
are shut by where stop is, hence no push is thrown away) and GivenByOwn: what a
balancer has pushed is with its own fast paths or has been processed there, which
uses that the fast paths of two balancers are different (OwnFastPathsOnly).
StatsBounded relates an answer to counters that have moved on since they were
read. CountedInTurn says that a balancer never has dispatched more than it
received, lags by one at most, and has received no more than came its way;
StatsSoFar says that what getStats has summed up so far is at most what the same
counters sum up to now, and that the balancers it has passed account for at most
one packet each.

NobodyWaitsInVain is the counterpart of OnlyTheWriterLeaves, without an exception:
a submit or a balancer that waits for room waits for a worker that runs and has a
packet to take; a fast path waits for nobody; and stop joins only whom it has
told to go. With weak fairness that is what CallsReturn needs. It assumes that
QueueCap is not 0.

**FastPathProof.** A fast path implements a client of RuleManager, whence
VerdictRegular by the theorem of RuleManager (once the instance FastPath has
with its own constants is seen to be the instance R of the proof module).
FirstHostEnforced needs Justified: while rules are only added, a flow that is
blocked has a rule in force that matches it, as its later checks will ask; so
being inspected no more does it no harm. FlowStaysBlocked needs that and
Remembered: no condemned flow has left the table, which is so if the table has
room for all. That rules are only added is an assumption of both theorems
(`Ops = {"block"}`), the room in the table one of the second, and
fastpath_evicted shows that it cannot be dispensed with. TableBounded adds that the
table is finite. CountersAgree follows from Counted, which adds that a connection
not yet classified or blocked has no application: none is lost when it gets one.

**DissectionProof.** One inductive invariant: TypeOK, NoOverread and WalkEnds
with Inside (what has been read is behind, what is left is inside its structure
and that in the frame), Transport (before the payload is found, the rest of the
frame is what is left), InPayload and NoHostYet. TypeOK is a claim of its own
here: no subtraction of the code's unsigned lengths wraps around.

Only model-checked: liveness (ShutdownReleases, TryPopReturns, ProcessFileReturns,
CallsReturn, AllProcessed), which is out of the prover's reach. Only proved, with no
run of their own: WithinCapacity, OnlyCheckedPackets, VerdictRegular and Nested,
which follow from invariants that runs check; FlowsNotSpread and the module Sums,
about constants only; FirstCallAddsUp, and the theorems about who waits for whom,
which TLC saw hold on small instances before they were proved. Matching of domains
uses the library's IsSuffix, and no recursive operator is needed anywhere.

## 7. Where the program and its documentation disagree

With a run that shows it:

- *engine_blocked*: stop clears `running_` first (src/dpi_engine.cpp:175), and the
  writer leaves its loop as soon as it then finds its queue empty, while packets
  are still on their way. A fast path may then block for ever on a full output
  queue that stop only shuts after it has joined the fast paths
  (src/dpi_engine.cpp:198, 205).
- *engine_restart*: no queue that has been shut is opened again, so a second
  processFile on the same engine discards every packet and returns true.
- *fastpath_evicted*: a blocked flow that is evicted from a full table is
  accepted again (README.md:860).
- *pipeline_counts*: a balancer counts a packet as dispatched after it has pushed
  it (src/load_balancer.cpp:107), when the fast path may already have counted it as
  processed. tests/pipeline_manager_test.cpp waits for the fast paths' counters
  (81), asks again (92) and takes it for an error if the balancers' counter is not
  complete (153-155). The same gap is in DPIEngine, where DispatchedArrives has it
  in its statement.

Observations that need no run, because a single call or two show them, or that
other runs and proofs touch on:

- For the reason of engine_blocked, packets that a fast path has accepted may never
  be written; printStatus still counts them as forwarded (README.md:987).
  OnePlace and Accounting say where they are: in a queue for ever.
- A rule with an empty domain is saved as a type without a value, and loadRules
  takes the next type for the value, and so on to the end of the file
  (src/rule_manager.cpp:652); RoundTrip says what can still be relied on.
- loadRules cuts the number of a port to 16 bits, 65616 to 80
  (src/rule_manager.cpp:689), and a word that is no number throws half-way through
  the file, with the rules before it in force.
- saveRules asks file.good() before the last of the file has been flushed, so that
  a full disk can go unnoticed.
- With two balancers of two fast paths each, the default, half of the fast paths
  never get a packet (README.md:437-439 has the work distributed across all): FlowsNotSpread.
- "yt3.ggpht.com" contains "ggpht" and is classified as Google before the test for
  YouTube is reached (src/types.cpp:101, 109).
- A connection that is blocked, closed and blocked again is counted twice in
  `blocked_count_`; nothing in the program closes connections.
- waitForCompletion says it waits for "the reader and processing pipeline"
  (include/dpi_engine.h:76) and joins the reader only; `processing_complete_` is
  set while the pipeline is full (src/dpi_engine.cpp:307).
- A bare word as a domain rule blocks that name and its subdomains, no host that
  merely contains it (src/rule_manager.cpp:410; README.md:814 has it otherwise).
- A pattern blocked twice and unblocked once stays in force: it is stored
  twice and removed once (src/rule_manager.cpp:276, 300-309).
- A flow that has been blocked is not inspected again, also after the rule has
  been removed (src/fast_path.cpp:225-233); its later packets are judged by what
  was known of it then.
- Reverse tuples are said to be recognized (include/connection_tracker.h:25); the
  table is keyed by the tuple as it is (src/connection_tracker.cpp:29), so the
  two directions of a connection are two flows.
- In a second processFile the writer may write what the first call left in the
  output queue before the reader has written the header of the new file;
  HeaderFirst is therefore stated for the first call.

## 8. What is not modelled

- closeConnection, cleanupStale, clear and getConnection of the tracker
  (src/connection_tracker.cpp): called only by tests/connection_tracker_test.cpp,
  from one thread. The program never closes a connection and never expires one.
- The statistics of GlobalConnectionTable and getStats of a tracker, read from
  other threads without a lock while fast paths write, and the copy of
  `per_fp_counts_` that a balancer's getStats takes: data races with any outcome,
  which change no state of the program.
- initialize, called by the rule functions of DPIEngine from any thread: main
  makes all these calls before another thread exists.
- Failures of the file system after a file has been opened: no line of the code
  reacts to one.
- classifyHost and sniToAppType as tables of names: AppOf is any function, and so
  is the hash.
- isOutbound (src/fast_path.cpp:477): it decides which of two byte counters of a
  connection is stepped, and these are only printed.
- PacketJobBuilder (src/packet_job_builder.cpp): a second createPacketJob that
  the engine does not use.
- Reports and the command line: formatting.
- Exceptions from memory exhaustion or thread creation.
