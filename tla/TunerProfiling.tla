--------------------------- MODULE TunerProfiling ---------------------------
(***************************************************************************)
(* The tuner (tools/tuner): it runs each operator of the library on a      *)
(* device stream, collects the time of every kernel through a profiling    *)
(* channel and attributes the times to the operators.                      *)
(*                                                                         *)
(* Three threads: the main thread (CatlassTuner::Run), the reader of the   *)
(* channel (Profiler::CreateReadThread) and the parser of what it read     *)
(* (ProfileDataHandler::ProfileDataThread).  The device and the driver's   *)
(* channel are outside this repository; they are modelled from how the     *)
(* tuner uses them: the stream executes its kernels in order, the open     *)
(* channel gets a record when a kernel starts and one when it ends, and    *)
(* what is in the channel when it is closed can still be read.             *)
(*                                                                         *)
(* A kernel is [id, op, kind, n]; its duration is represented by itself.   *)
(***************************************************************************)
EXTENDS Integers, Sequences

CONSTANTS
    Pool,               \* Pool[o]: the config that operator o belongs to, in the order of Run
    RunTimes,           \* RUN_TIMES: measured executions of each operator
    WarmUpTimes,        \* WARM_UP_TIMES: kernels of one round of warm-up
    WarmUpRounds,       \* at most so many rounds (TIMEOUT); 0: the clock is never low
    AbortKinds,         \* the kinds of kernels that may abort
    MaxAborts, MaxTimeouts, MaxRestartFailures, MaxInitFailures

ASSUME PoolAssumption ==
    Pool \in Seq(Nat) /\ \A o, p \in 1..Len(Pool) : o < p => Pool[o] <= Pool[p]
ASSUME RunTimesAssumption == RunTimes \in Nat \ {0} /\ WarmUpTimes \in Nat
ASSUME AbortKindsAssumption == AbortKinds \subseteq {"op", "warm", "clear"}

Ops == 1..Len(Pool)

\* Durations that are not those of a kernel: 0, and the time from the start
\* of one kernel to the end of a later one.
Zero == [id |-> 0, op |-> 0, kind |-> "zero", n |-> 0]
Mixed == [id |-> 0, op |-> 0, kind |-> "mixed", n |-> 0]

VARIABLES
    pc,                 \* of the main thread
    op,                 \* the operator at hand
    added,              \* the operators metrics_.Add was called for, in order
    stat,               \* stat[o]: "none", or the OpRunStatus RunOp returned for o
    round, times,       \* completed rounds of warm-up; measured executions begun
    kernels,            \* the kinds of the kernels RunOp has launched
    kernelsQueue,       \* kernelsQueue_
    durations,          \* CatlassTuner::durations_
    metrics,            \* what SetDurationAndPrint was called with
    stream, started, failed, \* launched kernels; the first has started; the stream is in error
    launched,           \* kernels launched so far
    channel, open,      \* the records in the channel; it is open
    running,            \* Profiler::running_
    reader, read, batch,\* the reader: where it is, its variables
    queue,              \* the records in profileDataQueue_
    parser,             \* where the parser is
    starts, ends,       \* its variables
    finish,             \* finish_
    profiled,           \* ProfileDataHandler::durations_
    aborts, timeouts, restartFailures, initFailures  \* faults so far

mainVars == <<pc, op, added, stat, round, times, kernels>>
metricVars == <<kernelsQueue, durations, metrics>>
streamVars == <<stream, started, failed, launched>>
readerVars == <<reader, read, batch>>
parserVars == <<parser, starts, ends>>
faultVars == <<aborts, timeouts, restartFailures, initFailures>>
vars == <<mainVars, metricVars, streamVars, channel, open, running, readerVars,
          queue, parserVars, finish, profiled, faultVars>>

\* CatlassTuner::Init has succeeded: the channel is open, both threads run.
Init ==
    /\ pc = "next" /\ op = 0 /\ added = <<>> /\ stat = [o \in Ops |-> "none"]
    /\ round = 0 /\ times = 0 /\ kernels = <<>>
    /\ kernelsQueue = <<>> /\ durations = <<>> /\ metrics = <<>>
    /\ stream = <<>> /\ started = FALSE /\ failed = FALSE /\ launched = 0
    /\ channel = <<>> /\ open = TRUE /\ running = TRUE
    /\ reader = "test" /\ read = TRUE /\ batch = <<>>
    /\ queue = <<>>
    /\ parser = "test" /\ starts = <<>> /\ ends = <<>>
    /\ finish = FALSE /\ profiled = <<>>
    /\ aborts = 0 /\ timeouts = 0 /\ restartFailures = 0 /\ initFailures = 0
-----------------------------------------------------------------------------
(* The device. *)

Log(k, end) == channel' = IF open THEN Append(channel, [kernel |-> k, end |-> end]) ELSE channel

KernelStart ==
    /\ stream # <<>> /\ ~started
    /\ started' = TRUE
    /\ Log(Head(stream), FALSE)
    /\ UNCHANGED <<mainVars, metricVars, stream, failed, launched, open, running, readerVars,
                   queue, parserVars, finish, profiled, faultVars>>

KernelEnd ==
    /\ started
    /\ stream' = Tail(stream) /\ started' = FALSE
    /\ Log(Head(stream), TRUE)
    /\ UNCHANGED <<mainVars, metricVars, failed, launched, open, running, readerVars,
                   queue, parserVars, finish, profiled, faultVars>>

\* A kernel aborts, with or without a record of its end; the launches behind
\* it are dropped.
KernelAbort ==
    /\ started /\ Head(stream).kind \in AbortKinds
    /\ aborts < MaxAborts
    /\ aborts' = aborts + 1
    /\ stream' = <<>> /\ started' = FALSE /\ failed' = TRUE
    /\ Log(Head(stream), TRUE) \/ UNCHANGED channel
    /\ UNCHANGED <<mainVars, metricVars, launched, open, running, readerVars, queue, parserVars,
                   finish, profiled, timeouts, restartFailures, initFailures>>
-----------------------------------------------------------------------------
(* The reader thread. *)

\* Mutation of ReaderTest: the channel is not polled once more.
ReaderTestNoLastPoll ==
    /\ reader = "test"
    /\ reader' = IF running THEN "poll" ELSE "exited"
    /\ UNCHANGED <<mainVars, metricVars, streamVars, channel, open, running, read, batch,
                   queue, parserVars, finish, profiled, faultVars>>

\* for (bool read = true; running_ || read;): polled once more when stopped.
\* Whether running_ changes between its two reads makes no difference to
\* what is read.
ReaderTest ==
    /\ reader = "test"
    /\ reader' = IF running \/ read THEN "poll" ELSE "exited"
    /\ read' = (read /\ running)
    /\ UNCHANGED <<mainVars, metricVars, streamVars, channel, open, running, batch,
                   queue, parserVars, finish, profiled, faultVars>>

ReaderPoll ==
    /\ reader = "poll"
    /\ batch' = channel /\ channel' = <<>>
    /\ reader' = IF batch' = <<>> THEN "test" ELSE "callback"
    /\ UNCHANGED <<mainVars, metricVars, streamVars, open, running, read,
                   queue, parserVars, finish, profiled, faultVars>>

\* notify_all reaches the parser only when it is blocked in wait_for.
Notify == parser' = IF parser = "blocked" THEN "test" ELSE parser

\* The callback ProfileDataHandler::Init registers.  The parser holds the
\* mutex from its test of the predicate until it blocks.
ReaderCallback ==
    /\ reader = "callback"
    /\ parser # "holding"
    /\ queue' = queue \o batch /\ batch' = <<>>
    /\ Notify
    /\ reader' = "test"
    /\ UNCHANGED <<mainVars, metricVars, streamVars, channel, open, running, read,
                   starts, ends, finish, profiled, faultVars>>
-----------------------------------------------------------------------------
(* The parser thread. *)

\* The kernels of the records that are starts, or of those that are ends.
KernelsOf(records, end) ==
    LET upTo[i \in 0..Len(records)] ==
            IF i = 0 THEN <<>>
            ELSE IF records[i].end = end THEN Append(upTo[i - 1], records[i].kernel)
            ELSE upTo[i - 1] IN
    upTo[Len(records)]

\* ends[i] >= starts[i] ? ends[i] - starts[i] : 0
Duration(s, e) ==
    CASE s.id = e.id -> s
      [] e.id < s.id -> Zero
      [] e.id > s.id -> Mixed

DropFirst(seq, n) == SubSeq(seq, n + 1, Len(seq))

\* The i-th start and the i-th end make the i-th duration; the others wait.
Pair(s, e) ==
    LET n == IF Len(s) < Len(e) THEN Len(s) ELSE Len(e) IN
    /\ profiled' = profiled \o [i \in 1..n |-> Duration(s[i], e[i])]
    /\ starts' = DropFirst(s, n) /\ ends' = DropFirst(e, n)

\* flush, then getDuration; what is between them is local to the thread.
Flush ==
    /\ queue' = <<>>
    /\ Pair(starts \o KernelsOf(queue, FALSE), ends \o KernelsOf(queue, TRUE))

\* while (!finish_) and the predicate of wait_for, under the mutex.
ParserTest ==
    /\ parser = "test"
    /\ \/ finish /\ parser' = "final" /\ UNCHANGED <<queue, starts, ends, profiled>>
       \/ ~finish /\ queue # <<>> /\ Flush /\ UNCHANGED parser
       \/ ~finish /\ queue = <<>> /\ parser' = "holding" /\ UNCHANGED <<queue, starts, ends, profiled>>
    /\ UNCHANGED <<mainVars, metricVars, streamVars, channel, open, running, readerVars,
                   finish, faultVars>>

ParserBlock ==
    /\ parser = "holding"
    /\ parser' = "blocked"
    /\ UNCHANGED <<mainVars, metricVars, streamVars, channel, open, running, readerVars,
                   queue, starts, ends, finish, profiled, faultVars>>

\* Mutation of ParserTimeout: wait where the code has wait_for.
ParserTimeoutNever == FALSE /\ UNCHANGED vars

\* wait_for gives up after one second; flush is called all the same.
ParserTimeout ==
    /\ parser = "blocked"
    /\ Flush
    /\ parser' = "test"
    /\ UNCHANGED <<mainVars, metricVars, streamVars, channel, open, running, readerVars,
                   finish, faultVars>>

\* The last flush, without the mutex.
ParserFinal ==
    /\ parser = "final"
    /\ Flush
    /\ parser' = "exited"
    /\ UNCHANGED <<mainVars, metricVars, streamVars, channel, open, running, readerVars,
                   finish, faultVars>>
-----------------------------------------------------------------------------
(* The main thread: RunOp. *)

others == <<channel, open, running, readerVars, queue, parserVars, finish, profiled>>

\* The kinds n launches add to kernels; a warm-up counts as an operator.
Kinds(kind, n) == [i \in 1..n |-> IF kind = "clear" THEN "clear" ELSE "op"]

\* Tasks launched asynchronously on the stream.
Launch(kind, count) ==
    /\ stream' = stream \o
           [i \in 1..count |-> [id |-> launched + i, op |-> op, kind |-> kind, n |-> times]]
    /\ launched' = launched + count
    /\ UNCHANGED <<started, failed>>

\* aclrtSynchronizeStream returns; an error is reported once.
Synchronized == stream = <<>>
ClearError == failed' = FALSE /\ UNCHANGED <<stream, started, launched>>

RunsNext(o) ==
    /\ op' = o /\ added' = Append(added, o)
    /\ kernels' = <<>> /\ round' = 0 /\ times' = 0

\* The next operator; launcher.Init() fails for it, or it is warmed up while
\* the clock is low, or it is measured at once.
NextOperator ==
    /\ pc = "next" /\ op + 1 \in Ops
    /\ RunsNext(op + 1)
    /\ \/ /\ pc' = IF WarmUpRounds > 0 THEN "frequency" ELSE "measure"
          /\ UNCHANGED <<stat, initFailures>>
       \/ /\ initFailures < MaxInitFailures
          /\ initFailures' = initFailures + 1
          /\ stat' = [stat EXCEPT ![op'] = "failed"]
          /\ pc' = "update"
    /\ UNCHANGED <<metricVars, streamVars, others, aborts, timeouts, restartFailures>>

\* The clock is low: a round of warm-up launches without synchronisation.
WarmUp ==
    /\ pc = "frequency" /\ round < WarmUpRounds
    /\ Launch("warm", WarmUpTimes)
    /\ kernels' = kernels \o Kinds("warm", WarmUpTimes)
    /\ round' = round + 1
    /\ pc' = "warmed"
    /\ UNCHANGED <<op, added, stat, times, metricVars, others, faultVars>>

WarmUpDone ==
    /\ pc = "warmed" /\ Synchronized
    /\ pc' = IF failed THEN "update" ELSE "frequency"
    /\ stat' = IF failed THEN [stat EXCEPT ![op] = "fatal"] ELSE stat
    /\ ClearError
    /\ UNCHANGED <<op, added, round, times, kernels, metricVars, others, faultVars>>

\* The clock is high enough, or there were WarmUpRounds rounds.
FrequencyReached ==
    /\ pc = "frequency"
    /\ pc' = "measure"
    /\ UNCHANGED <<op, added, stat, round, times, kernels, metricVars, streamVars, others, faultVars>>

\* The next turn of the loop of RUN_TIMES: ClearL2Cache launches its kernel.
ClearL2Cache ==
    /\ pc = "measure" /\ times < RunTimes
    /\ Launch("clear", 1)
    /\ pc' = "cleared"
    /\ UNCHANGED <<op, added, stat, round, times, kernels, metricVars, others, faultVars>>

\* ClearL2Cache returns true whatever aclrtSynchronizeStream returned; the
\* launcher launches the operator.
LaunchOperator ==
    /\ pc = "cleared" /\ Synchronized
    /\ times' = times + 1
    /\ stream' = <<[id |-> launched + 1, op |-> op, kind |-> "op", n |-> times']>>
    /\ launched' = launched + 1 /\ failed' = FALSE
    /\ kernels' = kernels \o <<"clear", "op">>
    /\ pc' = "launched"
    /\ UNCHANGED <<op, added, stat, round, started, metricVars, others, faultVars>>

\* aclrtSynchronizeStreamWithTimeout.
OperatorDone ==
    /\ pc = "launched" /\ Synchronized
    /\ stat' = IF failed THEN [stat EXCEPT ![op] = "fatal"]
               ELSE IF times = RunTimes THEN [stat EXCEPT ![op] = "success"] ELSE stat
    /\ pc' = IF stat'[op] = "none" THEN "measure" ELSE "update"
    /\ ClearError
    /\ UNCHANGED <<op, added, round, times, kernels, metricVars, others, faultVars>>

\* One second has passed and the kernel still runs.
OperatorTimeout ==
    /\ pc = "launched" /\ ~Synchronized
    /\ timeouts < MaxTimeouts
    /\ timeouts' = timeouts + 1
    /\ stat' = [stat EXCEPT ![op] = "fatal"]
    /\ pc' = "update"
    /\ UNCHANGED <<op, added, round, times, kernels, metricVars, streamVars, others,
                   aborts, restartFailures, initFailures>>
-----------------------------------------------------------------------------
(* The main thread: UpdateMetrics. *)

\* The number of durations the first k operators of the queue stand for.
Span(q, k) ==
    LET upTo[i \in 0..Len(q)] == IF i = 0 THEN 0 ELSE upTo[i - 1] + Len(q[i]) IN
    upTo[k]

\* Mutation of TimeOf: the first execution where the code takes the last.
TimeOfFirst(ks, ds) ==
    LET mine == {j \in 1..Len(ks) : j <= Len(ds) /\ ks[j] = "op"} IN
    IF mine = {} THEN Zero ELSE ds[CHOOSE j \in mine : \A i \in mine : j <= i]

\* setDuration: the last duration of a kernel of the operator itself.
TimeOf(ks, ds) ==
    LET mine == {j \in 1..Len(ks) : j <= Len(ds) /\ ks[j] = "op"} IN
    IF mine = {} THEN Zero ELSE ds[CHOOSE j \in mine : \A i \in mine : i <= j]

\* The operators of q whose durations have all arrived.
Ready(q, ds) == CHOOSE k \in 0..Len(q) :
    /\ Span(q, k) <= Len(ds)
    /\ k < Len(q) => Span(q, k + 1) > Len(ds)

\* UpdateMetrics(readAll) with the queue q.
UpdateMetrics(q, readAll) ==
    LET ds == durations \o profiled
        k == IF readAll THEN Len(q) ELSE Ready(q, ds) IN
    /\ profiled' = <<>>
    /\ IF ds = <<>>
       THEN /\ kernelsQueue' = q
            /\ UNCHANGED <<durations, metrics>>
       ELSE /\ metrics' = metrics \o
                   [i \in 1..k |-> TimeOf(q[i], DropFirst(ds, Span(q, i - 1)))]
            /\ kernelsQueue' = DropFirst(q, k)
            /\ durations' = IF readAll THEN <<>> ELSE DropFirst(ds, Span(q, k))

\* RunOp returns, which queues its kernels; Run updates the metrics.
Update ==
    /\ pc = "update"
    /\ UpdateMetrics(Append(kernelsQueue, kernels), FALSE)
    /\ pc' = IF stat[op] = "fatal" THEN "synchronize" ELSE "next"
    /\ UNCHANGED <<op, added, stat, round, times, kernels, streamVars, channel, open, running,
                   readerVars, queue, parserVars, finish, faultVars>>
-----------------------------------------------------------------------------
(* The main thread: ProfileDataHandler::Synchronize and Init. *)

device == <<metricVars, streamVars, profiled>>
rest == <<op, added, stat, round, times, kernels>>

\* The loops of Run are left: op moves past the last operator.
AfterLastOperator ==
    /\ pc = "next" /\ op + 1 \notin Ops
    /\ op' = op + 1
    /\ pc' = "synchronize"
    /\ UNCHANGED <<added, stat, round, times, kernels, device, channel, open, running, readerVars, queue,
                   parserVars, finish, faultVars>>

\* profiler_.Stop() closes the channel, when profiling is running.
CloseChannel ==
    /\ pc = "synchronize"
    /\ IF running
       THEN open' = FALSE /\ pc' = "stop"
       ELSE pc' = "finish" /\ UNCHANGED open
    /\ UNCHANGED <<rest, device, channel, running, readerVars, queue, parserVars, finish, faultVars>>

StopReader ==
    /\ pc = "stop"
    /\ running' = FALSE
    /\ pc' = "joinReader"
    /\ UNCHANGED <<rest, device, channel, open, readerVars, queue, parserVars, finish, faultVars>>

\* Mutation of JoinReader: Stop does not join.
JoinReaderMissing ==
    /\ pc = "joinReader"
    /\ pc' = "finish"
    /\ UNCHANGED <<rest, device, channel, open, running, readerVars, queue, parserVars, finish, faultVars>>

JoinReader ==
    /\ pc = "joinReader" /\ reader = "exited"
    /\ reader' = "none"
    /\ pc' = "finish"
    /\ UNCHANGED <<rest, device, channel, open, running, read, batch, queue, parserVars, finish, faultVars>>

\* finish_ = true, without the mutex.
Finish ==
    /\ pc = "finish"
    /\ finish' = TRUE
    /\ pc' = "notify"
    /\ UNCHANGED <<rest, device, channel, open, running, readerVars, queue, parserVars, faultVars>>

NotifyParser ==
    /\ pc = "notify"
    /\ Notify
    /\ pc' = "joinParser"
    /\ UNCHANGED <<rest, device, channel, open, running, readerVars, queue, starts, ends,
                   finish, faultVars>>

\* The parser is joined when there is one; UpdateMetrics(true) follows, then
\* the restart of profiling or, after the last operator, the dump.
JoinParser ==
    /\ pc = "joinParser" /\ parser \in {"exited", "none"}
    /\ parser' = "none"
    /\ UpdateMetrics(kernelsQueue, TRUE)
    /\ pc' = IF op \in Ops THEN "restart" ELSE "done"
    /\ UNCHANGED <<rest, streamVars, channel, open, running, readerVars, queue, starts, ends,
                   finish, faultVars>>

\* Init: the callback is registered again and the channel opened.
Restart ==
    /\ pc = "restart"
    /\ finish' = FALSE /\ open' = TRUE /\ running' = TRUE
    /\ pc' = "createReader"
    /\ UNCHANGED <<rest, device, channel, readerVars, queue, parserVars, faultVars>>

\* The channel does not open: the inner loop of Run ends, the operators of
\* the next config are run.
RestartFails ==
    /\ pc = "restart"
    /\ restartFailures < MaxRestartFailures
    /\ restartFailures' = restartFailures + 1
    /\ finish' = FALSE
    /\ op' = CHOOSE o \in Ops : Pool[o] = Pool[op] /\ (o + 1 \in Ops => Pool[o + 1] # Pool[op])
    /\ pc' = "next"
    /\ UNCHANGED <<added, stat, round, times, kernels, device, channel, open, running, readerVars, queue,
                   parserVars, aborts, timeouts, initFailures>>

CreateReader ==
    /\ pc = "createReader"
    /\ reader' = "test" /\ read' = TRUE /\ batch' = <<>>
    /\ pc' = "createParser"
    /\ UNCHANGED <<rest, device, channel, open, running, queue, parserVars, finish, faultVars>>

CreateParser ==
    /\ pc = "createParser"
    /\ parser' = "test" /\ starts' = <<>> /\ ends' = <<>>
    /\ pc' = "next"
    /\ UNCHANGED <<rest, device, channel, open, running, readerVars, queue, finish, faultVars>>
-----------------------------------------------------------------------------
DeviceNext == KernelStart \/ KernelEnd
ReaderNext == ReaderTest \/ ReaderPoll \/ ReaderCallback
ParserNext == ParserTest \/ ParserBlock \/ ParserFinal
RunNext ==
    \/ NextOperator \/ WarmUp \/ WarmUpDone \/ FrequencyReached
    \/ ClearL2Cache \/ LaunchOperator \/ OperatorDone
    \/ Update \/ AfterLastOperator
SynchronizeNext ==
    \/ CloseChannel \/ StopReader \/ JoinReader \/ Finish \/ NotifyParser \/ JoinParser
    \/ Restart \/ CreateReader \/ CreateParser
Fault == KernelAbort \/ OperatorTimeout \/ RestartFails

\* The metrics are dumped and main returns.
Terminated == pc = "done" /\ UNCHANGED vars

Next ==
    \/ DeviceNext \/ Fault
    \/ ReaderNext
    \/ ParserNext \/ ParserTimeout
    \/ RunNext \/ SynchronizeNext
    \/ Terminated

\* Every thread is scheduled, kernels come to an end, the timed wait times
\* out; the reader gets the mutex, which the parser leaves while it waits.
Fairness ==
    /\ WF_vars(DeviceNext)
    /\ WF_vars(ReaderNext) /\ SF_vars(ReaderCallback)
    /\ WF_vars(ParserNext) /\ WF_vars(ParserTimeout)
    /\ WF_vars(RunNext) /\ WF_vars(SynchronizeNext)

Spec == Init /\ [][Next]_vars /\ Fairness
-----------------------------------------------------------------------------
\* No kernel has outlived its timeout, and profiling was restarted whenever it was tried.
Undisturbed == timeouts = 0 /\ restartFailures = 0

(* catlass_tuner.cpp, lines 196 and 197: the duration reported for an      *)
(* operator is that of its own last execution; it is never taken from a    *)
(* warm-up when the operator ran, from ClearL2Cache, from another          *)
(* operator, or computed from records of two kernels.  An operator that    *)
(* failed has the time of one of its own executions, or none.  A kernel    *)
(* that outlives a timeout shifts all that follows, and operators that ran *)
(* without profiling stay in the queue, so none has.                       *)
Attribution ==
    Undisturbed => \A i \in 1..Len(metrics) :
        LET o == added[i]
            d == metrics[i] IN
        CASE stat[o] = "success" -> d.op = o /\ d.kind = "op" /\ d.n = RunTimes
          [] stat[o] = "fatal" -> d = Zero \/ (d.op = o /\ d.kind # "clear")
          [] stat[o] = "failed" -> d = Zero

(* Nothing is lost when the channel is closed while the reader and the     *)
(* parser still hold records: when the tuner dumps, every operator that    *)
(* ran has its duration.                                                   *)
EveryOperatorReported ==
    pc = "done" /\ Undisturbed =>
        \A i \in 1..Len(added) : stat[added[i]] = "success" => i <= Len(metrics)

(* profiler.cpp, line 360: when finish_ is set no other thread accesses    *)
(* profileDataQueue_, which is why the last flush takes no lock.           *)
QuietFinalFlush ==
    parser = "final" => reader = "none" /\ channel = <<>>

(* A std::thread is never assigned while it is joinable, which would       *)
(* terminate the program, and the callback is never replaced while the     *)
(* reader may call it.                                                     *)
ThreadsJoined ==
    /\ pc \in {"restart", "createReader"} => reader = "none"
    /\ pc \in {"restart", "createReader", "createParser"} => parser = "none"

(* The tuner ends: neither join waits for ever, although finish_ is set    *)
(* and notified without the mutex of the condition variable, and also when *)
(* kernels abort or time out and profiling is restarted or does not.       *)
Ends == <>(pc = "done")

(* catlass_tuner.cpp, line 130: "Restart profiling failed, end subsequent  *)
(* operator execution."  No operator is measured without profiling.        *)
MeasuredOnlyWhileProfiled == pc = "measure" => running
=============================================================================
