------------------------ MODULE TunerProfilingProofs ------------------------
(***************************************************************************)
(* Theorems about TunerProfiling, for any operators, any number of         *)
(* executions and any faults: about the threads, and about which durations *)
(* are reported for which operator.                                        *)
(***************************************************************************)
EXTENDS TunerProfiling, SequenceTheorems, WellFoundedInduction, TLAPS

\* The channel is closed, and read to its end.
Stopped == channel = <<>> /\ ~open /\ ~running

\* The main thread is past the join of the reader, with no new one yet.
PastReader == {"finish", "notify", "joinParser", "restart", "done", "createReader"}

ThreadTypes ==
    /\ {read, running, open, finish} \subseteq BOOLEAN
    /\ reader \in {"test", "poll", "callback", "exited", "none"}
    /\ parser \in {"test", "holding", "blocked", "final", "exited", "none"}

\* The channel is closed before the reader is stopped, and joined before it
\* is opened again.
ChannelInv ==
    /\ ~running => ~open /\ (reader = "none" \/ pc = "joinReader")
    /\ pc \in {"stop", "joinReader"} => ~open
    /\ pc = "joinReader" => ~running
    /\ pc = "createReader" => running

\* A reader that has seen running_ reset polls once more: the channel is closed
\* then, so what the poll leaves is empty for good.
ReaderInv ==
    /\ reader # "none" /\ ~read => ~running
    /\ ~read /\ reader \in {"test", "callback"} => channel = <<>>
    /\ reader = "exited" => ~read /\ channel = <<>>
    /\ reader = "none" /\ pc # "createReader" => Stopped
    /\ pc \in PastReader => reader = "none"

\* finish_ is set while the parser is to be joined, and not before the reader is.
ParserInv ==
    /\ finish <=> pc \in {"notify", "joinParser", "restart", "done"}
    /\ parser \in {"final", "exited"} => pc \in {"notify", "joinParser"}
    /\ pc \in {"restart", "done", "createReader", "createParser"} => parser = "none"

ThreadInv == ThreadTypes /\ ChannelInv /\ ReaderInv /\ ParserInv

\* What it depends on.
threadVars == <<pc, channel, open, running, reader, read, parser, finish>>
-----------------------------------------------------------------------------
(* Both threads run and the channel is open at first.                      *)
LEMMA InitThreads == Init => ThreadInv
  BY DEF Init, ThreadInv, ThreadTypes, ChannelInv, ReaderInv, ParserInv, PastReader

(* The device adds records to an open channel only.                        *)
LEMMA DeviceThreads == ThreadInv /\ (DeviceNext \/ KernelAbort) => ThreadInv'
<1> SUFFICES ASSUME ThreadInv, DeviceNext \/ KernelAbort PROVE ThreadInv'
  OBVIOUS
<1>1. UNCHANGED <<pc, open, running, reader, read, parser, finish>> /\ (open \/ UNCHANGED channel)
  BY DEF DeviceNext, KernelStart, KernelEnd, KernelAbort, Log, mainVars, readerVars, parserVars
<1> QED
  BY <1>1 DEF ThreadInv, ThreadTypes, ChannelInv, ReaderInv, ParserInv, PastReader, Stopped

(* The reader empties the channel once more after it was closed.           *)
LEMMA ReaderThreads == ThreadInv /\ ReaderNext => ThreadInv'
<1> SUFFICES ASSUME ThreadInv, ReaderNext PROVE ThreadInv'
  OBVIOUS
<1> USE DEF ThreadInv, ThreadTypes, ChannelInv, ReaderInv, ParserInv, PastReader, Stopped
<1>1. CASE ReaderTest
  BY <1>1 DEF ReaderTest, mainVars, parserVars
<1>2. CASE ReaderPoll
  BY <1>2 DEF ReaderPoll, mainVars, parserVars
<1>3. CASE ReaderCallback
  <2>1. parser' \in {parser, "test"} /\ (parser \in {"final", "exited", "none"} => parser' = parser)
    BY <1>3 DEF ReaderCallback, Notify
  <2>2. reader = "callback" /\ reader' = "test" /\ UNCHANGED <<pc, channel, open, running, read, finish>>
    BY <1>3 DEF ReaderCallback, mainVars
  <2> QED
    BY <2>1, <2>2
<1> QED
  BY <1>1, <1>2, <1>3 DEF ReaderNext

(* The parser leaves its loop only when finish_ is set.                    *)
LEMMA ParserThreads == ThreadInv /\ (ParserNext \/ ParserTimeout) => ThreadInv'
<1> SUFFICES ASSUME ThreadInv, ParserNext \/ ParserTimeout PROVE ThreadInv'
  OBVIOUS
<1>1. /\ UNCHANGED <<pc, channel, open, running, reader, read, finish>>
      /\ \/ parser = "test" /\ parser' \in {"test", "holding"}
         \/ parser = "test" /\ finish /\ parser' = "final"
         \/ parser = "holding" /\ parser' = "blocked"
         \/ parser = "blocked" /\ parser' = "test"
         \/ parser = "final" /\ parser' = "exited"
  BY DEF ParserNext, ParserTest, ParserBlock, ParserFinal, ParserTimeout, mainVars, readerVars
<1> QED
  BY <1>1 DEF ThreadInv, ThreadTypes, ChannelInv, ReaderInv, ParserInv, PastReader, Stopped

(* Running operators touches neither the threads nor the channel.          *)
LEMMA RunThreads == ThreadInv /\ (RunNext \/ OperatorTimeout) => ThreadInv'
<1> SUFFICES ASSUME ThreadInv, RunNext \/ OperatorTimeout PROVE ThreadInv'
  OBVIOUS
<1> DEFINE Running == {"next", "frequency", "warmed", "measure", "cleared", "launched", "update", "synchronize"}
<1>1. /\ UNCHANGED <<channel, open, running, reader, read, parser, finish>>
      /\ pc \in Running /\ pc' \in Running
  BY DEF RunNext, NextOperator, WarmUp, WarmUpDone, FrequencyReached, ClearL2Cache, LaunchOperator, OperatorDone,
         OperatorTimeout, Update, AfterLastOperator, others, readerVars, parserVars
<1> QED
  BY <1>1 DEF ThreadInv, ThreadTypes, ChannelInv, ReaderInv, ParserInv, PastReader, Stopped

(* Stopping and restarting: the reader before the parser, each joined      *)
(* before it is replaced.                                                  *)
LEMMA SynchronizeThreads == ThreadInv /\ (SynchronizeNext \/ RestartFails) => ThreadInv'
<1> SUFFICES ASSUME ThreadInv, SynchronizeNext \/ RestartFails PROVE ThreadInv'
  OBVIOUS
<1> USE DEF ThreadInv, ThreadTypes, ChannelInv, ReaderInv, ParserInv, PastReader, Stopped
<1>1. CASE CloseChannel
  BY <1>1 DEF CloseChannel, readerVars, parserVars
<1>2. CASE StopReader
  BY <1>2 DEF StopReader, readerVars, parserVars
<1>3. CASE JoinReader
  BY <1>3 DEF JoinReader, parserVars
<1>4. CASE Finish
  BY <1>4 DEF Finish, readerVars, parserVars
<1>5. CASE NotifyParser
  BY <1>5 DEF NotifyParser, Notify, readerVars
<1>6. CASE JoinParser
  <2>1. /\ pc = "joinParser" /\ pc' \in {"restart", "done"} /\ parser' = "none"
        /\ UNCHANGED <<channel, open, running, reader, read, finish>>
    BY <1>6 DEF JoinParser, readerVars
  <2> QED
    BY <2>1
<1>7. CASE Restart
  BY <1>7 DEF Restart, readerVars, parserVars
<1>8. CASE RestartFails
  <2>1. /\ pc = "restart" /\ pc' = "next" /\ finish' = FALSE
        /\ UNCHANGED <<channel, open, running, reader, read, parser>>
    BY <1>8 DEF RestartFails, readerVars, parserVars
  <2> QED
    BY <2>1
<1>9. CASE CreateReader
  BY <1>9 DEF CreateReader, parserVars
<1>10. CASE CreateParser
  BY <1>10 DEF CreateParser, readerVars
<1> QED
  BY <1>1, <1>2, <1>3, <1>4, <1>5, <1>6, <1>7, <1>8, <1>9, <1>10 DEF SynchronizeNext
-----------------------------------------------------------------------------
(* Closing the channel, stopping the reader, its last poll, the join, and  *)
(* finish_ come in this order in every round of profiling, whatever        *)
(* operators, faults and interleavings of the three threads there are.     *)
THEOREM ThreadInvariance == Spec => []ThreadInv
<1>1. ThreadInv /\ [Next]_vars => ThreadInv'
  <2>1. ThreadInv /\ UNCHANGED threadVars => ThreadInv'
    BY DEF threadVars, ThreadInv, ThreadTypes, ChannelInv, ReaderInv, ParserInv, PastReader, Stopped
  <2>2. UNCHANGED vars => UNCHANGED threadVars
    BY DEF vars, threadVars, mainVars, readerVars, parserVars
  <2> QED
    BY <2>1, <2>2, DeviceThreads, ReaderThreads, ParserThreads, RunThreads, SynchronizeThreads
       DEF Next, Fault, Terminated
<1> QED
  BY InitThreads, <1>1, PTL DEF Spec

(* When the parser flushes for the last time, without the mutex, the       *)
(* reader has been joined and nothing can come from the channel any more.  *)
THEOREM FinalFlushQuiet == Spec => []QuietFinalFlush
<1>1. ThreadInv => QuietFinalFlush
  BY DEF ThreadInv, ReaderInv, ParserInv, PastReader, Stopped, QuietFinalFlush
<1> QED
  BY <1>1, ThreadInvariance, PTL

(* No thread is replaced, and no callback, before it was joined.           *)
THEOREM JoinedBeforeReplaced == Spec => []ThreadsJoined
<1>1. ThreadInv => ThreadsJoined
  BY DEF ThreadInv, ReaderInv, ParserInv, PastReader, ThreadsJoined
<1> QED
  BY <1>1, ThreadInvariance, PTL
-----------------------------------------------------------------------------
(* Induction and recursion, without a theorem that takes an operator.      *)

(* A set of numbers that is not empty has a least element.                 *)
LEMMA LeastElement ==
  ASSUME NEW T, T \subseteq Nat, T # {}
  PROVE  \E x \in T : \A y \in T : x <= y
<1> DEFINE R == OpToRel(<, Nat)
<1>1. IsWellFoundedOn(R, Nat)
  BY NatLessThanWellFounded
<1>2. \E x \in T : \A y \in T : ~ (<<y, x>> \in R)
  <2> HIDE DEF R
  <2> QED
    BY <1>1, WFMin
<1>3. PICK x \in T : \A y \in T : ~ (y < x)
  BY <1>2 DEF OpToRel
<1> QED
  BY <1>3

(* Induction up to m, over the set of the numbers it holds for.            *)
LEMMA SetInduction ==
  ASSUME NEW m \in Nat, NEW S, 0 \in S, \A n \in 0..(m - 1) : n \in S => n + 1 \in S
  PROVE  0..m \subseteq S
<1> DEFINE T == (0..m) \ S
<1>1. CASE T # {}
  <2>1. PICK x \in T : \A y \in T : x <= y
    <3>1. T \subseteq Nat
      OBVIOUS
    <3> HIDE DEF T
    <3> QED
      BY <1>1, <3>1, LeastElement
  <2>2. x # 0 /\ x - 1 \in 0..(m - 1) /\ x - 1 \notin T
    BY <2>1
  <2> QED BY <2>2
<1> QED BY <1>1

\* The values of a recursion: h[i] makes the i-th from the one before.
IsRecursion(g, m, V, a, h) ==
    g \in [0..m -> V] /\ g[0] = a /\ \A i \in 1..m : g[i] = h[i][g[i - 1]]

(* So a recursive function is what its equations say.                      *)
LEMMA RecursionExists ==
  ASSUME NEW m \in Nat, NEW V, NEW a \in V, NEW h \in [1..m -> [V -> V]]
  PROVE  \E g : IsRecursion(g, m, V, a, h)
<1> DEFINE Table(n, g) == g[0] = a /\ \A i \in 1..n : g[i] = h[i][g[i - 1]]
           S == {n \in 0..m : \E g \in [0..n -> V] : Table(n, g)}
<1>1. 0 \in S
  <2> [i \in 0..0 |-> a] \in [0..0 -> V] /\ Table(0, [i \in 0..0 |-> a])
    OBVIOUS
  <2> HIDE DEF Table
  <2> QED OBVIOUS
<1>2. ASSUME NEW n \in 0..(m - 1), n \in S PROVE n + 1 \in S
  <2>1. PICK g \in [0..n -> V] : Table(n, g)
    BY <1>2
  <2> DEFINE f == [i \in 0..(n + 1) |-> IF i <= n THEN g[i] ELSE h[n + 1][g[n]]]
  <2>2. h[n + 1][g[n]] \in V
    <3>1. g[n] \in V /\ n + 1 \in 1..m
      OBVIOUS
    <3> QED
      BY <3>1
  <2>3. f \in [0..(n + 1) -> V]
    BY <2>2
  <2>4. \A i \in 1..(n + 1) : f[i] = h[i][f[i - 1]]
    <3> TAKE i \in 1..(n + 1)
    <3>1. CASE i <= n
      <4>1. f[i] = g[i] /\ f[i - 1] = g[i - 1] /\ i \in 1..n
        BY <3>1
      <4> QED
        BY <4>1, <2>1
    <3>2. CASE i = n + 1
      <4>1. f[i - 1] = g[n] /\ f[i] = h[n + 1][g[n]]
        BY <3>2
      <4> QED
        BY <4>1, <3>2
    <3> QED
      BY <3>1, <3>2
  <2>5. Table(n + 1, f)
    BY <2>1, <2>4
  <2> HIDE DEF Table, f
  <2> QED
    BY <2>3, <2>5
<1>3. m \in S
  <2>1. 0..m \subseteq S
    <3> HIDE DEF S
    <3> QED
      BY <1>1, <1>2, SetInduction
  <2> QED
    BY <2>1
<1> QED
  BY <1>3 DEF IsRecursion

(* Span counts the kernels of the first operators of a queue.              *)
LEMMA SpanStep ==
  ASSUME NEW E, NEW q \in Seq(Seq(E))
  PROVE  /\ Span(q, 0) = 0
         /\ \A k \in 1..Len(q) : Span(q, k) = Span(q, k - 1) + Len(q[k])
         /\ \A k \in 0..Len(q) : Span(q, k) \in Nat
<1> DEFINE m == Len(q)
           h == [i \in 1..m |-> [x \in Nat |-> x + Len(q[i])]]
           F(g) == [i \in 0..Len(q) |-> IF i = 0 THEN 0 ELSE g[i - 1] + Len(q[i])]
           upTo == CHOOSE g : g = F(g)
<1>1. m \in Nat /\ \A i \in 1..m : q[i] \in Seq(E) /\ Len(q[i]) \in Nat
  OBVIOUS
<1>2. h \in [1..m -> [Nat -> Nat]]
  BY <1>1
<1>3. PICK g : IsRecursion(g, m, Nat, 0, h)
  <2>1. 0 \in Nat /\ m \in Nat
    BY <1>1
  <2> HIDE DEF h, m
  <2> QED
    BY <1>2, <2>1, RecursionExists
<1>4. \A i \in 1..m : g[i] = g[i - 1] + Len(q[i])
  <2> TAKE i \in 1..m
  <2>1. i - 1 \in 0..m
    <3> HIDE DEF m
    <3> QED
      BY <1>1
  <2>2. g[i - 1] \in Nat
    BY <2>1, <1>3 DEF IsRecursion
  <2> QED
    BY <1>3, <2>2 DEF IsRecursion
<1>5. g = F(g)
  <2> HIDE DEF h
  <2>1. \A i \in 0..m : g[i] = IF i = 0 THEN 0 ELSE g[i - 1] + Len(q[i])
    BY <1>1, <1>3, <1>4 DEF IsRecursion
  <2> QED
    BY <2>1, <1>3 DEF IsRecursion
<1>6. upTo = F(upTo)
  <2> HIDE DEF F
  <2> QED
    BY <1>5
<1>7. \A k \in 0..m : Span(q, k) = upTo[k]
  BY DEF Span
<1>8. upTo[0] = 0 /\ \A k \in 1..m : upTo[k] = upTo[k - 1] + Len(q[k])
  <2>1. \A f : \A k \in 0..m : F(f)[k] = IF k = 0 THEN 0 ELSE f[k - 1] + Len(q[k])
    OBVIOUS
  <2> HIDE DEF upTo, F, m
  <2>2. \A k \in 0..m : upTo[k] = IF k = 0 THEN 0 ELSE upTo[k - 1] + Len(q[k])
    BY <2>1, <1>6
  <2> QED
    BY <2>2, <1>1
<1>9. \A k \in 0..m : upTo[k] \in Nat
  <2> DEFINE S == {k \in 0..m : upTo[k] \in Nat}
  <2>1. 0 \in S
    BY <1>8, <1>1
  <2>2. \A n \in 0..(m - 1) : n \in S => n + 1 \in S
    <3> HIDE DEF upTo
    <3> TAKE n \in 0..(m - 1)
    <3> HAVE n \in S
    <3>1. n + 1 \in 1..m /\ upTo[n + 1] = upTo[n] + Len(q[n + 1])
      BY <1>8, <1>1
    <3> QED BY <3>1, <1>1
  <2>3. 0..m \subseteq S
    <3> HIDE DEF S
    <3> QED BY <2>1, <2>2, <1>1, SetInduction
  <2> QED
    BY <2>3
<1> QED
  <2> HIDE DEF upTo, m
  <2>1. 0 \in 0..m /\ \A k \in 1..m : k \in 0..m /\ k - 1 \in 0..m
    BY <1>1
  <2> QED
    BY <1>7, <1>8, <1>9, <2>1 DEF m
-----------------------------------------------------------------------------
(* What the parser makes of the records.                                   *)

\* The kernels, and the records of their starts and ends.
Kernel == [id : Nat, op : Nat, kind : {"op", "warm", "clear"}, n : Nat]
Record == [kernel : Kernel, end : BOOLEAN]

\* The sequences in the definition of KernelsOf, by the number of records looked at.
KernelsUpTo(records, end) ==
    CHOOSE g : g = [i \in 0..Len(records) |->
        IF i = 0 THEN <<>>
        ELSE IF records[i].end = end THEN Append(g[i - 1], records[i].kernel)
        ELSE g[i - 1]]

(* The two parts of a concatenation.                                       *)
LEMMA ConcatParts ==
  ASSUME NEW E, NEW a \in Seq(E), NEW b \in Seq(E)
  PROVE  /\ a \o b \in Seq(E) /\ Len(a \o b) = Len(a) + Len(b)
         /\ \A i \in 1..Len(a) : (a \o b)[i] = a[i]
         /\ \A i \in 1..Len(b) : (a \o b)[Len(a) + i] = b[i]
<1>1. a \o b \in Seq(E) /\ Len(a \o b) = Len(a) + Len(b)
  OBVIOUS
<1>2. \A i \in 1..Len(a) : (a \o b)[i] = a[i]
  OBVIOUS
<1>3. \A i \in 1..Len(b) : (a \o b)[Len(a) + i] = b[i]
  OBVIOUS
<1> QED
  BY <1>1, <1>2, <1>3

(* An element more at the end of the second of two sequences.              *)
LEMMA AppendConcat ==
  ASSUME NEW E, NEW a \in Seq(E), NEW b \in Seq(E), NEW k \in E
  PROVE  Append(a \o b, k) = a \o Append(b, k)
<1> DEFINE t == <<k>>
<1>1. t \in Seq(E) /\ Append(b, k) = b \o t
  BY AppendIsConcat
<1>2. a \o b \in Seq(E)
  BY ConcatProperties
<1>3. Append(a \o b, k) = (a \o b) \o t
  BY <1>2, AppendIsConcat
<1> HIDE DEF t
<1> QED
  BY <1>1, <1>3, ConcatAssociative

(* KernelsOf takes up one record after the other.                          *)
LEMMA KernelsStep ==
  ASSUME NEW rs \in Seq(Record), NEW e
  PROVE  /\ KernelsOf(rs, e) = KernelsUpTo(rs, e)[Len(rs)]
         /\ KernelsUpTo(rs, e)[0] = <<>>
         /\ \A i \in 1..Len(rs) : KernelsUpTo(rs, e)[i] =
               IF rs[i].end = e THEN Append(KernelsUpTo(rs, e)[i - 1], rs[i].kernel)
               ELSE KernelsUpTo(rs, e)[i - 1]
         /\ \A i \in 0..Len(rs) : KernelsUpTo(rs, e)[i] \in Seq(Kernel)
<1> DEFINE m == Len(rs)
           V == Seq(Kernel)
           h == [i \in 1..m |-> [s \in V |-> IF rs[i].end = e THEN Append(s, rs[i].kernel) ELSE s]]
           F(g) == [i \in 0..Len(rs) |->
                       IF i = 0 THEN <<>>
                       ELSE IF rs[i].end = e THEN Append(g[i - 1], rs[i].kernel)
                       ELSE g[i - 1]]
           upTo == CHOOSE g : g = F(g)
<1>1. m \in Nat /\ <<>> \in V /\ \A i \in 1..m : rs[i] \in Record /\ rs[i].kernel \in Kernel
  <2>1. <<>> \in V
    BY EmptySeq
  <2>2. m \in Nat /\ \A i \in 1..m : rs[i] \in Record
    OBVIOUS
  <2>3. \A r \in Record : r.kernel \in Kernel
    BY DEF Record
  <2> QED
    BY <2>1, <2>2, <2>3
<1>2. h \in [1..m -> [V -> V]]
  BY <1>1
<1>3. PICK g : IsRecursion(g, m, V, <<>>, h)
  <2> HIDE DEF h, m, V
  <2> QED
    BY <1>1, <1>2, RecursionExists
<1>4. \A i \in 1..m : g[i] = IF rs[i].end = e THEN Append(g[i - 1], rs[i].kernel) ELSE g[i - 1]
  <2> TAKE i \in 1..m
  <2>1. i - 1 \in 0..m
    <3> HIDE DEF m
    <3> QED
      BY <1>1
  <2>2. g[i - 1] \in V
    BY <2>1, <1>3 DEF IsRecursion
  <2> QED
    BY <1>3, <2>2 DEF IsRecursion
<1>5. g = F(g)
  <2> HIDE DEF h
  <2>1. \A i \in 0..m : g[i] = IF i = 0 THEN <<>>
                               ELSE IF rs[i].end = e THEN Append(g[i - 1], rs[i].kernel) ELSE g[i - 1]
    <3> HIDE DEF m, V
    <3>1. g[0] = <<>>
      BY <1>3 DEF IsRecursion
    <3> QED
      BY <1>1, <1>4, <3>1
  <2> QED
    BY <2>1, <1>3 DEF IsRecursion
<1>6. upTo = F(upTo)
  <2> HIDE DEF F
  <2> QED
    BY <1>5
<1>7. KernelsOf(rs, e) = upTo[m] /\ KernelsUpTo(rs, e) = upTo
  BY DEF KernelsOf, KernelsUpTo
<1>8. upTo[0] = <<>> /\ \A i \in 1..m : upTo[i] = IF rs[i].end = e THEN Append(upTo[i - 1], rs[i].kernel) ELSE upTo[i - 1]
  <2>1. \A f : \A i \in 0..m : F(f)[i] = IF i = 0 THEN <<>>
                                         ELSE IF rs[i].end = e THEN Append(f[i - 1], rs[i].kernel) ELSE f[i - 1]
    OBVIOUS
  <2> HIDE DEF upTo, F, m
  <2>2. \A i \in 0..m : upTo[i] = IF i = 0 THEN <<>>
                                  ELSE IF rs[i].end = e THEN Append(upTo[i - 1], rs[i].kernel) ELSE upTo[i - 1]
    BY <2>1, <1>6
  <2> QED
    BY <2>2, <1>1
<1>9. \A i \in 0..m : upTo[i] \in V
  <2> DEFINE S == {i \in 0..m : upTo[i] \in V}
  <2>1. 0 \in S
    <3> HIDE DEF upTo, V, m
    <3> QED
      BY <1>8, <1>1
  <2>2. \A n \in 0..(m - 1) : n \in S => n + 1 \in S
    <3> HIDE DEF upTo, m
    <3> TAKE n \in 0..(m - 1)
    <3> HAVE n \in S
    <3>1. n + 1 \in 1..m /\ upTo[n] \in V
          /\ upTo[n + 1] = IF rs[n + 1].end = e THEN Append(upTo[n], rs[n + 1].kernel) ELSE upTo[n]
      BY <1>8, <1>1
    <3>2. upTo[n + 1] \in V
      BY <3>1, <1>1
    <3>3. n + 1 \in 0..m
      BY <3>1, <1>1
    <3> HIDE DEF V
    <3> QED
      BY <3>2, <3>3
  <2>3. 0..m \subseteq S
    <3> HIDE DEF S
    <3> QED BY <2>1, <2>2, <1>1, SetInduction
  <2> QED
    BY <2>3
<1> QED
  <2> HIDE DEF upTo, m
  <2> QED
    BY <1>7, <1>8, <1>9 DEF m

(* The kernels of no record, and of one record more.                       *)
LEMMA KernelsOfAppend ==
  ASSUME NEW rs \in Seq(Record), NEW r \in Record, NEW e
  PROVE  /\ KernelsOf(rs, e) \in Seq(Kernel)
         /\ KernelsOf(Append(rs, r), e) =
               IF r.end = e THEN Append(KernelsOf(rs, e), r.kernel) ELSE KernelsOf(rs, e)
<1> DEFINE m == Len(rs)
           more == Append(rs, r)
           f == KernelsUpTo(rs, e)
           g == KernelsUpTo(more, e)
           S == {i \in 0..m : f[i] = g[i]}
<1>1. /\ more \in Seq(Record) /\ Len(more) = m + 1 /\ m \in Nat
      /\ \A i \in 1..m : more[i] = rs[i]
      /\ more[m + 1] = r
  BY AppendProperties
<1>2. /\ f[0] = <<>> /\ KernelsOf(rs, e) = f[m] /\ f[m] \in Seq(Kernel)
      /\ \A i \in 1..m : f[i] = IF rs[i].end = e THEN Append(f[i - 1], rs[i].kernel) ELSE f[i - 1]
  BY KernelsStep, <1>1
<1>3. /\ g[0] = <<>> /\ KernelsOf(more, e) = g[m + 1]
      /\ \A i \in 1..(m + 1) : g[i] = IF more[i].end = e THEN Append(g[i - 1], more[i].kernel) ELSE g[i - 1]
  <2> HIDE DEF more
  <2> QED
    BY KernelsStep, <1>1
<1> HIDE DEF m, more, f, g
<1>4. 0 \in S
  BY <1>1, <1>2, <1>3
<1>5. \A n \in 0..(m - 1) : n \in S => n + 1 \in S
  <2> TAKE n \in 0..(m - 1)
  <2> HAVE n \in S
  <2>1. n + 1 \in 1..m /\ n + 1 \in 1..(m + 1) /\ n + 1 - 1 = n
    BY <1>1
  <2>2. g[n + 1] = IF rs[n + 1].end = e THEN Append(g[n], rs[n + 1].kernel) ELSE g[n]
    BY <2>1, <1>1, <1>3
  <2>3. f[n + 1] = IF rs[n + 1].end = e THEN Append(f[n], rs[n + 1].kernel) ELSE f[n]
    BY <2>1, <1>2
  <2> QED
    BY <2>1, <2>2, <2>3
<1>6. m \in S
  <2>1. 0..m \subseteq S
    <3> HIDE DEF S
    <3> QED
      BY <1>1, <1>4, <1>5, SetInduction
  <2> QED
    BY <2>1, <1>1
<1>7. g[m + 1] = IF r.end = e THEN Append(g[m], r.kernel) ELSE g[m]
  <2>1. m + 1 \in 1..(m + 1) /\ m + 1 - 1 = m
    BY <1>1
  <2> QED
    BY <1>1, <1>3, <2>1
<1> QED
  BY <1>2, <1>3, <1>6, <1>7 DEF more

(* No record, no kernel.                                                   *)
LEMMA KernelsOfNone == \A e : KernelsOf(<<>>, e) = <<>>
<1> DEFINE z == <<>>
<1>1. z \in Seq(Record) /\ Len(z) = 0
  BY EmptySeq
<1>2. \A e : KernelsOf(z, e) = <<>>
  <2> HIDE DEF z
  <2> TAKE e
  <2>1. KernelsOf(z, e) = KernelsUpTo(z, e)[Len(z)]
    BY <1>1, KernelsStep
  <2>2. KernelsUpTo(z, e)[0] = <<>>
    BY <1>1, KernelsStep
  <2> QED
    BY <1>1, <2>1, <2>2
<1> QED
  BY <1>2

(* The kernels of records from two places.                                 *)
LEMMA KernelsOfConcat ==
  ASSUME NEW rs \in Seq(Record), NEW ts \in Seq(Record), NEW e
  PROVE  /\ KernelsOf(rs \o ts, e) = KernelsOf(rs, e) \o KernelsOf(ts, e)
         /\ KernelsOf(ts, e) \in Seq(Kernel)
<1> DEFINE m == Len(ts)
           First(i) == SubSeq(ts, 1, i)
           S == {i \in 0..m : KernelsOf(rs \o First(i), e) = KernelsOf(rs, e) \o KernelsOf(First(i), e)}
<1>1. m \in Nat /\ First(0) = <<>> /\ First(m) = ts
  BY SubSeqEmpty, SubSeqFull
<1>2. KernelsOf(rs, e) \in Seq(Kernel) /\ KernelsOf(ts, e) \in Seq(Kernel)
  BY KernelsStep, <1>1
<1>3. 0 \in S
  <2>1. rs \o <<>> = rs /\ KernelsOf(rs, e) \o <<>> = KernelsOf(rs, e)
    BY <1>2, ConcatEmptySeq
  <2>2. KernelsOf(rs \o First(0), e) = KernelsOf(rs, e) \o KernelsOf(First(0), e)
    <3> HIDE DEF First
    <3> QED
      BY <1>1, <2>1, KernelsOfNone
  <2> QED
    BY <1>1, <2>2
<1>4. ASSUME NEW n \in 0..(m - 1), n \in S
      PROVE  n + 1 \in S
  <2>1. /\ First(n) \in Seq(Record) /\ ts[n + 1] \in Record /\ n + 1 \in 1..m
        /\ First(n + 1) = Append(First(n), ts[n + 1])
    <3>1. n + 1 \in 1..m /\ 1 \in 1..m /\ n + 1 \in 1..Len(ts)
      OBVIOUS
    <3>2. First(n) \in Seq(Record)
      BY <3>1
    <3>3. First(n + 1) = First(n + 1 - 1) \o <<ts[n + 1]>>
      BY <3>1, SubSeqRecursiveSecond
    <3>4. ts[n + 1] \in Record
      BY <3>1
    <3> QED
      BY <3>1, <3>2, <3>3, <3>4, AppendIsConcat
  <2> DEFINE s == First(n)  r == ts[n + 1]
  <2>2. rs \o Append(s, r) = Append(rs \o s, r) /\ rs \o s \in Seq(Record)
    <3> HIDE DEF s, r
    <3>1. s \in Seq(Record) /\ r \in Record /\ <<r>> \in Seq(Record)
      BY <2>1 DEF s, r
    <3> QED
      BY <3>1, AppendIsConcat, ConcatAssociative, ConcatProperties
  <2> HIDE DEF s, r
  <2>3. s \in Seq(Record) /\ r \in Record
    BY <2>1 DEF s, r
  <2>4. KernelsOf(rs \o s, e) = KernelsOf(rs, e) \o KernelsOf(s, e)
    BY <1>4 DEF s
  <2>5. KernelsOf(Append(s, r), e) = IF r.end = e THEN Append(KernelsOf(s, e), r.kernel) ELSE KernelsOf(s, e)
    BY <2>3, KernelsOfAppend
  <2>6. KernelsOf(Append(rs \o s, r), e) = IF r.end = e THEN Append(KernelsOf(rs \o s, e), r.kernel)
                                           ELSE KernelsOf(rs \o s, e)
    BY <2>2, <2>3, KernelsOfAppend
  <2>7. KernelsOf(rs \o Append(s, r), e) = KernelsOf(rs, e) \o KernelsOf(Append(s, r), e)
    <3>1. KernelsOf(s, e) \in Seq(Kernel) /\ r.kernel \in Kernel /\ <<r.kernel>> \in Seq(Kernel)
      <4>1. KernelsOf(s, e) \in Seq(Kernel)
        BY <2>3, KernelsOfAppend
      <4>2. r.kernel \in Kernel
        BY <2>3 DEF Record
      <4> QED
        BY <4>1, <4>2
    <3> DEFINE a == KernelsOf(rs, e)  b == KernelsOf(s, e)
    <3>2. Append(a \o b, r.kernel) = a \o Append(b, r.kernel)
      <4> HIDE DEF a, b
      <4>1. a \in Seq(Kernel) /\ b \in Seq(Kernel)
        BY <1>2, <3>1 DEF a, b
      <4> DEFINE k == r.kernel
      <4>2. k \in Kernel /\ <<k>> \in Seq(Kernel)
        BY <3>1
      <4> HIDE DEF k
      <4>3. \A x, y \in Seq(Kernel) : \A w \in Kernel : Append(x \o y, w) = x \o Append(y, w)
        BY AppendConcat
      <4>4. Append(a \o b, k) = a \o Append(b, k)
        BY <4>1, <4>2, <4>3
      <4> QED
        BY <4>4 DEF k
    <3> QED
      BY <2>2, <2>4, <2>5, <2>6, <3>2
  <2>8. KernelsOf(rs \o First(n + 1), e) = KernelsOf(rs, e) \o KernelsOf(First(n + 1), e)
    <3> HIDE DEF First
    <3> QED
      BY <2>1, <2>7 DEF s, r
  <2>9. n + 1 \in 0..m
    BY <1>1, <2>1
  <2> HIDE DEF First
  <2> QED
    BY <2>8, <2>9
<1>5. m \in S
  <2>1. 0..m \subseteq S
    <3> HIDE DEF S
    <3> QED
      BY <1>1, <1>3, <1>4, SetInduction
  <2> QED
    BY <2>1, <1>1
<1> QED
  BY <1>1, <1>2, <1>5
-----------------------------------------------------------------------------
(* The queue, its rows, and the durations they stand for.                  *)

(* Dropping the first elements of a sequence.                              *)
LEMMA Dropped ==
  ASSUME NEW E, NEW s \in Seq(E), NEW k \in 0..Len(s)
  PROVE  /\ DropFirst(s, k) \in Seq(E)
         /\ Len(DropFirst(s, k)) = Len(s) - k
         /\ \A i \in 1..(Len(s) - k) : DropFirst(s, k)[i] = s[k + i]
<1>1. Len(s) \in Nat /\ k + 1 \in Int /\ \A i \in (k + 1)..Len(s) : s[i] \in E
  OBVIOUS
<1>2. SubSeq(s, k + 1, Len(s)) \in Seq(E)
  BY <1>1, SubSeqProperties
<1>3. Len(SubSeq(s, k + 1, Len(s))) = Len(s) - k
  BY <1>1
<1>4. \A i \in 1..(Len(s) - k) : SubSeq(s, k + 1, Len(s))[i] = s[k + i]
  BY <1>1
<1> QED
  BY <1>2, <1>3, <1>4 DEF DropFirst

(* Another operator at the end of the queue.                               *)
LEMMA SpanAppend ==
  ASSUME NEW E, NEW q \in Seq(Seq(E)), NEW s \in Seq(E)
  PROVE  /\ \A i \in 0..Len(q) : Span(Append(q, s), i) = Span(q, i)
         /\ Span(Append(q, s), Len(q) + 1) = Span(q, Len(q)) + Len(s)
<1> DEFINE m == Len(q)
           r == Append(q, s)
           S == {i \in 0..m : Span(r, i) = Span(q, i)}
<1>1. /\ r \in Seq(Seq(E)) /\ Len(r) = m + 1 /\ m \in Nat
      /\ \A i \in 1..m : r[i] = q[i]
      /\ r[m + 1] = s
  BY AppendProperties
<1>2. /\ Span(q, 0) = 0
      /\ \A k \in 1..m : Span(q, k) = Span(q, k - 1) + Len(q[k])
  BY SpanStep
<1>3. /\ Span(r, 0) = 0
      /\ \A k \in 1..(m + 1) : Span(r, k) = Span(r, k - 1) + Len(r[k])
  <2> HIDE DEF r
  <2>1. Span(r, 0) = 0 /\ \A k \in 1..Len(r) : Span(r, k) = Span(r, k - 1) + Len(r[k])
    BY SpanStep, <1>1
  <2> QED
    BY <2>1, <1>1
<1> HIDE DEF r, m
<1>4. 0 \in S
  BY <1>1, <1>2, <1>3
<1>5. \A n \in 0..(m - 1) : n \in S => n + 1 \in S
  <2> TAKE n \in 0..(m - 1)
  <2> HAVE n \in S
  <2>1. n + 1 \in 1..m /\ n + 1 \in 1..(m + 1) /\ n + 1 - 1 = n
    BY <1>1
  <2>2. Span(r, n + 1) = Span(r, n) + Len(q[n + 1])
    BY <2>1, <1>1, <1>3
  <2>3. Span(q, n + 1) = Span(q, n) + Len(q[n + 1])
    BY <2>1, <1>2
  <2> QED
    BY <2>1, <2>2, <2>3
<1>6. 0..m \subseteq S
  <2> HIDE DEF S
  <2> QED
    BY <1>1, <1>4, <1>5, SetInduction
<1>7. Span(r, m + 1) = Span(r, m) + Len(s)
  <2>1. m + 1 \in 1..(m + 1) /\ m + 1 - 1 = m
    BY <1>1
  <2> QED
    BY <2>1, <1>1, <1>3
<1>8. \A i \in 0..m : Span(r, i) = Span(q, i)
  BY <1>6
<1>9. Span(r, m + 1) = Span(q, m) + Len(s)
  <2>1. m \in 0..m
    BY <1>1
  <2> QED
    BY <2>1, <1>7, <1>8
<1> HIDE DEF S
<1> QED
  BY <1>8, <1>9 DEF r, m

(* The first operators of the queue are taken from it.                     *)
LEMMA SpanDrop ==
  ASSUME NEW E, NEW q \in Seq(Seq(E)), NEW k \in 0..Len(q)
  PROVE  \A i \in 0..(Len(q) - k) : Span(DropFirst(q, k), i) = Span(q, k + i) - Span(q, k)
<1> DEFINE m == Len(q) - k
           r == DropFirst(q, k)
           S == {i \in 0..m : Span(r, i) = Span(q, k + i) - Span(q, k)}
<1>1. /\ r \in Seq(Seq(E)) /\ Len(r) = m /\ m \in Nat
      /\ \A i \in 1..m : r[i] = q[k + i] /\ Len(q[k + i]) \in Nat
  BY Dropped
<1>2. \A i \in 1..m : Span(q, k + i) = Span(q, k + i - 1) + Len(q[k + i])
  <2>1. \A j \in 1..Len(q) : Span(q, j) = Span(q, j - 1) + Len(q[j])
    BY SpanStep
  <2>2. \A i \in 1..m : k + i \in 1..Len(q)
    OBVIOUS
  <2> QED
    BY <2>1, <2>2
<1>3. /\ Span(r, 0) = 0
      /\ \A i \in 1..m : Span(r, i) = Span(r, i - 1) + Len(r[i])
  <2> HIDE DEF r
  <2>1. Span(r, 0) = 0 /\ \A i \in 1..Len(r) : Span(r, i) = Span(r, i - 1) + Len(r[i])
    BY SpanStep, <1>1
  <2> QED
    BY <2>1, <1>1
<1>4. \A i \in 0..m : Span(q, k + i) \in Nat
  <2>1. \A j \in 0..Len(q) : Span(q, j) \in Nat
    BY SpanStep
  <2>2. \A i \in 0..m : k + i \in 0..Len(q)
    OBVIOUS
  <2> QED
    BY <2>1, <2>2
<1>5. k \in Nat
  OBVIOUS
<1> HIDE DEF r, m
<1>6. 0 \in S
  <2>1. k + 0 = k /\ 0 \in 0..m
    BY <1>1, <1>5
  <2>2. Span(q, k) \in Nat
    BY <1>4, <2>1
  <2> QED
    BY <1>3, <2>1, <2>2
<1>7. \A n \in 0..(m - 1) : n \in S => n + 1 \in S
  <2> TAKE n \in 0..(m - 1)
  <2> HAVE n \in S
  <2>1. n + 1 \in 1..m /\ n + 1 - 1 = n /\ k + (n + 1) - 1 = k + n /\ n \in 0..m /\ n + 1 \in 0..m
    BY <1>1, <1>5
  <2>2. Span(r, n + 1) = Span(r, n) + Len(q[k + (n + 1)])
    BY <2>1, <1>1, <1>3
  <2>3. Span(q, k + (n + 1)) = Span(q, k + n) + Len(q[k + (n + 1)])
    BY <2>1, <1>2
  <2>4. Span(q, k + n) \in Nat /\ Span(q, k) \in Nat /\ Len(q[k + (n + 1)]) \in Nat
    <3>1. k = k + 0 /\ 0 \in 0..m
      BY <1>1, <1>5
    <3> QED
      BY <2>1, <1>1, <1>4, <3>1
  <2> QED
    BY <2>1, <2>2, <2>3, <2>4
<1>8. 0..m \subseteq S
  <2> HIDE DEF S
  <2> QED
    BY <1>1, <1>6, <1>7, SetInduction
<1> QED
  BY <1>8 DEF r, m

(* More operators, no fewer kernels.                                       *)
LEMMA SpanMonotone ==
  ASSUME NEW E, NEW q \in Seq(Seq(E)), NEW i \in 0..Len(q), NEW j \in i..Len(q)
  PROVE  Span(q, i) <= Span(q, j)
<1> DEFINE m == Len(q) - i
           S == {n \in 0..m : Span(q, i) <= Span(q, i + n)}
<1>1. m \in Nat /\ i \in Nat /\ j - i \in 0..m /\ i + (j - i) = j
  OBVIOUS
<1>2. /\ \A k \in 1..Len(q) : Span(q, k) = Span(q, k - 1) + Len(q[k]) /\ Len(q[k]) \in Nat
      /\ \A k \in 0..Len(q) : Span(q, k) \in Nat
  <2>1. \A k \in 1..Len(q) : Len(q[k]) \in Nat
    OBVIOUS
  <2> QED
    BY SpanStep, <2>1
<1>3. 0 \in S
  <2>1. i + 0 = i /\ 0 \in 0..m
    BY <1>1
  <2> QED
    BY <1>2, <2>1
<1>4. \A n \in 0..(m - 1) : n \in S => n + 1 \in S
  <2> TAKE n \in 0..(m - 1)
  <2> HAVE n \in S
  <2>1. i + (n + 1) \in 1..Len(q) /\ i + (n + 1) - 1 = i + n /\ i + n \in 0..Len(q) /\ n + 1 \in 0..m
    BY <1>1
  <2>2. Span(q, i + (n + 1)) = Span(q, i + n) + Len(q[i + (n + 1)])
    BY <2>1, <1>2
  <2>3. Span(q, i + n) \in Nat /\ Len(q[i + (n + 1)]) \in Nat /\ Span(q, i) \in Nat
    BY <2>1, <1>2
  <2> QED
    BY <2>1, <2>2, <2>3
<1>5. 0..m \subseteq S
  <2> HIDE DEF S, m
  <2> QED
    BY <1>1, <1>3, <1>4, SetInduction
<1> QED
  BY <1>1, <1>5

(* The first loop of UpdateMetrics stops at the first operator that has    *)
(* not all of its durations.                                               *)
LEMMA ReadyStops ==
  ASSUME NEW E, NEW q \in Seq(Seq(E)), NEW D, NEW ds \in Seq(D)
  PROVE  /\ Ready(q, ds) \in 0..Len(q)
         /\ Span(q, Ready(q, ds)) <= Len(ds)
         /\ Ready(q, ds) < Len(q) => Span(q, Ready(q, ds) + 1) > Len(ds)
<1> DEFINE T == {k \in 0..Len(q) : Span(q, k) > Len(ds)}
           Stops(k) == /\ Span(q, k) <= Len(ds)
                       /\ k < Len(q) => Span(q, k + 1) > Len(ds)
<1>1. Len(q) \in Nat /\ Len(ds) \in Nat
  OBVIOUS
<1>2. Span(q, 0) = 0 /\ \A k \in 0..Len(q) : Span(q, k) \in Nat
  BY SpanStep
<1>3. \E k \in 0..Len(q) : Stops(k)
  <2>1. CASE T = {}
    <3>1. Len(q) \in 0..Len(q) /\ Len(q) \notin T
      BY <1>1, <2>1
    <3>2. Span(q, Len(q)) <= Len(ds)
      BY <1>1, <1>2, <3>1
    <3>3. Stops(Len(q))
      BY <1>1, <3>2
    <3> HIDE DEF Stops
    <3> QED
      BY <3>1, <3>3
  <2>2. CASE T # {}
    <3>1. PICK x \in T : \A y \in T : x <= y
      <4>1. T \subseteq Nat
        BY <1>1
      <4> HIDE DEF T
      <4> QED
        BY <2>2, <4>1, LeastElement
    <3>2. x # 0 /\ x - 1 \in 0..Len(q) /\ x - 1 \notin T /\ x - 1 + 1 = x /\ Span(q, x) > Len(ds)
      BY <1>1, <1>2, <3>1
    <3>3. Stops(x - 1)
      BY <1>1, <1>2, <3>2
    <3> QED
      BY <3>2, <3>3
  <2> QED
    BY <2>1, <2>2
<1>4. Ready(q, ds) = CHOOSE k \in 0..Len(q) : Stops(k)
  BY DEF Ready
<1>5. Ready(q, ds) \in 0..Len(q) /\ Stops(Ready(q, ds))
  <2> HIDE DEF Stops
  <2> QED
    BY <1>3, <1>4
<1> QED
  BY <1>5

\* The kinds in kernelsQueue_.
KernelKind == {"op", "clear"}

\* The kernels K are those the rows A say, of the operators b + 1, b + 2, ...
Match(b, A, K) ==
    \A i \in 1..Len(A) : \A j \in 1..Len(A[i]) :
        Span(A, i - 1) + j <= Len(K) =>
            /\ K[Span(A, i - 1) + j].op = b + i
            /\ A[i][j] = "op" <=> K[Span(A, i - 1) + j].kind # "clear"

\* Row i is all there, and ends with the n-th execution of the operator.
Whole(A, K, i, n) ==
    /\ A[i] # <<>> /\ A[i][Len(A[i])] = "op"
    /\ Span(A, i) <= Len(K)
    /\ K[Span(A, i)].kind = "op" /\ K[Span(A, i)].n = n

(* The rows of a queue and the spans before them, one row more.            *)
LEMMA RowAppended ==
  ASSUME NEW q \in Seq(Seq(KernelKind)), NEW r \in Seq(KernelKind)
  PROVE  /\ Append(q, r) \in Seq(Seq(KernelKind)) /\ Len(Append(q, r)) = Len(q) + 1
         /\ \A i \in 1..Len(q) : Append(q, r)[i] = q[i]
         /\ Append(q, r)[Len(q) + 1] = r
         /\ \A i \in 0..Len(q) : Span(Append(q, r), i) = Span(q, i)
         /\ Span(Append(q, r), Len(q) + 1) = Span(q, Len(q)) + Len(r)
         /\ \A i \in 0..Len(q) : Span(q, i) \in Nat
         /\ \A i \in 1..Len(q) : Span(q, i) = Span(q, i - 1) + Len(q[i]) /\ Span(q, i) <= Span(q, Len(q))
<1>1. /\ Append(q, r) \in Seq(Seq(KernelKind)) /\ Len(Append(q, r)) = Len(q) + 1
      /\ \A i \in 1..Len(q) : Append(q, r)[i] = q[i]
      /\ Append(q, r)[Len(q) + 1] = r
  BY AppendProperties
<1>2. /\ \A i \in 0..Len(q) : Span(Append(q, r), i) = Span(q, i)
      /\ Span(Append(q, r), Len(q) + 1) = Span(q, Len(q)) + Len(r)
  BY SpanAppend
<1>3. /\ \A i \in 0..Len(q) : Span(q, i) \in Nat
      /\ \A i \in 1..Len(q) : Span(q, i) = Span(q, i - 1) + Len(q[i])
  BY SpanStep
<1>4. \A i \in 1..Len(q) : Span(q, i) <= Span(q, Len(q))
  <2> TAKE i \in 1..Len(q)
  <2>1. i \in 0..Len(q) /\ Len(q) \in i..Len(q)
    OBVIOUS
  <2> QED
    BY <2>1, SpanMonotone
<1> QED
  BY <1>1, <1>2, <1>3, <1>4

(* RunOp begins with an operator: a row with nothing in it yet.            *)
LEMMA EmptyRow ==
  ASSUME NEW q \in Seq(Seq(KernelKind)), NEW K \in Seq(Kernel), NEW b \in Nat
  PROVE  /\ Match(b, q, K) => Match(b, Append(q, <<>>), K)
         /\ Span(Append(q, <<>>), Len(q) + 1) = Span(q, Len(q))
         /\ \A i \in 1..Len(q) : \A n : Whole(q, K, i, n) => Whole(Append(q, <<>>), K, i, n)
<1> DEFINE z == <<>>
           B == Append(q, z)
           m == Len(q)
<1>1. z \in Seq(KernelKind) /\ Len(z) = 0 /\ m \in Nat
  BY EmptySeq
<1>2. /\ Len(B) = m + 1 /\ \A i \in 1..m : B[i] = q[i]
      /\ B[m + 1] = z
      /\ \A i \in 0..m : Span(B, i) = Span(q, i)
      /\ Span(B, m + 1) = Span(q, m) + Len(z)
      /\ \A i \in 0..m : Span(q, i) \in Nat
  <2> HIDE DEF z
  <2> QED
    BY <1>1, RowAppended
<1> HIDE DEF B, z
<1>3. Span(B, m + 1) = Span(q, m)
  <2>1. m \in 0..m
    BY <1>1
  <2> QED
    BY <1>1, <1>2, <2>1
<1>4. ASSUME NEW i \in 1..m PROVE i \in 1..m /\ i - 1 \in 0..m /\ i \in 0..m
  BY <1>1
<1>5. ASSUME Match(b, q, K) PROVE Match(b, B, K)
  <2> SUFFICES ASSUME NEW i \in 1..Len(B), NEW j \in 1..Len(B[i]), Span(B, i - 1) + j <= Len(K)
               PROVE  /\ K[Span(B, i - 1) + j].op = b + i
                      /\ B[i][j] = "op" <=> K[Span(B, i - 1) + j].kind # "clear"
    BY DEF Match
  <2>1. i \in 1..m
    BY <1>1, <1>2
  <2>2. B[i] = q[i] /\ Span(B, i - 1) = Span(q, i - 1) /\ i \in 1..Len(q)
    BY <1>2, <1>4, <2>1
  <2>3. j \in 1..Len(q[i]) /\ Span(q, i - 1) + j <= Len(K)
    BY <2>2
  <2> QED
    BY <1>5, <2>2, <2>3 DEF Match
<1>6. \A i \in 1..m : \A n : Whole(q, K, i, n) => Whole(B, K, i, n)
  BY <1>2, <1>4 DEF Whole
<1> QED
  BY <1>3, <1>5, <1>6 DEF B, z

(* Kernels are launched, and their kinds noted, for the last operator.     *)
LEMMA GrownRow ==
  ASSUME NEW q \in Seq(Seq(KernelKind)), NEW r \in Seq(KernelKind), NEW t \in Seq(KernelKind),
         NEW K \in Seq(Kernel), NEW u \in Seq(Kernel), NEW b \in Nat
  PROVE  (/\ Len(u) = Len(t) /\ Match(b, Append(q, r), K) /\ Len(K) = Span(Append(q, r), Len(q) + 1)
          /\ \A j \in 1..Len(t) : u[j].op = b + (Len(q) + 1) /\ (t[j] = "op" <=> u[j].kind # "clear"))
         => /\ Match(b, Append(q, r \o t), K \o u)
            /\ Len(K \o u) = Span(Append(q, r \o t), Len(q) + 1)
            /\ \A i \in 1..Len(q) : \A n : Whole(Append(q, r), K, i, n) => Whole(Append(q, r \o t), K \o u, i, n)
<1> DEFINE A == Append(q, r)
           B == Append(q, r \o t)
           L == K \o u
           m == Len(q)
<1>0. HAVE /\ Len(u) = Len(t) /\ Match(b, A, K) /\ Len(K) = Span(A, m + 1)
           /\ \A j \in 1..Len(t) : u[j].op = b + (m + 1) /\ (t[j] = "op" <=> u[j].kind # "clear")
<1>1. /\ Len(A) = m + 1 /\ \A i \in 1..m : A[i] = q[i]
      /\ A[m + 1] = r
      /\ \A i \in 0..m : Span(A, i) = Span(q, i)
      /\ Span(A, m + 1) = Span(q, m) + Len(r)
      /\ \A i \in 0..m : Span(q, i) \in Nat
      /\ \A i \in 1..m : Span(q, i) = Span(q, i - 1) + Len(q[i]) /\ Span(q, i) <= Span(q, m)
  BY RowAppended
<1>2. /\ r \o t \in Seq(KernelKind) /\ Len(r \o t) = Len(r) + Len(t)
      /\ \A j \in 1..Len(r) : (r \o t)[j] = r[j]
      /\ \A j \in 1..Len(t) : (r \o t)[Len(r) + j] = t[j]
  BY ConcatProperties
<1>3. /\ Len(B) = m + 1 /\ \A i \in 1..m : B[i] = q[i]
      /\ B[m + 1] = r \o t
      /\ \A i \in 0..m : Span(B, i) = Span(q, i)
      /\ Span(B, m + 1) = Span(q, m) + Len(r \o t)
  <2> DEFINE s == r \o t
  <2>1. s \in Seq(KernelKind)
    BY <1>2
  <2> HIDE DEF s
  <2>2. /\ Len(Append(q, s)) = m + 1 /\ \A i \in 1..m : Append(q, s)[i] = q[i]
        /\ Append(q, s)[m + 1] = s
        /\ \A i \in 0..m : Span(Append(q, s), i) = Span(q, i)
        /\ Span(Append(q, s), m + 1) = Span(q, m) + Len(s)
    BY <2>1, RowAppended
  <2> QED
    BY <2>2 DEF s
<1>4. /\ Len(L) = Len(K) + Len(u)
      /\ \A x \in 1..Len(K) : L[x] = K[x]
      /\ \A x \in 1..Len(u) : L[Len(K) + x] = u[x]
  BY ConcatParts
<1>5. /\ m \in Nat /\ Len(r) \in Nat /\ Len(t) \in Nat /\ Len(u) = Len(t) /\ Span(q, m) \in Nat
      /\ Len(K) = Span(q, m) + Len(r)
  <2>1. m \in 0..m
    OBVIOUS
  <2> QED
    BY <1>0, <1>1, <2>1
<1>6. Match(b, A, K)
  BY <1>0
<1>7. \A j \in 1..Len(t) : u[j].op = b + (m + 1) /\ (t[j] = "op" <=> u[j].kind # "clear")
  BY <1>0
<1> HIDE DEF A, B, L, m
<1>8. ASSUME NEW i \in 1..m
      PROVE  i \in 1..m /\ i - 1 \in 0..m /\ i \in 0..m /\ i \in 1..(m + 1)
  BY <1>5
<1>9. Match(b, B, L)
  <2> SUFFICES ASSUME NEW i \in 1..Len(B), NEW j \in 1..Len(B[i]), Span(B, i - 1) + j <= Len(L)
               PROVE  /\ L[Span(B, i - 1) + j].op = b + i
                      /\ B[i][j] = "op" <=> L[Span(B, i - 1) + j].kind # "clear"
    BY DEF Match
  <2>1. CASE i \in 1..m
    <3>1. B[i] = A[i] /\ Span(B, i - 1) = Span(A, i - 1) /\ j \in 1..Len(A[i]) /\ i \in 1..Len(A)
      BY <2>1, <1>1, <1>3, <1>8
    <3>2. Span(A, i - 1) + j \in 1..Len(K)
      <4>1. /\ Span(q, i - 1) \in Nat /\ Span(q, i) = Span(q, i - 1) + Len(q[i]) /\ Span(q, i) <= Span(q, m)
            /\ j \in 1..Len(q[i]) /\ Span(A, i - 1) = Span(q, i - 1)
        BY <2>1, <1>1, <1>3, <1>8
      <4>2. Len(q[i]) \in Nat
        BY <2>1 DEF m
      <4>3. Span(q, i - 1) + j \in 1..Span(q, m)
        <5> DEFINE x == Span(q, i - 1)
                   y == Span(q, i)
                   z == Span(q, m)
                   n == Len(q[i])
        <5>1. x \in Nat /\ n \in Nat /\ z \in Nat /\ y = x + n /\ y <= z /\ j \in 1..n
          BY <4>1, <4>2, <1>5
        <5> HIDE DEF x, y, z, n
        <5>2. x + j \in 1..z
          BY <5>1
        <5> QED
          BY <5>2 DEF x, z
      <4>4. Span(q, i - 1) + j \in 1..(Span(q, m) + Len(r))
        BY <4>3, <1>5
      <4> QED
        BY <4>1, <4>4, <1>5
    <3>3. L[Span(A, i - 1) + j] = K[Span(A, i - 1) + j] /\ Span(A, i - 1) + j <= Len(K)
      BY <3>2, <1>4
    <3> QED
      BY <3>1, <3>3, <1>6 DEF Match
  <2>2. CASE i = m + 1
    <3>1. B[i] = r \o t /\ Span(B, i - 1) = Span(q, m) /\ j \in 1..(Len(r) + Len(t))
      <4>1. m \in 0..m /\ i - 1 = m
        BY <2>2, <1>5
      <4> QED
        BY <2>2, <1>2, <1>3, <4>1
    <3>2. CASE j \in 1..Len(r)
      <4>1. A[i] = r /\ Span(A, i - 1) = Span(q, m) /\ i \in 1..Len(A)
        <5>1. m \in 0..m /\ i - 1 = m /\ m + 1 \in 1..(m + 1)
          BY <2>2, <1>5
        <5> QED
          BY <2>2, <1>1, <5>1
      <4>2. B[i][j] = A[i][j] /\ j \in 1..Len(A[i])
        BY <3>1, <3>2, <4>1, <1>2
      <4>3. Span(q, m) + j \in 1..Len(K) /\ Span(A, i - 1) + j <= Len(K)
        <5>1. Span(q, m) + j \in 1..(Span(q, m) + Len(r))
          BY <3>2, <1>5
        <5> QED
          BY <5>1, <4>1, <1>5
      <4>4. L[Span(B, i - 1) + j] = K[Span(A, i - 1) + j]
        BY <3>1, <4>1, <4>3, <1>4
      <4> QED
        BY <4>1, <4>2, <4>3, <4>4, <1>6 DEF Match
    <3>3. CASE j \in (Len(r) + 1)..(Len(r) + Len(t))
      <4> DEFINE x == j - Len(r)
      <4>1. x \in 1..Len(t) /\ j = Len(r) + x /\ Span(q, m) + j = Len(K) + x
        BY <3>3, <1>5
      <4> HIDE DEF x
      <4>2. B[i][j] = t[x] /\ L[Span(B, i - 1) + j] = u[x]
        BY <3>1, <4>1, <1>2, <1>4, <1>5
      <4> QED
        BY <4>1, <4>2, <1>7, <2>2
    <3>4. j \in 1..Len(r) \/ j \in (Len(r) + 1)..(Len(r) + Len(t))
      BY <3>1, <1>5
    <3> QED
      BY <3>2, <3>3, <3>4
  <2> QED
    BY <2>1, <2>2, <1>3, <1>5
<1>10. Len(L) = Span(B, m + 1)
  <2>1. Span(B, m + 1) = Span(q, m) + (Len(r) + Len(t)) /\ Len(L) = Len(K) + Len(t)
    BY <1>2, <1>3, <1>4, <1>5
  <2>2. \A x, y, z \in Nat : x + (y + z) = (x + y) + z
    OBVIOUS
  <2>3. Span(q, m) + (Len(r) + Len(t)) = (Span(q, m) + Len(r)) + Len(t)
    BY <2>2, <1>5
  <2> QED
    BY <2>1, <2>3, <1>5
<1>11. ASSUME NEW i \in 1..m, NEW n, Whole(A, K, i, n) PROVE Whole(B, L, i, n)
  <2>1. B[i] = A[i] /\ Span(B, i) = Span(A, i) /\ Span(A, i) = Span(q, i) /\ A[i] = q[i]
    BY <1>1, <1>3, <1>8
  <2>2. q[i] \in Seq(KernelKind) /\ q[i] # <<>>
    BY <2>1, <1>11 DEF Whole, m
  <2>3. Span(q, i) \in 1..Len(K)
    <3>1. Len(q[i]) \in Nat \ {0}
      BY <2>2
    <3>2. Span(q, i - 1) \in Nat /\ Span(q, i) = Span(q, i - 1) + Len(q[i]) /\ Span(q, i) <= Len(K)
      BY <2>1, <1>1, <1>8, <1>11 DEF Whole
    <3> QED
      BY <3>1, <3>2, <1>5
  <2>4. L[Span(q, i)] = K[Span(q, i)] /\ Span(q, i) <= Len(L)
    BY <2>3, <1>4, <1>5
  <2> QED
    BY <2>1, <2>4, <1>11 DEF Whole
<1> QED
  BY <1>9, <1>10, <1>11 DEF A, B, L, m

(* The spans of the rows that stay when the first k are taken.             *)
LEMMA RowsDropped ==
  ASSUME NEW A \in Seq(Seq(KernelKind)), NEW k \in 0..Len(A)
  PROVE  /\ DropFirst(A, k) \in Seq(Seq(KernelKind)) /\ Len(DropFirst(A, k)) = Len(A) - k
         /\ \A i \in 1..(Len(A) - k) : DropFirst(A, k)[i] = A[k + i]
         /\ \A i \in 0..(Len(A) - k) : Span(DropFirst(A, k), i) = Span(A, k + i) - Span(A, k)
         /\ \A i \in 0..(Len(A) - k) : Span(A, k + i) \in Nat /\ Span(A, k) <= Span(A, k + i)
         /\ Span(A, k) \in Nat
<1>1. /\ DropFirst(A, k) \in Seq(Seq(KernelKind)) /\ Len(DropFirst(A, k)) = Len(A) - k
      /\ \A i \in 1..(Len(A) - k) : DropFirst(A, k)[i] = A[k + i]
  BY Dropped
<1>2. \A i \in 0..(Len(A) - k) : Span(DropFirst(A, k), i) = Span(A, k + i) - Span(A, k)
  BY SpanDrop
<1>3. \A i \in 0..(Len(A) - k) : k + i \in 0..Len(A) /\ k + i \in k..Len(A)
  OBVIOUS
<1>4. \A i \in 0..Len(A) : Span(A, i) \in Nat
  BY SpanStep
<1>5. \A i \in 0..(Len(A) - k) : Span(A, k) <= Span(A, k + i)
  <2> TAKE i \in 0..(Len(A) - k)
  <2> QED
    BY <1>3, SpanMonotone
<1> QED
  BY <1>1, <1>2, <1>3, <1>4, <1>5

(* The metrics of the first k operators are reported, and their kernels    *)
(* forgotten.                                                              *)
LEMMA DroppedRows ==
  ASSUME NEW A \in Seq(Seq(KernelKind)), NEW K \in Seq(Kernel), NEW b \in Nat, NEW k \in 0..Len(A)
  PROVE  Span(A, k) <= Len(K) /\ Match(b, A, K)
         => /\ Match(b + k, DropFirst(A, k), DropFirst(K, Span(A, k)))
            /\ \A i \in 1..(Len(A) - k) : \A n :
                  Whole(A, K, k + i, n) => Whole(DropFirst(A, k), DropFirst(K, Span(A, k)), i, n)
<1> DEFINE B == DropFirst(A, k)
           p == Span(A, k)
           L == DropFirst(K, p)
           m == Len(A) - k
<1>0. HAVE p <= Len(K) /\ Match(b, A, K)
<1>1. /\ B \in Seq(Seq(KernelKind)) /\ Len(B) = m
      /\ \A i \in 1..m : B[i] = A[k + i]
      /\ \A i \in 0..m : Span(B, i) = Span(A, k + i) - p
      /\ \A i \in 0..m : Span(A, k + i) \in Nat /\ p <= Span(A, k + i)
      /\ p \in Nat
  BY RowsDropped
<1>2. Len(K) \in Nat /\ k \in Nat /\ m \in Nat /\ Len(A) \in Nat /\ Len(A) = k + m /\ p \in 0..Len(K)
  <2>1. Len(K) \in Nat /\ k \in Nat /\ m \in Nat /\ Len(A) \in Nat /\ Len(A) = k + m
    OBVIOUS
  <2> HIDE DEF p
  <2> QED
    BY <1>0, <1>1, <2>1
<1>3. /\ Len(L) = Len(K) - p
      /\ \A x \in 1..(Len(K) - p) : L[x] = K[p + x]
  <2> HIDE DEF p
  <2> QED
    BY <1>2, Dropped
<1> HIDE DEF B, L, m, p
<1>4. ASSUME NEW i \in 1..m
      PROVE  /\ k + i \in 1..Len(A) /\ i - 1 \in 0..m /\ i \in 0..m
             /\ k + (i - 1) = k + i - 1
  BY <1>2
<1>5. Match(b + k, B, L)
  <2> SUFFICES ASSUME NEW i \in 1..Len(B), NEW j \in 1..Len(B[i]), Span(B, i - 1) + j <= Len(L)
               PROVE  /\ L[Span(B, i - 1) + j].op = b + k + i
                      /\ B[i][j] = "op" <=> L[Span(B, i - 1) + j].kind # "clear"
    BY DEF Match
  <2>1. i \in 1..m
    BY <1>1
  <2> DEFINE a == Span(A, k + i - 1)
             c == Span(B, i - 1)
  <2>2. c = a - p /\ a \in Nat /\ p <= a
    BY <1>1, <1>4, <2>1
  <2>3. B[i] = A[k + i] /\ k + i \in 1..Len(A)
    BY <1>1, <1>4, <2>1
  <2>4. j \in 1..Len(A[k + i]) /\ j \in Nat \ {0}
    <3>1. Len(A[k + i]) \in Nat
      BY <2>3
    <3> QED
      BY <2>3, <3>1
  <2>5. c + j <= Len(L)
    OBVIOUS
  <2> HIDE DEF a, c
  <2>6. c + j \in 1..(Len(K) - p) /\ p + (c + j) = a + j /\ a + j <= Len(K)
    BY <1>1, <1>2, <1>3, <2>2, <2>4, <2>5
  <2>7. L[c + j] = K[a + j]
    BY <1>3, <2>6
  <2>8. /\ K[Span(A, k + i - 1) + j].op = b + (k + i)
        /\ A[k + i][j] = "op" <=> K[Span(A, k + i - 1) + j].kind # "clear"
    <3> DEFINE x == k + i
    <3>1. x \in 1..Len(A) /\ j \in 1..Len(A[x]) /\ x - 1 = k + i - 1
      BY <1>2, <2>1, <2>3, <2>4
    <3>2. Span(A, x - 1) + j <= Len(K)
      BY <2>6, <3>1 DEF a
    <3> HIDE DEF x
    <3>3. \A y \in 1..Len(A) : \A z \in 1..Len(A[y]) : Span(A, y - 1) + z <= Len(K) =>
              /\ K[Span(A, y - 1) + z].op = b + y
              /\ A[y][z] = "op" <=> K[Span(A, y - 1) + z].kind # "clear"
      BY <1>0 DEF Match
    <3>4. /\ K[Span(A, x - 1) + j].op = b + x
          /\ A[x][j] = "op" <=> K[Span(A, x - 1) + j].kind # "clear"
      BY <3>1, <3>2, <3>3, Zenon
    <3> QED
      BY <3>1, <3>4 DEF x
  <2>9. b + (k + i) = b + k + i
    BY <1>2
  <2> QED
    BY <2>3, <2>7, <2>8, <2>9 DEF a, c
<1>6. ASSUME NEW i \in 1..m, NEW n, Whole(A, K, k + i, n) PROVE Whole(B, L, i, n)
  <2>1. B[i] = A[k + i] /\ Span(B, i) = Span(A, k + i) - p /\ Span(A, k + i) \in Nat /\ Span(A, k + i) <= Len(K)
    BY <1>1, <1>4, <1>6 DEF Whole
  <2>2. p < Span(A, k + i)
    <3>1. k + i \in 1..Len(A) /\ A[k + i] # <<>>
      BY <1>4, <1>6 DEF Whole
    <3>2. Span(A, k + i) = Span(A, k + i - 1) + Len(A[k + i]) /\ Span(A, k + i - 1) \in Nat /\ p <= Span(A, k + i - 1)
      <4>1. Span(A, k + i) = Span(A, k + i - 1) + Len(A[k + i])
        BY <3>1, SpanStep
      <4> QED
        BY <4>1, <1>1, <1>4
    <3>3. Len(A[k + i]) \in Nat \ {0}
      <4>1. A[k + i] \in Seq(KernelKind)
        BY <3>1
      <4> QED
        BY <3>1, <4>1
    <3> DEFINE a == Span(A, k + i - 1)
               l == Len(A[k + i])
    <3>4. a \in Nat /\ p <= a /\ l \in Nat \ {0} /\ p \in Nat /\ Span(A, k + i) = a + l
      BY <1>1, <3>2, <3>3
    <3> HIDE DEF a, l
    <3>5. p < a + l
      BY <3>4
    <3> QED
      BY <3>4, <3>5
  <2>3. Span(B, i) \in 1..(Len(K) - p) /\ p + Span(B, i) = Span(A, k + i) /\ Span(B, i) <= Len(L)
    <3> DEFINE a == Span(A, k + i)
               c == Span(B, i)
               l == Len(K)
    <3>1. a \in Nat /\ p \in Nat /\ l \in Nat /\ c = a - p /\ p < a /\ a <= l /\ Len(L) = l - p
      BY <1>1, <1>2, <1>3, <2>1, <2>2
    <3> HIDE DEF a, c, l
    <3>2. c \in 1..(l - p) /\ p + c = a /\ c <= Len(L)
      BY <3>1
    <3> QED
      BY <3>2 DEF a, c, l
  <2>4. L[Span(B, i)] = K[Span(A, k + i)]
    BY <1>3, <2>3
  <2> QED
    BY <1>6, <2>1, <2>3, <2>4 DEF Whole
<1> QED
  BY <1>5, <1>6 DEF B, L, m, p

(* The last kernel aborts and is not seen to end: nothing else changes.    *)
LEMMA KernelLost ==
  ASSUME NEW A \in Seq(Seq(KernelKind)), A # <<>>, NEW K \in Seq(Kernel), NEW x \in Kernel, NEW b \in Nat
  PROVE  Match(b, A, Append(K, x)) /\ Len(K) + 1 = Span(A, Len(A)) /\ Len(A[Len(A)]) >= 1
         => /\ Match(b, A, K)
            /\ \A i \in 1..(Len(A) - 1) : \A n : Whole(A, Append(K, x), i, n) => Whole(A, K, i, n)
<1> DEFINE L == Append(K, x)
           m == Len(A)
<1>0. HAVE Match(b, A, L) /\ Len(K) + 1 = Span(A, m) /\ Len(A[m]) >= 1
<1>1. m \in Nat \ {0} /\ Len(K) \in Nat
  OBVIOUS
<1>2. Len(L) = Len(K) + 1 /\ \A y \in 1..Len(K) : L[y] = K[y]
  BY AppendProperties
<1> HIDE DEF L
<1>3. Match(b, A, K)
  <2> SUFFICES ASSUME NEW i \in 1..Len(A), NEW j \in 1..Len(A[i]), Span(A, i - 1) + j <= Len(K)
               PROVE  /\ K[Span(A, i - 1) + j].op = b + i
                      /\ A[i][j] = "op" <=> K[Span(A, i - 1) + j].kind # "clear"
    BY DEF Match
  <2> DEFINE c == Span(A, i - 1)
  <2>1. c \in Nat /\ j \in Nat \ {0}
    <3>1. i - 1 \in 0..Len(A) /\ Len(A[i]) \in Nat
      BY <1>1
    <3>2. j \in Nat \ {0}
      BY <3>1
    <3> QED
      BY <3>1, <3>2, SpanStep
  <2>2. c + j <= Len(K)
    OBVIOUS
  <2> HIDE DEF c
  <2>3. c + j \in 1..Len(K) /\ c + j <= Len(L)
    BY <1>1, <1>2, <2>1, <2>2
  <2>4. /\ L[c + j].op = b + i
        /\ A[i][j] = "op" <=> L[c + j].kind # "clear"
    BY <1>0, <2>3 DEF Match, c
  <2> QED
    BY <1>2, <2>3, <2>4 DEF c
<1>4. ASSUME NEW i \in 1..(m - 1), NEW n, Whole(A, L, i, n) PROVE Whole(A, K, i, n)
  <2>1. i \in 1..m /\ i \in 0..(m - 1) /\ m \in 1..m /\ m - 1 \in i..m /\ i \in 0..m /\ m - 1 \in 0..m
    BY <1>1
  <2>2. Span(A, i) <= Span(A, m - 1) /\ Span(A, m) = Span(A, m - 1) + Len(A[m])
        /\ Span(A, m - 1) \in Nat
    <3>1. \A p \in 0..m : \A q \in p..m : Span(A, p) <= Span(A, q)
      BY SpanMonotone
    <3>2. \A q \in 0..m : Span(A, q) \in Nat
      BY SpanStep
    <3>3. \A q \in 1..m : Span(A, q) = Span(A, q - 1) + Len(A[q])
      BY SpanStep
    <3> HIDE DEF m
    <3>4. Span(A, i) <= Span(A, m - 1)
      BY <3>1, <2>1
    <3> QED
      BY <3>2, <3>3, <3>4, <2>1
  <2>3. Span(A, i) \in Nat \ {0}
    <3>1. A[i] \in Seq(KernelKind) /\ A[i] # <<>>
      BY <1>4, <2>1 DEF Whole
    <3>2. Len(A[i]) \in Nat \ {0}
      BY <3>1
    <3>3. i - 1 \in 0..m
      BY <1>1
    <3>4. Span(A, i) = Span(A, i - 1) + Len(A[i]) /\ Span(A, i - 1) \in Nat
      <4> HIDE DEF m
      <4>1. /\ \A q \in 1..m : Span(A, q) = Span(A, q - 1) + Len(A[q])
            /\ \A q \in 0..m : Span(A, q) \in Nat
        BY SpanStep DEF m
      <4> QED
        BY <4>1, <3>3, <2>1
    <3> DEFINE a == Span(A, i - 1)
               l == Len(A[i])
    <3>5. a \in Nat /\ l \in Nat \ {0} /\ Span(A, i) = a + l
      BY <3>2, <3>4
    <3> HIDE DEF a, l
    <3>6. a + l \in Nat \ {0}
      BY <3>5
    <3> QED
      BY <3>5, <3>6
  <2>4. Span(A, i) \in 1..Len(K)
    <3> DEFINE s == Span(A, i)
               t == Span(A, m - 1)
               l == Len(A[m])
    <3>1. s \in Nat \ {0} /\ t \in Nat /\ l \in Nat /\ s <= t /\ Len(K) + 1 = t + l /\ l >= 1
      <4>1. Len(A[m]) \in Nat
        BY <1>1
      <4> HIDE DEF m
      <4> QED
        BY <4>1, <1>0, <2>2, <2>3
    <3> HIDE DEF s, t, l
    <3>2. s \in 1..Len(K)
      BY <1>1, <3>1
    <3> QED
      BY <3>2 DEF s
  <2>5. L[Span(A, i)] = K[Span(A, i)] /\ Span(A, i) <= Len(K)
    BY <1>2, <2>4
  <2> QED
    BY <1>4, <2>5 DEF Whole
<1> QED
  BY <1>3, <1>4 DEF L, m

(* A set of numbers up to m that is not empty has a greatest element.      *)
LEMMA GreatestElement ==
  ASSUME NEW m \in Nat, NEW T, T \subseteq 1..m, T # {}
  PROVE  \E x \in T : \A y \in T : y <= x
<1> DEFINE R == {m - x : x \in T}
<1>1. PICK r \in R : \A s \in R : r <= s
  <2>1. \A x \in T : m - x \in Nat
    OBVIOUS
  <2>2. PICK y \in T : TRUE
    OBVIOUS
  <2>3. m - y \in R
    OBVIOUS
  <2>4. R \subseteq Nat /\ R # {}
    BY <2>1, <2>3
  <2> HIDE DEF R
  <2> QED
    BY <2>4, LeastElement
<1>2. PICK x \in T : r = m - x
  OBVIOUS
<1>3. \A y \in T : y <= x
  <2> TAKE y \in T
  <2>1. m - x <= m - y /\ x \in 1..m /\ y \in 1..m
    BY <1>1, <1>2
  <2> QED
    BY <2>1
<1> QED
  BY <1>3

(* What SetDurationAndPrint gets for row i, when ds are the durations of   *)
(* the first of the kernels K.                                             *)
LEMMA Attributed ==
  ASSUME NEW A \in Seq(Seq(KernelKind)), NEW K \in Seq(Kernel), NEW ds \in Seq(Kernel), NEW b \in Nat,
         NEW i \in 1..Len(A)
  PROVE  (/\ Match(b, A, K) /\ Len(ds) <= Len(K) /\ Span(A, i - 1) <= Len(ds)
          /\ \A x \in 1..Len(ds) : ds[x] = K[x])
         => LET d == TimeOf(A[i], DropFirst(ds, Span(A, i - 1))) IN
            /\ d = Zero \/ (d \in Kernel /\ d.op = b + i /\ d.kind # "clear")
            /\ A[i] = <<>> => d = Zero
            /\ \A n : Whole(A, K, i, n) /\ Span(A, i) <= Len(ds) => d.op = b + i /\ d.kind = "op" /\ d.n = n
<1> DEFINE p == Span(A, i - 1)
           ks == A[i]
           es == DropFirst(ds, p)
           mine == {j \in 1..Len(ks) : j <= Len(es) /\ ks[j] = "op"}
           d == TimeOf(ks, es)
<1>0. HAVE /\ Match(b, A, K) /\ Len(ds) <= Len(K) /\ p <= Len(ds)
           /\ \A x \in 1..Len(ds) : ds[x] = K[x]
<1>1. /\ p \in Nat /\ Len(ks) \in Nat /\ Span(A, i) = p + Len(ks)
  <2>1. i - 1 \in 0..Len(A) /\ ks \in Seq(KernelKind)
    OBVIOUS
  <2>2. Len(ks) \in Nat
    BY <2>1
  <2>3. /\ \A q \in 1..Len(A) : Span(A, q) = Span(A, q - 1) + Len(A[q])
        /\ \A q \in 0..Len(A) : Span(A, q) \in Nat
    BY SpanStep
  <2> QED
    BY <2>1, <2>2, <2>3
<1>2. Len(ds) \in Nat /\ Len(K) \in Nat
  OBVIOUS
<1>3. /\ es \in Seq(Kernel) /\ Len(es) = Len(ds) - p
      /\ \A x \in 1..(Len(ds) - p) : es[x] = ds[p + x]
  <2> HIDE DEF p
  <2>1. p \in 0..Len(ds)
    BY <1>0, <1>1, <1>2
  <2> QED
    BY <2>1, Dropped
<1> HIDE DEF p, es
<1>4. ASSUME NEW j \in mine
      PROVE  /\ es[j] \in Kernel /\ es[j] = K[p + j]
             /\ es[j].op = b + i /\ es[j].kind # "clear"
  <2>1. j \in 1..Len(ks) /\ j \in 1..Len(es) /\ ks[j] = "op"
    BY <1>1, <1>2, <1>3, <1>0
  <2>2. p + j \in 1..Len(ds) /\ p + j <= Len(K) /\ j \in 1..(Len(ds) - p)
    BY <2>1, <1>0, <1>1, <1>2, <1>3
  <2>3. es[j] = K[p + j] /\ es[j] \in Kernel
    BY <2>1, <2>2, <1>0, <1>3
  <2>4. /\ K[p + j].op = b + i
        /\ ks[j] = "op" <=> K[p + j].kind # "clear"
    BY <1>0, <2>1, <2>2 DEF Match, p
  <2> QED
    BY <2>1, <2>3, <2>4
<1>5. mine = {} => d = Zero
  BY DEF TimeOf
<1>6. ASSUME mine # {}
      PROVE  \E x \in mine : d = es[x] /\ \A y \in mine : y <= x
  <2>1. \E x \in mine : \A y \in mine : y <= x
    <3>1. mine \subseteq 1..Len(ks)
      OBVIOUS
    <3> DEFINE T == mine
    <3>2. T \subseteq 1..Len(ks) /\ T # {}
      BY <3>1, <1>6
    <3> HIDE DEF T, ks
    <3>3. \E x \in T : \A y \in T : y <= x
      BY <1>1, <3>2, GreatestElement
    <3> QED
      BY <3>3 DEF T
  <2>2. d = es[CHOOSE j \in mine : \A y \in mine : y <= j]
    BY <1>6 DEF TimeOf
  <2> HIDE DEF mine, d
  <2> QED
    BY <2>1, <2>2
<1>7. d = Zero \/ (d \in Kernel /\ d.op = b + i /\ d.kind # "clear")
  <2> HIDE DEF mine, d
  <2> QED
    BY <1>4, <1>5, <1>6
<1>8. ks = <<>> => d = Zero
  <2> SUFFICES ASSUME ks = <<>> PROVE mine = {}
    BY <1>5
  <2>1. Len(ks) = 0
    OBVIOUS
  <2> HIDE DEF ks
  <2> QED
    BY <2>1
<1>9. ASSUME NEW n, Whole(A, K, i, n), Span(A, i) <= Len(ds)
      PROVE  d.op = b + i /\ d.kind = "op" /\ d.n = n
  <2>1. ks # <<>> /\ ks[Len(ks)] = "op" /\ K[p + Len(ks)].kind = "op" /\ K[p + Len(ks)].n = n
    BY <1>1, <1>9 DEF Whole
  <2>2. Len(ks) \in Nat \ {0}
    <3>1. ks \in Seq(KernelKind)
      OBVIOUS
    <3> HIDE DEF ks
    <3> QED
      BY <2>1, <3>1
  <2>3. Len(ks) <= Len(es)
    <3>1. p + Len(ks) <= Len(ds)
      BY <1>1, <1>9
    <3> HIDE DEF ks
    <3> QED
      BY <3>1, <2>2, <1>1, <1>2, <1>3
  <2>4. Len(ks) \in mine
    <3> HIDE DEF ks
    <3> QED
      BY <2>1, <2>2, <2>3
  <2>5. PICK x \in mine : d = es[x] /\ \A y \in mine : y <= x
    <3> HIDE DEF d, mine
    <3> QED
      BY <1>6, <2>4
  <2>6. x = Len(ks)
    <3> HIDE DEF ks
    <3> QED
      BY <2>2, <2>4, <2>5
  <2> HIDE DEF mine, d, ks
  <2> QED
    BY <1>4, <2>1, <2>4, <2>5, <2>6
<1> HIDE DEF mine
<1> QED
  BY <1>7, <1>8, <1>9 DEF es, p
-----------------------------------------------------------------------------
(* The invariant.                                                          *)

\* Where the main thread is: running an operator, with profiling running,
\* stopping it, or restarting it.
InRunOp == {"frequency", "warmed", "measure", "cleared", "launched", "update"}
Profiling == {"next", "synchronize"} \cup InRunOp
Stopping == {"stop", "joinReader", "finish", "notify", "joinParser"}
Restarting == {"restart", "createReader", "createParser"}

\* The records on their way to the parser, and the kernels that started, or
\* ended, and that the parser has not paired yet.
Pending == queue \o (batch \o channel)
Started == starts \o KernelsOf(Pending, FALSE)
Ended == ends \o KernelsOf(Pending, TRUE)

\* The kernels that ended and were not reported yet, then those still to run.
Kernels == ((durations \o profiled) \o Ended) \o stream

\* The kinds of the kernels for which there is no metric yet, a row for each operator.
Row == IF pc = "cleared" THEN Append(kernels, "clear") ELSE kernels
Awaited == IF pc \in InRunOp THEN Append(kernelsQueue, Row) ELSE kernelsQueue

\* The operator at hand was given up for a kernel that aborted.
Aborted ==
    \/ pc = "launched" /\ failed
    \/ pc \in {"update", "synchronize"} \cup Stopping /\ op \in Ops /\ stat[op] = "fatal"

\* The execution of operator o whose end must be there, if there is one.
Expected(o) ==
    IF stat[o] = "success" THEN RunTimes
    ELSE IF o = op /\ pc = "launched" /\ ~failed THEN times
    ELSE 0

\* The types of what the main thread keeps, and of what comes from the device.
MainTypes ==
    /\ pc \in {"done"} \cup Profiling \cup Stopping \cup Restarting
    /\ op \in Nat /\ times \in Nat
    /\ added \in Seq(Nat) /\ stat \in [Ops -> {"none", "success", "fatal", "failed"}]
    /\ kernels \in Seq(KernelKind) /\ kernelsQueue \in Seq(Seq(KernelKind))
    /\ durations \in Seq(Kernel) /\ metrics \in Seq(Kernel \cup {Zero})

RecordTypes ==
    /\ profiled \in Seq(Kernel) /\ starts \in Seq(Kernel) /\ ends \in Seq(Kernel)
    /\ stream \in Seq(Kernel) /\ launched \in Nat
    /\ channel \in Seq(Record) /\ batch \in Seq(Record) /\ queue \in Seq(Record)
    /\ started \in BOOLEAN /\ failed \in BOOLEAN

\* The operators are run one after the other, and have their metrics in this order.
OrderInv ==
    /\ \A i \in 1..Len(added) : added[i] = i
    /\ op \in 0..(Len(Pool) + 1)
    /\ Len(added) = IF op <= Len(Pool) THEN op ELSE Len(Pool)
    /\ pc \in InRunOp \cup Restarting => op \in Ops
    /\ pc = "next" => op <= Len(Pool)
    /\ \A o \in Ops : stat[o] = "none" <=> o > op \/ (o = op /\ pc \in InRunOp \ {"update"})
    /\ Len(metrics) + Len(Awaited) = Len(added)

\* Every kernel has one place: awaited, or reported; but for one that aborted.
CountInv ==
    /\ \/ Len(Kernels) = Span(Awaited, Len(Awaited))
       \/ /\ Aborted
          /\ Awaited # <<>> /\ Len(Awaited[Len(Awaited)]) >= 2
          /\ Len(Kernels) + 1 = Span(Awaited, Len(Awaited))
    /\ pc = "launched" => Len(kernels) >= 2 /\ times >= 1

\* The kernels are in the order in which they are awaited.
MatchInv ==
    /\ Match(Len(metrics), Awaited, Kernels)
    /\ \A i \in 1..Len(Awaited) : stat[Len(metrics) + i] = "failed" => Awaited[i] = <<>>
    /\ \A i \in 1..Len(Awaited) :
          Expected(Len(metrics) + i) # 0 => Whole(Awaited, Kernels, i, Expected(Len(metrics) + i))

\* What Attribution says, by the status of each operator.
Reported ==
    \A i \in 1..Len(metrics) :
        /\ stat[i] = "success" => metrics[i].op = i /\ metrics[i].kind = "op" /\ metrics[i].n = RunTimes
        /\ stat[i] = "fatal" => metrics[i] = Zero \/ (metrics[i].op = i /\ metrics[i].kind # "clear")
        /\ stat[i] = "failed" => metrics[i] = Zero

\* The stream has kernels only while RunOp waits for them, of one kind; it is
\* in error only after the operator itself aborted.
StreamInv ==
    /\ started => stream # <<>>
    /\ stream # <<>> => pc \in {"warmed", "cleared", "launched"}
    /\ pc = "warmed" => \A i \in 1..Len(stream) : stream[i].kind = "warm"
    /\ pc = "cleared" => \A i \in 1..Len(stream) : stream[i].kind = "clear"
    /\ pc = "launched" => Len(stream) <= 1
    /\ failed => pc = "launched" /\ stream = <<>>

\* Kernels end in the order in which they start: the i-th end is that of the i-th start.
PairInv ==
    /\ Len(Ended) <= Len(Started)
    /\ \A i \in 1..Len(Ended) : Ended[i] = Started[i]
    /\ started => Len(Started) = Len(Ended) + 1 /\ Started[Len(Started)] = stream[1]
    /\ pc \in Profiling \cup Stopping => Len(Started) = Len(Ended) \/ started \/ Aborted

\* One session of profiling, from the opening of the channel to the join of the parser.
SessionInv ==
    /\ pc \in Profiling \cup {"createReader", "createParser"} => open
    /\ pc \in Profiling \cup Stopping <=> parser # "none"
    /\ reader # "callback" => batch = <<>>
    /\ parser \in {"exited", "none"} =>
          queue = <<>> /\ batch = <<>> /\ channel = <<>> /\ ends = <<>>
    /\ parser = "none" => durations = <<>> /\ profiled = <<>>

\* Of the operators and their kernels; of the way of the records.
CoreInv == MainTypes /\ OrderInv /\ CountInv /\ MatchInv /\ Reported
FlowInv == RecordTypes /\ StreamInv /\ PairInv /\ SessionInv

(* The operators and their metrics do not change, nor what Kernels says.   *)
LEMMA CoreStutter == CoreInv /\ UNCHANGED <<mainVars, metricVars, failed, Kernels>> => CoreInv'
<1> SUFFICES ASSUME CoreInv, UNCHANGED <<mainVars, metricVars, failed, Kernels>> PROVE CoreInv'
  OBVIOUS
<1>1. /\ pc' = pc /\ op' = op /\ added' = added /\ stat' = stat /\ times' = times /\ kernels' = kernels
      /\ kernelsQueue' = kernelsQueue /\ durations' = durations /\ metrics' = metrics
      /\ failed' = failed /\ Kernels' = Kernels
  BY DEF mainVars, metricVars
<1>2. Awaited' = Awaited /\ Aborted' = Aborted /\ \A o : Expected(o)' = Expected(o)
  BY <1>1 DEF Awaited, Row, Aborted, Expected
<1>3. MainTypes' /\ OrderInv' /\ Reported'
  BY <1>1, <1>2 DEF CoreInv, MainTypes, OrderInv, Reported
<1>4. CountInv'
  BY <1>1, <1>2 DEF CoreInv, CountInv
<1>5. MatchInv'
  BY <1>1, <1>2 DEF CoreInv, MatchInv
<1> QED
  BY <1>3, <1>4, <1>5 DEF CoreInv

(* Three sequences, in one order.                                          *)
LEMMA Assoc ==
  ASSUME NEW E, NEW a \in Seq(E), NEW b \in Seq(E), NEW c \in Seq(E)
  PROVE  /\ (a \o b) \o c = a \o (b \o c)
         /\ a \o b \in Seq(E) /\ b \o c \in Seq(E) /\ a \o (b \o c) \in Seq(E)
<1>1. (a \o b) \o c = a \o (b \o c)
  BY ConcatAssociative
<1>2. a \o b \in Seq(E) /\ b \o c \in Seq(E)
  OBVIOUS
<1>3. a \o (b \o c) \in Seq(E)
  <2> DEFINE d == b \o c
  <2>1. d \in Seq(E)
    OBVIOUS
  <2> HIDE DEF d
  <2>2. a \o d \in Seq(E)
    BY <2>1
  <2> QED
    BY <2>2 DEF d
<1> QED
  BY <1>1, <1>2, <1>3

(* The types of what is read from the channel.                             *)
LEMMA PendingTypes ==
  RecordTypes => /\ Pending \in Seq(Record) /\ Started \in Seq(Kernel) /\ Ended \in Seq(Kernel)
                 /\ \A e : KernelsOf(Pending, e) \in Seq(Kernel)
<1> SUFFICES ASSUME RecordTypes PROVE /\ Pending \in Seq(Record) /\ Started \in Seq(Kernel) /\ Ended \in Seq(Kernel)
                                      /\ \A e : KernelsOf(Pending, e) \in Seq(Kernel)
  OBVIOUS
<1>1. Pending \in Seq(Record)
  <2>1. queue \in Seq(Record) /\ batch \in Seq(Record) /\ channel \in Seq(Record)
    BY DEF RecordTypes
  <2> QED
    BY <2>1, Assoc DEF Pending
<1>2. \A e : KernelsOf(Pending, e) \in Seq(Kernel)
  <2>1. \A rs \in Seq(Record) : \A e : KernelsOf(rs, e) \in Seq(Kernel)
    BY KernelsOfConcat
  <2> QED
    BY <1>1, <2>1
<1>3. starts \in Seq(Kernel) /\ ends \in Seq(Kernel)
  BY DEF RecordTypes
<1>4. Started \in Seq(Kernel)
  <2> DEFINE f == KernelsOf(Pending, FALSE)
  <2>1. f \in Seq(Kernel)
    BY <1>2
  <2> HIDE DEF f
  <2>2. starts \o f \in Seq(Kernel)
    BY <1>3, <2>1, ConcatProperties
  <2> QED
    BY <2>2 DEF Started, f
<1>5. Ended \in Seq(Kernel)
  <2> DEFINE f == KernelsOf(Pending, TRUE)
  <2>1. f \in Seq(Kernel)
    BY <1>2
  <2> HIDE DEF f
  <2>2. ends \o f \in Seq(Kernel)
    BY <1>3, <2>1, ConcatProperties
  <2> QED
    BY <2>2 DEF Ended, f
<1> QED
  BY <1>1, <1>2, <1>4, <1>5

(* A record of the kernel at the end of the channel.                       *)
LEMMA Logged ==
  ASSUME NEW k \in Kernel, NEW e \in BOOLEAN
  PROVE  RecordTypes /\ open /\ Log(k, e) /\ UNCHANGED <<queue, batch, starts, ends>>
         => /\ channel' \in Seq(Record)
            /\ Started' = IF e THEN Started ELSE Append(Started, k)
            /\ Ended' = IF e THEN Append(Ended, k) ELSE Ended
<1>0. HAVE RecordTypes /\ open /\ Log(k, e) /\ UNCHANGED <<queue, batch, starts, ends>>
<1> DEFINE r == [kernel |-> k, end |-> e]
           P == Pending
<1>1. r \in Record /\ r.kernel = k /\ r.end = e
  BY DEF Record
<1>2. channel' = Append(channel, r) /\ queue' = queue /\ batch' = batch /\ starts' = starts /\ ends' = ends
  BY <1>0 DEF Log
<1>3. P \in Seq(Record) /\ \A x : KernelsOf(P, x) \in Seq(Kernel)
  BY <1>0, PendingTypes
<1>4. channel \in Seq(Record) /\ batch \in Seq(Record) /\ queue \in Seq(Record)
      /\ starts \in Seq(Kernel) /\ ends \in Seq(Kernel)
  BY <1>0 DEF RecordTypes
<1> HIDE DEF r
<1>5. Pending' = Append(P, r)
  <2>1. batch \o Append(channel, r) = Append(batch \o channel, r) /\ batch \o channel \in Seq(Record)
    BY <1>1, <1>4, Assoc
  <2> DEFINE b == batch \o channel
  <2>2. b \in Seq(Record) /\ batch \o Append(channel, r) = Append(b, r)
    BY <2>1
  <2> HIDE DEF b
  <2>3. queue \o Append(b, r) = Append(queue \o b, r)
    <3>1. \A x, y \in Seq(Record) : \A z \in Record : Append(x \o y, z) = x \o Append(y, z)
      OBVIOUS
    <3> QED
      BY <1>1, <1>4, <2>2, <3>1
  <2> QED
    BY <1>2, <2>2, <2>3 DEF Pending, b
<1> HIDE DEF P
<1>6. \A x : KernelsOf(Append(P, r), x) = IF e = x THEN Append(KernelsOf(P, x), k) ELSE KernelsOf(P, x)
  BY <1>1, <1>3, KernelsOfAppend
<1>7. \A x : Append(starts \o KernelsOf(P, x), k) = starts \o Append(KernelsOf(P, x), k)
  <2>1. \A a, b \in Seq(Kernel) : \A c \in Kernel : Append(a \o b, c) = a \o Append(b, c)
    OBVIOUS
  <2> QED
    BY <2>1, <1>3, <1>4
<1>8. \A x : Append(ends \o KernelsOf(P, x), k) = ends \o Append(KernelsOf(P, x), k)
  <2>1. \A a, b \in Seq(Kernel) : \A c \in Kernel : Append(a \o b, c) = a \o Append(b, c)
    OBVIOUS
  <2> QED
    BY <2>1, <1>3, <1>4
<1>9. channel' \in Seq(Record)
  BY <1>1, <1>2, <1>4, AppendProperties
<1>10. Started' = IF e THEN Started ELSE Append(Started, k)
  <2>1. Started' = starts \o KernelsOf(Append(P, r), FALSE) /\ Started = starts \o KernelsOf(P, FALSE)
    BY <1>2, <1>5 DEF Started, P
  <2> QED
    BY <2>1, <1>6, <1>7
<1>11. Ended' = IF e THEN Append(Ended, k) ELSE Ended
  <2>1. Ended' = ends \o KernelsOf(Append(P, r), TRUE) /\ Ended = ends \o KernelsOf(P, TRUE)
    BY <1>2, <1>5 DEF Ended, P
  <2> QED
    BY <2>1, <1>6, <1>8
<1> QED
  BY <1>9, <1>10, <1>11

\* The durations the main thread finds when it updates the metrics.
Arrived == durations \o profiled

(* The parts of Kernels are sequences of kernels.                          *)
LEMMA KernelsTypes ==
  MainTypes /\ RecordTypes =>
      /\ Arrived \in Seq(Kernel) /\ Arrived \o Ended \in Seq(Kernel) /\ Kernels \in Seq(Kernel)
      /\ Kernels = (Arrived \o Ended) \o stream
<1> SUFFICES ASSUME MainTypes, RecordTypes
             PROVE  /\ Arrived \in Seq(Kernel) /\ Arrived \o Ended \in Seq(Kernel) /\ Kernels \in Seq(Kernel)
                    /\ Kernels = (Arrived \o Ended) \o stream
  OBVIOUS
<1>1. Ended \in Seq(Kernel) /\ stream \in Seq(Kernel) /\ durations \in Seq(Kernel) /\ profiled \in Seq(Kernel)
  BY PendingTypes DEF MainTypes, RecordTypes
<1>2. Arrived \in Seq(Kernel)
  BY <1>1, ConcatProperties DEF Arrived
<1> DEFINE d == Arrived \o Ended
<1>3. d \in Seq(Kernel)
  BY <1>1, <1>2, ConcatProperties
<1> HIDE DEF d
<1>4. d \o stream \in Seq(Kernel)
  BY <1>1, <1>3, ConcatProperties
<1>5. Kernels = d \o stream
  BY DEF Kernels, Arrived, d
<1> QED
  BY <1>2, <1>3, <1>4, <1>5 DEF d

(* The first of the rest moved to the end of what is before it.            *)
LEMMA HeadMoved ==
  \A x, y, z \in Seq(Kernel) : z # <<>> => (x \o Append(y, Head(z))) \o Tail(z) = (x \o y) \o z
  OBVIOUS
-----------------------------------------------------------------------------
(* The device.                                                             *)

(* While kernels are on the stream, the channel is open and no thread is   *)
(* being joined.                                                           *)
LEMMA StreamRuns ==
  ThreadInv /\ FlowInv /\ stream # <<>> =>
      /\ pc \in {"warmed", "cleared", "launched"} /\ open /\ parser \notin {"exited", "none"}
      /\ ~Aborted /\ (started \/ Len(Started) = Len(Ended))
<1> SUFFICES ASSUME ThreadInv, FlowInv, stream # <<>>
             PROVE  /\ pc \in {"warmed", "cleared", "launched"} /\ open /\ parser \notin {"exited", "none"}
                    /\ ~Aborted /\ (started \/ Len(Started) = Len(Ended))
  OBVIOUS
<1>1. pc \in {"warmed", "cleared", "launched"} /\ ~failed
  BY DEF FlowInv, StreamInv
<1>2. open /\ parser # "none"
  BY <1>1 DEF FlowInv, SessionInv, Profiling, InRunOp
<1>3. parser # "exited"
  BY <1>1 DEF ThreadInv, ParserInv
<1>4. ~Aborted
  BY <1>1 DEF Aborted, Stopping
<1>5. started \/ Len(Started) = Len(Ended)
  BY <1>1, <1>4 DEF FlowInv, PairInv, Profiling, InRunOp
<1> QED
  BY <1>1, <1>2, <1>3, <1>4, <1>5

(* A kernel starts: its record follows those of kernels that have ended.   *)
LEMMA KernelStartKept == ThreadInv /\ CoreInv /\ FlowInv /\ KernelStart => CoreInv' /\ FlowInv'
<1> SUFFICES ASSUME ThreadInv, CoreInv, FlowInv, KernelStart PROVE CoreInv' /\ FlowInv'
  OBVIOUS
<1> DEFINE k == Head(stream)
<1>1. stream # <<>> /\ ~started /\ started' = TRUE /\ Log(k, FALSE) /\ stream \in Seq(Kernel) /\ RecordTypes
  BY DEF KernelStart, FlowInv, RecordTypes
<1>2. /\ UNCHANGED <<mainVars, metricVars, failed>>
      /\ UNCHANGED <<stream, failed, launched, open, running, reader, read, batch,
                     queue, parser, starts, ends, finish, profiled>>
  BY DEF KernelStart, readerVars, parserVars
<1>3. /\ pc \in {"warmed", "cleared", "launched"} /\ open /\ parser \notin {"exited", "none"}
      /\ Len(Started) = Len(Ended)
  BY <1>1, StreamRuns
<1>4. k \in Kernel /\ k = stream[1]
  BY <1>1
<1> HIDE DEF k
<1>5. channel' \in Seq(Record) /\ Started' = Append(Started, k) /\ Ended' = Ended
  BY <1>1, <1>2, <1>3, <1>4, Logged
<1>6. Started \in Seq(Kernel) /\ Ended \in Seq(Kernel)
  BY <1>1, PendingTypes
<1>7. Kernels' = Kernels
  BY <1>2, <1>5 DEF Kernels, metricVars
<1>8. CoreInv'
  BY <1>2, <1>7, CoreStutter
<1>9. RecordTypes'
  BY <1>1, <1>2, <1>5 DEF RecordTypes
<1>10. StreamInv'
  BY <1>1, <1>2 DEF FlowInv, StreamInv, mainVars
<1>11. PairInv'
  <2>1. Len(Ended) <= Len(Started) /\ \A i \in 1..Len(Ended) : Ended[i] = Started[i]
    BY DEF FlowInv, PairInv
  <2>2. /\ Len(Started') = Len(Started) + 1 /\ Started'[Len(Started')] = k
        /\ \A i \in 1..Len(Started) : Started'[i] = Started[i]
    <3> DEFINE s == Started
    <3>1. s \in Seq(Kernel) /\ Started' = Append(s, k)
      BY <1>5, <1>6
    <3> HIDE DEF s
    <3>2. /\ Len(Append(s, k)) = Len(s) + 1 /\ Append(s, k)[Len(s) + 1] = k
          /\ \A i \in 1..Len(s) : Append(s, k)[i] = s[i]
      BY <3>1, <1>4, AppendProperties
    <3> QED
      BY <3>1, <3>2 DEF s
  <2>3. Len(Started) \in Nat /\ Len(Ended) \in Nat
    BY <1>6
  <2>4. Len(Ended)' <= Len(Started)' /\ \A i \in 1..Len(Ended') : Ended'[i] = Started'[i]
    BY <2>1, <2>2, <2>3, <1>3, <1>5
  <2>5. started' /\ Len(Started') = Len(Ended') + 1 /\ Started'[Len(Started')] = stream'[1]
    BY <2>2, <1>1, <1>2, <1>3, <1>4, <1>5
  <2> QED
    BY <2>4, <2>5 DEF PairInv
<1>12. SessionInv'
  BY <1>2, <1>3 DEF FlowInv, SessionInv, mainVars, metricVars
<1> QED
  BY <1>8, <1>9, <1>10, <1>11, <1>12 DEF FlowInv

(* A kernel ends: it is the one that started last, and it is now among     *)
(* those that ended.                                                       *)
LEMMA KernelEndKept == ThreadInv /\ CoreInv /\ FlowInv /\ KernelEnd => CoreInv' /\ FlowInv'
<1> SUFFICES ASSUME ThreadInv, CoreInv, FlowInv, KernelEnd PROVE CoreInv' /\ FlowInv'
  OBVIOUS
<1> DEFINE k == Head(stream)
           t == Tail(stream)
<1>1. /\ stream # <<>> /\ started /\ started' = FALSE /\ stream' = t /\ Log(k, TRUE)
      /\ stream \in Seq(Kernel) /\ RecordTypes /\ MainTypes
  BY DEF KernelEnd, FlowInv, RecordTypes, StreamInv, CoreInv
<1>2. /\ UNCHANGED <<mainVars, metricVars, failed>>
      /\ UNCHANGED <<failed, launched, open, running, reader, read, batch,
                     queue, parser, starts, ends, finish, profiled>>
  BY DEF KernelEnd, readerVars, parserVars
<1>3. pc \in {"warmed", "cleared", "launched"} /\ open /\ parser \notin {"exited", "none"}
  BY <1>1, StreamRuns
<1>4. /\ k \in Kernel /\ t \in Seq(Kernel) /\ k = stream[1] /\ Len(stream) \in Nat
      /\ Len(t) = Len(stream) - 1 /\ \A i \in 1..(Len(stream) - 1) : t[i] = stream[i + 1]
  BY <1>1, HeadTailProperties
<1>5. /\ Arrived \in Seq(Kernel) /\ Started \in Seq(Kernel) /\ Ended \in Seq(Kernel)
      /\ Kernels = (Arrived \o Ended) \o stream
  BY <1>1, PendingTypes, KernelsTypes
<1>6. (Arrived \o Append(Ended, k)) \o t = (Arrived \o Ended) \o stream
  <2> DEFINE a == Arrived
             b == Ended
             s == stream
  <2>1. a \in Seq(Kernel) /\ b \in Seq(Kernel) /\ s \in Seq(Kernel) /\ s # <<>>
    BY <1>1, <1>5
  <2> HIDE DEF a, b, s
  <2>2. (a \o Append(b, Head(s))) \o Tail(s) = (a \o b) \o s
    BY <2>1, HeadMoved
  <2> QED
    BY <2>2 DEF a, b, s
<1> HIDE DEF k, t
<1>7. channel' \in Seq(Record) /\ Started' = Started /\ Ended' = Append(Ended, k)
  BY <1>1, <1>2, <1>3, <1>4, Logged
<1>8. Kernels' = Kernels
  BY <1>1, <1>2, <1>5, <1>6, <1>7 DEF Kernels, Arrived, metricVars
<1>9. CoreInv'
  BY <1>2, <1>8, CoreStutter
<1>10. RecordTypes'
  BY <1>1, <1>2, <1>4, <1>7 DEF RecordTypes
<1>11. StreamInv'
  <2>1. /\ pc = "warmed" => \A i \in 1..Len(stream) : stream[i].kind = "warm"
        /\ pc = "cleared" => \A i \in 1..Len(stream) : stream[i].kind = "clear"
        /\ pc = "launched" => Len(stream) <= 1
        /\ ~failed
    BY <1>1 DEF FlowInv, StreamInv
  <2>2. \A i \in 1..Len(t) : i + 1 \in 1..Len(stream) /\ t[i] = stream[i + 1]
    BY <1>4
  <2>3. pc' = pc /\ failed' = failed
    BY <1>2 DEF mainVars
  <2>4. pc = "launched" => Len(t) <= 1
    BY <2>1, <1>4
  <2> QED
    BY <2>1, <2>2, <2>3, <2>4, <1>1, <1>3 DEF StreamInv
<1>12. PairInv'
  <2>1. /\ Len(Ended) <= Len(Started) /\ \A i \in 1..Len(Ended) : Ended[i] = Started[i]
        /\ Len(Started) = Len(Ended) + 1 /\ Started[Len(Started)] = stream[1]
    BY <1>1 DEF FlowInv, PairInv
  <2>2. /\ Len(Ended') = Len(Ended) + 1 /\ Ended'[Len(Ended) + 1] = k
        /\ \A i \in 1..Len(Ended) : Ended'[i] = Ended[i]
    <3> DEFINE s == Ended
    <3>1. s \in Seq(Kernel) /\ Ended' = Append(s, k)
      BY <1>5, <1>7
    <3> HIDE DEF s
    <3>2. /\ Len(Append(s, k)) = Len(s) + 1 /\ Append(s, k)[Len(s) + 1] = k
          /\ \A i \in 1..Len(s) : Append(s, k)[i] = s[i]
      BY <3>1, <1>4, AppendProperties
    <3> QED
      BY <3>1, <3>2 DEF s
  <2>3. Len(Started) \in Nat /\ Len(Ended) \in Nat
    BY <1>5
  <2>4. Len(Ended') = Len(Started')
    BY <2>1, <2>2, <1>7
  <2>5. \A i \in 1..Len(Ended') : Ended'[i] = Started'[i]
    <3> TAKE i \in 1..Len(Ended')
    <3>1. CASE i \in 1..Len(Ended)
      BY <3>1, <2>1, <2>2, <1>7
    <3>2. CASE i = Len(Ended) + 1
      BY <3>2, <2>1, <2>2, <1>4, <1>7
    <3> QED
      BY <3>1, <3>2, <2>2, <2>3
  <2>6. Len(Ended') <= Len(Started')
    BY <2>3, <2>4, <1>7
  <2> QED
    BY <2>4, <2>5, <2>6, <1>1 DEF PairInv
<1>13. SessionInv'
  BY <1>2, <1>3 DEF FlowInv, SessionInv, mainVars, metricVars
<1> QED
  BY <1>9, <1>10, <1>11, <1>12, <1>13 DEF FlowInv

(* While RunOp runs, the last row is that of the operator at hand.         *)
LEMMA RunRow ==
  CoreInv /\ pc \in InRunOp =>
      /\ Row \in Seq(KernelKind) /\ kernelsQueue \in Seq(Seq(KernelKind))
      /\ Awaited = Append(kernelsQueue, Row) /\ Awaited \in Seq(Seq(KernelKind))
      /\ Len(Awaited) = Len(kernelsQueue) + 1 /\ Awaited[Len(kernelsQueue) + 1] = Row
      /\ Len(metrics) \in Nat /\ Len(kernelsQueue) \in Nat /\ op \in Ops /\ op \in Nat
      /\ Len(metrics) + (Len(kernelsQueue) + 1) = op /\ Len(added) = op
      /\ pc # "update" => stat[op] = "none"
<1> SUFFICES ASSUME CoreInv, pc \in InRunOp
             PROVE  /\ Row \in Seq(KernelKind) /\ kernelsQueue \in Seq(Seq(KernelKind))
                    /\ Awaited = Append(kernelsQueue, Row) /\ Awaited \in Seq(Seq(KernelKind))
                    /\ Len(Awaited) = Len(kernelsQueue) + 1 /\ Awaited[Len(kernelsQueue) + 1] = Row
                    /\ Len(metrics) \in Nat /\ Len(kernelsQueue) \in Nat /\ op \in Ops /\ op \in Nat
                    /\ Len(metrics) + (Len(kernelsQueue) + 1) = op /\ Len(added) = op
                    /\ pc # "update" => stat[op] = "none"
  OBVIOUS
<1>1. kernels \in Seq(KernelKind) /\ kernelsQueue \in Seq(Seq(KernelKind)) /\ op \in Nat
      /\ metrics \in Seq(Kernel \cup {Zero})
  BY DEF CoreInv, MainTypes
<1>2. Row \in Seq(KernelKind)
  <2>1. "clear" \in KernelKind
    BY DEF KernelKind
  <2>2. Append(kernels, "clear") \in Seq(KernelKind)
    BY <1>1, <2>1, AppendProperties
  <2> QED
    BY <1>1, <2>2 DEF Row
<1>3. Awaited = Append(kernelsQueue, Row)
  BY DEF Awaited
<1> DEFINE q == kernelsQueue
           r == Row
<1>4. Append(q, r) \in Seq(Seq(KernelKind)) /\ Len(Append(q, r)) = Len(q) + 1 /\ Append(q, r)[Len(q) + 1] = r
  <2>1. q \in Seq(Seq(KernelKind)) /\ r \in Seq(KernelKind)
    BY <1>1, <1>2
  <2> HIDE DEF q, r
  <2> QED
    BY <2>1, AppendProperties
<1>5. op \in Ops /\ Len(metrics) + Len(Awaited) = Len(added) /\ (pc # "update" => stat[op] = "none")
      /\ Len(added) = IF op <= Len(Pool) THEN op ELSE Len(Pool)
  BY DEF CoreInv, OrderInv
<1>6. op <= Len(Pool) /\ Len(added) = op
  BY <1>5, PoolAssumption DEF Ops
<1>7. Len(metrics) \in Nat /\ Len(kernelsQueue) \in Nat
  BY <1>1
<1> QED
  BY <1>1, <1>2, <1>3, <1>4, <1>5, <1>6, <1>7

(* The operator on the stream aborts: its last duration may be missing,    *)
(* nothing else is.                                                        *)
LEMMA KernelAbortKept ==
  AbortKinds \subseteq {"op"} /\ ThreadInv /\ CoreInv /\ FlowInv /\ KernelAbort => CoreInv' /\ FlowInv'
<1> SUFFICES ASSUME AbortKinds \subseteq {"op"}, ThreadInv, CoreInv, FlowInv, KernelAbort PROVE CoreInv' /\ FlowInv'
  OBVIOUS
<1> DEFINE k == Head(stream)
<1>1. /\ stream # <<>> /\ started /\ started' = FALSE /\ stream' = <<>> /\ failed' = TRUE
      /\ stream \in Seq(Kernel) /\ RecordTypes /\ MainTypes /\ k.kind = "op"
  BY DEF KernelAbort, FlowInv, RecordTypes, StreamInv, CoreInv
<1>2. /\ UNCHANGED <<mainVars, metricVars>>
      /\ UNCHANGED <<launched, open, running, reader, read, batch,
                     queue, parser, starts, ends, finish, profiled>>
      /\ Log(k, TRUE) \/ UNCHANGED channel
  BY DEF KernelAbort, readerVars, parserVars
<1>3. pc \in {"warmed", "cleared", "launched"} /\ open /\ parser \notin {"exited", "none"} /\ ~Aborted
  BY <1>1, StreamRuns
<1>4. k \in Kernel /\ k = stream[1] /\ Len(stream) \in Nat \ {0}
  BY <1>1
<1>5. pc = "launched" /\ Len(stream) = 1 /\ ~failed
  <2>1. 1 \in 1..Len(stream) /\ stream[1].kind = "op"
    BY <1>1, <1>4
  <2>2. /\ pc = "warmed" => \A i \in 1..Len(stream) : stream[i].kind = "warm"
        /\ pc = "cleared" => \A i \in 1..Len(stream) : stream[i].kind = "clear"
        /\ pc = "launched" => Len(stream) <= 1
        /\ failed => stream = <<>>
    BY DEF FlowInv, StreamInv
  <2>3. pc = "launched"
    BY <2>1, <2>2, <1>3
  <2>4. Len(stream) <= 1 /\ ~failed
    BY <2>2, <2>3, <1>1
  <2> DEFINE l == Len(stream)
  <2>5. l \in Nat \ {0} /\ l <= 1
    BY <2>4, <1>4
  <2> HIDE DEF l
  <2>6. l = 1
    BY <2>5
  <2> QED
    BY <2>3, <2>4, <2>6 DEF l
<1>6. /\ Arrived \in Seq(Kernel) /\ Started \in Seq(Kernel) /\ Ended \in Seq(Kernel)
      /\ Arrived \o Ended \in Seq(Kernel)
      /\ Kernels = (Arrived \o Ended) \o stream /\ Kernels \in Seq(Kernel)
  BY <1>1, PendingTypes, KernelsTypes
<1> HIDE DEF k
<1>7. /\ channel' \in Seq(Record) /\ Started' = Started
      /\ Ended' = Append(Ended, k) \/ Ended' = Ended
  <2>1. CASE Log(k, TRUE)
    BY <2>1, <1>1, <1>2, <1>3, <1>4, Logged
  <2>2. CASE UNCHANGED channel
    <3>1. Started' = Started /\ Ended' = Ended
      BY <2>2, <1>2 DEF Started, Ended, Pending
    <3> QED
      BY <2>2, <3>1, <1>1 DEF RecordTypes
  <2> QED
    BY <2>1, <2>2, <1>2
<1>8. Kernels = Append(Arrived \o Ended, k) /\ Append(Arrived \o Ended, k) = Arrived \o Append(Ended, k)
  <2> DEFINE a == Arrived
             b == Ended
             s == stream
  <2>1. a \in Seq(Kernel) /\ b \in Seq(Kernel) /\ s \in Seq(Kernel) /\ Len(s) = 1 /\ s[1] = k /\ k \in Kernel
    BY <1>1, <1>4, <1>5, <1>6
  <2>2. a \o b \in Seq(Kernel) /\ Kernels = (a \o b) \o s
    BY <1>6
  <2> HIDE DEF a, b, s
  <2>3. s = <<k>>
    BY <2>1
  <2> DEFINE c == a \o b
  <2>4. c \in Seq(Kernel) /\ Kernels = c \o <<k>>
    BY <2>2, <2>3
  <2> HIDE DEF c
  <2>5. Kernels = Append(c, k)
    BY <2>1, <2>4, AppendIsConcat
  <2>6. \A x, y \in Seq(Kernel) : \A w \in Kernel : Append(x \o y, w) = x \o Append(y, w)
    OBVIOUS
  <2>7. Append(a \o b, k) = a \o Append(b, k)
    BY <2>1, <2>6
  <2> QED
    BY <2>5, <2>7 DEF a, b, c
<1>9. Kernels' = Kernels \/ Kernels = Append(Kernels', k)
  <2>1. \A s \in Seq(Kernel) : s \o <<>> = s
    BY ConcatEmptySeq
  <2>2. Kernels' = (Arrived \o Ended') \o <<>>
    BY <1>1, <1>2 DEF Kernels, Arrived, metricVars
  <2>3. CASE Ended' = Ended
    BY <2>1, <2>2, <2>3, <1>6, <1>8
  <2>4. CASE Ended' = Append(Ended, k)
    BY <2>1, <2>2, <2>4, <1>6, <1>8
  <2> QED
    BY <2>3, <2>4, <1>7
<1>10. Kernels' \in Seq(Kernel)
  <2>1. CASE Ended' = Ended
    <3>1. Kernels' = (Arrived \o Ended) \o <<>>
      BY <2>1, <1>1, <1>2 DEF Kernels, Arrived, metricVars
    <3> QED
      BY <3>1, <1>6, ConcatEmptySeq
  <2>2. CASE Ended' = Append(Ended, k)
    <3>1. Kernels' = (Arrived \o Append(Ended, k)) \o <<>>
      BY <2>2, <1>1, <1>2 DEF Kernels, Arrived, metricVars
    <3>2. Kernels' = Kernels \o <<>>
      BY <3>1, <1>8
    <3> QED
      BY <3>2, <1>6, ConcatEmptySeq
  <2> QED
    BY <2>1, <2>2, <1>7
<1>11. /\ pc' = pc /\ op' = op /\ added' = added /\ stat' = stat /\ times' = times /\ kernels' = kernels
       /\ kernelsQueue' = kernelsQueue /\ durations' = durations /\ metrics' = metrics
       /\ Awaited' = Awaited
  BY <1>2 DEF mainVars, metricVars, Awaited, Row
<1> DEFINE m == Len(kernelsQueue) + 1
<1>12. /\ Awaited \in Seq(Seq(KernelKind)) /\ Len(Awaited) = m /\ Awaited[m] = kernels /\ m \in Nat \ {0}
       /\ Len(metrics) \in Nat /\ Len(metrics) + m = op /\ stat[op] = "none"
  BY <1>5, RunRow DEF InRunOp, Row
<1>13. Len(kernels) >= 2 /\ times >= 1 /\ Len(Kernels) = Span(Awaited, m)
  BY <1>3, <1>5, <1>12 DEF CoreInv, CountInv
<1>14. Aborted' /\ Awaited # <<>>
  BY <1>1, <1>5, <1>11, <1>12 DEF Aborted
<1> HIDE DEF m
<1>15. CountInv'
  <2>1. Len(Kernels') = Len(Kernels) \/ Len(Kernels') + 1 = Len(Kernels)
    <3> DEFINE s == Kernels'
    <3>1. s \in Seq(Kernel) /\ (s = Kernels \/ Kernels = Append(s, k))
      BY <1>9, <1>10
    <3> HIDE DEF s
    <3>2. Len(Append(s, k)) = Len(s) + 1
      BY <3>1, <1>4, AppendProperties
    <3> QED
      BY <3>1, <3>2 DEF s
  <2> QED
    BY <2>1, <1>11, <1>12, <1>13, <1>14 DEF CountInv
<1>16. Match(Len(metrics), Awaited, Kernels') /\
       \A i \in 1..(m - 1) : \A n : Whole(Awaited, Kernels, i, n) => Whole(Awaited, Kernels', i, n)
  <2>1. Match(Len(metrics), Awaited, Kernels)
    BY DEF CoreInv, MatchInv
  <2>2. CASE Kernels = Append(Kernels', k)
    <3> DEFINE A == Awaited
               s == Kernels'
               b == Len(metrics)
    <3>1. A \in Seq(Seq(KernelKind)) /\ A # <<>> /\ s \in Seq(Kernel) /\ b \in Nat /\ Len(A) = m /\ Len(A[m]) >= 1
          /\ Match(b, A, Append(s, k)) /\ Kernels = Append(s, k)
      <4>1. Len(kernels) \in Nat
        BY <1>1 DEF MainTypes
      <4>2. Len(kernels) >= 1
        BY <4>1, <1>13
      <4> QED
        BY <1>10, <1>12, <1>14, <2>1, <2>2, <4>2
    <3>2. Len(s) + 1 = Span(A, m)
      <4>1. Len(Kernels) = Span(A, m)
        BY <1>13
      <4> HIDE DEF s
      <4>2. Len(Append(s, k)) = Len(s) + 1
        BY <3>1, <1>4, AppendProperties
      <4> QED
        BY <3>1, <4>1, <4>2
    <3> HIDE DEF A, s, b
    <3>3. /\ Match(b, A, s)
          /\ \A i \in 1..(m - 1) : \A n : Whole(A, Append(s, k), i, n) => Whole(A, s, i, n)
      BY <3>1, <3>2, <1>4, KernelLost
    <3> QED
      BY <3>1, <3>3 DEF A, s, b
  <2> QED
    BY <2>1, <2>2, <1>9
<1>17. MatchInv'
  <2> DEFINE b == Len(metrics)
             A == Awaited
  <2>1. \A i \in 1..Len(A) : stat[b + i] = "failed" => A[i] = <<>>
    BY DEF CoreInv, MatchInv
  <2>2. \A i \in 1..Len(A) : Expected(b + i) # 0 => Whole(A, Kernels, i, Expected(b + i))
    BY DEF CoreInv, MatchInv
  <2>3. \A o : Expected(o)' # 0 => stat[o] = "success" /\ Expected(o)' = Expected(o)
    BY <1>1, <1>11 DEF Expected
  <2>4. \A i \in 1..Len(A) : Expected(b + i)' # 0 => Whole(A, Kernels', i, Expected(b + i)')
    <3> SUFFICES ASSUME NEW i \in 1..Len(A), Expected(b + i)' # 0
                 PROVE  Whole(A, Kernels', i, Expected(b + i)')
      OBVIOUS
    <3>0. b' = b
      BY <1>11
    <3>1. stat[b + i] = "success" /\ Expected(b + i)' = Expected(b + i)
      BY <2>3, <3>0
    <3>2. i # m
      BY <3>1, <1>12
    <3>3. i \in 1..(m - 1)
      BY <3>2, <1>12
    <3>4. Whole(A, Kernels, i, Expected(b + i))
      BY <2>2, <3>0, <3>1
    <3> QED
      BY <3>1, <3>3, <3>4, <1>16
  <2> QED
    BY <2>1, <2>4, <1>11, <1>16 DEF MatchInv
<1>18. MainTypes' /\ OrderInv' /\ Reported'
  BY <1>11 DEF CoreInv, MainTypes, OrderInv, Reported
<1>19. RecordTypes'
  BY <1>1, <1>2, <1>7, EmptySeq DEF RecordTypes
<1>20. StreamInv'
  BY <1>1, <1>5, <1>11 DEF StreamInv
<1>21. PairInv'
  <2>1. /\ Len(Ended) <= Len(Started) /\ \A i \in 1..Len(Ended) : Ended[i] = Started[i]
        /\ Len(Started) = Len(Ended) + 1 /\ Started[Len(Started)] = stream[1]
    BY <1>1 DEF FlowInv, PairInv
  <2>2. Len(Started) \in Nat /\ Len(Ended) \in Nat
    BY <1>6
  <2>3. CASE Ended' = Ended
    BY <2>1, <2>3, <1>1, <1>7, <1>14 DEF PairInv
  <2>4. CASE Ended' = Append(Ended, k)
    <3>1. /\ Len(Ended') = Len(Ended) + 1 /\ Ended'[Len(Ended) + 1] = k
          /\ \A i \in 1..Len(Ended) : Ended'[i] = Ended[i]
      <4> DEFINE s == Ended
      <4>1. s \in Seq(Kernel) /\ Ended' = Append(s, k)
        BY <2>4, <1>6
      <4> HIDE DEF s
      <4>2. /\ Len(Append(s, k)) = Len(s) + 1 /\ Append(s, k)[Len(s) + 1] = k
            /\ \A i \in 1..Len(s) : Append(s, k)[i] = s[i]
        BY <4>1, <1>4, AppendProperties
      <4> QED
        BY <4>1, <4>2 DEF s
    <3>2. \A i \in 1..Len(Ended') : Ended'[i] = Started'[i]
      <4> TAKE i \in 1..Len(Ended')
      <4>1. CASE i \in 1..Len(Ended)
        BY <4>1, <2>1, <3>1, <1>7
      <4>2. CASE i = Len(Ended) + 1
        BY <4>2, <2>1, <3>1, <1>4, <1>7
      <4> QED
        BY <4>1, <4>2, <3>1, <2>2
    <3>3. Len(Ended') <= Len(Started')
      BY <2>1, <2>2, <3>1, <1>7
    <3> QED
      BY <3>2, <3>3, <1>1, <1>14 DEF PairInv
  <2> QED
    BY <2>3, <2>4, <1>7
<1>22. SessionInv'
  BY <1>2, <1>3 DEF FlowInv, SessionInv, mainVars, metricVars
<1> QED
  BY <1>15, <1>17, <1>18, <1>19, <1>20, <1>21, <1>22 DEF CoreInv, FlowInv
-----------------------------------------------------------------------------
(* The reader and the parser.                                              *)

(* The duration of a kernel stands for the kernel.                         *)
LEMMA OwnDuration == \A k \in Kernel : Duration(k, k) = k
  BY DEF Kernel, Duration

(* The first elements of a sequence, and more behind it.                   *)
LEMMA DroppedConcat ==
  ASSUME NEW s \in Seq(Kernel), NEW r \in Seq(Kernel), NEW n \in 0..Len(s)
  PROVE  /\ DropFirst(s, n) \in Seq(Kernel) /\ Len(DropFirst(s, n)) = Len(s) - n
         /\ DropFirst(s, n) \o r \in Seq(Kernel)
         /\ Len(DropFirst(s, n) \o r) = Len(s \o r) - n
         /\ \A i \in 1..(Len(s \o r) - n) : (DropFirst(s, n) \o r)[i] = (s \o r)[n + i]
<1> DEFINE d == DropFirst(s, n)
           a == Len(s)
           b == Len(r)
<1>1. /\ d \in Seq(Kernel) /\ Len(d) = a - n
      /\ \A i \in 1..(a - n) : d[i] = s[n + i]
  BY Dropped
<1>2. a \in Nat /\ b \in Nat /\ n \in 0..a
  OBVIOUS
<1>3. /\ Len(s \o r) = a + b
      /\ \A i \in 1..a : (s \o r)[i] = s[i]
      /\ \A i \in 1..b : (s \o r)[a + i] = r[i]
  BY ConcatParts
<1> HIDE DEF d
<1>4. /\ d \o r \in Seq(Kernel) /\ Len(d \o r) = (a - n) + b
      /\ \A i \in 1..(a - n) : (d \o r)[i] = d[i]
      /\ \A i \in 1..b : (d \o r)[(a - n) + i] = r[i]
  <2>1. /\ d \o r \in Seq(Kernel) /\ Len(d \o r) = Len(d) + b
        /\ \A i \in 1..Len(d) : (d \o r)[i] = d[i]
        /\ \A i \in 1..b : (d \o r)[Len(d) + i] = r[i]
    <3>1. d \in Seq(Kernel)
      BY <1>1
    <3>2. \A x, y \in Seq(Kernel) : /\ x \o y \in Seq(Kernel) /\ Len(x \o y) = Len(x) + Len(y)
                                    /\ \A i \in 1..Len(x) : (x \o y)[i] = x[i]
                                    /\ \A i \in 1..Len(y) : (x \o y)[Len(x) + i] = y[i]
      BY ConcatParts
    <3> QED
      BY <3>1, <3>2
  <2> QED
    BY <1>1, <2>1
<1> HIDE DEF a, b
<1>5. Len(d \o r) = Len(s \o r) - n
  BY <1>2, <1>3, <1>4
<1>6. \A i \in 1..(Len(s \o r) - n) : (d \o r)[i] = (s \o r)[n + i]
  <2> TAKE i \in 1..(Len(s \o r) - n)
  <2>1. i \in 1..((a + b) - n)
    BY <1>3
  <2>2. CASE i \in 1..(a - n)
    <3>1. n + i \in 1..a
      BY <2>2, <1>2
    <3> QED
      BY <2>2, <3>1, <1>1, <1>3, <1>4
  <2>3. CASE i \notin 1..(a - n)
    <3> DEFINE j == i - (a - n)
    <3>1. j \in 1..b /\ i = (a - n) + j /\ n + i = a + j
      BY <2>1, <2>3, <1>2
    <3> HIDE DEF j
    <3>2. (d \o r)[(a - n) + j] = r[j] /\ (s \o r)[a + j] = r[j]
      BY <3>1, <1>3, <1>4
    <3> QED
      BY <3>1, <3>2
  <2> QED
    BY <2>2, <2>3
<1> QED
  BY <1>1, <1>4, <1>5, <1>6 DEF d, a

(* Pairing starts with ends that are those of the same kernels.            *)
LEMMA Paired ==
  ASSUME NEW S \in Seq(Kernel), NEW E \in Seq(Kernel), NEW n \in Nat
  PROVE  n <= Len(S) /\ n <= Len(E) /\ (\A i \in 1..n : E[i] = S[i])
         => /\ [i \in 1..n |-> Duration(S[i], E[i])] \in Seq(Kernel)
            /\ [i \in 1..n |-> Duration(S[i], E[i])] \o DropFirst(E, n) = E
<1>0. HAVE n <= Len(S) /\ n <= Len(E) /\ (\A i \in 1..n : E[i] = S[i])
<1> DEFINE D == [i \in 1..n |-> Duration(S[i], E[i])]
           d == DropFirst(E, n)
<1>1. \A i \in 1..n : E[i] \in Kernel /\ Duration(S[i], E[i]) = E[i]
  <2> TAKE i \in 1..n
  <2>1. E[i] \in Kernel
    BY <1>0
  <2> QED
    BY <1>0, <2>1, OwnDuration
<1>2. D \in Seq(Kernel) /\ Len(D) = n /\ \A i \in 1..n : D[i] = E[i]
  <2>1. D = [i \in 1..n |-> E[i]]
    BY <1>1
  <2> HIDE DEF D
  <2>2. \A i \in 1..n : E[i] \in Kernel
    BY <1>1
  <2> QED
    BY <2>1, <2>2
<1>3. n \in 0..Len(E) /\ Len(E) \in Nat
  BY <1>0
<1>4. d \in Seq(Kernel) /\ Len(d) = Len(E) - n /\ \A i \in 1..(Len(E) - n) : d[i] = E[n + i]
  BY <1>3, Dropped
<1> HIDE DEF D, d
<1>5. D \o d = E
  <2>1. /\ D \o d \in Seq(Kernel) /\ Len(D \o d) = Len(D) + Len(d)
        /\ \A i \in 1..Len(D) : (D \o d)[i] = D[i]
        /\ \A i \in 1..Len(d) : (D \o d)[Len(D) + i] = d[i]
    BY <1>2, <1>4, ConcatParts
  <2>2. Len(D \o d) = Len(E)
    BY <2>1, <1>2, <1>3, <1>4
  <2>3. \A i \in 1..Len(E) : (D \o d)[i] = E[i]
    <3> TAKE i \in 1..Len(E)
    <3>1. CASE i \in 1..n
      BY <3>1, <2>1, <1>2
    <3>2. CASE i \notin 1..n
      <4>1. i - n \in 1..(Len(E) - n) /\ n + (i - n) = i
        BY <3>2, <1>3
      <4>2. (D \o d)[n + (i - n)] = d[i - n] /\ d[i - n] = E[n + (i - n)]
        BY <4>1, <2>1, <1>2, <1>4
      <4> QED
        BY <4>1, <4>2
    <3> QED
      BY <3>1, <3>2
  <2> QED
    BY <2>1, <2>2, <2>3, SeqEqual
<1> QED
  BY <1>2, <1>5 DEF D, d

(* The kernels behind the queue: those of the batch and of the channel.    *)
LEMMA QueueFirst ==
  RecordTypes =>
      \A e : /\ KernelsOf(Pending, e) = KernelsOf(queue, e) \o KernelsOf(batch \o channel, e)
             /\ KernelsOf(queue, e) \in Seq(Kernel) /\ KernelsOf(batch \o channel, e) \in Seq(Kernel)
<1> SUFFICES ASSUME RecordTypes, NEW e
             PROVE  /\ KernelsOf(Pending, e) = KernelsOf(queue, e) \o KernelsOf(batch \o channel, e)
                    /\ KernelsOf(queue, e) \in Seq(Kernel) /\ KernelsOf(batch \o channel, e) \in Seq(Kernel)
  OBVIOUS
<1>1. queue \in Seq(Record) /\ batch \in Seq(Record) /\ channel \in Seq(Record)
  BY DEF RecordTypes
<1> DEFINE r == batch \o channel
<1>2. r \in Seq(Record)
  BY <1>1, ConcatProperties
<1> HIDE DEF r
<1>3. KernelsOf(queue \o r, e) = KernelsOf(queue, e) \o KernelsOf(r, e) /\ KernelsOf(r, e) \in Seq(Kernel)
  <2>1. \A rs, ts \in Seq(Record) : KernelsOf(rs \o ts, e) = KernelsOf(rs, e) \o KernelsOf(ts, e)
    BY KernelsOfConcat
  <2>2. \A ts \in Seq(Record) : KernelsOf(ts, e) \in Seq(Kernel)
    BY KernelsOfConcat
  <2> QED
    BY <1>1, <1>2, <2>1, <2>2
<1>4. KernelsOf(queue, e) \in Seq(Kernel)
  <2>1. \A rs \in Seq(Record) : KernelsOf(rs, e) \in Seq(Kernel)
    BY KernelsOfConcat
  <2> QED
    BY <1>1, <2>1
<1> QED
  BY <1>3, <1>4 DEF Pending, r

(* What is paired leaves the starts and the ends, and is among the         *)
(* durations instead.                                                      *)
LEMMA Flushed ==
  MainTypes /\ RecordTypes /\ PairInv /\ Flush
  /\ durations' = durations /\ stream' = stream /\ batch' = batch /\ channel' = channel
  => /\ queue' = <<>> /\ profiled' \in Seq(Kernel) /\ starts' \in Seq(Kernel) /\ ends' \in Seq(Kernel)
     /\ Kernels' = Kernels
     /\ \E n \in 0..Len(Ended) :
           /\ Len(Started') = Len(Started) - n /\ Len(Ended') = Len(Ended) - n
           /\ \A i \in 1..(Len(Started) - n) : Started'[i] = Started[n + i]
           /\ \A i \in 1..(Len(Ended) - n) : Ended'[i] = Ended[n + i]
     /\ batch = <<>> /\ channel = <<>> => ends' = <<>>
<1> SUFFICES ASSUME MainTypes, RecordTypes, PairInv, Flush,
                    durations' = durations, stream' = stream, batch' = batch, channel' = channel
             PROVE  /\ queue' = <<>> /\ profiled' \in Seq(Kernel) /\ starts' \in Seq(Kernel) /\ ends' \in Seq(Kernel)
                    /\ Kernels' = Kernels
                    /\ \E n \in 0..Len(Ended) :
                          /\ Len(Started') = Len(Started) - n /\ Len(Ended') = Len(Ended) - n
                          /\ \A i \in 1..(Len(Started) - n) : Started'[i] = Started[n + i]
                          /\ \A i \in 1..(Len(Ended) - n) : Ended'[i] = Ended[n + i]
                    /\ batch = <<>> /\ channel = <<>> => ends' = <<>>
  OBVIOUS
<1> DEFINE S == starts \o KernelsOf(queue, FALSE)
           E == ends \o KernelsOf(queue, TRUE)
           R == KernelsOf(batch \o channel, FALSE)
           Q == KernelsOf(batch \o channel, TRUE)
           n == IF Len(S) < Len(E) THEN Len(S) ELSE Len(E)
           D == [i \in 1..n |-> Duration(S[i], E[i])]
<1>1. /\ starts \in Seq(Kernel) /\ ends \in Seq(Kernel) /\ profiled \in Seq(Kernel) /\ durations \in Seq(Kernel)
      /\ stream \in Seq(Kernel) /\ batch \in Seq(Record) /\ channel \in Seq(Record)
  BY DEF MainTypes, RecordTypes
<1>2. /\ S \in Seq(Kernel) /\ E \in Seq(Kernel) /\ R \in Seq(Kernel) /\ Q \in Seq(Kernel)
      /\ Started = S \o R /\ Ended = E \o Q
  <2> DEFINE f == KernelsOf(queue, FALSE)
             g == KernelsOf(queue, TRUE)
  <2>1. /\ f \in Seq(Kernel) /\ g \in Seq(Kernel) /\ R \in Seq(Kernel) /\ Q \in Seq(Kernel)
        /\ Started = starts \o (f \o R) /\ Ended = ends \o (g \o Q)
    BY QueueFirst DEF Started, Ended
  <2> HIDE DEF f, g, R, Q
  <2>2. /\ (starts \o f) \o R = starts \o (f \o R) /\ starts \o f \in Seq(Kernel)
        /\ (ends \o g) \o Q = ends \o (g \o Q) /\ ends \o g \in Seq(Kernel)
    <3>0. starts \in Seq(Kernel) /\ f \in Seq(Kernel) /\ R \in Seq(Kernel)
      BY <1>1, <2>1
    <3>1. (starts \o f) \o R = starts \o (f \o R)
      BY <3>0, ConcatAssociative
    <3>5. ends \in Seq(Kernel) /\ g \in Seq(Kernel) /\ Q \in Seq(Kernel)
      BY <1>1, <2>1
    <3>4. (ends \o g) \o Q = ends \o (g \o Q)
      BY <3>5, ConcatAssociative
    <3>2. starts \o f \in Seq(Kernel)
      BY <1>1, <2>1, ConcatProperties
    <3>3. ends \o g \in Seq(Kernel)
      BY <1>1, <2>1, ConcatProperties
    <3> QED
      BY <3>1, <3>2, <3>3, <3>4
  <2> QED
    BY <2>1, <2>2 DEF f, g
<1>3. /\ queue' = <<>> /\ profiled' = profiled \o D
      /\ starts' = DropFirst(S, n) /\ ends' = DropFirst(E, n)
  BY DEF Flush, Pair
<1>4. Pending' = batch \o channel
  <2> DEFINE r == batch \o channel
  <2>1. r \in Seq(Record)
    BY <1>1, ConcatProperties
  <2>2. Pending' = <<>> \o r
    BY <1>3 DEF Pending
  <2> HIDE DEF r
  <2>3. <<>> \o r = r
    BY <2>1, ConcatEmptySeq
  <2> QED
    BY <2>2, <2>3 DEF r
<1>5. Started' = DropFirst(S, n) \o R /\ Ended' = DropFirst(E, n) \o Q
  BY <1>3, <1>4 DEF Started, Ended
<1> HIDE DEF S, E, R, Q
<1>6. n \in Nat /\ n <= Len(S) /\ n <= Len(E) /\ Len(S) \in Nat /\ Len(E) \in Nat
  BY <1>2
<1> HIDE DEF n
<1>7. /\ Len(Ended) = Len(E) + Len(Q) /\ \A i \in 1..Len(E) : Ended[i] = E[i]
      /\ Len(Started) = Len(S) + Len(R) /\ \A i \in 1..Len(S) : Started[i] = S[i]
      /\ Len(Q) \in Nat /\ Len(R) \in Nat
  <2>1. /\ Len(E \o Q) = Len(E) + Len(Q) /\ \A i \in 1..Len(E) : (E \o Q)[i] = E[i]
        /\ Len(S \o R) = Len(S) + Len(R) /\ \A i \in 1..Len(S) : (S \o R)[i] = S[i]
    BY <1>2, ConcatProperties
  <2> QED
    BY <1>2, <2>1
<1>8. \A i \in 1..n : E[i] = S[i]
  <2> TAKE i \in 1..n
  <2>1. i \in 1..Len(E) /\ i \in 1..Len(S) /\ i \in 1..Len(Ended)
    BY <1>6, <1>7
  <2>2. Ended[i] = Started[i]
    BY <2>1 DEF PairInv
  <2> QED
    BY <2>1, <2>2, <1>7
<1>9. D \in Seq(Kernel) /\ D \o DropFirst(E, n) = E
  BY <1>2, <1>6, <1>8, Paired
<1>10. n \in 0..Len(S) /\ n \in 0..Len(E) /\ n \in 0..Len(Ended)
  BY <1>6, <1>7
<1>11. /\ DropFirst(S, n) \in Seq(Kernel) /\ DropFirst(E, n) \in Seq(Kernel)
       /\ Len(DropFirst(E, n)) = Len(E) - n
       /\ Len(Started') = Len(Started) - n /\ Len(Ended') = Len(Ended) - n
       /\ \A i \in 1..(Len(Started) - n) : Started'[i] = Started[n + i]
       /\ \A i \in 1..(Len(Ended) - n) : Ended'[i] = Ended[n + i]
  <2>1. /\ DropFirst(S, n) \in Seq(Kernel)
        /\ Len(DropFirst(S, n) \o R) = Len(S \o R) - n
        /\ \A i \in 1..(Len(S \o R) - n) : (DropFirst(S, n) \o R)[i] = (S \o R)[n + i]
    BY <1>2, <1>10, DroppedConcat
  <2>2. /\ DropFirst(E, n) \in Seq(Kernel) /\ Len(DropFirst(E, n)) = Len(E) - n
        /\ Len(DropFirst(E, n) \o Q) = Len(E \o Q) - n
        /\ \A i \in 1..(Len(E \o Q) - n) : (DropFirst(E, n) \o Q)[i] = (E \o Q)[n + i]
    BY <1>2, <1>10, DroppedConcat
  <2> QED
    BY <2>1, <2>2, <1>2, <1>5
<1> DEFINE d == DropFirst(E, n)
<1> HIDE DEF D
<1>12. Kernels' = Kernels
  <2>1. d \in Seq(Kernel) /\ D \in Seq(Kernel) /\ D \o d = E /\ Ended' = d \o Q
    BY <1>5, <1>9, <1>11
  <2> HIDE DEF d
  <2>2. Kernels' = ((durations \o (profiled \o D)) \o (d \o Q)) \o stream
    BY <1>3, <2>1 DEF Kernels
  <2>3. Kernels = ((durations \o profiled) \o ((D \o d) \o Q)) \o stream
    BY <1>2, <2>1 DEF Kernels
  <2>4. (durations \o (profiled \o D)) \o (d \o Q) = (durations \o profiled) \o ((D \o d) \o Q)
    <3>1. \A x, y, z \in Seq(Kernel) : (x \o y) \o z = x \o (y \o z)
      BY Assoc
    <3> DEFINE p == durations \o profiled
               u == d \o Q
    <3>2. p \in Seq(Kernel) /\ u \in Seq(Kernel)
      BY <1>1, <1>2, <2>1, ConcatProperties
    <3>3. durations \o (profiled \o D) = p \o D
      BY <3>1, <1>1, <2>1
    <3>5. (D \o d) \o Q = D \o u
      <4>1. D \in Seq(Kernel) /\ d \in Seq(Kernel) /\ Q \in Seq(Kernel)
        BY <1>2, <2>1
      <4> QED
        BY <4>1, ConcatAssociative
    <3> HIDE DEF p, u
    <3>4. (p \o D) \o u = p \o (D \o u)
      BY <3>1, <3>2, <2>1
    <3> QED
      BY <3>3, <3>4, <3>5 DEF p, u
  <2> QED
    BY <2>2, <2>3, <2>4
<1>13. ASSUME batch = <<>>, channel = <<>> PROVE ends' = <<>>
  <2>1. Q = <<>> /\ R = <<>>
    <3>1. batch \o channel = <<>>
      BY <1>13
    <3> QED
      BY <3>1, KernelsOfNone DEF Q, R
  <2>2. Len(E) <= Len(S)
    <3>1. Len(Q) = 0 /\ Len(R) = 0
      BY <2>1
    <3>2. Len(Ended) <= Len(Started)
      BY DEF PairInv
    <3> QED
      BY <3>1, <3>2, <1>6, <1>7
  <2>3. n = Len(E)
    BY <2>2, <1>6 DEF n
  <2>4. ends' \in Seq(Kernel) /\ Len(ends') = 0
    BY <2>3, <1>3, <1>6, <1>11
  <2> QED
    BY <2>4, EmptySeq
<1>14. profiled' \in Seq(Kernel)
  BY <1>1, <1>3, <1>9, ConcatProperties
<1> QED
  BY <1>3, <1>10, <1>11, <1>12, <1>13, <1>14

(* The channel is polled: its records move, in order.                      *)
LEMMA ReaderKept == ThreadInv /\ CoreInv /\ FlowInv /\ ReaderNext => CoreInv' /\ FlowInv'
<1> SUFFICES ASSUME ThreadInv, CoreInv, FlowInv, ReaderNext PROVE CoreInv' /\ FlowInv'
  OBVIOUS
<1>1. /\ queue \in Seq(Record) /\ batch \in Seq(Record) /\ channel \in Seq(Record)
      /\ starts \in Seq(Kernel) /\ ends \in Seq(Kernel)
  BY DEF FlowInv, RecordTypes
<1>2. /\ reader # "callback" => batch = <<>>
      /\ parser \in {"exited", "none"} => queue = <<>> /\ batch = <<>> /\ channel = <<>> /\ ends = <<>>
  BY DEF FlowInv, SessionInv
<1>3. /\ pc' = pc /\ open' = open /\ starts' = starts /\ ends' = ends
      /\ durations' = durations /\ profiled' = profiled /\ stream' = stream /\ launched' = launched
      /\ started' = started /\ failed' = failed
      /\ UNCHANGED <<mainVars, metricVars, failed>>
  BY DEF ReaderNext, ReaderTest, ReaderPoll, ReaderCallback, mainVars, metricVars, streamVars, parserVars
<1>4. /\ parser' \in {"exited", "none"} <=> parser \in {"exited", "none"}
      /\ parser' = "none" <=> parser = "none"
  BY DEF ReaderNext, ReaderTest, ReaderPoll, ReaderCallback, Notify, parserVars
<1>5. /\ queue' \in Seq(Record) /\ batch' \in Seq(Record) /\ channel' \in Seq(Record)
      /\ Pending' = Pending
      /\ reader' # "callback" => batch' = <<>>
      /\ parser \in {"exited", "none"} => queue' = <<>> /\ batch' = <<>> /\ channel' = <<>>
  <2>0. <<>> \in Seq(Record) /\ \A s \in Seq(Record) : <<>> \o s = s /\ s \o <<>> = s
    BY EmptySeq, ConcatEmptySeq
  <2>1. CASE ReaderTest
    <3>1. queue' = queue /\ batch' = batch /\ channel' = channel /\ reader = "test"
      BY <2>1 DEF ReaderTest
    <3> QED
      BY <3>1, <1>1, <1>2 DEF Pending
  <2>2. CASE ReaderPoll
    <3>1. queue' = queue /\ batch' = channel /\ channel' = <<>> /\ batch = <<>>
          /\ (reader' # "callback" => batch' = <<>>)
      BY <2>2, <1>2 DEF ReaderPoll
    <3>2. batch \o channel = channel /\ batch' \o channel' = channel
      BY <3>1, <2>0, <1>1
    <3>3. Pending' = Pending
      BY <3>1, <3>2 DEF Pending
    <3> QED
      BY <3>1, <3>3, <2>0, <1>1, <1>2
  <2>3. CASE ReaderCallback
    <3>1. queue' = queue \o batch /\ batch' = <<>> /\ channel' = channel
      BY <2>3 DEF ReaderCallback
    <3>2. batch' \o channel' = channel
      BY <3>1, <2>0, <1>1
    <3>3. (queue \o batch) \o channel = queue \o (batch \o channel) /\ queue \o batch \in Seq(Record)
      <4>1. (queue \o batch) \o channel = queue \o (batch \o channel)
        BY <1>1, Assoc
      <4>2. queue \o batch \in Seq(Record)
        BY <1>1, ConcatProperties
      <4> QED
        BY <4>1, <4>2
    <3>4. Pending' = Pending
      BY <3>1, <3>2, <3>3 DEF Pending
    <3>5. parser \in {"exited", "none"} => queue' = <<>>
      <4> SUFFICES ASSUME parser \in {"exited", "none"} PROVE queue' = <<>>
        OBVIOUS
      <4>1. queue = <<>> /\ batch = <<>>
        BY <1>2
      <4> QED
        BY <4>1, <3>1, <2>0
    <3> QED
      BY <3>1, <3>3, <3>4, <3>5, <2>0, <1>1, <1>2
  <2> QED
    BY <2>1, <2>2, <2>3 DEF ReaderNext
<1>6. Started' = Started /\ Ended' = Ended
  BY <1>3, <1>5 DEF Started, Ended
<1>7. Kernels' = Kernels
  BY <1>3, <1>6 DEF Kernels
<1>8. CoreInv'
  BY <1>3, <1>7, CoreStutter
<1>9. Aborted' = Aborted
  BY <1>3 DEF Aborted, mainVars
<1>10. RecordTypes' /\ StreamInv' /\ PairInv'
  BY <1>3, <1>5, <1>6, <1>9 DEF FlowInv, RecordTypes, StreamInv, PairInv
<1>11. SessionInv'
  BY <1>2, <1>3, <1>4, <1>5 DEF FlowInv, SessionInv
<1> QED
  BY <1>8, <1>10, <1>11 DEF FlowInv

(* The records are taken from the queue, and paired; at last, none is left *)
(* that could be paired.                                                   *)
LEMMA ParserKept == ThreadInv /\ CoreInv /\ FlowInv /\ (ParserNext \/ ParserTimeout) => CoreInv' /\ FlowInv'
<1> SUFFICES ASSUME ThreadInv, CoreInv, FlowInv, ParserNext \/ ParserTimeout PROVE CoreInv' /\ FlowInv'
  OBVIOUS
<1>1. MainTypes /\ RecordTypes /\ PairInv /\ StreamInv /\ SessionInv
  BY DEF CoreInv, FlowInv
<1>2. /\ pc' = pc /\ open' = open /\ reader' = reader /\ batch' = batch /\ channel' = channel
      /\ durations' = durations /\ stream' = stream /\ launched' = launched
      /\ started' = started /\ failed' = failed
      /\ UNCHANGED <<mainVars, metricVars, failed>>
  BY DEF ParserNext, ParserTest, ParserBlock, ParserFinal, ParserTimeout, mainVars, metricVars, streamVars, readerVars
<1>3. /\ parser \notin {"exited", "none"} /\ parser' # "none"
      /\ parser' = "exited" => parser = "final" /\ Flush
      /\ Flush \/ (queue' = queue /\ starts' = starts /\ ends' = ends /\ profiled' = profiled)
  BY DEF ParserNext, ParserTest, ParserBlock, ParserFinal, ParserTimeout
<1>4. parser = "final" => batch = <<>> /\ channel = <<>>
  <2> SUFFICES ASSUME parser = "final" PROVE batch = <<>> /\ channel = <<>>
    OBVIOUS
  <2>1. pc \in {"notify", "joinParser"}
    BY DEF ThreadInv, ParserInv
  <2>2. reader = "none" /\ channel = <<>>
    BY <2>1 DEF ThreadInv, ReaderInv, PastReader, Stopped
  <2> QED
    BY <2>2, <1>1 DEF SessionInv
<1>5. Aborted' = Aborted
  BY <1>2 DEF Aborted, mainVars
<1>6. Kernels' = Kernels /\ RecordTypes' /\ PairInv' /\ (parser' = "exited" => queue' = <<>> /\ ends' = <<>>)
  <2>1. CASE Flush
    <3>1. /\ queue' = <<>> /\ profiled' \in Seq(Kernel) /\ starts' \in Seq(Kernel) /\ ends' \in Seq(Kernel)
          /\ Kernels' = Kernels
          /\ batch = <<>> /\ channel = <<>> => ends' = <<>>
      BY <2>1, <1>1, <1>2, Flushed
    <3>2. PICK n \in 0..Len(Ended) :
             /\ Len(Started') = Len(Started) - n /\ Len(Ended') = Len(Ended) - n
             /\ \A i \in 1..(Len(Started) - n) : Started'[i] = Started[n + i]
             /\ \A i \in 1..(Len(Ended) - n) : Ended'[i] = Ended[n + i]
      BY <2>1, <1>1, <1>2, Flushed
    <3>3. RecordTypes'
      BY <3>1, <1>1, <1>2, EmptySeq DEF RecordTypes
    <3>4. Len(Started) \in Nat /\ Len(Ended) \in Nat
      BY <1>1, PendingTypes
    <3>5. /\ Len(Ended) <= Len(Started)
          /\ \A i \in 1..Len(Ended) : Ended[i] = Started[i]
          /\ started => Len(Started) = Len(Ended) + 1 /\ Started[Len(Started)] = stream[1]
          /\ pc \in Profiling \cup Stopping => Len(Started) = Len(Ended) \/ started \/ Aborted
      BY <1>1 DEF PairInv
    <3>6. Len(Ended') <= Len(Started')
      BY <3>2, <3>4, <3>5
    <3>7. \A i \in 1..Len(Ended') : Ended'[i] = Started'[i]
      <4> TAKE i \in 1..Len(Ended')
      <4>1. i \in 1..(Len(Ended) - n) /\ i \in 1..(Len(Started) - n) /\ n + i \in 1..Len(Ended)
        BY <3>2, <3>4, <3>5
      <4> QED
        BY <4>1, <3>2, <3>5
    <3>8. ASSUME started' PROVE Len(Started') = Len(Ended') + 1 /\ Started'[Len(Started')] = stream'[1]
      <4>1. Len(Started) = Len(Ended) + 1 /\ Started[Len(Started)] = stream[1]
        BY <3>5, <3>8, <1>2
      <4>2. Len(Started) - n \in 1..(Len(Started) - n) /\ n + (Len(Started) - n) = Len(Started)
        BY <4>1, <3>2, <3>4
      <4>3. Started'[Len(Started) - n] = Started[Len(Started)]
        BY <4>2, <3>2
      <4>4. Len(Started') = Len(Ended') + 1
        BY <4>1, <3>2, <3>4
      <4> QED
        BY <4>1, <4>3, <4>4, <3>2, <1>2
    <3>9. pc' \in Profiling \cup Stopping => Len(Started') = Len(Ended') \/ started' \/ Aborted'
      BY <3>2, <3>4, <3>5, <1>2, <1>5
    <3>10. PairInv'
      BY <3>6, <3>7, <3>8, <3>9 DEF PairInv
    <3> QED
      BY <3>1, <3>3, <3>10, <1>3, <1>4
  <2>2. CASE queue' = queue /\ starts' = starts /\ ends' = ends /\ profiled' = profiled /\ ~Flush
    <3>1. Started' = Started /\ Ended' = Ended
      BY <2>2, <1>2 DEF Started, Ended, Pending
    <3>2. Kernels' = Kernels
      BY <2>2, <3>1, <1>2 DEF Kernels
    <3>3. RecordTypes' /\ PairInv'
      BY <2>2, <3>1, <1>1, <1>2, <1>5 DEF RecordTypes, PairInv
    <3> QED
      BY <2>2, <3>2, <3>3, <1>3
  <2> QED
    BY <2>1, <2>2, <1>3
<1>7. CoreInv'
  BY <1>2, <1>6, CoreStutter
<1>8. StreamInv'
  BY <1>1, <1>2 DEF StreamInv
<1>9. SessionInv'
  <2>1. parser # "none" /\ pc \in Profiling \cup Stopping
    BY <1>1, <1>3 DEF SessionInv
  <2> QED
    BY <2>1, <1>1, <1>2, <1>3, <1>4, <1>6 DEF SessionInv
<1> QED
  BY <1>6, <1>7, <1>8, <1>9 DEF FlowInv
-----------------------------------------------------------------------------
(* RunOp.                                                                  *)

(* The main thread goes on only when the stream is empty.                  *)
LEMMA RunIdle == FlowInv /\ RunNext => stream = <<>> /\ ~started /\ pc \in Profiling
<1> SUFFICES ASSUME FlowInv, RunNext PROVE stream = <<>> /\ ~started /\ pc \in Profiling
  OBVIOUS
<1>1. \/ pc \in {"next", "frequency", "measure", "update"}
      \/ pc \in {"warmed", "cleared", "launched"} /\ stream = <<>>
  BY DEF RunNext, NextOperator, WarmUp, WarmUpDone, FrequencyReached, ClearL2Cache, LaunchOperator,
         OperatorDone, Update, AfterLastOperator, Synchronized
<1>2. (started => stream # <<>>) /\ (stream # <<>> => pc \in {"warmed", "cleared", "launched"})
  BY DEF FlowInv, StreamInv
<1> QED
  BY <1>1, <1>2 DEF Profiling, InRunOp

(* What reads and parses the records is left alone by RunOp.               *)
LEMMA RunFlow ==
  FlowInv /\ stream = <<>> /\ ~started /\ pc \in Profiling /\ pc' \in Profiling
  /\ UNCHANGED others /\ UNCHANGED started /\ stream' \in Seq(Kernel) /\ launched' \in Nat /\ failed' \in BOOLEAN
  /\ StreamInv' /\ (Aborted => Aborted')
  => FlowInv' /\ Started' = Started /\ Ended' = Ended
<1> SUFFICES ASSUME FlowInv, stream = <<>>, ~started, pc \in Profiling, pc' \in Profiling,
                    UNCHANGED others, UNCHANGED started, stream' \in Seq(Kernel), launched' \in Nat, failed' \in BOOLEAN,
                    StreamInv', Aborted => Aborted'
             PROVE  FlowInv' /\ Started' = Started /\ Ended' = Ended
  OBVIOUS
<1>1. /\ channel' = channel /\ open' = open /\ reader' = reader /\ batch' = batch /\ queue' = queue
      /\ parser' = parser /\ starts' = starts /\ ends' = ends /\ profiled' = profiled
  BY DEF others, readerVars, parserVars
<1>2. Started' = Started /\ Ended' = Ended
  BY <1>1 DEF Started, Ended, Pending
<1>3. RecordTypes'
  BY <1>1 DEF FlowInv, RecordTypes
<1>4. PairInv'
  BY <1>2 DEF FlowInv, PairInv
<1>5. SessionInv'
  <2>1. parser # "none" /\ open
    BY DEF FlowInv, SessionInv
  <2> QED
    BY <1>1, <2>1 DEF FlowInv, SessionInv
<1> QED
  BY <1>2, <1>3, <1>4, <1>5 DEF FlowInv

\* The kinds t of kernels are noted for the operator, and its kernels u launched.
Launches(t, u) ==
    /\ stream' = u /\ Row' = Row \o t /\ pc \in InRunOp \ {"launched", "update"} /\ pc' \in InRunOp
    /\ kernelsQueue' = kernelsQueue /\ durations' = durations /\ metrics' = metrics
    /\ profiled' = profiled /\ op' = op /\ stat' = stat /\ added' = added /\ Ended' = Ended

(* They are the last ones, and the last that are awaited.                  *)
LEMMA LaunchedRow ==
  ASSUME NEW t \in Seq(KernelKind), NEW u \in Seq(Kernel)
  PROVE  CoreInv /\ RecordTypes /\ stream = <<>> /\ Launches(t, u) /\ Len(u) = Len(t)
         /\ (\A j \in 1..Len(t) : u[j].op = op /\ (t[j] = "op" <=> u[j].kind # "clear"))
         => /\ Kernels' = Kernels \o u
            /\ Awaited' = Append(kernelsQueue, Row \o t)
            /\ Len(Awaited') = Len(kernelsQueue) + 1 /\ Awaited'[Len(kernelsQueue) + 1] = Row \o t
            /\ \A i \in 1..Len(kernelsQueue) : Awaited'[i] = Awaited[i]
            /\ Len(Kernels') = Span(Awaited', Len(Awaited'))
            /\ Match(Len(metrics), Awaited', Kernels')
            /\ \A i \in 1..Len(kernelsQueue) : \A n :
                  Whole(Awaited, Kernels, i, n) => Whole(Awaited', Kernels', i, n)
<1>0. HAVE CoreInv /\ RecordTypes /\ stream = <<>> /\ Launches(t, u) /\ Len(u) = Len(t)
           /\ (\A j \in 1..Len(t) : u[j].op = op /\ (t[j] = "op" <=> u[j].kind # "clear"))
<1> DEFINE q == kernelsQueue
           r == Row
           b == Len(metrics)
           K == Kernels
<1>1. /\ pc \in InRunOp \ {"launched", "update"} /\ pc' \in InRunOp /\ stream' = u /\ Row' = r \o t
      /\ q' = q /\ durations' = durations /\ profiled' = profiled /\ Ended' = Ended /\ stream = <<>>
  BY <1>0 DEF Launches
<1>2. /\ r \in Seq(KernelKind) /\ q \in Seq(Seq(KernelKind)) /\ Awaited = Append(q, r)
      /\ Len(Awaited) = Len(q) + 1 /\ b \in Nat /\ b + (Len(q) + 1) = op /\ Len(q) \in Nat
  BY <1>0, <1>1, RunRow
<1>3. Awaited' = Append(q, r \o t)
  BY <1>1 DEF Awaited
<1>4. K = Arrived \o Ended /\ Kernels' = K \o u /\ K \in Seq(Kernel)
  <2>1. Arrived \o Ended \in Seq(Kernel) /\ Kernels = (Arrived \o Ended) \o stream
    BY <1>0, KernelsTypes DEF CoreInv
  <2> DEFINE d == Arrived \o Ended
  <2>2. d \in Seq(Kernel) /\ Kernels = d \o <<>>
    BY <2>1, <1>1
  <2>3. Kernels' = d \o u
    BY <1>1 DEF Kernels, Arrived
  <2> HIDE DEF d
  <2>4. Kernels = d
    BY <2>2, ConcatEmptySeq
  <2> QED
    BY <2>2, <2>3, <2>4 DEF d
<1>5. Match(b, Append(q, r), K) /\ Len(K) = Span(Append(q, r), Len(q) + 1)
  <2>1. ~Aborted
    BY <1>1 DEF Aborted, InRunOp, Stopping
  <2> QED
    BY <2>1, <1>0, <1>2 DEF CoreInv, MatchInv, CountInv
<1>6. \A j \in 1..Len(t) : u[j].op = b + (Len(q) + 1) /\ (t[j] = "op" <=> u[j].kind # "clear")
  BY <1>0, <1>2
<1>7. Len(u) = Len(t)
  BY <1>0
<1> HIDE DEF q, r, b, K
<1>8. /\ Match(b, Append(q, r \o t), K \o u)
      /\ Len(K \o u) = Span(Append(q, r \o t), Len(q) + 1)
      /\ \A i \in 1..Len(q) : \A n : Whole(Append(q, r), K, i, n) => Whole(Append(q, r \o t), K \o u, i, n)
  BY <1>2, <1>4, <1>5, <1>6, <1>7, GrownRow
<1>9. r \o t \in Seq(KernelKind)
  BY <1>2, ConcatProperties
<1> DEFINE s == r \o t
<1>10. /\ Len(Append(q, s)) = Len(q) + 1 /\ Append(q, s)[Len(q) + 1] = s
       /\ \A i \in 1..Len(q) : Append(q, s)[i] = q[i] /\ Append(q, r)[i] = q[i]
  <2>1. s \in Seq(KernelKind)
    BY <1>9
  <2> HIDE DEF s
  <2>2. /\ Len(Append(q, s)) = Len(q) + 1 /\ Append(q, s)[Len(q) + 1] = s
        /\ \A i \in 1..Len(q) : Append(q, s)[i] = q[i]
    BY <2>1, <1>2, AppendProperties
  <2>3. \A i \in 1..Len(q) : Append(q, r)[i] = q[i]
    BY <1>2, AppendProperties
  <2> QED
    BY <2>2, <2>3
<1> HIDE DEF s
<1>11. /\ Match(b, Append(q, s), K \o u) /\ Len(K \o u) = Span(Append(q, s), Len(q) + 1)
       /\ \A i \in 1..Len(q) : \A n : Whole(Append(q, r), K, i, n) => Whole(Append(q, s), K \o u, i, n)
       /\ Awaited' = Append(q, s) /\ Kernels' = K \o u
  BY <1>3, <1>4, <1>8 DEF s
<1>12. /\ Len(Awaited') = Len(q) + 1 /\ Awaited'[Len(q) + 1] = s
       /\ \A i \in 1..Len(q) : Awaited'[i] = Awaited[i]
  BY <1>2, <1>10, <1>11
<1>13. /\ Match(b, Awaited', Kernels') /\ Len(Kernels') = Span(Awaited', Len(Awaited'))
       /\ \A i \in 1..Len(q) : \A n : Whole(Awaited, K, i, n) => Whole(Awaited', Kernels', i, n)
  BY <1>2, <1>11, <1>12
<1> QED
  BY <1>11, <1>12, <1>13 DEF q, b, K, r, s

(* Kernels are launched, of a warm-up, for the cache, or of the operator.  *)
LEMMA LaunchKept ==
  ASSUME NEW t \in Seq(KernelKind), NEW u \in Seq(Kernel)
  PROVE  CoreInv /\ RecordTypes /\ stream = <<>> /\ Launches(t, u) /\ Len(u) = Len(t)
         /\ (\A j \in 1..Len(t) : u[j].op = op /\ (t[j] = "op" <=> u[j].kind # "clear"))
         /\ pc' # "update" /\ kernels' \in Seq(KernelKind) /\ times' \in Nat
         /\ (pc' = "launched" =>
                /\ Len(kernels') >= 2 /\ times' >= 1 /\ Len(t) = 1 /\ t[1] = "op"
                /\ u[1].kind = "op" /\ u[1].n = times')
         => CoreInv'
<1>0. HAVE CoreInv /\ RecordTypes /\ stream = <<>> /\ Launches(t, u) /\ Len(u) = Len(t)
           /\ (\A j \in 1..Len(t) : u[j].op = op /\ (t[j] = "op" <=> u[j].kind # "clear"))
           /\ pc' # "update" /\ kernels' \in Seq(KernelKind) /\ times' \in Nat
           /\ (pc' = "launched" =>
                  /\ Len(kernels') >= 2 /\ times' >= 1 /\ Len(t) = 1 /\ t[1] = "op"
                  /\ u[1].kind = "op" /\ u[1].n = times')
<1> DEFINE m == Len(kernelsQueue)
           b == Len(metrics)
<1>1. /\ Kernels' = Kernels \o u
      /\ Len(Awaited') = m + 1 /\ Awaited'[m + 1] = Row \o t
      /\ \A i \in 1..m : Awaited'[i] = Awaited[i]
      /\ Len(Kernels') = Span(Awaited', Len(Awaited'))
      /\ Match(b, Awaited', Kernels')
      /\ \A i \in 1..m : \A n : Whole(Awaited, Kernels, i, n) => Whole(Awaited', Kernels', i, n)
  BY <1>0, LaunchedRow
<1>2. /\ pc \in InRunOp \ {"launched", "update"} /\ pc' \in InRunOp
      /\ kernelsQueue' = kernelsQueue /\ durations' = durations /\ metrics' = metrics
      /\ op' = op /\ stat' = stat /\ added' = added
  BY <1>0 DEF Launches
<1>3. /\ Row \in Seq(KernelKind) /\ Len(Awaited) = m + 1
      /\ b \in Nat /\ m \in Nat /\ op \in Ops /\ op \in Nat /\ b + (m + 1) = op /\ stat[op] = "none"
  BY <1>0, <1>2, RunRow
<1>4. Kernels \in Seq(Kernel)
  BY <1>0, KernelsTypes DEF CoreInv
<1>5. MainTypes'
  BY <1>0, <1>2 DEF CoreInv, MainTypes, Profiling
<1>6. OrderInv'
  <2>1. OrderInv
    BY <1>0 DEF CoreInv
  <2>2. Len(metrics') + Len(Awaited') = Len(added')
    BY <2>1, <1>1, <1>2, <1>3 DEF OrderInv
  <2>3. \A o \in Ops : stat'[o] = "none" <=> o > op' \/ (o = op' /\ pc' \in InRunOp \ {"update"})
    BY <2>1, <1>0, <1>2 DEF OrderInv
  <2>4. pc' # "next"
    BY <1>2 DEF InRunOp
  <2> QED
    BY <2>1, <2>2, <2>3, <2>4, <1>2, <1>3 DEF OrderInv
<1>7. CountInv'
  BY <1>0, <1>1 DEF CountInv
<1>8. Reported'
  BY <1>0, <1>2 DEF CoreInv, Reported
<1>9. /\ \A i \in 1..Len(Awaited) : stat[b + i] = "failed" => Awaited[i] = <<>>
      /\ \A i \in 1..Len(Awaited) : Expected(b + i) # 0 => Whole(Awaited, Kernels, i, Expected(b + i))
  BY <1>0 DEF CoreInv, MatchInv
<1>10. ASSUME pc' = "launched" PROVE Whole(Awaited', Kernels', m + 1, times')
  <2> DEFINE r == Row
             K == Kernels
  <2>1. Len(u) = 1 /\ Len(t) = 1 /\ t[1] = "op" /\ u[1].kind = "op" /\ u[1].n = times'
    BY <1>0, <1>10
  <2>2. r \in Seq(KernelKind) /\ K \in Seq(Kernel) /\ Len(r) \in Nat /\ Len(K) \in Nat
    BY <1>3, <1>4
  <2>3. Awaited'[m + 1] = r \o t /\ Kernels' = K \o u /\ Span(Awaited', m + 1) = Len(K \o u)
    BY <1>1
  <2> HIDE DEF r, K
  <2>4. Len(r \o t) = Len(r) + 1 /\ (r \o t)[Len(r) + 1] = "op"
    <3>1. Len(r \o t) = Len(r) + Len(t) /\ \A i \in 1..Len(t) : (r \o t)[Len(r) + i] = t[i]
      BY <2>2, ConcatParts
    <3>2. 1 \in 1..Len(t)
      BY <2>1
    <3> QED
      BY <3>1, <3>2, <2>1
  <2>5. Len(K \o u) = Len(K) + 1 /\ (K \o u)[Len(K) + 1] = u[1]
    <3>1. Len(K \o u) = Len(K) + Len(u) /\ \A i \in 1..Len(u) : (K \o u)[Len(K) + i] = u[i]
      BY <2>2, ConcatParts
    <3>2. 1 \in 1..Len(u)
      BY <2>1
    <3> QED
      BY <3>1, <3>2, <2>1
  <2>6. r \o t # <<>>
    <3>1. Len(r \o t) # 0
      BY <2>2, <2>4
    <3> QED
      BY <3>1
  <2>7. Len(K \o u) <= Len(K \o u)
    BY <2>2, <2>5
  <2> QED
    BY <2>1, <2>3, <2>4, <2>5, <2>6, <2>7 DEF Whole
<1>11. MatchInv'
  <2>1. b' = b
    BY <1>2
  <2>2. \A i \in 1..Len(Awaited') : stat'[b + i] = "failed" => Awaited'[i] = <<>>
    <3> TAKE i \in 1..Len(Awaited')
    <3>1. i \in 1..m \/ i = m + 1
      BY <1>1, <1>3
    <3>2. i \in 1..m => i \in 1..Len(Awaited)
      BY <1>3
    <3> QED
      BY <3>1, <3>2, <1>1, <1>2, <1>3, <1>9
  <2>3. \A i \in 1..Len(Awaited') : Expected(b + i)' # 0 => Whole(Awaited', Kernels', i, Expected(b + i)')
    <3> SUFFICES ASSUME NEW i \in 1..Len(Awaited'), Expected(b + i)' # 0
                 PROVE  Whole(Awaited', Kernels', i, Expected(b + i)')
      OBVIOUS
    <3>1. i \in 1..m \/ i = m + 1
      BY <1>1, <1>3
    <3>2. CASE i \in 1..m
      <4>1. b' + i # op /\ i \in 1..Len(Awaited)
        BY <3>2, <2>1, <1>3
      <4>2. Expected(b + i)' = Expected(b + i) /\ Expected(b + i) # 0
        BY <4>1, <2>1, <1>2 DEF Expected
      <4> QED
        BY <3>2, <4>1, <4>2, <1>1, <1>9
    <3>3. CASE i = m + 1
      <4>1. stat'[b' + i] = "none"
        BY <3>3, <2>1, <1>2, <1>3
      <4>2. pc' = "launched" /\ Expected(b + i)' = times'
        BY <4>1 DEF Expected
      <4> QED
        BY <3>3, <4>2, <1>10
    <3> QED
      BY <3>1, <3>2, <3>3
  <2> QED
    BY <2>1, <2>2, <2>3, <1>1 DEF MatchInv
<1> QED
  BY <1>5, <1>6, <1>7, <1>8, <1>11 DEF CoreInv

(* What RunOp does to the invariant is in what it launches.                *)
LEMMA LaunchedKept ==
  ASSUME NEW t \in Seq(KernelKind), NEW u \in Seq(Kernel)
  PROVE  CoreInv /\ FlowInv /\ stream = <<>> /\ ~started /\ pc \in InRunOp \ {"launched", "update"}
         /\ stream' = u /\ Row' = Row \o t /\ Len(u) = Len(t)
         /\ UNCHANGED <<op, added, stat, metricVars, others, started>>
         /\ failed' = FALSE /\ launched' \in Nat
         /\ pc' \in {"warmed", "cleared", "launched"}
         /\ (\A j \in 1..Len(t) : u[j].op = op /\ (t[j] = "op" <=> u[j].kind # "clear"))
         /\ (pc' = "warmed" => \A j \in 1..Len(u) : u[j].kind = "warm")
         /\ (pc' = "cleared" => \A j \in 1..Len(u) : u[j].kind = "clear")
         /\ kernels' \in Seq(KernelKind) /\ times' \in Nat
         /\ (pc' = "launched" =>
                /\ Len(kernels') >= 2 /\ times' >= 1 /\ Len(t) = 1 /\ t[1] = "op"
                /\ u[1].kind = "op" /\ u[1].n = times')
         => CoreInv' /\ FlowInv'
<1> SUFFICES ASSUME CoreInv, FlowInv, stream = <<>>, ~started, pc \in InRunOp \ {"launched", "update"},
                    stream' = u, Row' = Row \o t, Len(u) = Len(t),
                    UNCHANGED <<op, added, stat, metricVars, others, started>>,
                    failed' = FALSE, launched' \in Nat,
                    pc' \in {"warmed", "cleared", "launched"},
                    \A j \in 1..Len(t) : u[j].op = op /\ (t[j] = "op" <=> u[j].kind # "clear"),
                    pc' = "warmed" => \A j \in 1..Len(u) : u[j].kind = "warm",
                    pc' = "cleared" => \A j \in 1..Len(u) : u[j].kind = "clear",
                    kernels' \in Seq(KernelKind), times' \in Nat,
                    pc' = "launched" =>
                        /\ Len(kernels') >= 2 /\ times' >= 1 /\ Len(t) = 1 /\ t[1] = "op"
                        /\ u[1].kind = "op" /\ u[1].n = times'
             PROVE  CoreInv' /\ FlowInv'
  OBVIOUS
<1>1. StreamInv'
  BY DEF StreamInv
<1>2. ~Aborted
  BY DEF Aborted, InRunOp, Stopping
<1>3. pc \in Profiling /\ pc' \in Profiling /\ pc' \in InRunOp
  BY DEF Profiling, InRunOp
<1>4. FlowInv' /\ Ended' = Ended
  BY <1>1, <1>2, <1>3, RunFlow
<1>5. Launches(t, u)
  BY <1>3, <1>4 DEF Launches, metricVars, others
<1>6. CoreInv'
  BY <1>5, LaunchKept DEF FlowInv
<1> QED
  BY <1>4, <1>6

(* A round of warm-up.                                                     *)
LEMMA WarmUpKept == CoreInv /\ FlowInv /\ WarmUp => CoreInv' /\ FlowInv'
<1> SUFFICES ASSUME CoreInv, FlowInv, WarmUp PROVE CoreInv' /\ FlowInv'
  OBVIOUS
<1> DEFINE n == WarmUpTimes
           t == Kinds("warm", n)
           u == [i \in 1..n |-> [id |-> launched + i, op |-> op, kind |-> "warm", n |-> times]]
<1>1. stream = <<>> /\ ~started /\ pc = "frequency" /\ pc' = "warmed"
  BY RunIdle DEF RunNext, WarmUp
<1>2. launched \in Nat /\ op \in Nat /\ times \in Nat /\ n \in Nat /\ kernels \in Seq(KernelKind)
  BY RunTimesAssumption DEF CoreInv, FlowInv, MainTypes, RecordTypes
<1>3. t \in Seq(KernelKind) /\ Len(t) = n /\ \A j \in 1..n : t[j] = "op"
  BY <1>2 DEF Kinds, KernelKind
<1>4. u \in Seq(Kernel) /\ Len(u) = n /\ \A j \in 1..n : u[j].op = op /\ u[j].kind = "warm"
  BY <1>2 DEF Kernel
<1>5. stream' = u
  <2>1. stream' = <<>> \o u
    BY <1>1 DEF WarmUp, Launch
  <2> QED
    BY <2>1, <1>4, ConcatEmptySeq
<1>6. Row' = Row \o t /\ kernels' = kernels \o t
  BY <1>1 DEF WarmUp, Row
<1>7. kernels' \in Seq(KernelKind)
  BY <1>2, <1>3, <1>6, ConcatProperties
<1>8. launched' = launched + n /\ failed' = failed /\ times' = times
      /\ UNCHANGED <<op, added, stat, metricVars, others, started>>
  BY DEF WarmUp, Launch
<1>9. ~failed /\ pc \in InRunOp \ {"launched", "update"}
  BY <1>1 DEF FlowInv, StreamInv, InRunOp
<1> HIDE DEF t, u, n
<1>10. launched' \in Nat /\ failed' = FALSE /\ times' \in Nat
  BY <1>2, <1>8, <1>9 DEF FlowInv, RecordTypes
<1>11. \A j \in 1..Len(t) : u[j].op = op /\ (t[j] = "op" <=> u[j].kind # "clear")
  BY <1>3, <1>4
<1>12. \A j \in 1..Len(u) : u[j].kind = "warm"
  BY <1>4
<1> QED
  BY <1>1, <1>3, <1>4, <1>5, <1>6, <1>7, <1>8, <1>9, <1>10, <1>11, <1>12, LaunchedKept

(* The kernel that clears the cache.                                       *)
LEMMA ClearKept == CoreInv /\ FlowInv /\ ClearL2Cache => CoreInv' /\ FlowInv'
<1> SUFFICES ASSUME CoreInv, FlowInv, ClearL2Cache PROVE CoreInv' /\ FlowInv'
  OBVIOUS
<1> DEFINE k == [id |-> launched + 1, op |-> op, kind |-> "clear", n |-> times]
           t == <<"clear">>
           u == <<k>>
           v == [i \in 1..1 |-> [id |-> launched + i, op |-> op, kind |-> "clear", n |-> times]]
<1>1. stream = <<>> /\ ~started /\ pc = "measure" /\ pc' = "cleared"
  BY RunIdle DEF RunNext, ClearL2Cache
<1>2. launched \in Nat /\ op \in Nat /\ times \in Nat /\ kernels \in Seq(KernelKind)
  BY DEF CoreInv, FlowInv, MainTypes, RecordTypes
<1>3. t \in Seq(KernelKind) /\ Len(t) = 1 /\ t[1] = "clear"
  BY DEF KernelKind
<1>4. k \in Kernel /\ u \in Seq(Kernel) /\ Len(u) = 1 /\ u[1] = k
  BY <1>2 DEF Kernel
<1>5. stream' = u
  <2>1. v \in Seq(Kernel)
    BY <1>2 DEF Kernel
  <2>2. stream' = <<>> \o v
    BY <1>1 DEF ClearL2Cache, Launch
  <2>3. v = u
    BY <1>2
  <2> QED
    BY <2>1, <2>2, <2>3, ConcatEmptySeq
<1>6. Row' = Row \o t /\ kernels' = kernels
  <2>1. Row' = Append(kernels, "clear") /\ Row = kernels /\ kernels' = kernels
    BY <1>1 DEF ClearL2Cache, Row
  <2>2. Append(kernels, "clear") = kernels \o <<"clear">>
    BY <1>2, AppendIsConcat DEF KernelKind
  <2> QED
    BY <2>1, <2>2
<1>8. launched' = launched + 1 /\ failed' = failed /\ times' = times
      /\ UNCHANGED <<op, added, stat, metricVars, others, started>>
  BY DEF ClearL2Cache, Launch
<1>9. ~failed /\ pc \in InRunOp \ {"launched", "update"}
  BY <1>1 DEF FlowInv, StreamInv, InRunOp
<1>10. launched' \in Nat /\ failed' = FALSE /\ times' \in Nat /\ kernels' \in Seq(KernelKind)
  BY <1>2, <1>6, <1>8, <1>9 DEF FlowInv, RecordTypes
<1>11. k.op = op /\ k.kind = "clear"
  OBVIOUS
<1> HIDE DEF t, u, k, v
<1>12. \A j \in 1..Len(t) : u[j].op = op /\ (t[j] = "op" <=> u[j].kind # "clear")
  BY <1>3, <1>4, <1>11
<1>13. \A j \in 1..Len(u) : u[j].kind = "clear"
  BY <1>4, <1>11
<1> QED
  BY <1>1, <1>3, <1>4, <1>5, <1>6, <1>8, <1>9, <1>10, <1>12, <1>13, LaunchedKept

(* The kernel of the operator.                                             *)
LEMMA OperatorKept == CoreInv /\ FlowInv /\ LaunchOperator => CoreInv' /\ FlowInv'
<1> SUFFICES ASSUME CoreInv, FlowInv, LaunchOperator PROVE CoreInv' /\ FlowInv'
  OBVIOUS
<1> DEFINE k == [id |-> launched + 1, op |-> op, kind |-> "op", n |-> times']
           t == <<"op">>
           u == <<k>>
<1>1. stream = <<>> /\ ~started /\ pc = "cleared" /\ pc' = "launched"
  BY RunIdle DEF RunNext, LaunchOperator
<1>2. launched \in Nat /\ op \in Nat /\ times \in Nat /\ kernels \in Seq(KernelKind)
  BY DEF CoreInv, FlowInv, MainTypes, RecordTypes
<1>3. t \in Seq(KernelKind) /\ Len(t) = 1 /\ t[1] = "op"
  BY DEF KernelKind
<1>4. times' = times + 1 /\ times' \in Nat /\ times' >= 1
  BY <1>2 DEF LaunchOperator
<1>5. k \in Kernel /\ u \in Seq(Kernel) /\ Len(u) = 1 /\ u[1] = k
  BY <1>2, <1>4 DEF Kernel
<1>6. stream' = u /\ launched' = launched + 1 /\ failed' = FALSE
      /\ UNCHANGED <<op, added, stat, metricVars, others, started>>
  BY DEF LaunchOperator
<1>7. Row' = Row \o t
  <2>1. Row' = kernels \o <<"clear", "op">> /\ Row = Append(kernels, "clear")
    BY <1>1 DEF LaunchOperator, Row
  <2>2. \A s \in Seq(KernelKind) : s \o <<"clear", "op">> = Append(s, "clear") \o <<"op">>
    BY DEF KernelKind
  <2> QED
    BY <2>1, <2>2, <1>2
<1>8. kernels' \in Seq(KernelKind) /\ Len(kernels') >= 2
  <2>1. kernels' = kernels \o <<"clear", "op">>
    BY DEF LaunchOperator
  <2>2. <<"clear", "op">> \in Seq(KernelKind) /\ Len(<<"clear", "op">>) = 2
    BY DEF KernelKind
  <2> QED
    BY <2>1, <2>2, <1>2, ConcatProperties
<1>9. pc \in InRunOp \ {"launched", "update"}
  BY <1>1 DEF InRunOp
<1>10. launched' \in Nat
  BY <1>2, <1>6
<1>11. k.op = op /\ k.kind = "op" /\ k.n = times'
  OBVIOUS
<1> HIDE DEF t, u, k
<1>12. \A j \in 1..Len(t) : u[j].op = op /\ (t[j] = "op" <=> u[j].kind # "clear")
  BY <1>3, <1>5, <1>11
<1> QED
  BY <1>1, <1>3, <1>4, <1>5, <1>6, <1>7, <1>8, <1>9, <1>10, <1>11, <1>12, LaunchedKept

(* The next operator has a row without kernels.                            *)
LEMMA NextOperatorKept == CoreInv /\ FlowInv /\ NextOperator => CoreInv' /\ FlowInv'
<1> SUFFICES ASSUME CoreInv, FlowInv, NextOperator PROVE CoreInv' /\ FlowInv'
  OBVIOUS
<1> DEFINE q == kernelsQueue
           m == Len(kernelsQueue)
           b == Len(metrics)
           K == Kernels
           A == Append(kernelsQueue, <<>>)
<1>1. /\ stream = <<>> /\ ~started /\ pc = "next" /\ pc' \in {"frequency", "measure", "update"}
      /\ op + 1 \in Ops /\ op' = op + 1 /\ added' = Append(added, op + 1) /\ kernels' = <<>> /\ times' = 0
      /\ kernelsQueue' = kernelsQueue /\ durations' = durations /\ metrics' = metrics
      /\ UNCHANGED <<stream, started, failed, launched>> /\ UNCHANGED others /\ profiled' = profiled
  BY RunIdle DEF RunNext, NextOperator, RunsNext, metricVars, streamVars, others
<1>2. \/ pc' # "update" /\ stat' = stat
      \/ pc' = "update" /\ stat' = [stat EXCEPT ![op + 1] = "failed"]
  BY <1>1 DEF NextOperator
<1>3. /\ MainTypes /\ OrderInv /\ CountInv /\ MatchInv /\ Reported /\ RecordTypes
      /\ op \in Nat /\ added \in Seq(Nat) /\ q \in Seq(Seq(KernelKind)) /\ m \in Nat
      /\ metrics \in Seq(Kernel \cup {Zero}) /\ b \in Nat
      /\ stat \in [Ops -> {"none", "success", "fatal", "failed"}]
  BY DEF CoreInv, FlowInv, MainTypes
<1>4. K \in Seq(Kernel)
  BY <1>3, KernelsTypes
<1>5. Len(Pool) \in Nat
  BY PoolAssumption
<1>6. Awaited = q /\ ~Aborted
  BY <1>1 DEF Awaited, InRunOp, Aborted, Stopping
<1>7. op <= Len(Pool) /\ Len(added) = op /\ b + m = op
  BY <1>1, <1>3, <1>6 DEF OrderInv
<1>8. /\ Awaited' = A /\ Len(A) = m + 1 /\ A[m + 1] = <<>>
      /\ \A i \in 1..m : A[i] = q[i]
  <2>1. Awaited' = A
    BY <1>1 DEF Awaited, Row, InRunOp
  <2>2. <<>> \in Seq(KernelKind)
    BY EmptySeq
  <2> QED
    BY <2>1, <2>2, <1>3, AppendProperties
<1>9. /\ Match(b, A, K) /\ Span(A, m + 1) = Span(q, m)
      /\ \A i \in 1..m : \A n : Whole(q, K, i, n) => Whole(A, K, i, n)
  <2>1. Match(b, q, K)
    BY <1>3, <1>6 DEF MatchInv
  <2> HIDE DEF K, A
  <2> QED
    BY <2>1, <1>3, <1>4, EmptyRow DEF A
<1>10. Kernels' = K
  <2>1. Ended' = Ended
    BY <1>1 DEF Ended, Pending, others, readerVars, parserVars
  <2> QED
    BY <2>1, <1>1 DEF Kernels
<1>11. Len(K) = Span(q, m)
  BY <1>3, <1>6 DEF CountInv
<1>12. /\ stat'[op + 1] = IF pc' = "update" THEN "failed" ELSE "none"
       /\ \A o \in Ops : o # op + 1 => stat'[o] = stat[o]
       /\ stat' \in [Ops -> {"none", "success", "fatal", "failed"}]
  <2>1. stat[op + 1] = "none"
    BY <1>1, <1>3 DEF OrderInv
  <2> QED
    BY <2>1, <1>1, <1>2, <1>3
<1> HIDE DEF K, A
<1>13. MainTypes'
  <2>1. pc' \in Profiling
    BY <1>1 DEF Profiling, InRunOp
  <2>2. added' \in Seq(Nat)
    BY <1>1, <1>3, AppendProperties
  <2>3. kernels' \in Seq(KernelKind)
    BY <1>1, EmptySeq
  <2> QED
    BY <2>1, <2>2, <2>3, <1>1, <1>3, <1>12 DEF MainTypes
<1>14. OrderInv'
  <2>1. Len(added') = op + 1 /\ \A i \in 1..Len(added') : added'[i] = i
    <3>1. /\ Len(added') = Len(added) + 1 /\ added'[Len(added) + 1] = op + 1
          /\ \A i \in 1..Len(added) : added'[i] = added[i]
      BY <1>1, <1>3, AppendProperties
    <3>2. \A i \in 1..Len(added) : added[i] = i
      BY <1>3 DEF OrderInv
    <3>3. \A i \in 1..(op + 1) : i \in 1..op \/ i = op + 1
      BY <1>3
    <3> QED
      BY <3>1, <3>2, <3>3, <1>7
  <2>2. \A o \in Ops : stat'[o] = "none" <=> o > op' \/ (o = op' /\ pc' \in InRunOp \ {"update"})
    <3>1. pc' \in InRunOp
      BY <1>1 DEF InRunOp
    <3>2. \A o \in Ops : stat[o] = "none" <=> o > op
      BY <1>1, <1>3 DEF OrderInv, InRunOp
    <3>3. \A o \in Ops : o # op + 1 => (o > op <=> o > op + 1) /\ ~(o = op')
      BY <1>1, <1>3 DEF Ops
    <3>4. ~(op + 1 > op')
      BY <1>1, <1>3
    <3> QED
      BY <3>1, <3>2, <3>3, <3>4, <1>1, <1>12
  <2>3. Len(metrics') + Len(Awaited') = Len(added')
    BY <2>1, <1>1, <1>3, <1>7, <1>8
  <2>4. op' \in Ops /\ pc' # "next" /\ op' <= Len(Pool) /\ op' \in 0..(Len(Pool) + 1)
    BY <1>1, <1>3, <1>5 DEF Ops
  <2> QED
    BY <2>1, <2>2, <2>3, <2>4, <1>1 DEF OrderInv
<1>15. CountInv'
  <2>1. Len(Kernels') = Span(Awaited', Len(Awaited'))
    BY <1>8, <1>9, <1>10, <1>11
  <2> QED
    BY <2>1, <1>1 DEF CountInv
<1>16. MatchInv'
  <2>1. /\ \A i \in 1..m : stat[b + i] = "failed" => q[i] = <<>>
        /\ \A i \in 1..m : Expected(b + i) # 0 => Whole(q, K, i, Expected(b + i))
    BY <1>3, <1>6 DEF MatchInv, K
  <2>2. \A i \in 1..(m + 1) : i \in 1..m \/ i = m + 1
    BY <1>3
  <2>3. \A i \in 1..m : b + i \in Ops /\ b + i # op + 1
    BY <1>3, <1>5, <1>7 DEF Ops
  <2>4. \A i \in 1..(m + 1) : stat'[b + i] = "failed" => A[i] = <<>>
    BY <2>1, <2>2, <2>3, <1>8, <1>12
  <2>5. \A i \in 1..m : Expected(b + i)' = Expected(b + i)
    BY <2>3, <1>1, <1>12 DEF Expected
  <2>6. \A i : i = m + 1 => Expected(b + i)' = 0
    <3>1. \A o : o = op + 1 => Expected(o)' = 0
      <4>1. stat'[op + 1] # "success"
        BY <1>1, <1>12
      <4> QED
        BY <4>1, <1>1 DEF Expected
    <3>2. \A i : i = m + 1 => b + i = op + 1
      <4>1. op \in Nat /\ m \in Nat /\ b \in Nat /\ b + m = op
        BY <1>3, <1>7
      <4> HIDE DEF m, b
      <4> QED
        BY <4>1
    <3>3. b' = b
      BY <1>1
    <3> HIDE DEF m, b
    <3> QED
      BY <3>1, <3>2, <3>3
  <2>7. \A i \in 1..(m + 1) : Expected(b + i)' # 0 => Whole(A, K, i, Expected(b + i)')
    <3> SUFFICES ASSUME NEW i \in 1..(m + 1), Expected(b + i)' # 0 PROVE Whole(A, K, i, Expected(b + i)')
      OBVIOUS
    <3>1. i \in 1..m
      BY <2>2, <2>6
    <3> QED
      BY <3>1, <2>1, <2>5, <1>9
  <2>8. b' = b
    BY <1>1
  <2> QED
    BY <2>4, <2>7, <2>8, <1>8, <1>9, <1>10 DEF MatchInv
<1>17. Reported'
  <2>1. \A i \in 1..b : i \in Ops /\ i # op + 1
    BY <1>3, <1>5, <1>7 DEF Ops
  <2>2. \A i \in 1..b : stat'[i] = stat[i] /\ metrics'[i] = metrics[i]
    BY <2>1, <1>1, <1>12
  <2> QED
    BY <2>2, <1>1, <1>3 DEF Reported
<1>18. FlowInv'
  <2>1. pc \in Profiling /\ pc' \in Profiling
    BY <1>1 DEF Profiling, InRunOp
  <2>2. StreamInv' /\ stream' \in Seq(Kernel) /\ launched' \in Nat /\ failed' \in BOOLEAN /\ UNCHANGED started
    <3>1. StreamInv /\ RecordTypes
      BY DEF FlowInv
    <3> QED
      BY <3>1, <1>1 DEF StreamInv, RecordTypes
  <2> QED
    BY <2>1, <2>2, <1>1, <1>6, RunFlow
<1> QED
  BY <1>13, <1>14, <1>15, <1>16, <1>17, <1>18 DEF CoreInv

\* The main thread goes on, and may know how the operator at hand ended.
GoesOn ==
    /\ stream = <<>> /\ ~started
    /\ pc \in {"frequency", "warmed", "launched"} /\ pc' \in {"frequency", "measure", "update"}
    /\ op' = op /\ added' = added /\ times' = times /\ kernels' = kernels
    /\ UNCHANGED metricVars /\ UNCHANGED others
    /\ stream' = stream /\ started' = started /\ launched' = launched /\ failed' = FALSE
    /\ \/ stat' = stat /\ pc' # "update" /\ ~Aborted
       \/ stat' = [stat EXCEPT ![op] = "fatal"] /\ pc' = "update"
       \/ /\ stat' = [stat EXCEPT ![op] = "success"] /\ pc' = "update"
          /\ pc = "launched" /\ ~failed /\ times = RunTimes

(* Only the status of that operator changes, and what is expected of it is there. *)
LEMMA GoesOnKept == CoreInv /\ FlowInv /\ GoesOn => CoreInv' /\ FlowInv'
<1> SUFFICES ASSUME CoreInv, FlowInv, GoesOn PROVE CoreInv' /\ FlowInv'
  OBVIOUS
<1>0. /\ stream = <<>> /\ ~started /\ failed' = FALSE
      /\ pc \in {"frequency", "warmed", "launched"} /\ pc' \in {"frequency", "measure", "update"}
      /\ \/ stat' = stat /\ pc' # "update" /\ ~Aborted
         \/ stat' = [stat EXCEPT ![op] = "fatal"] /\ pc' = "update"
         \/ stat' = [stat EXCEPT ![op] = "success"] /\ pc' = "update" /\ pc = "launched" /\ ~failed /\ times = RunTimes
  BY DEF GoesOn
<1> DEFINE m == Len(kernelsQueue)
           b == Len(metrics)
<1>1. pc \in InRunOp /\ pc' \in InRunOp /\ pc # "update" /\ pc # "cleared" /\ pc' # "cleared"
  BY <1>0 DEF InRunOp
<1>2. /\ op' = op /\ added' = added /\ times' = times /\ kernels' = kernels /\ kernelsQueue' = kernelsQueue
      /\ durations' = durations /\ metrics' = metrics /\ profiled' = profiled /\ UNCHANGED others
      /\ stream' = stream /\ started' = started /\ launched' = launched
  BY DEF GoesOn, metricVars, others
<1>3. /\ Len(Awaited) = m + 1 /\ b \in Nat /\ m \in Nat /\ op \in Ops /\ op \in Nat
      /\ b + (m + 1) = op /\ Len(added) = op /\ stat[op] = "none"
  BY <1>1, RunRow
<1>4. Awaited' = Awaited
  BY <1>1, <1>2 DEF Awaited, Row
<1>5. Kernels' = Kernels
  <2>1. Ended' = Ended
    BY <1>2 DEF Ended, Pending, others, readerVars, parserVars
  <2> QED
    BY <2>1, <1>2 DEF Kernels
<1>6. MainTypes /\ OrderInv /\ CountInv /\ MatchInv /\ Reported
  BY DEF CoreInv
<1>7. stat \in [Ops -> {"none", "success", "fatal", "failed"}]
  BY <1>6 DEF MainTypes
<1>8. /\ stat' \in [Ops -> {"none", "success", "fatal", "failed"}]
      /\ \A o \in Ops : o # op => stat'[o] = stat[o]
      /\ stat'[op] = "none" <=> pc' # "update"
      /\ stat'[op] # "failed"
      /\ stat'[op] = "success" => pc = "launched" /\ ~failed /\ times = RunTimes
  BY <1>0, <1>3, <1>7
<1>9. MainTypes'
  <2>1. pc' \in Profiling
    BY <1>1 DEF Profiling
  <2> QED
    BY <2>1, <1>2, <1>6, <1>8 DEF MainTypes
<1>10. OrderInv'
  <2>1. \A o \in Ops : stat'[o] = "none" <=> o > op \/ (o = op /\ pc' \in InRunOp \ {"update"})
    <3>1. \A o \in Ops : o # op => (stat[o] = "none" <=> o > op)
      BY <1>1, <1>6 DEF OrderInv
    <3>2. ~(op > op)
      BY <1>3
    <3> QED
      BY <3>1, <3>2, <1>1, <1>8
  <2>2. pc' # "next"
    BY <1>0, <1>1 DEF InRunOp
  <2> QED
    BY <2>1, <2>2, <1>2, <1>3, <1>4, <1>6 DEF OrderInv
<1>11. Aborted => Aborted'
  <2>1. Aborted => pc = "launched" /\ failed
    BY <1>0, <1>1 DEF Aborted, Stopping
  <2>2. Aborted => stat' = [stat EXCEPT ![op] = "fatal"] /\ pc' = "update"
    BY <2>1, <1>0
  <2>3. Aborted => stat'[op] = "fatal" /\ op' \in Ops
    BY <2>2, <1>2, <1>3, <1>7
  <2> QED
    BY <2>2, <2>3, <1>2 DEF Aborted
<1>12. CountInv'
  <2>1. pc' # "launched"
    BY <1>0
  <2> QED
    BY <2>1, <1>4, <1>5, <1>6, <1>11 DEF CountInv
<1>13. MatchInv'
  <2>1. \A i \in 1..(m + 1) : b + i \in Ops
    BY <1>3 DEF Ops
  <2>2. \A i \in 1..(m + 1) : stat'[b + i] = "failed" => stat[b + i] = "failed"
    BY <2>1, <1>8
  <2>3. \A o \in Ops : Expected(o)' # 0 => Expected(o)' = Expected(o)
    <3> SUFFICES ASSUME NEW o \in Ops, Expected(o)' # 0 PROVE Expected(o)' = Expected(o)
      OBVIOUS
    <3>1. stat'[o] = "success" /\ Expected(o)' = RunTimes
      BY <1>0 DEF Expected
    <3>2. CASE o = op
      <4>1. Expected(o) = times
        BY <3>1, <3>2, <1>3, <1>8 DEF Expected
      <4> QED
        BY <3>1, <3>2, <4>1, <1>8
    <3>3. CASE o # op
      BY <3>1, <3>3, <1>8 DEF Expected
    <3> QED
      BY <3>2, <3>3
  <2>4. b' = b
    BY <1>2
  <2>5. \A i \in 1..(m + 1) : Expected(b + i)' # 0 => Whole(Awaited, Kernels, i, Expected(b + i)')
    <3> SUFFICES ASSUME NEW i \in 1..(m + 1), Expected(b + i)' # 0
                 PROVE  Whole(Awaited, Kernels, i, Expected(b + i)')
      OBVIOUS
    <3>1. Expected(b + i)' = Expected(b + i)
      BY <2>1, <2>3, <2>4
    <3> QED
      BY <3>1, <1>3, <1>6 DEF MatchInv
  <2> QED
    BY <2>2, <2>4, <2>5, <1>3, <1>4, <1>5, <1>6 DEF MatchInv
<1>14. Reported'
  <2>1. \A i \in 1..b : i \in Ops /\ i # op
    BY <1>3 DEF Ops
  <2>2. \A i \in 1..b : stat'[i] = stat[i] /\ metrics'[i] = metrics[i]
    BY <2>1, <1>2, <1>8
  <2> QED
    BY <2>2, <1>2, <1>6 DEF Reported
<1>15. FlowInv'
  <2>1. pc \in Profiling /\ pc' \in Profiling
    BY <1>1 DEF Profiling
  <2>2. StreamInv' /\ stream' \in Seq(Kernel) /\ launched' \in Nat /\ failed' \in BOOLEAN
    <3>1. StreamInv /\ RecordTypes
      BY DEF FlowInv
    <3>2. stream' = <<>> /\ ~started' /\ ~failed' /\ pc' \notin {"warmed", "cleared", "launched"}
      BY <1>0, <1>2
    <3>3. StreamInv'
      BY <3>2 DEF StreamInv
    <3>4. stream' \in Seq(Kernel) /\ launched' \in Nat /\ failed' \in BOOLEAN
      BY <3>1, <1>0, <1>2 DEF RecordTypes
    <3> QED
      BY <3>3, <3>4
  <2> QED
    BY <2>1, <2>2, <1>0, <1>2, <1>11, RunFlow
<1> QED
  BY <1>9, <1>10, <1>12, <1>13, <1>14, <1>15 DEF CoreInv

(* A warm-up has ended.  Its kernels do not abort.                         *)
LEMMA WarmUpDoneKept == CoreInv /\ FlowInv /\ WarmUpDone => CoreInv' /\ FlowInv'
<1> SUFFICES ASSUME CoreInv, FlowInv, WarmUpDone PROVE CoreInv' /\ FlowInv'
  OBVIOUS
<1>1. stream = <<>> /\ ~started /\ pc = "warmed" /\ ~failed
  BY RunIdle DEF RunNext, WarmUpDone, FlowInv, StreamInv
<1>2. ~Aborted
  BY <1>1 DEF Aborted, Stopping
<1>3. pc' = "frequency" /\ stat' = stat /\ failed' = FALSE
      /\ UNCHANGED <<op, added, times, kernels, metricVars, others, stream, started, launched>>
  BY <1>1 DEF WarmUpDone, ClearError
<1>4. GoesOn
  BY <1>1, <1>2, <1>3 DEF GoesOn, metricVars, others
<1> QED
  BY <1>4, GoesOnKept

(* No warm-up, or no more of it.                                           *)
LEMMA FrequencyKept == CoreInv /\ FlowInv /\ FrequencyReached => CoreInv' /\ FlowInv'
<1> SUFFICES ASSUME CoreInv, FlowInv, FrequencyReached PROVE CoreInv' /\ FlowInv'
  OBVIOUS
<1>1. stream = <<>> /\ ~started /\ pc = "frequency" /\ ~failed
  BY RunIdle DEF RunNext, FrequencyReached, FlowInv, StreamInv
<1>2. ~Aborted
  BY <1>1 DEF Aborted, Stopping
<1>3. pc' = "measure" /\ stat' = stat /\ failed' = failed
      /\ UNCHANGED <<op, added, times, kernels, metricVars, others, stream, started, launched>>
  BY DEF FrequencyReached, streamVars
<1>4. failed' = FALSE
  BY <1>1, <1>3 DEF FlowInv, RecordTypes
<1>5. GoesOn
  BY <1>1, <1>2, <1>3, <1>4 DEF GoesOn, metricVars, others
<1> QED
  BY <1>5, GoesOnKept

(* An execution of the operator has ended.                                 *)
LEMMA OperatorDoneKept == CoreInv /\ FlowInv /\ OperatorDone => CoreInv' /\ FlowInv'
<1> SUFFICES ASSUME CoreInv, FlowInv, OperatorDone PROVE CoreInv' /\ FlowInv'
  OBVIOUS
<1>1. stream = <<>> /\ ~started /\ pc = "launched" /\ pc \in InRunOp
  BY RunIdle DEF RunNext, OperatorDone, InRunOp
<1>2. op \in Ops /\ stat[op] = "none"
  BY <1>1, RunRow
<1>3. stat \in [Ops -> {"none", "success", "fatal", "failed"}]
  BY DEF CoreInv, MainTypes
<1>4. failed' = FALSE
      /\ UNCHANGED <<op, added, times, kernels, metricVars, others, stream, started, launched>>
  BY DEF OperatorDone, ClearError
<1>5. Aborted => failed
  BY <1>1 DEF Aborted, Stopping
<1>6. \/ failed /\ stat' = [stat EXCEPT ![op] = "fatal"] /\ pc' = "update"
      \/ ~failed /\ times = RunTimes /\ stat' = [stat EXCEPT ![op] = "success"] /\ pc' = "update"
      \/ ~failed /\ stat' = stat /\ pc' = "measure"
  BY <1>2, <1>3 DEF OperatorDone
<1>7. GoesOn
  BY <1>1, <1>4, <1>5, <1>6 DEF GoesOn, metricVars, others
<1> QED
  BY <1>7, GoesOnKept
-----------------------------------------------------------------------------
(* UpdateMetrics.                                                          *)

\* What is reported for the first k operators of the queue q.
Times(q, ds, k) == [i \in 1..k |-> TimeOf(q[i], DropFirst(ds, Span(q, i - 1)))]

(* The metrics appended are right.                                         *)
LEMMA TimesReported ==
  ASSUME NEW q \in Seq(Seq(KernelKind)), NEW K \in Seq(Kernel), NEW ds \in Seq(Kernel), NEW k \in 0..Len(q)
  PROVE  metrics \in Seq(Kernel \cup {Zero}) /\ Reported
         /\ Match(Len(metrics), q, K) /\ Len(ds) <= Len(K) /\ (\A x \in 1..Len(ds) : ds[x] = K[x])
         /\ (\A i \in 1..k : Span(q, i - 1) <= Len(ds))
         /\ (\A i \in 1..k : stat[Len(metrics) + i] = "failed" => q[i] = <<>>)
         /\ (\A i \in 1..k : stat[Len(metrics) + i] = "success"
                => Whole(q, K, i, RunTimes) /\ Span(q, i) <= Len(ds))
         /\ metrics' = metrics \o Times(q, ds, k) /\ stat' = stat
         => /\ metrics' \in Seq(Kernel \cup {Zero}) /\ Len(metrics') = Len(metrics) + k
            /\ Reported'
<1>0. HAVE metrics \in Seq(Kernel \cup {Zero}) /\ Reported
         /\ Match(Len(metrics), q, K) /\ Len(ds) <= Len(K) /\ (\A x \in 1..Len(ds) : ds[x] = K[x])
         /\ (\A i \in 1..k : Span(q, i - 1) <= Len(ds))
         /\ (\A i \in 1..k : stat[Len(metrics) + i] = "failed" => q[i] = <<>>)
         /\ (\A i \in 1..k : stat[Len(metrics) + i] = "success"
                => Whole(q, K, i, RunTimes) /\ Span(q, i) <= Len(ds))
         /\ metrics' = metrics \o Times(q, ds, k) /\ stat' = stat
<1> DEFINE b == Len(metrics)
           T == Times(q, ds, k)
           V == Kernel \cup {Zero}
<1>1. b \in Nat /\ metrics \in Seq(V) /\ k \in Nat /\ \A i \in 1..k : i \in 1..Len(q)
  BY <1>0
<1>2. \A i \in 1..k :
          /\ T[i] = Zero \/ (T[i] \in Kernel /\ T[i].op = b + i /\ T[i].kind # "clear")
          /\ q[i] = <<>> => T[i] = Zero
          /\ \A n : Whole(q, K, i, n) /\ Span(q, i) <= Len(ds) => T[i].op = b + i /\ T[i].kind = "op" /\ T[i].n = n
  <2> TAKE i \in 1..k
  <2> DEFINE d == TimeOf(q[i], DropFirst(ds, Span(q, i - 1)))
  <2>1. T[i] = d
    BY DEF Times
  <2>2. i \in 1..Len(q) /\ Match(b, q, K) /\ Len(ds) <= Len(K) /\ Span(q, i - 1) <= Len(ds)
        /\ (\A x \in 1..Len(ds) : ds[x] = K[x])
    BY <1>0, <1>1
  <2>3. /\ d = Zero \/ (d \in Kernel /\ d.op = b + i /\ d.kind # "clear")
        /\ q[i] = <<>> => d = Zero
        /\ \A n : Whole(q, K, i, n) /\ Span(q, i) <= Len(ds) => d.op = b + i /\ d.kind = "op" /\ d.n = n
    <3> HIDE DEF b
    <3> QED
      BY <2>2, <1>1, Attributed
  <2> HIDE DEF d, T
  <2> QED
    BY <2>1, <2>3
<1>3. T \in Seq(V) /\ Len(T) = k
  <2>1. T = [i \in 1..k |-> T[i]]
    BY DEF Times
  <2> HIDE DEF T
  <2>2. \A i \in 1..k : T[i] \in V
    BY <1>2
  <2> HIDE DEF V
  <2>3. T \in [1..k -> V]
    BY <2>1, <2>2, Zenon
  <2> QED
    BY <2>3, <1>1, SeqDef
<1> HIDE DEF T, V
<1>4. /\ metrics' \in Seq(V) /\ Len(metrics') = b + k
      /\ \A i \in 1..b : metrics'[i] = metrics[i]
      /\ \A i \in 1..k : metrics'[b + i] = T[i]
  <2>1. metrics' = metrics \o T
    BY <1>0 DEF T
  <2>2. /\ metrics \o T \in Seq(V) /\ Len(metrics \o T) = Len(metrics) + Len(T)
        /\ \A i \in 1..Len(metrics) : (metrics \o T)[i] = metrics[i]
        /\ \A i \in 1..Len(T) : (metrics \o T)[Len(metrics) + i] = T[i]
    <3>1. metrics \in Seq(V) /\ T \in Seq(V)
      BY <1>1, <1>3
    <3>2. \A x, y \in Seq(V) : /\ x \o y \in Seq(V) /\ Len(x \o y) = Len(x) + Len(y)
                               /\ \A i \in 1..Len(x) : (x \o y)[i] = x[i]
                               /\ \A i \in 1..Len(y) : (x \o y)[Len(x) + i] = y[i]
      BY ConcatParts
    <3> QED
      BY <3>1, <3>2
  <2> QED
    BY <2>1, <2>2, <1>3
<1> HIDE DEF b
<1>5. \A i \in 1..k :
        /\ stat[b + i] = "success" => T[i].op = b + i /\ T[i].kind = "op" /\ T[i].n = RunTimes
        /\ stat[b + i] = "fatal" => T[i] = Zero \/ (T[i].op = b + i /\ T[i].kind # "clear")
        /\ stat[b + i] = "failed" => T[i] = Zero
  BY <1>0, <1>2 DEF b
<1>6. Reported'
  <2> SUFFICES ASSUME NEW j \in 1..Len(metrics')
               PROVE  /\ stat'[j] = "success" => metrics'[j].op = j /\ metrics'[j].kind = "op" /\ metrics'[j].n = RunTimes
                      /\ stat'[j] = "fatal" => metrics'[j] = Zero \/ (metrics'[j].op = j /\ metrics'[j].kind # "clear")
                      /\ stat'[j] = "failed" => metrics'[j] = Zero
    BY DEF Reported
  <2>1. j \in 1..b \/ (j - b \in 1..k /\ j = b + (j - b))
    BY <1>1, <1>4
  <2>2. CASE j \in 1..b
    BY <2>2, <1>0, <1>4 DEF Reported, b
  <2>3. CASE j - b \in 1..k /\ j = b + (j - b)
    <3> DEFINE i == j - b
    <3>1. i \in 1..k /\ j = b + i
      BY <2>3
    <3> HIDE DEF i
    <3>2. metrics'[j] = T[i] /\ stat'[j] = stat[b + i]
      BY <3>1, <1>0, <1>4
    <3> QED
      BY <3>1, <3>2, <1>5
  <2> QED
    BY <2>1, <2>2, <2>3
<1> QED
  BY <1>4, <1>6 DEF b, V

\* What has arrived is reported for the first k operators that wait.
Reports(k) ==
    /\ k \in 0..Len(Awaited) /\ Span(Awaited, k) <= Len(Arrived)
    /\ metrics' = metrics \o Times(Awaited, Arrived, k)
    /\ kernelsQueue' = DropFirst(Awaited, k)
    /\ durations' = DropFirst(Arrived, Span(Awaited, k)) /\ profiled' = <<>>

(* For none of them, when nothing has arrived.                             *)
LEMMA NothingArrived ==
  ASSUME NEW A \in Seq(Seq(KernelKind)), NEW D \in Seq(Kernel)
  PROVE  D = <<>> /\ metrics \in Seq(Kernel \cup {Zero})
         => /\ metrics = metrics \o Times(A, D, 0) /\ A = DropFirst(A, 0) /\ <<>> = DropFirst(D, 0)
            /\ Span(A, 0) = 0 /\ 0 \in 0..Len(A)
<1>1. \A s \in Seq(Kernel \cup {Zero}) : s \o <<>> = s
  BY ConcatEmptySeq
<1>2. Times(A, D, 0) = <<>>
  BY DEF Times
<1>3. DropFirst(A, 0) = A
  <2>1. \A s \in Seq(Seq(KernelKind)) : SubSeq(s, 1, Len(s)) = s
    BY SubSeqFull
  <2> QED
    BY <2>1 DEF DropFirst
<1>4. D = <<>> => DropFirst(D, 0) = <<>>
  <2>1. \A s \in Seq(Kernel) : SubSeq(s, 1, Len(s)) = s
    BY SubSeqFull
  <2> QED
    BY <2>1 DEF DropFirst
<1>5. Span(A, 0) = 0 /\ 0 \in 0..Len(A)
  BY SpanStep
<1> QED
  BY <1>1, <1>2, <1>3, <1>4, <1>5

(* Run reports for those whose kernels have all arrived.                   *)
LEMMA UpdateReports ==
  CoreInv /\ FlowInv /\ Update =>
      \E k \in 0..Len(Awaited) : Reports(k)
<1> SUFFICES ASSUME CoreInv, FlowInv, Update PROVE \E k \in 0..Len(Awaited) : Reports(k)
  OBVIOUS
<1> DEFINE A == Awaited
           D == Arrived
<1>1. pc = "update" /\ pc \in InRunOp
  BY DEF Update, InRunOp
<1>2. A \in Seq(Seq(KernelKind)) /\ A = Append(kernelsQueue, kernels)
  BY <1>1, RunRow DEF Awaited, Row
<1>3. D \in Seq(Kernel) /\ metrics \in Seq(Kernel \cup {Zero})
  BY KernelsTypes DEF CoreInv, FlowInv, MainTypes
<1>4. UpdateMetrics(A, FALSE)
  BY <1>2 DEF Update
<1>5. CASE D = <<>>
  <2>1. profiled' = <<>> /\ kernelsQueue' = A /\ durations' = durations /\ metrics' = metrics
    BY <1>4, <1>5 DEF UpdateMetrics, Arrived
  <2>2. durations = <<>>
    <3>1. \A s, t \in Seq(Kernel) : s \o t = <<>> => s = <<>>
      OBVIOUS
    <3>2. durations \in Seq(Kernel) /\ profiled \in Seq(Kernel)
      BY DEF CoreInv, FlowInv, MainTypes, RecordTypes
    <3> QED
      BY <3>1, <3>2, <1>5 DEF Arrived
  <2> HIDE DEF A, D
  <2>3. Span(A, 0) <= Len(D)
    <3>1. Len(D) = 0 /\ Span(A, 0) = 0
      BY <1>2, <1>5, SpanStep
    <3> QED
      BY <3>1
  <2>4. /\ metrics = metrics \o Times(A, D, 0) /\ A = DropFirst(A, 0) /\ <<>> = DropFirst(D, Span(A, 0))
        /\ 0 \in 0..Len(A)
    BY <1>2, <1>3, <1>5, NothingArrived
  <2>5. Reports(0)
    BY <2>1, <2>2, <2>3, <2>4, Zenon DEF Reports, A, D
  <2> QED
    BY <2>4, <2>5 DEF A
<1>6. CASE D # <<>>
  <2> DEFINE k == Ready(A, D)
  <2>1. k \in 0..Len(A) /\ Span(A, k) <= Len(D)
    BY <1>2, <1>3, ReadyStops
  <2>2. /\ profiled' = <<>> /\ metrics' = metrics \o Times(A, D, k)
        /\ kernelsQueue' = DropFirst(A, k) /\ durations' = DropFirst(D, Span(A, k))
    BY <1>4, <1>6 DEF UpdateMetrics, Arrived, Times
  <2> HIDE DEF k
  <2>3. Reports(k)
    BY <2>1, <2>2 DEF Reports
  <2> QED
    BY <2>1, <2>3
<1> QED
  BY <1>5, <1>6

(* What has arrived, the first kernels of all.                             *)
LEMMA ArrivedFirst ==
  MainTypes /\ RecordTypes /\ stream = <<>> =>
      /\ Arrived \in Seq(Kernel) /\ Ended \in Seq(Kernel) /\ Kernels = Arrived \o Ended
      /\ Kernels \in Seq(Kernel) /\ Len(Arrived) \in Nat /\ Len(Kernels) \in Nat /\ Len(Arrived) <= Len(Kernels)
      /\ \A x \in 1..Len(Arrived) : Arrived[x] = Kernels[x]
      /\ Ended = <<>> => Kernels = Arrived
<1> SUFFICES ASSUME MainTypes, RecordTypes, stream = <<>>
             PROVE  /\ Arrived \in Seq(Kernel) /\ Ended \in Seq(Kernel) /\ Kernels = Arrived \o Ended
                    /\ Kernels \in Seq(Kernel) /\ Len(Arrived) \in Nat /\ Len(Kernels) \in Nat /\ Len(Arrived) <= Len(Kernels)
                    /\ \A x \in 1..Len(Arrived) : Arrived[x] = Kernels[x]
                    /\ Ended = <<>> => Kernels = Arrived
  OBVIOUS
<1> DEFINE a == Arrived
           e == Ended
           K == Kernels
<1>1. a \in Seq(Kernel) /\ e \in Seq(Kernel) /\ K \in Seq(Kernel)
  BY KernelsTypes, PendingTypes
<1>2. K = a \o e
  <2>1. K = (a \o e) \o <<>> /\ a \o e \in Seq(Kernel)
    BY KernelsTypes
  <2> HIDE DEF a, e, K
  <2> QED
    BY <2>1, ConcatEmptySeq
<1> HIDE DEF a, e, K
<1>3. \A s, t \in Seq(Kernel) : /\ Len(s) \in Nat /\ Len(s \o t) \in Nat /\ Len(s) <= Len(s \o t)
                                /\ \A x \in 1..Len(s) : s[x] = (s \o t)[x]
  OBVIOUS
<1>4. e = <<>> => K = a
  BY <1>1, <1>2, ConcatEmptySeq
<1>5. /\ Len(a) \in Nat /\ Len(a \o e) \in Nat /\ Len(a) <= Len(a \o e)
      /\ \A x \in 1..Len(a) : a[x] = (a \o e)[x]
  BY <1>1, <1>3, Zenon
<1> QED
  BY <1>1, <1>2, <1>4, <1>5 DEF a, e, K

(* The first of the kernels are taken away.                                *)
LEMMA KernelsReported ==
  ASSUME NEW p \in 0..Len(Arrived)
  PROVE  MainTypes /\ RecordTypes /\ stream = <<>> /\ stream' = <<>> /\ Ended' = Ended
         /\ durations' = DropFirst(Arrived, p) /\ profiled' = <<>>
         => Kernels' = DropFirst(Kernels, p) /\ durations' \in Seq(Kernel) /\ profiled' \in Seq(Kernel)
<1>0. HAVE MainTypes /\ RecordTypes /\ stream = <<>> /\ stream' = <<>> /\ Ended' = Ended
         /\ durations' = DropFirst(Arrived, p) /\ profiled' = <<>>
<1> DEFINE a == Arrived
           e == Ended
           K == Kernels
           d == DropFirst(a, p)
<1>1. a \in Seq(Kernel) /\ e \in Seq(Kernel) /\ K = a \o e /\ K \in Seq(Kernel) /\ Len(a) \in Nat
      /\ Len(a) <= Len(K)
  BY <1>0, ArrivedFirst
<1>2. p \in 0..Len(a) /\ p \in 0..Len(K)
  BY <1>1
<1>3. Kernels' = ((d \o <<>>) \o e) \o <<>>
  BY <1>0 DEF Kernels
<1>4. durations' = d /\ profiled' = <<>>
  BY <1>0
<1> HIDE DEF a, e, K, d
<1>5. /\ d \in Seq(Kernel) /\ d \o e \in Seq(Kernel) /\ Len(d \o e) = Len(K) - p
      /\ \A i \in 1..(Len(K) - p) : (d \o e)[i] = K[p + i]
  <2>1. a \in Seq(Kernel) /\ e \in Seq(Kernel) /\ p \in 0..Len(a)
    BY <1>1, <1>2
  <2>2. /\ DropFirst(a, p) \in Seq(Kernel) /\ DropFirst(a, p) \o e \in Seq(Kernel)
        /\ Len(DropFirst(a, p) \o e) = Len(a \o e) - p
        /\ \A i \in 1..(Len(a \o e) - p) : (DropFirst(a, p) \o e)[i] = (a \o e)[p + i]
    BY <2>1, DroppedConcat
  <2>3. K = a \o e
    BY <1>1
  <2> QED
    BY <2>2, <2>3, Zenon DEF d
<1>6. d \o <<>> = d /\ (d \o e) \o <<>> = d \o e
  BY <1>5, ConcatEmptySeq
<1>7. d \o e = DropFirst(K, p)
  <2> DEFINE x == DropFirst(K, p)
             y == d \o e
  <2>1. x \in Seq(Kernel) /\ Len(x) = Len(K) - p /\ \A i \in 1..(Len(K) - p) : x[i] = K[p + i]
    BY <1>1, <1>2, Dropped
  <2>2. y \in Seq(Kernel) /\ Len(y) = Len(x) /\ \A i \in 1..Len(y) : y[i] = x[i]
    BY <2>1, <1>5
  <2> HIDE DEF x, y
  <2>3. y = x
    BY <2>1, <2>2, SeqEqual
  <2> QED
    BY <2>3 DEF x, y
<1>8. Kernels' = DropFirst(K, p)
  BY <1>3, <1>6, <1>7
<1>9. <<>> \in Seq(Kernel)
  BY EmptySeq
<1> QED
  BY <1>4, <1>5, <1>8, <1>9 DEF K

(* Run reports for the first operators of the queue.                       *)
LEMMA UpdateKept == CoreInv /\ FlowInv /\ Update => CoreInv' /\ FlowInv'
<1> SUFFICES ASSUME CoreInv, FlowInv, Update PROVE CoreInv' /\ FlowInv'
  OBVIOUS
<1> DEFINE A == Awaited
           D == Arrived
           K == Kernels
           m == Len(Awaited)
           b == Len(metrics)
<1>1. /\ stream = <<>> /\ ~started /\ pc = "update" /\ pc' = IF stat[op] = "fatal" THEN "synchronize" ELSE "next"
      /\ op' = op /\ added' = added /\ stat' = stat /\ times' = times /\ kernels' = kernels
      /\ stream' = stream /\ started' = started /\ failed' = failed /\ launched' = launched
      /\ channel' = channel /\ open' = open /\ reader' = reader /\ batch' = batch /\ queue' = queue
      /\ parser' = parser /\ starts' = starts /\ ends' = ends
  BY RunIdle DEF RunNext, Update, streamVars, readerVars, parserVars
<1>2. PICK k \in 0..m : Reports(k)
  BY UpdateReports
<1> DEFINE p == Span(Awaited, k)
           B == DropFirst(Awaited, k)
           L == DropFirst(Kernels, p)
<1>3. /\ p <= Len(D) /\ metrics' = metrics \o Times(A, D, k) /\ kernelsQueue' = B
      /\ durations' = DropFirst(D, p) /\ profiled' = <<>>
  BY <1>2 DEF Reports
<1>4. /\ A \in Seq(Seq(KernelKind)) /\ b \in Nat /\ m \in Nat /\ op \in Ops /\ op \in Nat
      /\ b + m = op /\ Len(added) = op
  <2>1. pc \in InRunOp
    BY <1>1 DEF InRunOp
  <2>2. /\ A \in Seq(Seq(KernelKind)) /\ b \in Nat /\ Len(kernelsQueue) \in Nat /\ op \in Ops /\ op \in Nat
        /\ m = Len(kernelsQueue) + 1 /\ b + (Len(kernelsQueue) + 1) = op /\ Len(added) = op
    BY <2>1, RunRow
  <2> HIDE DEF A, m, b
  <2> QED
    BY <2>2
<1>5. /\ MainTypes /\ OrderInv /\ CountInv /\ MatchInv /\ Reported
      /\ RecordTypes /\ StreamInv /\ PairInv /\ SessionInv
      /\ metrics \in Seq(Kernel \cup {Zero}) /\ ~failed
  BY <1>1 DEF CoreInv, FlowInv, MainTypes, StreamInv
<1>6. /\ D \in Seq(Kernel) /\ K \in Seq(Kernel) /\ Len(D) \in Nat /\ Len(K) \in Nat /\ Len(D) <= Len(K)
      /\ \A x \in 1..Len(D) : D[x] = K[x]
  BY <1>1, <1>5, ArrivedFirst
<1>7. Awaited' = B
  BY <1>1, <1>3 DEF Awaited, InRunOp
<1>8. Started' = Started /\ Ended' = Ended
  BY <1>1 DEF Started, Ended, Pending
<1>9. /\ B \in Seq(Seq(KernelKind)) /\ Len(B) = m - k
      /\ \A i \in 1..(m - k) : B[i] = A[k + i]
      /\ \A i \in 0..(m - k) : Span(B, i) = Span(A, k + i) - p
      /\ p \in Nat
  BY <1>4, RowsDropped
<1>10. p \in 0..Len(Arrived) /\ p \in 0..Len(K) /\ p <= Len(K)
  BY <1>3, <1>6, <1>9
<1>11. Kernels' = L /\ durations' \in Seq(Kernel) /\ profiled' \in Seq(Kernel)
  BY <1>1, <1>3, <1>5, <1>8, <1>10, KernelsReported
<1>12. Match(b, A, K)
       /\ (\A i \in 1..m : stat[b + i] = "failed" => A[i] = <<>>)
       /\ (\A i \in 1..m : Expected(b + i) # 0 => Whole(A, K, i, Expected(b + i)))
  BY <1>5 DEF MatchInv
<1>13. \A i \in 1..k : i \in 1..m /\ Span(A, i - 1) <= Len(D) /\ Span(A, i) <= Len(D)
  <2> TAKE i \in 1..k
  <2>1. i \in 1..m /\ i - 1 \in 0..m /\ i \in 0..m /\ k \in i..m /\ k \in (i - 1)..m
    BY <1>4
  <2>2. Span(A, i - 1) <= p /\ Span(A, i) <= p /\ Span(A, i - 1) \in Nat /\ Span(A, i) \in Nat
    <3> HIDE DEF A
    <3>1. Span(A, i - 1) <= Span(A, k) /\ Span(A, i) <= Span(A, k)
      BY <2>1, <1>4, SpanMonotone DEF A
    <3> QED
      BY <2>1, <3>1, <1>4, SpanStep DEF A
  <2> HIDE DEF p, A, D
  <2> QED
    BY <2>1, <2>2, <1>3, <1>6, <1>9
<1>14. metrics' \in Seq(Kernel \cup {Zero}) /\ Len(metrics') = b + k /\ Reported'
  <2>1. \A i \in 1..k : stat[b + i] = "failed" => A[i] = <<>>
    BY <1>12, <1>13
  <2>2. \A i \in 1..k : stat[b + i] = "success" => Whole(A, K, i, RunTimes) /\ Span(A, i) <= Len(D)
    <3> SUFFICES ASSUME NEW i \in 1..k, stat[b + i] = "success"
                 PROVE  Whole(A, K, i, RunTimes) /\ Span(A, i) <= Len(D)
      OBVIOUS
    <3>1. Expected(b + i) = RunTimes /\ RunTimes # 0
      BY RunTimesAssumption DEF Expected
    <3> QED
      BY <3>1, <1>12, <1>13
  <2>3. /\ A \in Seq(Seq(KernelKind)) /\ K \in Seq(Kernel) /\ D \in Seq(Kernel) /\ k \in 0..Len(A)
        /\ metrics \in Seq(Kernel \cup {Zero}) /\ Reported /\ Match(Len(metrics), A, K) /\ Len(D) <= Len(K)
        /\ \A x \in 1..Len(D) : D[x] = K[x]
        /\ metrics' = metrics \o Times(A, D, k) /\ stat' = stat
    BY <1>1, <1>2, <1>3, <1>4, <1>5, <1>6, <1>12
  <2>4. \A i \in 1..k : Span(A, i - 1) <= Len(D)
    BY <1>13
  <2> HIDE DEF A, K, D
  <2> QED
    BY <2>1, <2>2, <2>3, <2>4, TimesReported
<1>15. Match(b + k, B, L)
       /\ (\A i \in 1..(m - k) : \A n : Whole(A, K, k + i, n) => Whole(B, L, i, n))
  BY <1>4, <1>6, <1>10, <1>12, DroppedRows
<1>16. pc' \notin InRunOp /\ pc' \in {"next", "synchronize"} /\ pc' \in Profiling /\ pc \in Profiling
  BY <1>1 DEF InRunOp, Profiling
<1>17. Aborted => Aborted'
  BY <1>1 DEF Aborted, Stopping
<1>18. Len(L) = Len(K) - p
  BY <1>6, <1>10, Dropped
<1> HIDE DEF A, D, K, m, b, p, B, L
<1>19. MainTypes'
  <2>1. kernelsQueue' \in Seq(Seq(KernelKind))
    BY <1>3, <1>9
  <2> QED
    BY <2>1, <1>1, <1>5, <1>11, <1>14, <1>16 DEF MainTypes
<1>20. OrderInv'
  <2>1. Len(metrics') + Len(Awaited') = Len(added')
    BY <1>1, <1>2, <1>4, <1>7, <1>9, <1>14
  <2>2. op <= Len(Pool)
    BY <1>4, PoolAssumption DEF Ops
  <2>3. \A o \in Ops : stat'[o] = "none" <=> o > op' \/ (o = op' /\ pc' \in InRunOp \ {"update"})
    BY <1>1, <1>5, <1>16 DEF OrderInv
  <2> QED
    BY <2>1, <2>2, <2>3, <1>1, <1>4, <1>5 DEF OrderInv
<1>21. CountInv'
  <2>1. Span(Awaited', Len(Awaited')) = Span(A, m) - p /\ Span(A, m) \in Nat
    <3>1. m - k \in 0..(m - k) /\ k + (m - k) = m /\ m \in 0..m
      BY <1>2, <1>4
    <3>2. Span(A, m) \in Nat
      BY <3>1, <1>4, SpanStep DEF m, A
    <3> QED
      BY <3>1, <3>2, <1>7, <1>9
  <2>2. Len(Kernels') = Len(K) - p
    BY <1>11, <1>18
  <2>3. CASE Len(K) = Span(A, m)
    BY <2>1, <2>2, <2>3, <1>16 DEF CountInv
  <2>4. CASE Aborted /\ A # <<>> /\ Len(A[m]) >= 2 /\ Len(K) + 1 = Span(A, m)
    <3>1. k # m
      <4>1. p <= Len(K) /\ ~(Span(A, m) <= Len(K))
        BY <2>4, <1>6, <1>10
      <4> QED
        BY <4>1 DEF p, A, m
    <3>2. m - k \in 1..(m - k) /\ k + (m - k) = m /\ Len(B) # 0
      BY <3>1, <1>2, <1>4, <1>9
    <3>3. B # <<>> /\ B[m - k] = A[m]
      BY <3>2, <1>9
    <3>4. Len(Kernels') + 1 = Span(Awaited', Len(Awaited'))
      BY <2>1, <2>2, <2>4, <1>6, <1>9
    <3> QED
      BY <3>3, <3>4, <2>4, <1>7, <1>9, <1>16, <1>17 DEF CountInv
  <2> QED
    BY <2>3, <2>4, <1>5 DEF CountInv, K, A, m
<1>22. MatchInv'
  <2>1. \A i \in 1..(m - k) : k + i \in 1..m /\ b + k + i = b + (k + i)
    BY <1>2, <1>4
  <2>2. \A i \in 1..(m - k) : stat[b + k + i] = "failed" => B[i] = <<>>
    BY <2>1, <1>9, <1>12
  <2>3. \A o : Expected(o)' # 0 => Expected(o)' = Expected(o)
    BY <1>1 DEF Expected
  <2>4. \A i \in 1..(m - k) : \A o : o = b + k + i /\ Expected(o)' # 0 => Whole(B, L, i, Expected(o)')
    <3> SUFFICES ASSUME NEW i \in 1..(m - k), NEW o, o = b + k + i, Expected(o)' # 0
                 PROVE  Whole(B, L, i, Expected(o)')
      OBVIOUS
    <3>1. Expected(o)' = Expected(o) /\ k + i \in 1..m /\ o = b + (k + i)
      BY <2>1, <2>3
    <3> QED
      BY <3>1, <1>12, <1>15
  <2> QED
    BY <2>2, <2>4, <1>1, <1>7, <1>9, <1>11, <1>14, <1>15 DEF MatchInv
<1>23. FlowInv'
  <2>1. RecordTypes'
    BY <1>1, <1>5, <1>11 DEF RecordTypes
  <2>2. StreamInv'
    BY <1>1, <1>5, <1>16 DEF StreamInv
  <2>3. PairInv'
    BY <1>1, <1>5, <1>8, <1>16, <1>17 DEF PairInv
  <2>4. SessionInv'
    <3>1. parser # "none" /\ open
      BY <1>5, <1>16 DEF SessionInv
    <3> QED
      BY <3>1, <1>1, <1>5, <1>16 DEF SessionInv
  <2> QED
    BY <2>1, <2>2, <2>3, <2>4 DEF FlowInv
<1> QED
  BY <1>14, <1>19, <1>20, <1>21, <1>22, <1>23 DEF CoreInv
-----------------------------------------------------------------------------
(* Stopping and restarting profiling.                                      *)

\* The main thread goes on between two operators: to what, op says.
Moves ==
    /\ pc \notin InRunOp /\ pc' \in ({"done", "next", "synchronize"} \cup Stopping) \cup Restarting
    /\ added' = added /\ stat' = stat /\ times' = times /\ kernels' = kernels
    /\ op' = op \/ (op = Len(Pool) /\ op' = op + 1)
    /\ pc' \in Restarting => op' \in Ops
    /\ pc' = "next" => op' <= Len(Pool)

(* The operators and their metrics do not change with it.                  *)
LEMMA MovesKept ==
  CoreInv /\ Moves /\ UNCHANGED metricVars /\ Kernels' = Kernels
  /\ (Aborted => Aborted' \/ Len(Kernels) = Span(Awaited, Len(Awaited)))
  => CoreInv'
<1> SUFFICES ASSUME CoreInv, Moves, UNCHANGED metricVars, Kernels' = Kernels,
                    Aborted => Aborted' \/ Len(Kernels) = Span(Awaited, Len(Awaited))
             PROVE  CoreInv'
  OBVIOUS
<1>1. /\ added' = added /\ stat' = stat /\ times' = times /\ kernels' = kernels
      /\ kernelsQueue' = kernelsQueue /\ durations' = durations /\ metrics' = metrics
      /\ op' = op \/ (op = Len(Pool) /\ op' = op + 1)
      /\ pc' \in Restarting => op' \in Ops
      /\ pc' = "next" => op' <= Len(Pool)
  BY DEF Moves, metricVars
<1>2. pc \notin InRunOp /\ pc' \notin InRunOp /\ pc' \in (({"done"} \cup Profiling) \cup Stopping) \cup Restarting
      /\ pc' # "launched"
  BY DEF Moves, InRunOp, Stopping, Restarting, Profiling
<1>3. MainTypes /\ OrderInv /\ CountInv /\ MatchInv /\ Reported
  BY DEF CoreInv
<1>4. Awaited' = Awaited
  BY <1>1, <1>2 DEF Awaited
<1>5. op \in Nat /\ Len(Pool) \in Nat
  BY <1>3, PoolAssumption DEF MainTypes
<1>6. MainTypes'
  BY <1>1, <1>2, <1>3, <1>5 DEF MainTypes
<1>7. OrderInv'
  <2>1. /\ \A i \in 1..Len(added') : added'[i] = i
        /\ Len(metrics') + Len(Awaited') = Len(added')
    BY <1>1, <1>3, <1>4 DEF OrderInv
  <2>2. /\ op' \in 0..(Len(Pool) + 1)
        /\ Len(added') = IF op' <= Len(Pool) THEN op' ELSE Len(Pool)
    BY <1>1, <1>3, <1>5 DEF OrderInv
  <2>3. \A o \in Ops : stat'[o] = "none" <=> o > op' \/ (o = op' /\ pc' \in InRunOp \ {"update"})
    <3>1. \A o \in Ops : o > op' <=> o > op
      BY <1>1, <1>5 DEF Ops
    <3> QED
      BY <3>1, <1>1, <1>2, <1>3 DEF OrderInv
  <2> QED
    BY <2>1, <2>2, <2>3, <1>1, <1>2 DEF OrderInv
<1>8. CountInv'
  BY <1>2, <1>3, <1>4 DEF CountInv
<1>9. MatchInv'
  <2>1. \A o : Expected(o)' # 0 => Expected(o)' = Expected(o)
    BY <1>1, <1>2 DEF Expected
  <2>2. \A i \in 1..Len(Awaited) : \A o : o = Len(metrics) + i /\ Expected(o)' # 0
            => Whole(Awaited, Kernels, i, Expected(o)')
    BY <2>1, <1>3 DEF MatchInv
  <2> QED
    BY <2>2, <1>1, <1>3, <1>4 DEF MatchInv
<1>10. Reported'
  BY <1>1, <1>3 DEF Reported
<1> QED
  BY <1>6, <1>7, <1>8, <1>9, <1>10 DEF CoreInv

(* An operator that aborted is still the one at hand while profiling is stopped. *)
LEMMA AbortedKept ==
  Moves /\ op' = op /\ pc \in {"synchronize"} \cup Stopping /\ pc' \in Stopping => (Aborted => Aborted')
  BY DEF Moves, Aborted, Stopping

(* The steps between two operators that leave the records alone.           *)
LEMMA StoppingKept ==
  ThreadInv /\ CoreInv /\ FlowInv
  /\ (AfterLastOperator \/ CloseChannel \/ StopReader \/ JoinReader \/ Finish \/ NotifyParser)
  => CoreInv' /\ FlowInv'
<1> SUFFICES ASSUME ThreadInv, CoreInv, FlowInv,
                    AfterLastOperator \/ CloseChannel \/ StopReader \/ JoinReader \/ Finish \/ NotifyParser
             PROVE  CoreInv' /\ FlowInv'
  OBVIOUS
<1>1. /\ UNCHANGED metricVars
      /\ added' = added /\ stat' = stat /\ times' = times /\ kernels' = kernels
      /\ profiled' = profiled /\ stream' = stream /\ started' = started /\ failed' = failed /\ launched' = launched
      /\ channel' = channel /\ batch' = batch /\ queue' = queue /\ starts' = starts /\ ends' = ends
      /\ durations' = durations
  BY DEF AfterLastOperator, CloseChannel, StopReader, JoinReader, Finish, NotifyParser, device, rest, streamVars,
         metricVars, readerVars, parserVars
<1>2. \/ pc = "next" /\ op + 1 \notin Ops /\ op' = op + 1 /\ pc' = "synchronize" /\ open' = open
      \/ pc \in {"synchronize"} \cup Stopping /\ pc' \in Stopping /\ op' = op
  BY DEF AfterLastOperator, CloseChannel, StopReader, JoinReader, Finish, NotifyParser, rest, Stopping
<1>3. /\ parser' = parser \/ (parser = "blocked" /\ parser' = "test")
      /\ reader' = reader \/ (reader = "exited" /\ reader' = "none")
  BY DEF AfterLastOperator, CloseChannel, StopReader, JoinReader, Finish, NotifyParser, Notify, readerVars, parserVars
<1>4. /\ MainTypes /\ OrderInv /\ RecordTypes /\ StreamInv /\ PairInv /\ SessionInv
      /\ op \in Nat /\ Len(Pool) \in Nat
  BY PoolAssumption DEF CoreInv, FlowInv, MainTypes
<1>5. Moves
  <2>1. op' = op \/ (op = Len(Pool) /\ op' = op + 1)
    <3>1. pc = "next" /\ op + 1 \notin Ops => op = Len(Pool)
      BY <1>4 DEF OrderInv, Ops
    <3> QED
      BY <3>1, <1>2
  <2>2. pc \notin InRunOp /\ pc' \in {"synchronize"} \cup Stopping
    BY <1>2 DEF InRunOp, Stopping
  <2>3. pc' \notin Restarting /\ pc' # "next"
    BY <2>2 DEF Restarting, Stopping
  <2> QED
    BY <2>1, <2>2, <2>3, <1>1 DEF Moves
<1>6. Aborted => Aborted'
  <2>1. pc = "next" => ~Aborted
    BY DEF Aborted, Stopping
  <2> QED
    BY <2>1, <1>2, <1>5, AbortedKept
<1>7. Started' = Started /\ Ended' = Ended
  BY <1>1 DEF Started, Ended, Pending
<1>8. Kernels' = Kernels
  BY <1>1, <1>7 DEF Kernels
<1>9. CoreInv'
  BY <1>1, <1>5, <1>6, <1>8, MovesKept
<1>10. pc \in Profiling \cup Stopping /\ pc' \in {"synchronize"} \cup Stopping
       /\ pc' \notin {"warmed", "cleared", "launched"} /\ pc \notin {"warmed", "cleared", "launched"}
       /\ pc' \in Profiling \cup Stopping
  BY <1>2 DEF Profiling, Stopping
<1>11. RecordTypes'
  BY <1>1, <1>4 DEF RecordTypes
<1>12. StreamInv'
  BY <1>1, <1>4, <1>10 DEF StreamInv
<1>13. PairInv'
  BY <1>1, <1>4, <1>6, <1>7, <1>10 DEF PairInv
<1>14. SessionInv'
  <2>1. parser # "none" /\ parser' # "none" /\ (parser' = "exited" => parser = "exited")
    BY <1>3, <1>4, <1>10 DEF SessionInv
  <2>2. pc' \in Profiling \cup {"createReader", "createParser"} => open'
    BY <1>2, <1>4 DEF SessionInv, Profiling, InRunOp, Stopping
  <2>3. reader' # "callback" => batch' = <<>>
    BY <1>1, <1>3, <1>4 DEF SessionInv
  <2> QED
    BY <2>1, <2>2, <2>3, <1>1, <1>4, <1>10 DEF SessionInv
<1> QED
  BY <1>9, <1>11, <1>12, <1>13, <1>14 DEF FlowInv

(* Nothing is on its way when there are no records.                        *)
LEMMA NonePending ==
  queue = <<>> /\ batch = <<>> /\ channel = <<>> => Pending = <<>> /\ Started = starts \o <<>> /\ Ended = ends \o <<>>
<1>1. <<>> \o (<<>> \o <<>>) = <<>>
  <2>1. <<>> \in Seq(Record)
    BY EmptySeq
  <2>2. <<>> \o <<>> = <<>>
    BY <2>1, ConcatEmptySeq
  <2> QED
    BY <2>2
<1> QED
  BY <1>1, KernelsOfNone DEF Pending, Started, Ended

(* Without kernels every row is empty.                                     *)
LEMMA RowsEmpty ==
  ASSUME NEW A \in Seq(Seq(KernelKind)), NEW i \in 1..Len(A)
  PROVE  Span(A, i) \in Nat /\ Span(A, i - 1) \in Nat /\ Span(A, i) = Span(A, i - 1) + Len(A[i]) /\ Len(A[i]) \in Nat
         /\ A[i] \in Seq(KernelKind) /\ (A[i] # <<>> => Len(A[i]) >= 1)
<1>1. i \in 0..Len(A) /\ i - 1 \in 0..Len(A) /\ A[i] \in Seq(KernelKind) /\ Len(A[i]) \in Nat
  OBVIOUS
<1>2. A[i] # <<>> => Len(A[i]) >= 1
  BY <1>1
<1> QED
  BY <1>1, <1>2, SpanStep

(* What the parser has left behind when it is joined.                      *)
LEMMA ParserLeft ==
  CoreInv /\ FlowInv /\ JoinParser =>
      /\ parser = "exited" /\ queue = <<>> /\ batch = <<>> /\ channel = <<>> /\ ends = <<>> /\ stream = <<>>
      /\ Ended = <<>> /\ Kernels = Arrived /\ Arrived \in Seq(Kernel)
<1> SUFFICES ASSUME CoreInv, FlowInv, JoinParser
             PROVE  /\ parser = "exited" /\ queue = <<>> /\ batch = <<>> /\ channel = <<>> /\ ends = <<>> /\ stream = <<>>
                    /\ Ended = <<>> /\ Kernels = Arrived /\ Arrived \in Seq(Kernel)
  OBVIOUS
<1>1. pc = "joinParser" /\ parser \in {"exited", "none"} /\ pc \in Profiling \cup Stopping
  BY DEF JoinParser, Stopping
<1>2. parser = "exited" /\ queue = <<>> /\ batch = <<>> /\ channel = <<>> /\ ends = <<>>
  BY <1>1 DEF FlowInv, SessionInv
<1>3. stream = <<>>
  BY <1>1 DEF FlowInv, StreamInv
<1>4. Ended = <<>>
  <2>1. <<>> \in Seq(Kernel)
    BY EmptySeq
  <2>2. Ended = <<>> \o <<>>
    BY <1>2, NonePending
  <2> QED
    BY <2>1, <2>2, ConcatEmptySeq
<1>5. Kernels = Arrived /\ Arrived \in Seq(Kernel)
  BY <1>3, <1>4, ArrivedFirst DEF CoreInv, FlowInv
<1> QED
  BY <1>2, <1>3, <1>4, <1>5

(* The spans of all rows but the last that lost a kernel.                  *)
LEMMA SpansArrived ==
  CoreInv /\ Awaited \in Seq(Seq(KernelKind)) /\ Kernels \in Seq(Kernel) =>
      /\ \A i \in 1..Len(Awaited) : Span(Awaited, i - 1) <= Len(Kernels)
      /\ Kernels = <<>> => Len(Kernels) = Span(Awaited, Len(Awaited))
<1> SUFFICES ASSUME CoreInv, Awaited \in Seq(Seq(KernelKind)), Kernels \in Seq(Kernel)
             PROVE  /\ \A i \in 1..Len(Awaited) : Span(Awaited, i - 1) <= Len(Kernels)
                    /\ Kernels = <<>> => Len(Kernels) = Span(Awaited, Len(Awaited))
  OBVIOUS
<1> DEFINE A == Awaited
           K == Kernels
           m == Len(A)
<1>1. A \in Seq(Seq(KernelKind)) /\ K \in Seq(Kernel) /\ Len(K) \in Nat /\ m \in Nat
  OBVIOUS
<1>2. \/ Len(K) = Span(A, m)
      \/ A # <<>> /\ Len(A[m]) >= 2 /\ Len(K) + 1 = Span(A, m)
  BY DEF CoreInv, CountInv
<1> HIDE DEF A, K
<1>3. \A i \in 1..m : Span(A, i - 1) <= Span(A, m - 1) /\ Span(A, i - 1) \in Nat /\ Span(A, m - 1) \in Nat
                      /\ Span(A, m) = Span(A, m - 1) + Len(A[m]) /\ Len(A[m]) \in Nat
  <2> TAKE i \in 1..m
  <2>1. m \in 1..m /\ i - 1 \in 0..m /\ m - 1 \in (i - 1)..m /\ m - 1 \in 0..m
    BY <1>1
  <2>2. Span(A, i - 1) <= Span(A, m - 1)
    BY <2>1, <1>1, SpanMonotone
  <2>3. Span(A, i - 1) \in Nat
    BY <1>1, RowsEmpty
  <2>4. Span(A, m - 1) \in Nat /\ Span(A, m) = Span(A, m - 1) + Len(A[m]) /\ Len(A[m]) \in Nat
    BY <2>1, <1>1, RowsEmpty
  <2> QED
    BY <2>2, <2>3, <2>4
<1>4. \A i \in 1..m : Span(A, i - 1) <= Len(K)
  <2> TAKE i \in 1..m
  <2> DEFINE x == Span(A, i - 1)
             y == Span(A, m - 1)
             z == Len(A[m])
             s == Span(A, m)
             c == Len(K)
  <2>1. x <= y /\ x \in Nat /\ y \in Nat /\ s = y + z /\ z \in Nat /\ c \in Nat
        /\ (c = s \/ (z >= 2 /\ c + 1 = s))
    BY <1>1, <1>2, <1>3
  <2> HIDE DEF x, y, z, s, c
  <2>2. x <= c
    BY <2>1
  <2> QED
    BY <2>2 DEF x, c
<1>5. K = <<>> => Len(K) = Span(A, m)
  <2> SUFFICES ASSUME K = <<>>, A # <<>>, Len(A[m]) >= 2, Len(K) + 1 = Span(A, m) PROVE FALSE
    BY <1>2
  <2>1. m \in 1..m
    <3>1. m # 0
      BY <1>1
    <3> QED
      BY <3>1, <1>1
  <2>2. Len(K) = 0 /\ Span(A, m) = Span(A, m - 1) + Len(A[m]) /\ Span(A, m - 1) \in Nat /\ Len(A[m]) \in Nat
    BY <2>1, <1>3
  <2> QED
    BY <2>2
<1> QED
  BY <1>4, <1>5 DEF A, K

(* All that wait are reported when the parser is joined.                   *)
LEMMA JoinCore == CoreInv /\ FlowInv /\ JoinParser => CoreInv'
<1> SUFFICES ASSUME CoreInv, FlowInv, JoinParser PROVE CoreInv'
  OBVIOUS
<1> DEFINE A == Awaited
           D == Arrived
           m == Len(Awaited)
           b == Len(metrics)
<1>1. /\ parser = "exited" /\ queue = <<>> /\ batch = <<>> /\ channel = <<>> /\ ends = <<>> /\ stream = <<>>
      /\ Ended = <<>> /\ Kernels = D /\ D \in Seq(Kernel)
  BY ParserLeft
<1>2. /\ pc = "joinParser" /\ pc' = IF op \in Ops THEN "restart" ELSE "done"
      /\ op' = op /\ added' = added /\ stat' = stat /\ times' = times /\ kernels' = kernels
      /\ stream' = stream /\ channel' = channel /\ batch' = batch /\ queue' = queue /\ ends' = ends
  BY DEF JoinParser, rest, streamVars, readerVars
<1>3. pc \notin InRunOp /\ pc' \notin InRunOp /\ pc' \in {"done", "restart"}
  BY <1>2 DEF InRunOp
<1>4. A = kernelsQueue /\ Awaited' = kernelsQueue'
  BY <1>3 DEF Awaited
<1>5. /\ MainTypes /\ OrderInv /\ CountInv /\ MatchInv /\ Reported
      /\ A \in Seq(Seq(KernelKind)) /\ b \in Nat /\ m \in Nat /\ metrics \in Seq(Kernel \cup {Zero})
  BY <1>4 DEF CoreInv, MainTypes
<1>6. UpdateMetrics(A, TRUE)
  BY <1>4 DEF JoinParser
<1>7. Ended' = Ended
  BY <1>2 DEF Ended, Pending
<1>8. Moves
  BY <1>2, <1>3 DEF Moves, Restarting
<1>9. CASE D = <<>>
  <2>1. profiled' = <<>> /\ kernelsQueue' = A /\ durations' = durations /\ metrics' = metrics
    BY <1>6, <1>9 DEF UpdateMetrics, Arrived
  <2>2. profiled = <<>>
    <3>1. \A s, t \in Seq(Kernel) : s \o t = <<>> => t = <<>>
      OBVIOUS
    <3>2. durations \in Seq(Kernel) /\ profiled \in Seq(Kernel)
      BY DEF CoreInv, FlowInv, MainTypes, RecordTypes
    <3> QED
      BY <3>1, <3>2, <1>9 DEF Arrived
  <2>3. Kernels' = Kernels
    BY <2>1, <2>2, <1>2, <1>7 DEF Kernels
  <2>4. UNCHANGED metricVars
    BY <2>1, <1>4 DEF metricVars
  <2>5. Len(Kernels) = Span(Awaited, Len(Awaited))
    <3>1. A \in Seq(Seq(KernelKind)) /\ Kernels \in Seq(Kernel) /\ Kernels = <<>>
      BY <1>1, <1>5, <1>9
    <3> QED
      BY <3>1, SpansArrived
  <2> QED
    BY <2>3, <2>4, <2>5, <1>8, MovesKept
<1>10. CASE D # <<>>
  <2>1. /\ profiled' = <<>> /\ metrics' = metrics \o Times(A, D, m)
        /\ kernelsQueue' = DropFirst(A, m) /\ durations' = <<>>
    BY <1>6, <1>10 DEF UpdateMetrics, Arrived, Times
  <2>2. \A i \in 1..m : Span(A, i - 1) <= Len(D)
    <3>1. A \in Seq(Seq(KernelKind)) /\ Kernels \in Seq(Kernel) /\ Kernels = D
      BY <1>1, <1>5
    <3> QED
      BY <3>1, SpansArrived
  <2>3. \A i \in 1..m : stat[b + i] = "failed" => A[i] = <<>>
    BY <1>5 DEF MatchInv
  <2>4. \A i \in 1..m : stat[b + i] = "success" => Whole(A, D, i, RunTimes) /\ Span(A, i) <= Len(D)
    <3> SUFFICES ASSUME NEW i \in 1..m, stat[b + i] = "success" PROVE Whole(A, D, i, RunTimes) /\ Span(A, i) <= Len(D)
      OBVIOUS
    <3>1. Expected(b + i) = RunTimes /\ RunTimes # 0
      BY RunTimesAssumption DEF Expected
    <3>2. Whole(A, D, i, RunTimes)
      BY <3>1, <1>1, <1>5 DEF MatchInv
    <3> QED
      BY <3>2 DEF Whole
  <2>5. Match(b, A, D) /\ Len(D) <= Len(D) /\ \A x \in 1..Len(D) : D[x] = D[x]
    <3>1. Len(D) \in Nat
      BY <1>1
    <3> QED
      BY <3>1, <1>1, <1>5 DEF MatchInv
  <2>6. metrics' \in Seq(Kernel \cup {Zero}) /\ Len(metrics') = b + m /\ Reported'
    <3>1. m \in 0..Len(A)
      BY <1>5
    <3>2. /\ A \in Seq(Seq(KernelKind)) /\ D \in Seq(Kernel) /\ metrics \in Seq(Kernel \cup {Zero}) /\ Reported
          /\ metrics' = metrics \o Times(A, D, m) /\ stat' = stat
      BY <2>1, <1>1, <1>2, <1>5
    <3> HIDE DEF A, D, m
    <3> QED
      BY <3>1, <3>2, <2>2, <2>3, <2>4, <2>5, TimesReported
  <2>7. kernelsQueue' = <<>> /\ kernelsQueue' \in Seq(Seq(KernelKind)) /\ Len(Awaited') = 0
    <3>1. DropFirst(A, m) \in Seq(Seq(KernelKind)) /\ Len(DropFirst(A, m)) = 0
      BY <1>5, Dropped
    <3>2. \A s \in Seq(Seq(KernelKind)) : Len(s) = 0 => s = <<>>
      BY EmptySeq
    <3> QED
      BY <3>1, <3>2, <2>1, <1>4
  <2>8. Kernels' = <<>>
    <3>1. <<>> \in Seq(Kernel)
      BY EmptySeq
    <3>2. <<>> \o <<>> = <<>>
      BY <3>1, ConcatEmptySeq
    <3> QED
      BY <3>2, <2>1, <1>1, <1>2, <1>7 DEF Kernels
  <2>9. MainTypes'
    <3>1. durations' \in Seq(Kernel)
      BY <2>1, EmptySeq
    <3>2. pc' \in (({"done"} \cup Profiling) \cup Stopping) \cup Restarting
      BY <1>3 DEF Restarting
    <3> QED
      BY <3>1, <3>2, <2>6, <2>7, <1>2, <1>5 DEF MainTypes
  <2>10. OrderInv'
    <3>1. Len(metrics') + Len(Awaited') = Len(added')
      BY <2>6, <2>7, <1>2, <1>5 DEF OrderInv
    <3>2. pc' \in InRunOp \cup Restarting => op' \in Ops
      BY <1>2, <1>3 DEF Restarting
    <3>3. \A o \in Ops : stat'[o] = "none" <=> o > op' \/ (o = op' /\ pc' \in InRunOp \ {"update"})
      BY <1>2, <1>3, <1>5 DEF OrderInv
    <3> QED
      BY <3>1, <3>2, <3>3, <1>2, <1>3, <1>5 DEF OrderInv
  <2>11. CountInv'
    <3>1. Span(<<>>, 0) = 0
      <4>1. <<>> \in Seq(Seq(KernelKind))
        BY EmptySeq
      <4> QED
        BY <4>1, SpanStep
    <3> QED
      BY <3>1, <2>7, <2>8, <1>3, <1>4 DEF CountInv
  <2>12. MatchInv'
    BY <2>7 DEF MatchInv, Match
  <2> QED
    BY <2>6, <2>9, <2>10, <2>11, <2>12 DEF CoreInv
<1> QED
  BY <1>9, <1>10

(* A session of profiling ends with its parser.                            *)
LEMMA JoinKept == CoreInv /\ FlowInv /\ JoinParser => CoreInv' /\ FlowInv'
<1> SUFFICES ASSUME CoreInv, FlowInv, JoinParser PROVE CoreInv' /\ FlowInv'
  OBVIOUS
<1>1. CoreInv'
  BY JoinCore
<1>2. /\ queue = <<>> /\ batch = <<>> /\ channel = <<>> /\ ends = <<>> /\ stream = <<>>
  BY ParserLeft
<1>3. /\ pc = "joinParser" /\ pc' \in {"restart", "done"} /\ parser' = "none"
      /\ stream' = stream /\ started' = started /\ failed' = failed /\ launched' = launched
      /\ channel' = channel /\ open' = open /\ reader' = reader /\ batch' = batch /\ queue' = queue
      /\ starts' = starts /\ ends' = ends
  BY DEF JoinParser, rest, streamVars, readerVars
<1>4. RecordTypes /\ StreamInv /\ PairInv /\ SessionInv /\ durations \in Seq(Kernel)
  BY DEF FlowInv, CoreInv, MainTypes
<1>5. profiled' = <<>> /\ durations' = <<>>
  <2>1. \A s, t \in Seq(Kernel) : s \o t = <<>> => s = <<>>
    OBVIOUS
  <2>2. durations \in Seq(Kernel) /\ profiled \in Seq(Kernel)
    BY <1>4 DEF RecordTypes
  <2>3. UpdateMetrics(kernelsQueue, TRUE)
    BY DEF JoinParser
  <2>4. profiled' = <<>>
    BY <2>3 DEF UpdateMetrics
  <2>5. CASE durations \o profiled = <<>>
    <3>1. durations = <<>>
      BY <2>1, <2>2, <2>5
    <3>2. durations' = durations
      BY <2>3, <2>5 DEF UpdateMetrics
    <3> QED
      BY <3>1, <3>2, <2>4
  <2>6. CASE durations \o profiled # <<>>
    BY <2>3, <2>4, <2>6 DEF UpdateMetrics
  <2> QED
    BY <2>5, <2>6
<1>6. Started' = Started /\ Ended' = Ended
  BY <1>3 DEF Started, Ended, Pending
<1>7. pc' \notin Profiling \cup Stopping /\ pc' \notin {"createReader", "createParser"}
      /\ pc' \notin {"warmed", "cleared", "launched"} /\ pc # "launched"
  BY <1>3 DEF Profiling, InRunOp, Stopping
<1>8. RecordTypes'
  <2>1. profiled' \in Seq(Kernel)
    BY <1>5, EmptySeq
  <2> QED
    BY <2>1, <1>3, <1>4 DEF RecordTypes
<1>9. StreamInv'
  BY <1>2, <1>3, <1>4, <1>7 DEF StreamInv
<1>10. PairInv'
  BY <1>3, <1>4, <1>6, <1>7 DEF PairInv
<1>11. SessionInv'
  BY <1>2, <1>3, <1>4, <1>5, <1>7 DEF SessionInv
<1> QED
  BY <1>1, <1>8, <1>9, <1>10, <1>11 DEF FlowInv

(* The next session begins with nothing on its way.                        *)
LEMMA RestartKept ==
  CoreInv /\ FlowInv /\ (Restart \/ CreateReader \/ CreateParser) => CoreInv' /\ FlowInv'
<1> SUFFICES ASSUME CoreInv, FlowInv, Restart \/ CreateReader \/ CreateParser PROVE CoreInv' /\ FlowInv'
  OBVIOUS
<1>1. /\ UNCHANGED metricVars
      /\ op' = op /\ added' = added /\ stat' = stat /\ times' = times /\ kernels' = kernels
      /\ profiled' = profiled /\ stream' = stream /\ started' = started /\ failed' = failed /\ launched' = launched
      /\ channel' = channel /\ queue' = queue /\ durations' = durations
  BY DEF Restart, CreateReader, CreateParser, device, rest, streamVars, metricVars
<1>2. /\ pc \in Restarting /\ pc' \in {"createReader", "createParser", "next"}
      /\ pc \in {"createReader", "createParser"} \/ open'
      /\ batch' \in {batch, <<>>} /\ starts' \in {starts, <<>>} /\ ends' \in {ends, <<>>}
      /\ open' = open \/ open'
  BY DEF Restart, CreateReader, CreateParser, readerVars, parserVars, Restarting
<1>3. /\ pc' = "next" <=> parser' # "none"
      /\ pc' = "next" => parser' = "test" /\ starts' = <<>>
      /\ reader' = reader \/ reader' = "test"
  <2>1. parser = "none"
    BY <1>2 DEF FlowInv, SessionInv, Restarting, Profiling, InRunOp, Stopping
  <2> QED
    BY <2>1 DEF Restart, CreateReader, CreateParser, readerVars, parserVars
<1>4. /\ MainTypes /\ OrderInv /\ RecordTypes /\ StreamInv /\ PairInv /\ SessionInv
      /\ op \in Ops /\ op <= Len(Pool)
  <2>1. op \in Ops
    BY <1>2 DEF CoreInv, OrderInv
  <2>2. op <= Len(Pool)
    BY <2>1, PoolAssumption DEF Ops
  <2> QED
    BY <2>1, <2>2 DEF CoreInv, FlowInv
<1>5. /\ queue = <<>> /\ batch = <<>> /\ channel = <<>> /\ ends = <<>>
      /\ durations = <<>> /\ profiled = <<>> /\ stream = <<>> /\ ~started /\ ~failed
  <2>1. parser = "none" /\ pc \notin {"warmed", "cleared", "launched"}
    BY <1>2, <1>4 DEF SessionInv, Restarting, Profiling, InRunOp, Stopping
  <2> QED
    BY <2>1, <1>4 DEF SessionInv, StreamInv
<1>6. batch' = batch /\ ends' = ends /\ batch' = <<>> /\ ends' = <<>>
  BY <1>2, <1>5
<1>7. Ended' = Ended /\ Pending' = Pending
  BY <1>1, <1>6 DEF Ended, Pending
<1>8. Kernels' = Kernels
  BY <1>1, <1>7 DEF Kernels
<1>9. Moves
  <2>1. pc \notin InRunOp /\ pc' \in ({"done", "next", "synchronize"} \cup Stopping) \cup Restarting
    BY <1>2 DEF InRunOp, Restarting
  <2> QED
    BY <2>1, <1>1, <1>4 DEF Moves
<1>10. ~Aborted
  BY <1>2 DEF Aborted, Restarting, Stopping
<1>11. CoreInv'
  BY <1>1, <1>8, <1>9, <1>10, MovesKept
<1>12. RecordTypes'
  <2>1. starts' \in Seq(Kernel) /\ <<>> \in Seq(Record) /\ <<>> \in Seq(Kernel)
    <3>1. <<>> \in Seq(Kernel) /\ <<>> \in Seq(Record)
      BY EmptySeq
    <3> QED
      BY <3>1, <1>2, <1>4 DEF RecordTypes
  <2> QED
    BY <2>1, <1>1, <1>4, <1>6 DEF RecordTypes
<1>13. StreamInv'
  <2>1. pc' \notin {"warmed", "cleared", "launched"}
    BY <1>2
  <2> QED
    BY <2>1, <1>1, <1>5 DEF StreamInv
<1>14. Ended' = <<>> /\ Ended' \in Seq(Kernel) /\ Len(Ended') = 0
  <2>1. <<>> \in Seq(Kernel)
    BY EmptySeq
  <2>2. Ended = <<>> \o <<>>
    BY <1>5, NonePending
  <2> QED
    BY <2>1, <2>2, <1>7, ConcatEmptySeq
<1>15. PairInv'
  <2>1. Started' = starts' /\ starts' \in Seq(Kernel) /\ Len(starts') \in Nat
    <3>1. Started' = starts' \o KernelsOf(Pending', FALSE) /\ Pending' = <<>>
      BY <1>5, <1>7, NonePending DEF Started
    <3>2. Started' = starts' \o <<>>
      BY <3>1, KernelsOfNone
    <3>3. starts' \in Seq(Kernel)
      BY <1>12 DEF RecordTypes
    <3> QED
      BY <3>2, <3>3, ConcatEmptySeq
  <2>2. pc' = "next" => Len(Started') = 0
    BY <2>1, <1>3
  <2>3. pc' \in Profiling \cup Stopping => pc' = "next"
    BY <1>2 DEF Profiling, InRunOp, Stopping
  <2>4. Len(Ended') <= Len(Started') /\ ~started'
    BY <2>1, <1>1, <1>5, <1>14
  <2>5. \A i \in 1..Len(Ended') : FALSE
    BY <1>14
  <2> QED
    BY <2>2, <2>3, <2>4, <2>5, <1>14 DEF PairInv
<1>16. SessionInv'
  <2>1. open'
    <3>1. pc \in {"createReader", "createParser"} => open
      BY <1>4 DEF SessionInv
    <3> QED
      BY <3>1, <1>2
  <2>2. pc' \in Profiling \cup Stopping <=> pc' = "next"
    BY <1>2 DEF Profiling, InRunOp, Stopping
  <2> QED
    BY <2>1, <2>2, <1>1, <1>3, <1>5, <1>6 DEF SessionInv
<1> QED
  BY <1>11, <1>12, <1>13, <1>15, <1>16 DEF FlowInv
-----------------------------------------------------------------------------
(* Every step, and the theorems.                                           *)

\* How often the device did not answer in time, or profiling was not restarted.
FaultTypes == timeouts \in Nat /\ restartFailures \in Nat

(* No step but those two ends an undisturbed run.                          *)
LEMMA FaultsCounted ==
  FaultTypes /\ [Next]_vars =>
      /\ FaultTypes'
      /\ Undisturbed' => Undisturbed /\ ~OperatorTimeout /\ ~RestartFails
<1> SUFFICES ASSUME FaultTypes, [Next]_vars
             PROVE  FaultTypes' /\ (Undisturbed' => Undisturbed /\ ~OperatorTimeout /\ ~RestartFails)
  OBVIOUS
<1> USE DEF FaultTypes, Undisturbed
<1>1. CASE OperatorTimeout
  BY <1>1 DEF OperatorTimeout
<1>2. CASE RestartFails
  BY <1>2 DEF RestartFails
<1>3. CASE ~OperatorTimeout /\ ~RestartFails
  <2>1. timeouts' = timeouts /\ restartFailures' = restartFailures
    <3>1. CASE DeviceNext \/ KernelAbort \/ ReaderNext \/ ParserNext \/ ParserTimeout
      BY <3>1 DEF DeviceNext, KernelStart, KernelEnd, KernelAbort, ReaderNext, ReaderTest, ReaderPoll, ReaderCallback,
                  ParserNext, ParserTest, ParserBlock, ParserFinal, ParserTimeout, faultVars
    <3>2. CASE RunNext
      BY <3>2 DEF RunNext, NextOperator, WarmUp, WarmUpDone, FrequencyReached, ClearL2Cache, LaunchOperator, OperatorDone,
                  Update, AfterLastOperator, faultVars
    <3>3. CASE SynchronizeNext
      BY <3>3 DEF SynchronizeNext, CloseChannel, StopReader, JoinReader, Finish, NotifyParser, JoinParser, Restart,
                  CreateReader, CreateParser, faultVars
    <3>4. CASE UNCHANGED vars
      BY <3>4 DEF vars, faultVars
    <3> QED
      BY <1>3, <3>1, <3>2, <3>3, <3>4 DEF Next, Fault, Terminated
  <2> QED
    BY <2>1, <1>3
<1> QED
  BY <1>1, <1>2, <1>3

(* At first no operator was run.                                           *)
LEMMA InitCore == Init => CoreInv /\ FlowInv
<1> SUFFICES ASSUME Init PROVE CoreInv /\ FlowInv
  OBVIOUS
<1>1. /\ pc = "next" /\ op = 0 /\ added = <<>> /\ stat = [o \in Ops |-> "none"] /\ times = 0 /\ kernels = <<>>
      /\ kernelsQueue = <<>> /\ durations = <<>> /\ metrics = <<>>
      /\ stream = <<>> /\ ~started /\ ~failed /\ started \in BOOLEAN /\ failed \in BOOLEAN /\ launched = 0
      /\ channel = <<>> /\ open /\ reader = "test" /\ batch = <<>> /\ queue = <<>>
      /\ parser = "test" /\ starts = <<>> /\ ends = <<>> /\ profiled = <<>>
  BY DEF Init
<1>2. \A S : <<>> \in Seq(S)
  BY EmptySeq
<1>3. pc \in Profiling /\ pc \notin InRunOp /\ pc \notin Restarting
  BY <1>1 DEF Profiling, InRunOp, Restarting
<1>4. Awaited = <<>>
  BY <1>1, <1>3 DEF Awaited
<1>5. <<>> \o <<>> = <<>>
  BY <1>2, ConcatEmptySeq
<1>6. Started = <<>> /\ Ended = <<>> /\ Kernels = <<>>
  <2>1. Started = starts \o <<>> /\ Ended = ends \o <<>>
    BY <1>1, NonePending
  <2> QED
    BY <2>1, <1>1, <1>5 DEF Kernels
<1>7. MainTypes
  BY <1>1, <1>2, <1>3 DEF MainTypes
<1>8. OrderInv
  <2>1. Len(Pool) \in Nat
    BY PoolAssumption
  <2>2. \A o \in Ops : stat[o] = "none" /\ o > 0
    BY <2>1, <1>1 DEF Ops
  <2> QED
    BY <2>1, <2>2, <1>1, <1>3, <1>4 DEF OrderInv
<1>9. CountInv
  <2>1. Span(<<>>, 0) = 0
    <3>1. <<>> \in Seq(Seq(KernelKind))
      BY <1>2
    <3> QED
      BY <3>1, SpanStep
  <2> QED
    BY <2>1, <1>1, <1>4, <1>6 DEF CountInv
<1>10. MatchInv /\ Reported
  BY <1>1, <1>4 DEF MatchInv, Match, Reported
<1>11. RecordTypes
  BY <1>1, <1>2 DEF RecordTypes
<1>12. StreamInv
  BY <1>1 DEF StreamInv
<1>13. PairInv
  BY <1>1, <1>6 DEF PairInv
<1>14. SessionInv
  BY <1>1, <1>3 DEF SessionInv
<1> QED
  BY <1>7, <1>8, <1>9, <1>10, <1>11, <1>12, <1>13, <1>14 DEF CoreInv, FlowInv

(* Nothing changes.                                                        *)
LEMMA StutterKept == CoreInv /\ FlowInv /\ UNCHANGED vars => CoreInv' /\ FlowInv'
<1> SUFFICES ASSUME CoreInv, FlowInv, UNCHANGED vars PROVE CoreInv' /\ FlowInv'
  OBVIOUS
<1>1. /\ pc' = pc /\ op' = op /\ stat' = stat /\ UNCHANGED mainVars /\ UNCHANGED metricVars /\ durations' = durations
      /\ profiled' = profiled /\ stream' = stream /\ started' = started /\ failed' = failed /\ launched' = launched
      /\ channel' = channel /\ open' = open /\ reader' = reader /\ batch' = batch /\ queue' = queue
      /\ parser' = parser /\ starts' = starts /\ ends' = ends
  BY DEF vars, mainVars, metricVars, streamVars, readerVars, parserVars
<1>2. Started' = Started /\ Ended' = Ended
  BY <1>1 DEF Started, Ended, Pending
<1>3. Kernels' = Kernels
  BY <1>1, <1>2 DEF Kernels
<1>4. CoreInv'
  <2>1. UNCHANGED <<mainVars, metricVars, failed, Kernels>>
    BY <1>1, <1>3
  <2> QED
    BY <2>1, CoreStutter
<1>5. Aborted' = Aborted
  BY <1>1 DEF Aborted
<1>6. RecordTypes' /\ StreamInv'
  BY <1>1 DEF FlowInv, RecordTypes, StreamInv
<1>7. PairInv'
  BY <1>1, <1>2, <1>5 DEF FlowInv, PairInv
<1>8. SessionInv'
  BY <1>1 DEF FlowInv, SessionInv
<1> QED
  BY <1>4, <1>6, <1>7, <1>8 DEF FlowInv

(* Running an operator keeps the invariant.                                *)
LEMMA RunKept == CoreInv /\ FlowInv /\ RunNext /\ ~AfterLastOperator => CoreInv' /\ FlowInv'
  BY NextOperatorKept, WarmUpKept, WarmUpDoneKept, FrequencyKept, ClearKept, OperatorKept, OperatorDoneKept, UpdateKept
  DEF RunNext

(* Stopping and restarting profiling does.                                 *)
LEMMA SynchronizeKept ==
  ThreadInv /\ CoreInv /\ FlowInv /\ (SynchronizeNext \/ AfterLastOperator) => CoreInv' /\ FlowInv'
  BY StoppingKept, JoinKept, RestartKept DEF SynchronizeNext

\* The invariant of an undisturbed run.
RunInv == FaultTypes /\ ThreadInv /\ (Undisturbed => CoreInv /\ FlowInv)

(* Every step keeps it, when only operators abort.                         *)
LEMMA RunInvKept ==
  AbortKinds \subseteq {"op"} /\ RunInv /\ ThreadInv' /\ [Next]_vars => RunInv'
<1> SUFFICES ASSUME AbortKinds \subseteq {"op"}, RunInv, ThreadInv', [Next]_vars, Undisturbed'
             PROVE  CoreInv' /\ FlowInv'
  BY FaultsCounted DEF RunInv
<1>1. CoreInv /\ FlowInv /\ ThreadInv /\ ~OperatorTimeout /\ ~RestartFails
  BY FaultsCounted DEF RunInv
<1>2. CASE DeviceNext
  BY <1>1, <1>2, KernelStartKept, KernelEndKept DEF DeviceNext
<1>3. CASE KernelAbort
  BY <1>1, <1>3, KernelAbortKept
<1>4. CASE ReaderNext \/ ParserNext \/ ParserTimeout
  BY <1>1, <1>4, ReaderKept, ParserKept
<1>5. CASE RunNext \/ SynchronizeNext
  BY <1>1, <1>5, RunKept, SynchronizeKept
<1>6. CASE UNCHANGED vars
  BY <1>1, <1>6, StutterKept
<1> QED
  BY <1>1, <1>2, <1>3, <1>4, <1>5, <1>6 DEF Next, Fault, Terminated

(* What it says of the durations that were reported.                       *)
LEMMA ReportedAttributed == RunInv => Attribution
<1> SUFFICES ASSUME CoreInv, NEW i \in 1..Len(metrics)
             PROVE  LET o == added[i]
                        d == metrics[i] IN
                    CASE stat[o] = "success" -> d.op = o /\ d.kind = "op" /\ d.n = RunTimes
                      [] stat[o] = "fatal" -> d = Zero \/ (d.op = o /\ d.kind # "clear")
                      [] stat[o] = "failed" -> d = Zero
  BY DEF RunInv, Attribution
<1>1. MainTypes /\ OrderInv /\ Reported /\ op \in Nat /\ Len(Pool) \in Nat
  BY PoolAssumption DEF CoreInv, MainTypes
<1>2. /\ Len(metrics) \in Nat /\ Len(Awaited) \in Nat /\ Len(added) \in Nat
      /\ pc \in InRunOp => Len(Awaited) >= 1
  <2>1. kernelsQueue \in Seq(Seq(KernelKind)) /\ metrics \in Seq(Kernel \cup {Zero}) /\ added \in Seq(Nat)
    BY <1>1 DEF MainTypes
  <2>2. pc \in InRunOp => Len(Awaited) = Len(kernelsQueue) + 1 /\ Len(kernelsQueue) \in Nat
    BY RunRow
  <2>3. pc \notin InRunOp => Awaited = kernelsQueue
    BY DEF Awaited
  <2> QED
    BY <2>1, <2>2, <2>3
<1>3. Len(metrics) + Len(Awaited) = Len(added) /\ Len(added) <= op /\ Len(added) <= Len(Pool)
  BY <1>1 DEF OrderInv
<1>4. i \in 1..Len(added) /\ i \in Ops /\ i <= op /\ (pc \in InRunOp => i # op)
  BY <1>1, <1>2, <1>3 DEF Ops
<1>5. added[i] = i
  BY <1>1, <1>4 DEF OrderInv
<1>6. stat[i] \in {"success", "fatal", "failed"}
  <2>1. stat[i] # "none"
    BY <1>1, <1>4 DEF OrderInv
  <2> QED
    BY <2>1, <1>1, <1>4 DEF MainTypes
<1> QED
  BY <1>1, <1>5, <1>6 DEF Reported

(* What it says of the end of the run.                                     *)
LEMMA DoneReported == RunInv => EveryOperatorReported
<1> SUFFICES ASSUME CoreInv, FlowInv, ThreadInv, pc = "done",
                    NEW i \in 1..Len(added), stat[added[i]] = "success", ~(i <= Len(metrics))
             PROVE  FALSE
  BY DEF RunInv, EveryOperatorReported
<1>1. MainTypes /\ RecordTypes /\ OrderInv /\ CountInv /\ MatchInv
  BY DEF CoreInv, FlowInv
<1>2. pc \notin InRunOp /\ pc \notin {"warmed", "cleared", "launched"} /\ ~Aborted
      /\ pc \notin Profiling \cup Stopping
  BY DEF InRunOp, Aborted, Stopping, Profiling
<1>3. parser = "none" /\ stream = <<>>
  BY <1>2 DEF FlowInv, SessionInv, StreamInv
<1>4. queue = <<>> /\ batch = <<>> /\ channel = <<>> /\ ends = <<>> /\ durations = <<>> /\ profiled = <<>>
  BY <1>3 DEF FlowInv, SessionInv
<1>5. <<>> \o <<>> = <<>>
  <2>1. <<>> \in Seq(Kernel)
    BY EmptySeq
  <2> QED
    BY <2>1, ConcatEmptySeq
<1>6. Kernels = <<>>
  BY <1>3, <1>4, <1>5, NonePending DEF Kernels
<1> DEFINE A == Awaited
           b == Len(metrics)
           j == i - b
<1>7. A \in Seq(Seq(KernelKind)) /\ Len(A) \in Nat /\ b \in Nat /\ Len(added) \in Nat
  BY <1>1, <1>2 DEF MainTypes, Awaited
<1>8. j \in 1..Len(A) /\ b + j = i
  <2>1. b + Len(A) = Len(added) /\ ~(i <= b) /\ i \in 1..Len(added)
    BY <1>1 DEF OrderInv
  <2> HIDE DEF A, b
  <2> QED
    BY <2>1, <1>7
<1>9. stat[i] = "success"
  BY <1>1 DEF OrderInv
<1> HIDE DEF j
<1>10. Whole(A, Kernels, j, RunTimes)
  <2>1. Expected(b + j) = RunTimes /\ RunTimes # 0
    BY <1>8, <1>9, RunTimesAssumption DEF Expected
  <2> QED
    BY <2>1, <1>1, <1>8 DEF MatchInv
<1>11. Span(A, j) <= 0 /\ A[j] # <<>>
  <2>1. Len(Kernels) = 0
    BY <1>6
  <2> QED
    BY <2>1, <1>10 DEF Whole
<1>12. Span(A, j) = Span(A, j - 1) + Len(A[j]) /\ Span(A, j - 1) \in Nat /\ Len(A[j]) \in Nat /\ Len(A[j]) >= 1
  <2> HIDE DEF A
  <2> QED
    BY <1>7, <1>8, <1>11, RowsEmpty
<1> QED
  BY <1>11, <1>12

(* RunInv is an invariant when only operators abort.                       *)
LEMMA RunInvariant ==
  ASSUME AbortKinds \subseteq {"op"}
  PROVE  Spec => []RunInv
<1>1. Init => RunInv
  BY InitThreads, InitCore DEF RunInv, Init, FaultTypes
<1>2. RunInv /\ ThreadInv' /\ [Next]_vars => RunInv'
  BY RunInvKept
<1>3. Spec => []ThreadInv
  BY ThreadInvariance
<1> QED
  BY <1>1, <1>2, <1>3, PTL DEF Spec

(* Each operator is reported the duration of its own last execution.       *)
THEOREM AttributionHolds ==
  ASSUME AbortKinds \subseteq {"op"}
  PROVE  Spec => []Attribution
  BY RunInvariant, ReportedAttributed, PTL

(* No duration is lost when profiling is stopped and started again.        *)
THEOREM EveryOperatorReportedHolds ==
  ASSUME AbortKinds \subseteq {"op"}
  PROVE  Spec => []EveryOperatorReported
  BY RunInvariant, DoneReported, PTL
=============================================================================
