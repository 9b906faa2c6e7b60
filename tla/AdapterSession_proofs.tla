----------------------- MODULE AdapterSession_proofs -----------------------
(***************************************************************************)
(* Theorems about AdapterSession, for every limit, every number of calls   *)
(* and every adapter: type correctness; the bound on the memory a session  *)
(* holds; that the end of the file comes after every byte, that no byte is *)
(* lost or doubled on its way and that the limit on a line is exact; and,  *)
(* where a killed process ends in time, that failures last, that answers   *)
(* are the call's own, and that every step is a step of RequestReply.      *)
(***************************************************************************)
EXTENDS MCAdapterSession, WellFoundedInduction, TLAPS

(* Sequences: what the two cuts of a sequence are, and how long.           *)
LEMMA CutType ==
    ASSUME NEW S, NEW s \in Seq(S), NEW m \in Nat \ {0}, NEW n \in Nat,
           n <= Len(s), m <= n + 1
    PROVE  /\ SubSeq(s, m, n) \in Seq(S)
           /\ Len(SubSeq(s, m, n)) = n - m + 1
  OBVIOUS

LEMMA TailType ==
    ASSUME NEW S, NEW s \in Seq(S), s # <<>>
    PROVE  /\ Head(s) \in S /\ Tail(s) \in Seq(S)
           /\ Len(Tail(s)) = Len(s) - 1
           /\ \A i \in 1..Len(Tail(s)) : Tail(s)[i] = s[i + 1]
  OBVIOUS

LEMMA AppendType ==
    ASSUME NEW S, NEW s \in Seq(S), NEW e \in S
    PROVE  /\ Append(s, e) \in Seq(S)
           /\ Len(Append(s, e)) = Len(s) + 1
           /\ \A i \in 1..Len(s) : Append(s, e)[i] = s[i]
           /\ Append(s, e)[Len(s) + 1] = e
  OBVIOUS

(* A set of naturals that is not empty has a least element.                *)
LEMMA LeastNatural ==
    ASSUME NEW T, T \subseteq Nat, T # {}
    PROVE  \E x \in T : \A y \in T : x <= y
  <1> DEFINE R == OpToRel(<, Nat)
  <1>1. \E x \in T : \A y \in T : <<y, x>> \notin R
    <2> HIDE DEF R
    <2>1. IsWellFoundedOn(R, Nat)
      BY NatLessThanWellFounded DEF R
    <2> QED BY <2>1, WFMin
  <1>2. ASSUME NEW x \in Nat, NEW y \in Nat, <<y, x>> \notin R
        PROVE  x <= y
    BY <1>2 DEF OpToRel
  <1> QED BY <1>1, <1>2

(* The first newline of a buffer that has one: it is in the buffer, and      *)
(* there is none before it.                                                  *)
LEMMA NewlineInBuffer ==
    ASSUME NEW b \in Seq(Unit), HasNewline(b)
    PROVE  /\ FirstNewline(b) \in 1..Len(b)
           /\ b[FirstNewline(b)].end # "no"
           /\ b[FirstNewline(b)] \in Unit
           /\ \A j \in 1..(FirstNewline(b) - 1) : b[j].end = "no"
  <1> DEFINE T == {i \in 1..Len(b) : b[i].end # "no"}
  <1>1. DOMAIN b = 1..Len(b) /\ Len(b) \in Nat
    OBVIOUS
  <1>2. T # {} /\ T \subseteq Nat
    BY <1>1 DEF HasNewline
  <1>3. PICK i \in T : \A j \in T : i <= j
    BY <1>2, LeastNatural
  <1>4. i \in DOMAIN b /\ b[i].end # "no" /\ \A j \in 1..(i - 1) : b[j].end = "no"
    BY <1>1, <1>3
  <1>5. /\ FirstNewline(b) \in DOMAIN b /\ b[FirstNewline(b)].end # "no"
        /\ \A j \in 1..(FirstNewline(b) - 1) : b[j].end = "no"
    BY <1>4 DEF FirstNewline
  <1> QED BY <1>1, <1>5

-----------------------------------------------------------------------------
(* Replies.                                                                *)

LEMMA ReplyTypes ==
    ASSUME TypeOK
    PROVE  /\ NoReply \in Reply /\ CloseReply \in Reply
           /\ \A k \in ReplyKinds : Failure(k) \in Reply
           /\ [Failure("too large") EXCEPT !.req = 0] \in Reply
           /\ [Failure("exited") EXCEPT !.req = 0] \in Reply
           /\ \A k \in ReplyKinds, u \in Unit : LineReply(k, u) \in Reply
           /\ TransportFailures \subseteq ReplyKinds
           /\ LineEnds \ {"no", "junk"} \subseteq ReplyKinds
  BY DEF TypeOK, NoReply, CloseReply, Failure, LineReply, Reply, ReplyKinds,
         TransportFailures, LineEnds, Answers, Unit

(* What Return, Finish and Kill leave behind.                              *)
LEMMA ReturnType ==
    ASSUME TypeOK, NEW r \in Reply, Return(r)
    PROVE  reply' \in Reply /\ broken' \in BOOLEAN
           /\ hello' \in {"none", "ok", "refused"}
  BY DEF TypeOK, Return

LEMMA FinishType ==
    ASSUME TypeOK, NEW r \in Reply, Finish(r)
    PROVE  /\ reply' \in Reply /\ broken' \in BOOLEAN
           /\ hello' \in {"none", "ok", "refused"}
           /\ rpc' = "idle" /\ pending' \in Reply
           /\ process' \in {"none", "alive", "signalled", "dead"}
  BY ReturnType DEF TypeOK, Finish

LEMMA KillType ==
    ASSUME TypeOK, NEW r \in Reply, Kill(r)
    PROVE  /\ reply' \in Reply /\ broken' \in BOOLEAN
           /\ hello' \in {"none", "ok", "refused"}
           /\ rpc' \in {"idle", "killing"} /\ pending' \in Reply
           /\ process' \in {"none", "alive", "signalled", "dead"}
  BY FinishType DEF TypeOK, Kill

(* Every action keeps the types.                                           *)
LEMMA TypeStep == TypeOK /\ [Next]_vars => TypeOK'
  <1> SUFFICES ASSUME TypeOK, [Next]_vars PROVE TypeOK'
    OBVIOUS
  <1> USE DEF session, input, writer, pump, adapter
  <1>1. CASE UNCHANGED vars
    BY <1>1 DEF TypeOK, vars
  <1>2. CASE KillWaited
    <2>1. /\ reply' \in Reply /\ broken' \in BOOLEAN
          /\ hello' \in {"none", "ok", "refused"}
          /\ rpc' \in {"closed", "idle"} /\ pending' \in Reply
      BY <1>2, ReplyTypes, ReturnType DEF TypeOK, KillWaited
    <2> QED BY <1>2, <2>1 DEF TypeOK, KillWaited, Busy
  <1>3. CASE WriteTimedOut
    BY <1>3, ReplyTypes, KillType, ZenonT(60) DEF TypeOK, WriteTimedOut, Busy, TransportFailures
  <1>4. CASE WriteFailed
    BY <1>4, ReplyTypes, FinishType, ZenonT(60) DEF TypeOK, WriteFailed, Busy, TransportFailures
  <1>5. CASE WriteDone
    BY <1>5 DEF TypeOK, WriteDone, Busy
  <1>6. CASE ReadTooLong
    <2>1. Len(buffer) \in 1..Len(buffer) /\ buffer[Len(buffer)] \in Unit
      BY <1>6, BoundsAssumption DEF ReadTooLong, TooLong, TypeOK
    <2> QED
      BY <1>6, <2>1, ReplyTypes, KillType, ZenonT(60)
         DEF TypeOK, ReadTooLong, Busy, TransportFailures
  <1>7. CASE ReadAtEof
    BY <1>7, ReplyTypes, FinishType, ZenonT(60) DEF TypeOK, ReadAtEof, Busy, TransportFailures
  <1>8. CASE ReadTooLate
    BY <1>8, ReplyTypes, KillType DEF TypeOK, ReadTooLate, Busy, TransportFailures
  <1>9. CASE ReadMore
    BY <1>9 DEF TypeOK, ReadMore, Busy
  <1>10. CASE GetTimedOut
    BY <1>10, ReplyTypes, KillType, ZenonT(60) DEF TypeOK, GetTimedOut, Busy, TransportFailures
  <1>11. CASE GetError
    BY <1>11, TailType, ReplyTypes, KillType, ZenonT(60)
       DEF TypeOK, GetError, Busy, TransportFailures
  <1>12. CASE GetEof
    BY <1>12, TailType DEF TypeOK, GetEof, Busy
  <1>13. CASE GetData
    <2>1. Head(chunks).data \in Seq(Unit)
      <3>1. Head(chunks) \in Chunk
        BY <1>13, TailType DEF TypeOK, GetData
      <3> QED BY <3>1 DEF Chunk
    <2>2. buffer' \in Seq(Unit)
      BY <1>13, <2>1 DEF TypeOK, GetData
    <2> QED BY <1>13, <2>2, TailType DEF TypeOK, GetData, Busy
  <1>14. CASE TakeLine
    <2> DEFINE i == FirstNewline(buffer)
    <2>1. i \in 1..Len(buffer) /\ buffer[i] \in Unit /\ buffer[i].end # "no"
      BY <1>14, NewlineInBuffer DEF TakeLine, TypeOK
    <2>2. Rest(buffer, i) \in Seq(Unit)
      <3>1. i + 1 \in Nat \ {0} /\ i + 1 <= Len(buffer) + 1 /\ Len(buffer) \in Nat
        BY <2>1 DEF TypeOK
      <3> HIDE DEF i
      <3> QED BY <3>1, CutType DEF Rest, TypeOK
    <2>3. TooLong(i - 1) => buffer[i - 1] \in Unit
      BY <2>1, BoundsAssumption DEF TooLong, TypeOK
    <2>4. buffer[i].end # "junk" => buffer[i].end \in ReplyKinds
      BY <2>1, ReplyTypes DEF Unit
    <2> HIDE DEF i
    <2>5. \E r \in Reply : Kill(r) \/ Finish(r)
      BY <1>14, <2>1, <2>3, <2>4, ReplyTypes DEF TakeLine, i, TransportFailures
    <2>6. buffer' \in Seq(Unit)
      BY <1>14, <2>2 DEF TakeLine, i
    <2> QED BY <1>14, <2>5, <2>6, KillType, FinishType DEF TakeLine, TypeOK, Busy
  <1>15. CASE Terminated
    BY <1>15 DEF TypeOK, Terminated, Busy
  <1>16. CASE TerminateTimedOut
    BY <1>16, ReplyTypes, KillType, ZenonT(60) DEF TypeOK, TerminateTimedOut, Busy
  <1>17. CASE Start
    BY <1>17 DEF TypeOK, Start, Busy
  <1>18. CASE RequestTooLarge
    <2> DEFINE r == [Failure("too large") EXCEPT !.req = 0]
    <2>1. r \in Reply
      BY ReplyTypes
    <2>2. Finish(r)
      BY <1>18 DEF RequestTooLarge
    <2> HIDE DEF r
    <2>3. /\ reply' \in Reply /\ broken' \in BOOLEAN
          /\ hello' \in {"none", "ok", "refused"}
          /\ rpc' = "idle" /\ pending' \in Reply
          /\ process' \in {"none", "alive", "signalled", "dead"}
      BY <2>1, <2>2, FinishType
    <2>4. /\ calls' = calls + 1
          /\ UNCHANGED <<issued, expired, input, writer, pump, chunks,
                         stopPump, adapter, outPipe>>
      BY <1>18 DEF RequestTooLarge
    <2> QED BY <2>3, <2>4 DEF TypeOK
  <1>19. CASE RequestExited
    <2> DEFINE r == [Failure("exited") EXCEPT !.req = 0]
    <2>1. r \in Reply
      BY ReplyTypes
    <2>2. Finish(r)
      BY <1>19 DEF RequestExited
    <2> HIDE DEF r
    <2>3. /\ reply' \in Reply /\ broken' \in BOOLEAN
          /\ hello' \in {"none", "ok", "refused"}
          /\ rpc' = "idle" /\ pending' \in Reply
          /\ process' \in {"none", "alive", "signalled", "dead"}
      BY <2>1, <2>2, FinishType
    <2>4. /\ calls' = calls + 1
          /\ UNCHANGED <<issued, expired, input, writer, pump, chunks,
                         stopPump, adapter, outPipe>>
      BY <1>19 DEF RequestExited
    <2> QED BY <2>3, <2>4 DEF TypeOK
  <1>20. CASE Request
    <2>1. expired' \in BOOLEAN /\ werr' \in BOOLEAN /\ big' \in BOOLEAN
      BY <1>20, Zenon DEF Request
    <2> QED BY <1>20, <2>1 DEF TypeOK, Request, Busy
  <1>21. CASE CloseUnstarted \/ Close
    <2>1. rpc' \in {"terminating", "closed"} /\ stopPump' \in BOOLEAN
      BY <1>21, Zenon DEF CloseUnstarted, Close
    <2> QED BY <1>21, <2>1, SMTT(20) DEF TypeOK, CloseUnstarted, Close, Busy
  <1>22. CASE Expire
    BY <1>22 DEF TypeOK, Expire, Busy
  <1>23. CASE Writer
    <2>1. CASE WriterWrites
      BY <2>1 DEF TypeOK, WriterWrites, Busy
    <2>2. CASE WriterFails
      BY <2>2 DEF TypeOK, WriterFails, Busy
    <2> QED BY <1>23, <2>1, <2>2 DEF Writer
  <1>24. CASE PumpReads
    <2>1. CASE outPipe = <<>>
      <3>1. held' = EndOfFile /\ UNCHANGED outPipe /\ ppc' = "put"
        BY <1>24, <2>1 DEF PumpReads
      <3>2. EndOfFile \in Chunk
        BY DEF EndOfFile, Chunk
      <3> QED BY <1>24, <3>1, <3>2 DEF TypeOK, PumpReads, Busy
    <2>2. CASE outPipe # <<>>
      <3> DEFINE n == AtMost(ReadChunk, Len(outPipe))
      <3>1. n \in Nat /\ n <= Len(outPipe) /\ Len(outPipe) \in Nat
        BY BoundsAssumption DEF AtMost, TypeOK
      <3>2. /\ SubSeq(outPipe, 1, n) \in Seq(Unit)
            /\ SubSeq(outPipe, n + 1, Len(outPipe)) \in Seq(Unit)
        <4> HIDE DEF n
        <4> QED BY <3>1, CutType DEF TypeOK
      <3>3. held' = Data(SubSeq(outPipe, 1, n))
            /\ outPipe' = SubSeq(outPipe, n + 1, Len(outPipe))
        BY <1>24, <2>2 DEF PumpReads
      <3>4. held' \in Chunk /\ outPipe' \in Seq(Unit)
        BY <3>2, <3>3 DEF Data, Chunk
      <3> QED BY <1>24, <3>4 DEF TypeOK, PumpReads, Busy
    <2> QED BY <2>1, <2>2
  <1>25. CASE PumpReadFails
    BY <1>25 DEF TypeOK, PumpReadFails, ReadError, Chunk, Busy
  <1>26. CASE PumpPuts
    BY <1>26, AppendType DEF TypeOK, PumpPuts, EndOfFile, Chunk, Busy
  <1>27. CASE PumpGivesUp
    BY <1>27 DEF TypeOK, PumpGivesUp, EndOfFile, Chunk, Busy
  <1>28. CASE AdapterReads
    BY <1>28 DEF TypeOK, AdapterReads, Busy
  <1>29. CASE AdapterWrites
    <2>1. PICK e \in LineEnds :
             outPipe' = Append(outPipe, [line |-> nextLine, pos |-> nextPos, end |-> e])
      BY <1>29 DEF AdapterWrites
    <2>2. [line |-> nextLine, pos |-> nextPos, end |-> e] \in Unit
      BY DEF TypeOK, Unit
    <2>3. outPipe' \in Seq(Unit)
      BY <2>1, <2>2, AppendType DEF TypeOK
    <2>4. nextLine' \in Nat \ {0} /\ nextPos' \in Nat \ {0}
      BY <1>29 DEF TypeOK, AdapterWrites
    <2> QED BY <1>29, <2>3, <2>4 DEF TypeOK, AdapterWrites, Busy
  <1>30. CASE ClosesStdin \/ ClosesStdout
    <2>1. inOpen' \in BOOLEAN /\ outOpen' \in BOOLEAN
      BY <1>30, Zenon DEF TypeOK, ClosesStdin, ClosesStdout
    <2> QED BY <1>30, <2>1, SMTT(20) DEF TypeOK, ClosesStdin, ClosesStdout, Busy
  <1>31. CASE Exits \/ SignalLands
    <2>1. inOpen' \in BOOLEAN /\ outOpen' \in BOOLEAN
      BY <1>31, Zenon DEF Exits, SignalLands, Dies
    <2>2. /\ process' = "dead"
          /\ UNCHANGED <<rpc, session, input, writer, pump, chunks, stopPump,
                         taken, nextLine, nextPos, outPipe>>
      BY <1>31, Zenon DEF Exits, SignalLands, Dies
    <2> QED BY <2>1, <2>2 DEF TypeOK, Busy
  <1>32. CASE Ended
    BY <1>32 DEF TypeOK, Ended, vars
  <1> QED
    BY <1>1, <1>2, <1>3, <1>4, <1>5, <1>6, <1>7, <1>8, <1>9, <1>10, <1>11,
       <1>12, <1>13, <1>14, <1>15, <1>16, <1>17, <1>18, <1>19, <1>20, <1>21,
       <1>22, <1>23, <1>24, <1>25, <1>26, <1>27, <1>28, <1>29, <1>30, <1>31,
       <1>32
       DEF Next, CallReturns, Caller, Pump, Adapter

(* Every variable keeps its type.                                          *)
THEOREM TypeCorrect == Spec => []TypeOK
  <1>1. Init => TypeOK
    <2>1. NoReply \in Reply
      BY DEF NoReply, Reply, ReplyKinds
    <2>2. EndOfFile \in Chunk /\ <<>> \in Seq(Chunk) /\ <<>> \in Seq(Unit)
      BY DEF EndOfFile, Chunk
    <2>3. ASSUME Init
          PROVE  /\ expired \in BOOLEAN /\ broken \in BOOLEAN /\ eof \in BOOLEAN
                 /\ big \in BOOLEAN /\ werr \in BOOLEAN
                 /\ stopPump \in BOOLEAN /\ inOpen \in BOOLEAN
                 /\ outOpen \in BOOLEAN
      BY <2>3, Zenon DEF Init
    <2>4. ASSUME Init
          PROVE  /\ rpc = "new" /\ calls = 0 /\ issued = 0 /\ pending = NoReply
                 /\ reply = NoReply /\ hello = "none" /\ buffer = <<>>
                 /\ sent = 0 /\ taken = 0 /\ ppc = "none" /\ held = EndOfFile
                 /\ chunks = <<>> /\ process = "none" /\ outPipe = <<>>
                 /\ nextLine = 1 /\ nextPos = 1
      BY <2>4, Zenon DEF Init
    <2> QED BY <2>1, <2>2, <2>3, <2>4 DEF TypeOK, Busy
  <1> QED BY <1>1, TypeStep, PTL DEF Spec

-----------------------------------------------------------------------------
(* The bound on memory.  _read_line asks the queue for more only while its *)
(* buffer is within the line limit, and between the check and the get no   *)
(* other thread touches the buffer.                                        *)

MemoryInv == MemoryBound /\ (rpc = "getting" => Len(buffer) <= MaxLine)

\* What the actions that touch neither the chunks nor the buffer leave alone.
QuietMemory == UNCHANGED <<buffer, chunks, held>> /\ rpc' # "getting"

(* The actions that move no bytes and do not start a wait on the queue.    *)
LEMMA QuietMemoryStep ==
    ASSUME TypeOK, MemoryInv, QuietMemory
    PROVE  MemoryInv'
  BY DEF TypeOK, MemoryInv, MemoryBound, QuietMemory

(* Finish and Kill leave the wait on the queue.                            *)
LEMMA NotGetting ==
    ASSUME NEW r \in Reply, Finish(r) \/ Kill(r)
    PROVE  rpc' \in {"idle", "killing"}
  BY DEF Finish, Kill

(* The head of the queue gone, the rest is as bounded as it was.           *)
LEMMA DequeueBound ==
    ASSUME TypeOK, MemoryInv, chunks # <<>>, chunks' = Tail(chunks)
    PROVE  /\ Len(chunks') <= MaxQueued
           /\ \A i \in 1..Len(chunks') : Len(chunks'[i].data) <= ReadChunk
           /\ Head(chunks) = chunks[1] /\ 1 \in 1..Len(chunks)
           /\ Len(Head(chunks).data) <= ReadChunk
  <1>1. Len(chunks) \in Nat /\ Len(chunks) # 0
    BY DEF TypeOK
  <1>2. Len(chunks') = Len(chunks) - 1
        /\ \A i \in 1..Len(chunks') : chunks'[i] = chunks[i + 1]
    BY TailType DEF TypeOK
  <1>3. \A i \in 1..Len(chunks') : i + 1 \in 1..Len(chunks)
    BY <1>1, <1>2
  <1>4. Head(chunks) = chunks[1] /\ 1 \in 1..Len(chunks)
    BY <1>1
  <1> QED BY <1>1, <1>2, <1>3, <1>4, BoundsAssumption DEF MemoryInv, MemoryBound

(* Every action keeps the bound.                                           *)
LEMMA MemoryStep == TypeOK /\ MemoryInv /\ [Next]_vars => MemoryInv'
  <1> SUFFICES ASSUME TypeOK, MemoryInv, [Next]_vars PROVE MemoryInv'
    OBVIOUS
  <1> USE DEF session, input, writer, pump, adapter
  <1>1. CASE UNCHANGED vars
    BY <1>1 DEF MemoryInv, MemoryBound, vars
  <1>2. CASE KillWaited
    <2>1. QuietMemory
      BY <1>2 DEF KillWaited, QuietMemory
    <2> QED BY <2>1, QuietMemoryStep
  <1>3. CASE WriteTimedOut \/ ReadTooLate \/ GetTimedOut
    <2>1. Failure("timed out") \in Reply
      BY ReplyTypes DEF TransportFailures
    <2>2. QuietMemory
      BY <1>3, <2>1, NotGetting
         DEF WriteTimedOut, ReadTooLate, GetTimedOut, QuietMemory
    <2> QED BY <2>2, QuietMemoryStep
  <1>4. CASE WriteFailed \/ ReadAtEof
    <2>1. Failure("write failed") \in Reply /\ Failure("exited") \in Reply
      BY ReplyTypes DEF TransportFailures
    <2>2. QuietMemory
      BY <1>4, <2>1, NotGetting DEF WriteFailed, ReadAtEof, QuietMemory
    <2> QED BY <2>2, QuietMemoryStep
  <1>5. CASE WriteDone
    <2>1. QuietMemory
      BY <1>5 DEF WriteDone, QuietMemory
    <2> QED BY <2>1, QuietMemoryStep
  <1>6. CASE ReadTooLong
    <2>1. Len(buffer) \in 1..Len(buffer) /\ buffer[Len(buffer)] \in Unit
      BY <1>6, BoundsAssumption DEF ReadTooLong, TooLong, TypeOK
    <2>2. LineReply("oversize", buffer[Len(buffer)]) \in Reply
      BY <2>1, ReplyTypes DEF TransportFailures
    <2>3. QuietMemory
      BY <1>6, <2>2, NotGetting DEF ReadTooLong, QuietMemory
    <2> QED BY <2>3, QuietMemoryStep
  <1>7. CASE ReadMore
    BY <1>7, BoundsAssumption DEF ReadMore, TooLong, TypeOK, MemoryInv, MemoryBound
  <1>8. CASE GetError
    <2>1. Failure("read failed") \in Reply
      BY ReplyTypes DEF TransportFailures
    <2>2. rpc' # "getting" /\ UNCHANGED <<buffer, held>>
      BY <1>8, <2>1, NotGetting DEF GetError
    <2>3. chunks # <<>> /\ chunks' = Tail(chunks)
      BY <1>8 DEF GetError
    <2> QED BY <2>2, <2>3, DequeueBound DEF MemoryInv, MemoryBound
  <1>9. CASE GetEof
    <2>1. rpc' # "getting" /\ UNCHANGED <<buffer, held>>
      BY <1>9 DEF GetEof
    <2>2. chunks # <<>> /\ chunks' = Tail(chunks)
      BY <1>9 DEF GetEof
    <2> QED BY <2>1, <2>2, DequeueBound DEF MemoryInv, MemoryBound
  <1>10. CASE GetData
    <2>1. chunks # <<>> /\ chunks' = Tail(chunks)
      BY <1>10 DEF GetData
    <2>2. /\ Len(buffer) <= MaxLine /\ rpc' # "getting" /\ UNCHANGED held
          /\ buffer' = buffer \o Head(chunks).data
      BY <1>10 DEF GetData, MemoryInv
    <2>3. Head(chunks).data \in Seq(Unit)
      <3>1. Head(chunks) \in Chunk
        BY <2>1, TailType DEF TypeOK
      <3> QED BY <3>1 DEF Chunk
    <2>4. Len(buffer') = Len(buffer) + Len(Head(chunks).data)
          /\ Len(buffer) \in Nat /\ Len(Head(chunks).data) \in Nat
      BY <2>2, <2>3 DEF TypeOK
    <2>5. Len(Head(chunks).data) <= ReadChunk
      BY <2>1, DequeueBound
    <2>6. Len(buffer') <= MaxLine + ReadChunk
      BY <2>2, <2>4, <2>5, BoundsAssumption
    <2> QED BY <2>1, <2>2, <2>6, DequeueBound DEF MemoryInv, MemoryBound
  <1>11. CASE TakeLine
    <2> DEFINE i == FirstNewline(buffer)
    <2>1. i \in 1..Len(buffer) /\ Len(buffer) \in Nat
      BY <1>11, NewlineInBuffer DEF TakeLine, TypeOK
    <2>2. buffer' = SubSeq(buffer, i + 1, Len(buffer)) /\ UNCHANGED <<chunks, held>>
      BY <1>11 DEF TakeLine, Rest
    <2>3. rpc' # "getting"
      <3>1. \E r : Finish(r) \/ Kill(r)
        BY <1>11 DEF TakeLine
      <3> QED BY <3>1 DEF Finish, Kill
    <2> HIDE DEF i
    <2>4. Len(buffer') = Len(buffer) - i
      <3>1. i + 1 \in Nat \ {0} /\ i + 1 <= Len(buffer) + 1
        BY <2>1
      <3> QED BY <2>1, <2>2, <3>1, CutType DEF TypeOK
    <2> QED BY <2>1, <2>2, <2>3, <2>4, BoundsAssumption DEF MemoryInv, MemoryBound
  <1>12. CASE Terminated \/ TerminateTimedOut
    <2>1. CloseReply \in Reply
      BY ReplyTypes
    <2>2. QuietMemory
      BY <1>12, <2>1, NotGetting DEF Terminated, TerminateTimedOut, QuietMemory
    <2> QED BY <2>2, QuietMemoryStep
  <1>13. CASE Start
    <2>1. QuietMemory
      BY <1>13 DEF Start, QuietMemory
    <2> QED BY <2>1, QuietMemoryStep
  <1>14. CASE RequestTooLarge
    <2>1. QuietMemory
      BY <1>14 DEF RequestTooLarge, Finish, QuietMemory
    <2> QED BY <2>1, QuietMemoryStep
  <1>15. CASE RequestExited
    <2>1. QuietMemory
      BY <1>15 DEF RequestExited, Finish, QuietMemory
    <2> QED BY <2>1, QuietMemoryStep
  <1>16. CASE Request
    <2>1. QuietMemory
      BY <1>16 DEF Request, QuietMemory
    <2> QED BY <2>1, QuietMemoryStep
  <1>17. CASE CloseUnstarted \/ Close
    <2>1. QuietMemory
      BY <1>17 DEF CloseUnstarted, Close, QuietMemory
    <2> QED BY <2>1, QuietMemoryStep
  <1>18. CASE Expire
    BY <1>18 DEF Expire, MemoryInv, MemoryBound
  <1>19. CASE Writer
    BY <1>19 DEF Writer, WriterWrites, WriterFails, MemoryInv, MemoryBound
  <1>20. CASE PumpReads
    <2>1. Len(held'.data) <= ReadChunk
      <3>1. CASE outPipe = <<>>
        <4>1. held' = EndOfFile
          BY <1>20, <3>1 DEF PumpReads
        <4> QED BY <4>1, BoundsAssumption DEF EndOfFile
      <3>2. CASE outPipe # <<>>
        <4> DEFINE n == AtMost(ReadChunk, Len(outPipe))
        <4>1. n \in Nat /\ n <= Len(outPipe) /\ n <= ReadChunk
          BY BoundsAssumption DEF AtMost, TypeOK
        <4>2. held' = Data(SubSeq(outPipe, 1, n))
          BY <1>20, <3>2 DEF PumpReads
        <4> HIDE DEF n
        <4>3. Len(SubSeq(outPipe, 1, n)) = n
          BY <4>1, CutType DEF TypeOK
        <4> QED BY <4>1, <4>2, <4>3 DEF Data
      <3> QED BY <3>1, <3>2
    <2> QED BY <1>20, <2>1 DEF PumpReads, MemoryInv, MemoryBound
  <1>21. CASE PumpReadFails
    BY <1>21, BoundsAssumption DEF PumpReadFails, ReadError, MemoryInv, MemoryBound
  <1>22. CASE PumpPuts
    <2>1. /\ chunks' = Append(chunks, held) /\ held' = EndOfFile
          /\ Len(chunks) < MaxQueued /\ UNCHANGED <<rpc, buffer>>
      BY <1>22 DEF PumpPuts
    <2>2. /\ Len(chunks) \in Nat /\ Len(chunks') = Len(chunks) + 1
          /\ \A i \in 1..Len(chunks) : chunks'[i] = chunks[i]
          /\ chunks'[Len(chunks) + 1] = held
      BY <2>1, AppendType DEF TypeOK
    <2>3. ASSUME NEW i \in 1..Len(chunks') PROVE Len(chunks'[i].data) <= ReadChunk
      <3>1. i \in 1..Len(chunks) \/ i = Len(chunks) + 1
        BY <2>2
      <3> QED BY <2>2, <3>1 DEF MemoryInv, MemoryBound
    <2> QED
      BY <2>1, <2>2, <2>3, BoundsAssumption DEF EndOfFile, MemoryInv, MemoryBound
  <1>23. CASE PumpGivesUp
    BY <1>23, BoundsAssumption DEF PumpGivesUp, EndOfFile, MemoryInv, MemoryBound
  <1>24. CASE Adapter \/ SignalLands
    BY <1>24 DEF Adapter, AdapterReads, AdapterWrites, ClosesStdin, ClosesStdout,
                 Exits, SignalLands, Dies, MemoryInv, MemoryBound
  <1>25. CASE Ended
    BY <1>25 DEF Ended, vars, MemoryInv, MemoryBound
  <1> QED
    BY <1>1, <1>2, <1>3, <1>4, <1>5, <1>6, <1>7, <1>8, <1>9, <1>10, <1>11,
       <1>12, <1>13, <1>14, <1>15, <1>16, <1>17, <1>18, <1>19, <1>20, <1>21,
       <1>22, <1>23, <1>24, <1>25
       DEF Next, CallReturns, Caller, Pump

(* The session holds no more than its limits say, whatever the adapter     *)
(* writes.                                                                 *)
THEOREM MemoryBounded == Spec => []MemoryBound
  <1>1. Init => MemoryInv
    BY BoundsAssumption DEF Init, MemoryInv, MemoryBound, EndOfFile
  <1>2. MemoryInv => MemoryBound
    BY DEF MemoryInv
  <1> QED BY <1>1, <1>2, MemoryStep, TypeCorrect, PTL DEF Spec

-----------------------------------------------------------------------------
(* The end of the file.  EofIsLast is not inductive: what makes it true is *)
(* that the pump's last chunk is the last of the queue, and that the pipe  *)
(* was empty and closed when the pump met its end, which nothing undoes.   *)

EndSeen ==
    \/ eof
    \/ ppc = "put" /\ held.kind = "eof"
    \/ \E i \in 1..Len(chunks) : chunks[i].kind = "eof"

EofInv ==
    /\ rpc = "new" => ppc = "none" /\ ~eof /\ chunks = <<>>
    /\ eof => ppc = "done" /\ chunks = <<>>
    /\ \A i \in 1..Len(chunks) :
           chunks[i].kind # "data" => ppc = "done" /\ i = Len(chunks)
    /\ EndSeen => outPipe = <<>> /\ ~outOpen

\* What the actions that leave the stream and its end alone have in common.
QuietStream ==
    /\ UNCHANGED <<eof, chunks, ppc, held, outPipe, outOpen>>
    /\ rpc' = "new" => rpc = "new"

(* Such actions keep the invariant.                                        *)
LEMMA QuietStreamStep ==
    ASSUME EofInv, QuietStream
    PROVE  EofInv'
  BY DEF EofInv, EndSeen, QuietStream

(* So do those that also take the head of the queue, unless it is the end. *)
LEMMA DequeueStep ==
    ASSUME TypeOK, EofInv, chunks # <<>>, chunks' = Tail(chunks),
           UNCHANGED <<ppc, held, outPipe, outOpen>>,
           rpc' # "new",
           eof' => eof \/ chunks[1].kind = "eof"
    PROVE  EofInv'
  <1>1. Len(chunks) \in Nat /\ Len(chunks) # 0 /\ 1 \in 1..Len(chunks)
    BY DEF TypeOK
  <1>2. Len(chunks') = Len(chunks) - 1
        /\ \A i \in 1..Len(chunks') : chunks'[i] = chunks[i + 1]
    BY TailType DEF TypeOK
  <1>3. \A i \in 1..Len(chunks') : i + 1 \in 1..Len(chunks)
    BY <1>1, <1>2
  <1>4. ~eof
    BY DEF EofInv
  <1>5. EndSeen' => EndSeen
    BY <1>1, <1>2, <1>3, <1>4 DEF EndSeen
  <1>6. eof' => ppc' = "done" /\ chunks' = <<>>
    <2>1. SUFFICES ASSUME eof' PROVE ppc' = "done" /\ chunks' = <<>>
      OBVIOUS
    <2>2. chunks[1].kind = "eof"
      BY <1>4, <2>1
    <2>3. ppc = "done" /\ Len(chunks) = 1
      BY <1>1, <2>2 DEF EofInv
    <2>4. Len(chunks') = 0 /\ chunks' \in Seq(Chunk)
      BY <1>2, <2>3, TailType DEF TypeOK
    <2> QED BY <2>3, <2>4
  <1>7. \A i \in 1..Len(chunks') :
           chunks'[i].kind # "data" => ppc' = "done" /\ i = Len(chunks')
    <2>1. SUFFICES ASSUME NEW i \in 1..Len(chunks'), chunks'[i].kind # "data"
                   PROVE  ppc' = "done" /\ i = Len(chunks')
      OBVIOUS
    <2>2. i + 1 \in 1..Len(chunks) /\ chunks[i + 1].kind # "data"
      BY <1>2, <1>3, <2>1
    <2>3. ppc = "done" /\ i + 1 = Len(chunks)
      BY <2>2 DEF EofInv
    <2>4. ppc' = "done"
      BY <2>3
    <2>5. i = Len(Tail(chunks))
      BY <2>3, TailType DEF TypeOK
    <2> QED BY <2>4, <2>5
  <1> QED BY <1>5, <1>6, <1>7 DEF EofInv

(* Every action keeps the invariant.                                       *)
LEMMA EofStep == TypeOK /\ EofInv /\ [Next]_vars => EofInv'
  <1> SUFFICES ASSUME TypeOK, EofInv, [Next]_vars PROVE EofInv'
    OBVIOUS
  <1> USE DEF session, input, writer, pump, adapter
  <1>1. CASE UNCHANGED vars
    <2>1. QuietStream
      BY <1>1 DEF vars, QuietStream
    <2> QED BY <2>1, QuietStreamStep
  <1>2. CASE KillWaited
    <2>1. QuietStream
      BY <1>2 DEF KillWaited, QuietStream
    <2> QED BY <2>1, QuietStreamStep
  <1>3. CASE \/ WriteTimedOut \/ WriteFailed \/ ReadTooLong \/ ReadAtEof
             \/ ReadTooLate \/ GetTimedOut \/ TakeLine \/ TerminateTimedOut
    <2>1. \E r : Finish(r) \/ Kill(r)
      BY <1>3 DEF WriteTimedOut, WriteFailed, ReadTooLong, ReadAtEof,
                  ReadTooLate, GetTimedOut, TakeLine, TerminateTimedOut
    <2>2. rpc' # "new"
      BY <2>1 DEF Finish, Kill
    <2>3. UNCHANGED <<eof, chunks, ppc, held, outPipe, outOpen>>
      BY <1>3 DEF WriteTimedOut, WriteFailed, ReadTooLong, ReadAtEof,
                  ReadTooLate, GetTimedOut, TakeLine, TerminateTimedOut
    <2> QED BY <2>2, <2>3, QuietStreamStep DEF QuietStream
  <1>4. CASE WriteDone \/ ReadMore \/ Terminated
    <2>1. QuietStream
      BY <1>4 DEF WriteDone, ReadMore, Terminated, QuietStream
    <2> QED BY <2>1, QuietStreamStep
  <1>5. CASE GetError
    <2>1. \E r : Kill(r)
      BY <1>5 DEF GetError
    <2>2. rpc' # "new"
      BY <2>1 DEF Finish, Kill
    <2>3. /\ chunks # <<>> /\ chunks' = Tail(chunks)
          /\ UNCHANGED <<eof, ppc, held, outPipe, outOpen>>
      BY <1>5 DEF GetError
    <2> QED BY <2>2, <2>3, DequeueStep
  <1>6. CASE GetData
    <2>1. /\ chunks # <<>> /\ chunks' = Tail(chunks) /\ rpc' = "reading"
          /\ UNCHANGED <<eof, ppc, held, outPipe, outOpen>>
      BY <1>6 DEF GetData
    <2> QED BY <2>1, DequeueStep
  <1>7. CASE GetEof
    <2>1. /\ chunks # <<>> /\ chunks' = Tail(chunks) /\ rpc' = "reading"
          /\ Head(chunks).kind = "eof"
          /\ UNCHANGED <<ppc, held, outPipe, outOpen>>
      BY <1>7 DEF GetEof
    <2>2. eof'
      BY <1>7, Zenon DEF GetEof
    <2>3. chunks[1] = Head(chunks)
      BY <2>1 DEF TypeOK
    <2> QED BY <2>1, <2>2, <2>3, DequeueStep
  <1>8. CASE Start
    <2>1. /\ rpc = "new" /\ rpc' = "idle" /\ ppc' = "read"
          /\ UNCHANGED <<eof, chunks>>
      BY <1>8 DEF Start
    <2>2. ~eof /\ chunks = <<>>
      BY <2>1 DEF EofInv
    <2>3. ~EndSeen'
      BY <2>1, <2>2 DEF EndSeen
    <2> QED BY <2>1, <2>2, <2>3 DEF EofInv
  <1>9. CASE RequestTooLarge \/ RequestExited
    <2>1. QuietStream
      BY <1>9 DEF RequestTooLarge, RequestExited, Finish, QuietStream
    <2> QED BY <2>1, QuietStreamStep
  <1>10. CASE Request \/ CloseUnstarted \/ Close \/ Expire
    <2>1. QuietStream
      BY <1>10 DEF Request, CloseUnstarted, Close, Expire, QuietStream
    <2> QED BY <2>1, QuietStreamStep
  <1>11. CASE Writer
    <2>1. QuietStream
      BY <1>11 DEF Writer, WriterWrites, WriterFails, QuietStream
    <2> QED BY <2>1, QuietStreamStep
  <1>12. CASE PumpReads
    <2>1. ppc = "read" /\ ppc' = "put" /\ UNCHANGED <<rpc, eof, chunks, outOpen>>
      BY <1>12 DEF PumpReads
    <2>2. ~eof /\ rpc # "new" /\ \A i \in 1..Len(chunks) : chunks[i].kind = "data"
      BY <2>1 DEF EofInv
    <2>3. held'.kind = "eof" => outPipe' = <<>> /\ ~outOpen'
      BY <1>12 DEF PumpReads, Data
    <2> QED BY <2>1, <2>2, <2>3 DEF EofInv, EndSeen
  <1>13. CASE PumpReadFails
    <2>1. /\ ppc = "read" /\ ppc' = "put" /\ held'.kind = "error"
          /\ UNCHANGED <<rpc, eof, chunks, outOpen, outPipe>>
      BY <1>13 DEF PumpReadFails, ReadError
    <2>2. ~eof /\ rpc # "new" /\ \A i \in 1..Len(chunks) : chunks[i].kind = "data"
      BY <2>1 DEF EofInv
    <2> QED BY <2>1, <2>2 DEF EofInv, EndSeen
  <1>14. CASE PumpPuts
    <2>1. /\ ppc = "put" /\ chunks' = Append(chunks, held)
          /\ UNCHANGED <<rpc, eof, outOpen, outPipe>>
          /\ ppc' = IF held.kind = "data" THEN "read" ELSE "done"
      BY <1>14 DEF PumpPuts
    <2>2. ~eof /\ rpc # "new" /\ \A i \in 1..Len(chunks) : chunks[i].kind = "data"
      BY <2>1 DEF EofInv
    <2>3. /\ Len(chunks) \in Nat /\ Len(chunks') = Len(chunks) + 1
          /\ \A i \in 1..Len(chunks) : chunks'[i] = chunks[i]
          /\ chunks'[Len(chunks) + 1] = held
      BY <2>1, AppendType DEF TypeOK
    <2>4. \A i \in 1..Len(chunks') : i \in 1..Len(chunks) \/ i = Len(chunks')
      BY <2>3
    <2>5. \A i \in 1..Len(chunks') :
             chunks'[i].kind # "data" => ppc' = "done" /\ i = Len(chunks')
      BY <2>1, <2>2, <2>3, <2>4
    <2>6. EndSeen' => EndSeen
      BY <2>1, <2>2, <2>3, <2>4 DEF EndSeen
    <2> QED BY <2>1, <2>2, <2>5, <2>6 DEF EofInv
  <1>15. CASE PumpGivesUp
    <2>1. /\ ppc = "put" /\ ppc' = "done"
          /\ UNCHANGED <<rpc, eof, chunks, outOpen, outPipe>>
      BY <1>15 DEF PumpGivesUp
    <2>2. ~eof /\ rpc # "new" /\ \A i \in 1..Len(chunks) : chunks[i].kind = "data"
      BY <2>1 DEF EofInv
    <2> QED BY <2>1, <2>2 DEF EofInv, EndSeen
  <1>16. CASE AdapterReads \/ ClosesStdin
    <2>1. QuietStream
      BY <1>16 DEF AdapterReads, ClosesStdin, QuietStream
    <2> QED BY <2>1, QuietStreamStep
  <1>17. CASE AdapterWrites
    <2>1. outOpen /\ UNCHANGED <<rpc, eof, chunks, ppc, held, outOpen>>
      BY <1>17 DEF AdapterWrites
    <2>2. ~EndSeen
      BY <2>1 DEF EofInv
    <2>3. ~EndSeen'
      BY <2>1, <2>2 DEF EndSeen
    <2> QED BY <2>1, <2>3 DEF EofInv
  <1>18. CASE ClosesStdout \/ Exits \/ SignalLands
    <2>1. UNCHANGED <<rpc, eof, chunks, ppc, held, outPipe>>
      BY <1>18 DEF ClosesStdout, Exits, SignalLands, Dies
    <2>2. outOpen' => outOpen
      BY <1>18, Zenon DEF ClosesStdout, Exits, SignalLands, Dies
    <2>3. EndSeen' => EndSeen
      BY <2>1 DEF EndSeen
    <2> QED BY <2>1, <2>2, <2>3 DEF EofInv
  <1>19. CASE Ended
    <2>1. QuietStream
      BY <1>19 DEF Ended, vars, QuietStream
    <2> QED BY <2>1, QuietStreamStep
  <1> QED
    BY <1>1, <1>2, <1>3, <1>4, <1>5, <1>6, <1>7, <1>8, <1>9, <1>10, <1>11,
       <1>12, <1>13, <1>14, <1>15, <1>16, <1>17, <1>18, <1>19
       DEF Next, CallReturns, Caller, Pump, Adapter

(* The end of the file is believed only after the last byte.               *)
THEOREM EofComesLast == Spec => []EofIsLast
  <1>1. Init => EofInv
    <2>1. ASSUME Init
          PROVE  rpc = "new" /\ ppc = "none" /\ chunks = <<>> /\ ~eof
      BY <2>1, Zenon DEF Init
    <2>2. ASSUME Init PROVE ~EndSeen
      BY <2>1, <2>2 DEF EndSeen
    <2> QED BY <2>1, <2>2 DEF EofInv
  <1>2. EofInv => EofIsLast
    BY DEF EofInv, EofIsLast, EndSeen
  <1> QED BY <1>1, <1>2, EofStep, TypeCorrect, PTL DEF Spec

-----------------------------------------------------------------------------
(* Fail-stop.  FailStop is not inductive: what makes a failure last is that  *)
(* one of three states is reached that nothing undoes, and each of them      *)
(* stops a later request before a line is taken: a dead process refuses it,  *)
(* a deaf one never has it written, and after the end of the file a buffer   *)
(* without a newline is all there is.                                        *)

Silent == eof /\ ~HasNewline(buffer)
Deaf   == ~inOpen /\ sent < issued

Outage ==
    /\ rpc = "new" => ~broken /\ issued = 0
    /\ rpc \notin {"new", "closed"} => process # "none"
    /\ werr => Deaf
    /\ rpc = "killing" => pending.kind \in TransportFailures \cup {"closed"}
    /\ stopPump => \/ rpc \in {"terminating", "closed"}
                   \/ rpc = "killing" /\ pending.kind = "closed"
    /\ broken =>
          /\ rpc = "idle" => process = "dead" \/ Silent \/ Deaf
          /\ rpc = "writing" => Silent \/ Deaf
          /\ rpc = "reading" => Silent
          /\ rpc # "getting"
    /\ FailStop

LEMMA OutageInit == Init => Outage
  <1> SUFFICES ASSUME Init PROVE Outage
    OBVIOUS
  <1>1. rpc = "new" /\ issued = 0
    BY DEF Init
  <1>2. ~broken /\ ~werr /\ ~stopPump
    BY Zenon DEF Init
  <1> QED BY <1>1, <1>2 DEF Outage, FailStop

(* A step of a thread, of the adapter or of the system: the calling thread   *)
(* does not move, and none of the three states is left.                      *)
LEMMA OutageQuiet ==
    ASSUME Outage, UNCHANGED <<rpc, pending, reply, broken, stopPump, issued>>,
           process' \in {process, "dead"},
           Silent => Silent', Deaf => Deaf', werr' => werr \/ Deaf'
    PROVE  Outage'
  <1>1. /\ rpc' = "new" => ~broken' /\ issued' = 0
        /\ stopPump' => \/ rpc' \in {"terminating", "closed"}
                        \/ rpc' = "killing" /\ pending'.kind = "closed"
        /\ FailStop'
    BY Zenon DEF Outage, FailStop
  <1>2. /\ rpc' \notin {"new", "closed"} => process' # "none"
        /\ werr' => Deaf'
        /\ rpc' = "killing" => pending'.kind \in TransportFailures \cup {"closed"}
    BY DEF Outage
  <1>3. broken' =>
          /\ rpc' = "idle" => process' = "dead" \/ Silent' \/ Deaf'
          /\ rpc' = "writing" => Silent' \/ Deaf'
          /\ rpc' = "reading" => Silent'
          /\ rpc' # "getting"
    BY DEF Outage
  <1> HIDE DEF Silent, Deaf
  <1> QED BY <1>1, <1>2, <1>3 DEF Outage

\* What the steps of the calling thread leave alone when a call ends.
QuietCall == UNCHANGED <<buffer, eof, werr, sent, issued, inOpen, stopPump>>

(* A call that ends in a failure leaves one of the three states.             *)
LEMMA FailureFinishes ==
    ASSUME TypeOK, Outage, rpc \in Busy \cup {"idle"}, ~stopPump, QuietCall,
           NEW r \in Reply, Finish(r),
           r.kind \in TransportFailures => process = "dead" \/ Silent \/ Deaf,
           r.kind \in TransportFailures \cup {"too large"},
           rpc = "idle" \/ r.kind \in TransportFailures
    PROVE  Outage'
  <1>1. /\ reply' = r /\ rpc' = "idle" /\ process' = process
        /\ broken' = (broken \/ r.kind \in TransportFailures)
    BY DEF Finish, Return
  <1>2. (Silent' <=> Silent) /\ (Deaf' <=> Deaf)
    BY DEF QuietCall, Silent, Deaf
  <1>3. ~stopPump' /\ (werr' => Deaf')
    BY <1>2 DEF QuietCall, Outage
  <1>4. process' # "none"
    BY <1>1 DEF Outage, Busy
  <1>5. broken' => process' = "dead" \/ Silent' \/ Deaf'
    BY <1>1, <1>2 DEF Outage
  <1> HIDE DEF Silent, Deaf
  <1> QED BY <1>1, <1>3, <1>4, <1>5 DEF Outage, FailStop

(* So does one that has to kill the process first.                           *)
LEMMA FailureKills ==
    ASSUME TypeOK, Outage, rpc \in Busy, ~stopPump, QuietCall,
           NEW r \in Reply, Kill(r), r.kind \in TransportFailures
    PROVE  Outage'
  <1>1. CASE Alive
    <2>1. /\ process' = "signalled" /\ rpc' = "killing" /\ pending' = r
          /\ UNCHANGED <<reply, broken>>
      BY <1>1 DEF Kill
    <2>2. (Deaf' <=> Deaf) /\ ~stopPump'
      BY DEF QuietCall, Deaf
    <2>3. werr' => Deaf'
      BY <2>2 DEF QuietCall, Outage
    <2>4. FailStop'
      BY <2>1, Zenon DEF Outage, FailStop
    <2> HIDE DEF Deaf
    <2> QED BY <2>1, <2>2, <2>3, <2>4 DEF Outage
  <1>2. CASE ~Alive
    <2>1. process = "dead"
      BY <1>2 DEF Alive, TypeOK, Outage, Busy
    <2> QED BY <1>2, <2>1, FailureFinishes DEF Kill
  <1> QED BY <1>1, <1>2

(* Before close() no call is stopped by it.                                  *)
LEMMA OpenWhileBusy ==
    ASSUME Outage, rpc \in {"idle", "writing", "reading", "getting", "new"}
    PROVE  ~stopPump
  BY DEF Outage

LEMMA OutageCalls ==
    ASSUME TypeOK, Outage, ~KillMayLag, CallReturns \/ Caller
    PROVE  Outage'
  <1> USE DEF session, input, writer, pump, adapter
  <1>1. CASE KillWaited
    <2>1. /\ rpc = "killing" /\ ~Alive /\ UNCHANGED <<process, stopPump>>
          /\ UNCHANGED <<buffer, eof, werr, sent, issued, inOpen>>
      BY <1>1 DEF KillWaited
    <2>2. process = "dead"
      BY <2>1 DEF Alive, TypeOK, Outage
    <2>3. Deaf' <=> Deaf
      BY <2>1 DEF Deaf
    <2>4. werr' => Deaf'
      BY <2>1, <2>3 DEF Outage
    <2> HIDE DEF Deaf
    <2>5. CASE pending.kind = "closed"
      <3>1. rpc' = "closed" /\ UNCHANGED <<reply, broken>>
        BY <1>1, <2>5 DEF KillWaited
      <3>2. FailStop'
        BY <3>1, Zenon DEF Outage, FailStop
      <3> QED BY <2>4, <3>1, <3>2 DEF Outage
    <2>6. CASE pending.kind # "closed"
      <3>1. rpc' = "idle" /\ Return(pending)
        BY <1>1, <2>6 DEF KillWaited
      <3>2. pending.kind \in TransportFailures /\ ~stopPump
        BY <2>1, <2>6 DEF Outage
      <3>3. reply' = pending /\ ~stopPump'
        BY <2>1, <3>1, <3>2 DEF Return
      <3> QED BY <2>1, <2>2, <2>4, <3>1, <3>2, <3>3 DEF Outage, FailStop
    <2> QED BY <2>5, <2>6
  <1>2. CASE WriteTimedOut \/ ReadTooLate \/ GetTimedOut \/ GetError
    <2>1. \E k \in {"timed out", "read failed"} : Kill(Failure(k))
      BY <1>2 DEF WriteTimedOut, ReadTooLate, GetTimedOut, GetError
    <2>2. /\ rpc \in {"writing", "reading", "getting"} /\ QuietCall
      BY <1>2 DEF WriteTimedOut, ReadTooLate, GetTimedOut, GetError, QuietCall
    <2>3. PICK k \in {"timed out", "read failed"} : Kill(Failure(k))
      BY <2>1
    <2>4. Failure(k) \in Reply /\ Failure(k).kind \in TransportFailures
      BY ReplyTypes DEF TransportFailures, Failure
    <2> QED BY <2>2, <2>3, <2>4, OpenWhileBusy, FailureKills DEF Busy
  <1>3. CASE WriteFailed \/ ReadAtEof
    <2>1. PICK k \in {"write failed", "exited"} : Finish(Failure(k))
      BY <1>3 DEF WriteFailed, ReadAtEof
    <2>2. rpc \in {"writing", "reading"} /\ QuietCall
      BY <1>3 DEF WriteFailed, ReadAtEof, QuietCall
    <2>3. Failure(k) \in Reply /\ Failure(k).kind \in TransportFailures
      BY ReplyTypes DEF TransportFailures, Failure
    <2>4. Silent \/ Deaf
      BY <1>3 DEF WriteFailed, ReadAtEof, Silent, Outage
    <2> QED BY <2>1, <2>2, <2>3, <2>4, OpenWhileBusy, FailureFinishes DEF Busy
  <1>4. CASE ReadTooLong
    <2>1. buffer[Len(buffer)] \in Unit
      BY <1>4, BoundsAssumption DEF ReadTooLong, TooLong, TypeOK
    <2> DEFINE r == LineReply("oversize", buffer[Len(buffer)])
    <2>2. r \in Reply /\ r.kind \in TransportFailures
      BY <2>1, ReplyTypes DEF TransportFailures, LineReply
    <2>3. rpc = "reading" /\ QuietCall /\ Kill(r)
      BY <1>4 DEF ReadTooLong, QuietCall
    <2> HIDE DEF r
    <2> QED BY <2>2, <2>3, OpenWhileBusy, FailureKills DEF Busy
  <1>5. CASE WriteDone
    <2>1. /\ rpc = "writing" /\ rpc' = "reading" /\ sent >= issued /\ ~werr
          /\ UNCHANGED <<pending, reply, broken, stopPump, process, werr, buffer, eof>>
      BY <1>5 DEF WriteDone, WriterAlive, TypeOK
    <2>2. ~Deaf /\ (Silent' <=> Silent) /\ ~stopPump
      BY <2>1, OpenWhileBusy DEF Deaf, Silent, TypeOK
    <2>3. FailStop'
      BY <2>1, Zenon DEF Outage, FailStop
    <2> HIDE DEF Silent, Deaf
    <2>4. ~stopPump' /\ ~werr' /\ process' # "none"
      BY <2>1, <2>2 DEF Outage
    <2>5. broken' => Silent'
      BY <2>1, <2>2 DEF Outage
    <2> QED BY <2>1, <2>3, <2>4, <2>5 DEF Outage
  <1>6. CASE ReadMore \/ GetEof \/ GetData
    <2>1. /\ rpc \in {"reading", "getting"} /\ rpc' \in {"reading", "getting"}
          /\ UNCHANGED <<pending, reply, broken, stopPump, process, werr, sent,
                         issued, inOpen>>
          /\ rpc = "reading" => ~eof
      BY <1>6 DEF ReadMore, GetEof, GetData
    <2>2. ~broken /\ ~stopPump
      BY <2>1, OpenWhileBusy DEF Outage, Silent
    <2>3. ~broken' /\ ~stopPump' /\ process' # "none"
      BY <2>1, <2>2 DEF Outage
    <2>4. werr' => Deaf'
      BY <2>1 DEF Outage, Deaf
    <2> HIDE DEF Deaf
    <2> QED BY <2>1, <2>3, <2>4 DEF Outage, FailStop
  <1>7. CASE TakeLine
    <2> DEFINE i == FirstNewline(buffer)
    <2>1. /\ i \in 1..Len(buffer) /\ buffer[i] \in Unit /\ buffer[i].end # "no"
          /\ TooLong(i - 1) => buffer[i - 1] \in Unit
      BY <1>7, NewlineInBuffer, BoundsAssumption DEF TakeLine, TypeOK, TooLong
    <2>2. rpc = "reading" /\ ~Silent /\ ~stopPump
      BY <1>7, OpenWhileBusy DEF TakeLine, Silent
    <2>3. ~broken
      BY <2>2 DEF Outage
    <2>4. /\ UNCHANGED <<eof, werr, sent, issued, inOpen, stopPump>>
          /\ IF TooLong(i - 1) THEN Kill(LineReply("oversize", buffer[i - 1]))
             ELSE IF buffer[i].end = "junk" THEN Kill(LineReply("junk", buffer[i]))
             ELSE Finish(LineReply(buffer[i].end, buffer[i]))
      BY <1>7 DEF TakeLine
    <2> HIDE DEF i
    <2>5. ASSUME NEW r \in Reply,
                 IF r.kind \in TransportFailures THEN Kill(r) ELSE Finish(r)
          PROVE  Outage'
      <3>1. ~stopPump' /\ (werr' => Deaf')
        BY <2>2, <2>4 DEF Outage, Deaf
      <3>2. process # "none"
        BY <2>2 DEF Outage
      <3>3. CASE Kill(r) /\ Alive /\ r.kind \in TransportFailures
        <4>1. /\ process' = "signalled" /\ rpc' = "killing" /\ pending' = r
              /\ broken' = broken
          BY <3>3 DEF Kill
        <4> HIDE DEF Deaf
        <4> QED BY <2>3, <3>1, <3>3, <4>1 DEF Outage, FailStop
      <3>4. CASE Finish(r)
        <4>1. /\ process' = process /\ rpc' = "idle" /\ reply' = r
              /\ broken' = (broken \/ r.kind \in TransportFailures)
          BY <3>4 DEF Finish, Return
        <4>2. r.kind \in TransportFailures => process = "dead"
          <5>1. r.kind \in TransportFailures => ~Alive
            BY <2>5, <3>4 DEF Kill, Finish
          <5> QED BY <3>2, <5>1 DEF Alive, TypeOK
        <4>3. broken' => r.kind \in TransportFailures
          BY <2>3, <4>1
        <4>4. FailStop'
          BY <4>1, <4>3 DEF FailStop
        <4>5. rpc' = "idle" /\ process' # "none" /\ (broken' => process' = "dead")
          BY <3>2, <4>1, <4>2, <4>3
        <4> HIDE DEF Deaf
        <4> QED BY <3>1, <4>4, <4>5 DEF Outage
      <3> QED BY <2>5, <3>3, <3>4 DEF Kill
    <2>6. CASE TooLong(i - 1)
      <3>1. /\ LineReply("oversize", buffer[i - 1]) \in Reply
            /\ LineReply("oversize", buffer[i - 1]).kind \in TransportFailures
        BY <2>1, <2>6, ReplyTypes DEF TransportFailures, LineReply
      <3> QED BY <2>4, <2>5, <2>6, <3>1
    <2>7. CASE ~TooLong(i - 1) /\ buffer[i].end = "junk"
      <3>1. /\ LineReply("junk", buffer[i]) \in Reply
            /\ LineReply("junk", buffer[i]).kind \in TransportFailures
        BY <2>1, ReplyTypes DEF TransportFailures, LineReply
      <3> QED BY <2>4, <2>5, <2>7, <3>1
    <2>8. CASE ~TooLong(i - 1) /\ buffer[i].end # "junk"
      <3>1. buffer[i].end \in ReplyKinds
        BY <2>1, <2>8, ReplyTypes DEF Unit
      <3>2. LineReply(buffer[i].end, buffer[i]) \in Reply
        BY <2>1, <3>1, ReplyTypes
      <3>3. LineReply(buffer[i].end, buffer[i]).kind \notin TransportFailures
        BY <2>1, <2>8 DEF LineReply, Unit, LineEnds, Answers, TransportFailures
      <3> QED BY <2>4, <2>5, <2>8, <3>2, <3>3
    <2> QED BY <2>6, <2>7, <2>8
  <1>8. CASE Terminated \/ TerminateTimedOut
    <2>1. /\ rpc = "terminating"
          /\ UNCHANGED <<reply, broken, stopPump, werr, sent, issued, inOpen>>
          /\ \/ rpc' = "closed"
             \/ rpc' = "killing" /\ process' = "signalled" /\ pending' = CloseReply
      BY <1>8 DEF Terminated, TerminateTimedOut, Kill
    <2>2. FailStop'
      BY <2>1, Zenon DEF Outage, FailStop
    <2>3. werr' => Deaf'
      BY <2>1 DEF Outage, Deaf
    <2>4. CloseReply.kind = "closed"
      BY DEF CloseReply
    <2> HIDE DEF Deaf
    <2> QED BY <2>1, <2>2, <2>3, <2>4 DEF Outage
  <1>9. CASE Start
    <2>1. /\ rpc = "new" /\ rpc' = "idle" /\ process' = "alive"
          /\ UNCHANGED <<broken, reply, stopPump, werr, sent, issued>>
          /\ inOpen' /\ ~broken
      BY <1>9, Zenon DEF Start, Outage
    <2>2. ~stopPump /\ FailStop'
      BY <2>1, OpenWhileBusy DEF FailStop
    <2>3. ~werr
      BY <2>1 DEF Outage, Deaf, TypeOK
    <2>4. ~broken' /\ ~stopPump' /\ ~werr'
      BY <2>1, <2>2, <2>3, Zenon
    <2> QED BY <2>1, <2>2, <2>4 DEF Outage
  <1>10. CASE RequestTooLarge
    <2> DEFINE r == [Failure("too large") EXCEPT !.req = 0]
    <2>1. r \in Reply /\ r.kind = "too large"
      BY ReplyTypes DEF Failure
    <2>2. Finish(r) /\ rpc = "idle" /\ QuietCall
      BY <1>10 DEF RequestTooLarge, MayCall, QuietCall
    <2> HIDE DEF r
    <2>3. r.kind \notin TransportFailures
      BY <2>1 DEF TransportFailures
    <2> QED BY <2>1, <2>2, <2>3, OpenWhileBusy, FailureFinishes
  <1>11. CASE RequestExited
    <2> DEFINE r == [Failure("exited") EXCEPT !.req = 0]
    <2>1. r \in Reply /\ r.kind = "exited"
      BY ReplyTypes DEF Failure
    <2>2. Finish(r) /\ rpc = "idle" /\ QuietCall /\ ~Alive
      BY <1>11 DEF RequestExited, MayCall, QuietCall
    <2> HIDE DEF r
    <2>3. process = "dead"
      BY <2>2 DEF Alive, TypeOK, Outage
    <2>4. r.kind \in TransportFailures
      BY <2>1 DEF TransportFailures
    <2> QED BY <2>1, <2>2, <2>3, <2>4, OpenWhileBusy, FailureFinishes
  <1>12. CASE Request
    <2>1. /\ rpc = "idle" /\ rpc' = "writing" /\ Alive /\ issued' = issued + 1
          /\ UNCHANGED <<pending, reply, broken, buffer, eof, sent, stopPump,
                         process, inOpen>>
      BY <1>12 DEF Request, MayCall
    <2>2. ~werr' /\ ~stopPump
      BY <1>12, <2>1, OpenWhileBusy, Zenon DEF Request
    <2>3. process # "dead" /\ process # "none"
      BY <2>1 DEF Alive, Outage
    <2>4. (Silent' <=> Silent) /\ (Deaf => Deaf')
      BY <2>1 DEF Silent, Deaf, TypeOK
    <2>5. FailStop'
      BY <2>1, Zenon DEF Outage, FailStop
    <2>6. broken' => Silent' \/ Deaf'
      BY <2>1, <2>3, <2>4 DEF Outage
    <2> HIDE DEF Silent, Deaf
    <2> QED BY <2>1, <2>2, <2>3, <2>5, <2>6 DEF Outage
  <1>13. CASE CloseUnstarted \/ Close
    <2>1. /\ rpc' \in {"terminating", "closed"} /\ rpc \in {"new", "idle"}
          /\ rpc = "new" => rpc' = "closed"
          /\ UNCHANGED <<reply, broken, process, werr, sent, issued, inOpen>>
      BY <1>13 DEF CloseUnstarted, Close
    <2>2. FailStop'
      BY <2>1, Zenon DEF Outage, FailStop
    <2>3. werr' => Deaf'
      BY <2>1 DEF Outage, Deaf
    <2> HIDE DEF Deaf
    <2> QED BY <2>1, <2>2, <2>3 DEF Outage
  <1> QED
    BY <1>1, <1>2, <1>3, <1>4, <1>5, <1>6, <1>7, <1>8, <1>9, <1>10, <1>11,
       <1>12, <1>13
       DEF CallReturns, Caller

LEMMA OutageStep ==
    ASSUME ~KillMayLag
    PROVE  TypeOK /\ Outage /\ [Next]_vars => Outage'
  <1> SUFFICES ASSUME TypeOK, Outage, [Next]_vars PROVE Outage'
    OBVIOUS
  <1> USE DEF session, input, writer, pump, adapter
  <1>1. CASE CallReturns \/ Caller
    BY <1>1, OutageCalls
  <1>2. CASE Expire \/ Pump \/ AdapterWrites \/ ClosesStdout \/ Ended \/ UNCHANGED vars
    <2>1. UNCHANGED <<rpc, pending, reply, broken, stopPump, process, eof, buffer,
                      inOpen, sent, issued, werr>>
      BY <1>2 DEF Expire, Pump, PumpReads, PumpReadFails, PumpPuts, PumpGivesUp,
                  AdapterWrites, ClosesStdout, Ended, vars
    <2>2. (Silent' <=> Silent) /\ (Deaf' <=> Deaf)
      BY <2>1 DEF Silent, Deaf
    <2> QED BY <2>1, <2>2, OutageQuiet
  \* stdin: nothing is written or read after its last reader is gone.
  <1>3. CASE Writer \/ AdapterReads \/ ClosesStdin
    <2>1. /\ UNCHANGED <<rpc, pending, reply, broken, stopPump, process, eof, buffer,
                         issued>>
          /\ ~inOpen => ~inOpen' /\ sent' = sent
      <3>1. CASE WriterWrites \/ AdapterReads
        BY <3>1, Zenon DEF WriterWrites, AdapterReads
      <3>2. CASE WriterFails
        BY <3>2, Zenon DEF WriterFails
      <3>3. CASE ClosesStdin
        BY <3>3, Zenon DEF ClosesStdin
      <3> QED BY <1>3, <3>1, <3>2, <3>3 DEF Writer
    <2>2. Silent' <=> Silent
      BY <2>1 DEF Silent
    <2>3. Deaf => Deaf'
      BY <2>1 DEF Deaf
    <2>4. werr' => werr \/ Deaf'
      BY <1>3 DEF Writer, WriterWrites, WriterFails, WriterAlive, AdapterReads,
                  ClosesStdin, Deaf
    <2> QED BY <2>1, <2>2, <2>3, <2>4, OutageQuiet
  <1>4. CASE Exits \/ SignalLands
    <2>1. /\ UNCHANGED <<rpc, pending, reply, broken, stopPump, eof, buffer,
                         sent, issued, werr>>
          /\ process' = "dead"
          /\ inOpen' => inOpen
      BY <1>4, Zenon DEF Exits, SignalLands, Dies
    <2>2. (Silent' <=> Silent) /\ (Deaf => Deaf')
      BY <2>1 DEF Silent, Deaf
    <2> QED BY <2>1, <2>2, OutageQuiet
  <1> QED BY <1>1, <1>2, <1>3, <1>4 DEF Next, Adapter

(* Whatever the adapter writes, closes or leaves running: once a call has    *)
(* reported a transport failure, no later call of the session is answered.   *)
(* (Provided that a killed process ends before _kill stops waiting for it:   *)
(* one that lags may still answer, and the next call would take its line.)   *)
THEOREM FailuresLast ==
    ASSUME ~KillMayLag
    PROVE  Spec => []FailStop
  <1>1. TypeOK /\ Outage /\ [Next]_vars => Outage'
    BY OutageStep
  <1>2. Outage => FailStop
    BY DEF Outage
  <1> QED BY <1>1, <1>2, OutageInit, TypeCorrect, PTL DEF Spec

-----------------------------------------------------------------------------
(* The stream of bytes.  A unit has a place; a run of units leads from the   *)
(* place of its first to the place that follows its last, and every cut of   *)
(* a run, and every joint of two that fit, is a run again.                   *)

Places == [line : Nat \ {0}, pos : Nat \ {0}]
PlaceOf(u) == [line |-> u.line, pos |-> u.pos]
After(u) ==
    IF u.end = "no" THEN [line |-> u.line, pos |-> u.pos + 1]
    ELSE [line |-> u.line + 1, pos |-> 1]
Before(s, p, i) == IF i = 0 THEN p ELSE After(s[i])
Run(s, p, q) ==
    /\ Before(s, p, Len(s)) = q
    /\ \A i \in 1..Len(s) : PlaceOf(s[i]) = Before(s, p, i - 1)

LEMMA CutElements ==
    ASSUME NEW S, NEW s \in Seq(S), NEW m \in Nat \ {0}, NEW n \in Nat,
           n <= Len(s), m <= n + 1
    PROVE  \A i \in 1..(n - m + 1) : SubSeq(s, m, n)[i] = s[m + i - 1]
  OBVIOUS

LEMMA ConcatElements ==
    ASSUME NEW S, NEW s \in Seq(S), NEW t \in Seq(S)
    PROVE  /\ s \o t \in Seq(S) /\ Len(s \o t) = Len(s) + Len(t)
           /\ \A i \in 1..Len(s) : (s \o t)[i] = s[i]
           /\ \A i \in 1..Len(t) : (s \o t)[Len(s) + i] = t[i]
  OBVIOUS

LEMMA AfterType ==
    ASSUME NEW u \in Unit
    PROVE  After(u) \in Places /\ PlaceOf(u) \in Places
  BY DEF After, PlaceOf, Places, Unit

LEMMA BeforeType ==
    ASSUME NEW s \in Seq(Unit), NEW p \in Places, NEW i \in 0..Len(s)
    PROVE  Before(s, p, i) \in Places
  <1>1. i # 0 => s[i] \in Unit
    OBVIOUS
  <1> QED BY <1>1, AfterType DEF Before

LEMMA RunEmpty ==
    ASSUME NEW p, NEW q
    PROVE  Run(<<>>, p, q) <=> p = q
  BY DEF Run, Before

LEMMA RunAppend ==
    ASSUME NEW s \in Seq(Unit), NEW p, NEW u \in Unit, Run(s, p, PlaceOf(u))
    PROVE  Run(Append(s, u), p, After(u))
  <1> DEFINE t == Append(s, u)
  <1>1. /\ Len(s) \in Nat /\ Len(t) = Len(s) + 1
        /\ \A i \in 1..Len(s) : t[i] = s[i]
        /\ t[Len(s) + 1] = u
    BY AppendType
  <1> HIDE DEF t
  <1>2. Before(t, p, Len(t)) = After(u)
    BY <1>1 DEF Before
  <1>3. \A i \in 0..Len(s) : Before(t, p, i) = Before(s, p, i)
    BY <1>1 DEF Before
  <1>4. ASSUME NEW i \in 1..Len(t)
        PROVE  PlaceOf(t[i]) = Before(t, p, i - 1)
    <2>1. i - 1 \in 0..Len(s) /\ (i \in 1..Len(s) \/ i = Len(s) + 1)
      BY <1>1
    <2> QED BY <1>1, <1>3, <2>1 DEF Run
  <1> QED BY <1>2, <1>4 DEF Run, t

LEMMA RunConcat ==
    ASSUME NEW s \in Seq(Unit), NEW t \in Seq(Unit), NEW p, NEW m, NEW q,
           Run(s, p, m), Run(t, m, q)
    PROVE  Run(s \o t, p, q)
  <1> DEFINE c == s \o t
  <1>1. /\ Len(s) \in Nat /\ Len(t) \in Nat /\ Len(c) = Len(s) + Len(t)
        /\ \A i \in 1..Len(s) : c[i] = s[i]
        /\ \A i \in 1..Len(t) : c[Len(s) + i] = t[i]
    BY ConcatElements
  <1> HIDE DEF c
  <1>2. \A i \in 0..Len(s) : Before(c, p, i) = Before(s, p, i)
    BY <1>1 DEF Before
  <1>3. ASSUME NEW i \in 0..Len(t)
        PROVE  Before(c, p, Len(s) + i) = Before(t, m, i)
    <2>1. CASE i = 0
      BY <1>1, <1>2, <2>1 DEF Run, Before
    <2>2. CASE i # 0
      <3>1. i \in 1..Len(t) /\ Len(s) + i # 0
        BY <1>1, <2>2
      <3> QED BY <1>1, <2>2, <3>1 DEF Before
    <2> QED BY <2>1, <2>2
  <1>4. Before(c, p, Len(c)) = q
    BY <1>1, <1>3 DEF Run
  <1>5. ASSUME NEW i \in 1..Len(c)
        PROVE  PlaceOf(c[i]) = Before(c, p, i - 1)
    <2>1. CASE i \in 1..Len(s)
      <3>1. i - 1 \in 0..Len(s)
        BY <1>1, <2>1
      <3> QED BY <1>1, <1>2, <2>1, <3>1 DEF Run
    <2>2. CASE i \notin 1..Len(s)
      <3> DEFINE j == i - Len(s)
      <3>1. j \in 1..Len(t) /\ j - 1 \in 0..Len(t)
            /\ i = Len(s) + j /\ i - 1 = Len(s) + (j - 1)
        BY <1>1, <2>2
      <3> HIDE DEF j
      <3>2. c[i] = t[j] /\ Before(c, p, i - 1) = Before(t, m, j - 1)
        BY <1>1, <1>3, <3>1
      <3> QED BY <3>1, <3>2 DEF Run
    <2> QED BY <2>1, <2>2
  <1> QED BY <1>4, <1>5 DEF Run, c

LEMMA RunCut ==
    ASSUME NEW s \in Seq(Unit), NEW p, NEW q, Run(s, p, q), NEW n \in 0..Len(s)
    PROVE  /\ Run(SubSeq(s, 1, n), p, Before(s, p, n))
           /\ Run(SubSeq(s, n + 1, Len(s)), Before(s, p, n), q)
  <1> DEFINE l == SubSeq(s, 1, n)
             r == SubSeq(s, n + 1, Len(s))
  <1>1. /\ Len(s) \in Nat /\ n \in Nat /\ n <= Len(s)
        /\ Len(l) = n /\ Len(r) = Len(s) - n
        /\ \A i \in 1..n : l[i] = s[i]
        /\ \A i \in 1..(Len(s) - n) : r[i] = s[n + i]
    <2>1. Len(s) \in Nat /\ n \in Nat /\ n <= Len(s)
      OBVIOUS
    <2>2. Len(l) = n /\ \A i \in 1..n : l[i] = s[i]
      BY <2>1, CutType, CutElements
    <2>3. Len(r) = Len(s) - n /\ \A i \in 1..(Len(s) - n) : r[i] = s[n + i]
      <3> DEFINE k == n + 1
      <3>1. k \in Nat \ {0} /\ k <= Len(s) + 1 /\ Len(s) \in Nat
        BY <2>1
      <3> HIDE DEF k
      <3>2. /\ Len(SubSeq(s, k, Len(s))) = Len(s) - k + 1
            /\ \A i \in 1..(Len(s) - k + 1) : SubSeq(s, k, Len(s))[i] = s[k + i - 1]
        BY <3>1, CutType, CutElements
      <3>3. r = SubSeq(s, k, Len(s))
        BY DEF k
      <3> HIDE DEF r
      <3>4. Len(s) - k + 1 = Len(s) - n
        BY <2>1 DEF k
      <3>5. ASSUME NEW i \in 1..(Len(s) - n) PROVE r[i] = s[n + i]
        <4>1. k + i - 1 = n + i
          BY <2>1 DEF k
        <4> QED BY <3>2, <3>3, <3>4, <4>1
      <3> QED BY <3>2, <3>3, <3>4, <3>5
    <2> QED BY <2>1, <2>2, <2>3
  <1> HIDE DEF l, r
  <1>2. \A i \in 0..n : Before(l, p, i) = Before(s, p, i)
    BY <1>1 DEF Before
  <1>3. Run(l, p, Before(s, p, n))
    <2>1. ASSUME NEW i \in 1..n
          PROVE  PlaceOf(l[i]) = Before(l, p, i - 1)
      <3>1. i - 1 \in 0..n /\ i \in 1..Len(s)
        BY <1>1
      <3> QED BY <1>1, <1>2, <3>1 DEF Run
    <2> QED BY <1>1, <1>2, <2>1 DEF Run
  <1>4. ASSUME NEW i \in 0..(Len(s) - n)
        PROVE  Before(r, Before(s, p, n), i) = Before(s, p, n + i)
    BY <1>1 DEF Before
  <1>5. Run(r, Before(s, p, n), q)
    <2>1. ASSUME NEW i \in 1..(Len(s) - n)
          PROVE  PlaceOf(r[i]) = Before(r, Before(s, p, n), i - 1)
      <3>1. i - 1 \in 0..(Len(s) - n) /\ n + i \in 1..Len(s)
            /\ n + (i - 1) = (n + i) - 1
        BY <1>1
      <3>2. Before(r, Before(s, p, n), i - 1) = Before(s, p, (n + i) - 1)
        BY <1>4, <3>1
      <3> QED BY <1>1, <3>1, <3>2 DEF Run
    <2>2. Len(s) - n \in 0..(Len(s) - n) /\ n + (Len(s) - n) = Len(s)
      BY <1>1
    <2>3. Before(r, Before(s, p, n), Len(r)) = q
      BY <1>1, <1>4, <2>2 DEF Run
    <2> QED BY <1>1, <2>1, <2>3 DEF Run
  <1> QED BY <1>3, <1>5 DEF l, r

(* In a run that starts a line, the units up to its first newline count the  *)
(* bytes of that line.  (The least place that did not would follow one that  *)
(* does.)                                                                    *)
LEMMA RunCounts ==
    ASSUME NEW s \in Seq(Unit), NEW n \in Nat \ {0}, NEW q,
           Run(s, [line |-> n, pos |-> 1], q),
           NEW m \in 0..Len(s), \A i \in 1..(m - 1) : s[i].end = "no"
    PROVE  \A i \in 1..m : s[i].line = n /\ s[i].pos = i
  <1> DEFINE T == {i \in 1..m : ~(s[i].line = n /\ s[i].pos = i)}
  <1> SUFFICES ASSUME T # {} PROVE FALSE
    OBVIOUS
  <1>1. T \subseteq Nat /\ Len(s) \in Nat /\ m \in Nat
    OBVIOUS
  <1>2. PICK i \in T : \A j \in T : i <= j
    BY <1>1, LeastNatural
  <1>3. i \in 1..m /\ i \in 1..Len(s) /\ ~(s[i].line = n /\ s[i].pos = i)
    BY <1>1, <1>2
  <1>4. PlaceOf(s[i]) = Before(s, [line |-> n, pos |-> 1], i - 1)
    BY <1>3 DEF Run
  <1>5. CASE i = 1
    BY <1>3, <1>4, <1>5 DEF Before, PlaceOf
  <1>6. CASE i # 1
    <2>1. i - 1 \in 1..(m - 1) /\ i - 1 \in 1..m /\ i - 1 # 0 /\ i - 1 < i
          /\ (i - 1) + 1 = i
      BY <1>1, <1>3, <1>6
    <2>2. i - 1 \notin T
      BY <1>2, <2>1
    <2>3. s[i - 1].line = n /\ s[i - 1].pos = i - 1 /\ s[i - 1].end = "no"
      BY <2>1, <2>2
    <2>4. PlaceOf(s[i]) = [line |-> n, pos |-> i]
      BY <1>4, <2>1, <2>3 DEF Before, After
    <2> QED BY <1>3, <2>4 DEF PlaceOf
  <1> QED BY <1>5, <1>6

(* Everything between the adapter's write and the caller is one run, which   *)
(* the buffer starts at the start of line n: through the joints between the  *)
(* buffer, the chunks of the queue, the chunk in the pump's hand and the     *)
(* pipe, up to the place of the unit the adapter writes next.                *)
StreamFrom(n) ==
    \E g \in [1..(Len(chunks) + 1) -> Places], q \in Places :
        /\ Run(buffer, [line |-> n, pos |-> 1], g[1])
        /\ \A i \in 1..Len(chunks) : Run(chunks[i].data, g[i], g[i + 1])
        /\ Run(held.data, g[Len(chunks) + 1], q)
        /\ Run(outPipe, q, [line |-> nextLine, pos |-> nextPos])

\* Only a chunk of data holds units, and the pump only one that it has read;
\* once close() has told the pump to stop, no line is taken any more.
Tidy ==
    /\ \A i \in 1..Len(chunks) : chunks[i].kind # "data" => chunks[i].data = <<>>
    /\ held.kind # "data" => held.data = <<>>
    /\ ppc # "put" => held.data = <<>>
    /\ rpc = "new" => ppc = "none"
    /\ stopPump => \/ rpc \in {"terminating", "closed"}
                   \/ rpc = "killing" /\ pending.kind = "closed"

\* What the steps that move no byte leave alone.
QuietBytes == UNCHANGED <<buffer, chunks, held, outPipe, nextLine, nextPos>>

LEMMA StreamQuiet ==
    ASSUME NEW n, StreamFrom(n), QuietBytes
    PROVE  StreamFrom(n)'
  BY DEF StreamFrom, QuietBytes

(* The head of the queue goes into the buffer, if there is anything in it.   *)
LEMMA StreamDequeue ==
    ASSUME TypeOK, NEW n \in Nat \ {0}, StreamFrom(n), chunks # <<>>,
           chunks' = Tail(chunks), buffer' = buffer \o Head(chunks).data,
           UNCHANGED <<held, outPipe, nextLine, nextPos>>
    PROVE  StreamFrom(n)'
  <1> DEFINE k == Len(chunks)
  <1>1. PICK g \in [1..(k + 1) -> Places], q \in Places :
           /\ Run(buffer, [line |-> n, pos |-> 1], g[1])
           /\ \A i \in 1..k : Run(chunks[i].data, g[i], g[i + 1])
           /\ Run(held.data, g[k + 1], q)
           /\ Run(outPipe, q, [line |-> nextLine, pos |-> nextPos])
    BY DEF StreamFrom
  <1>2. /\ k \in Nat \ {0} /\ Len(chunks') = k - 1
        /\ \A i \in 1..(k - 1) : chunks'[i] = chunks[i + 1]
        /\ Head(chunks) = chunks[1] /\ chunks[1] \in Chunk
    BY TailType DEF TypeOK
  <1> HIDE DEF k
  <1> DEFINE h == [i \in 1..k |-> g[i + 1]]
  <1>3. h \in [1..k -> Places] /\ \A i \in 1..k : h[i] = g[i + 1]
    BY <1>2
  <1> HIDE DEF h
  <1>4. Run(buffer', [line |-> n, pos |-> 1], h[1])
    <2>1. Run(chunks[1].data, g[1], g[2])
      BY <1>1, <1>2
    <2>2. h[1] = g[2]
      BY <1>2, <1>3
    <2>3. chunks[1].data \in Seq(Unit) /\ buffer \in Seq(Unit)
      BY <1>2 DEF Chunk, TypeOK
    <2> QED BY <1>1, <1>2, <2>1, <2>2, <2>3, RunConcat
  <1>5. ASSUME NEW i \in 1..(k - 1)
        PROVE  Run(chunks'[i].data, h[i], h[i + 1])
    <2>1. i + 1 \in 1..k /\ i \in 1..k
      BY <1>2
    <2>2. Run(chunks[i + 1].data, g[i + 1], g[(i + 1) + 1])
      BY <1>1, <2>1
    <2> QED BY <1>2, <1>3, <2>1, <2>2
  <1>6. Len(chunks') + 1 = k /\ h[k] = g[k + 1]
    BY <1>2, <1>3
  <1>7. /\ h \in [1..(Len(chunks') + 1) -> Places]
        /\ \A i \in 1..Len(chunks') : Run(chunks'[i].data, h[i], h[i + 1])
    BY <1>2, <1>3, <1>5, <1>6
  <1>8. /\ Run(held'.data, h[Len(chunks') + 1], q)
        /\ Run(outPipe', q, [line |-> nextLine', pos |-> nextPos'])
    BY <1>1, <1>6
  <1> QED BY <1>4, <1>7, <1>8 DEF StreamFrom

(* The pump reads a chunk off the pipe.                                      *)
LEMMA StreamRead ==
    ASSUME TypeOK, Tidy, NEW n, StreamFrom(n), PumpReads
    PROVE  StreamFrom(n)'
  <1> DEFINE k == Len(chunks)
  <1>1. PICK g \in [1..(k + 1) -> Places], q \in Places :
           /\ Run(buffer, [line |-> n, pos |-> 1], g[1])
           /\ \A i \in 1..k : Run(chunks[i].data, g[i], g[i + 1])
           /\ Run(held.data, g[k + 1], q)
           /\ Run(outPipe, q, [line |-> nextLine, pos |-> nextPos])
    BY DEF StreamFrom
  <1>2. held.data = <<>> /\ UNCHANGED <<buffer, chunks, nextLine, nextPos>>
    BY DEF PumpReads, Tidy, input, adapter
  <1>3. CASE outPipe = <<>>
    <2>1. held' = EndOfFile /\ outPipe' = outPipe
      BY <1>3 DEF PumpReads
    <2>2. held'.data = held.data
      BY <1>2, <2>1 DEF EndOfFile
    <2> QED BY <1>1, <1>2, <2>1, <2>2 DEF StreamFrom
  <1>4. CASE outPipe # <<>>
    <2> DEFINE m == AtMost(ReadChunk, Len(outPipe))
               c == Before(outPipe, q, m)
    <2>1. m \in 0..Len(outPipe)
      BY BoundsAssumption DEF AtMost, TypeOK
    <2>2. held' = Data(SubSeq(outPipe, 1, m))
          /\ outPipe' = SubSeq(outPipe, m + 1, Len(outPipe))
      BY <1>4 DEF PumpReads
    <2> HIDE DEF m
    <2>3. held'.data = SubSeq(outPipe, 1, m)
      BY <2>2 DEF Data
    <2>4. c \in Places
      BY <2>1, BeforeType DEF TypeOK
    <2>5. Run(held'.data, q, c) /\ Run(outPipe', c, [line |-> nextLine, pos |-> nextPos])
      BY <1>1, <2>1, <2>2, <2>3, RunCut DEF TypeOK
    <2>6. g[k + 1] = q
      BY <1>1, <1>2, RunEmpty
    <2> HIDE DEF c
    <2> QED BY <1>1, <1>2, <2>4, <2>5, <2>6 DEF StreamFrom
  <1> QED BY <1>3, <1>4

(* The pump puts its chunk into the queue.                                   *)
LEMMA StreamPut ==
    ASSUME TypeOK, NEW n, StreamFrom(n), PumpPuts
    PROVE  StreamFrom(n)'
  <1> DEFINE k == Len(chunks)
  <1>1. PICK g \in [1..(k + 1) -> Places], q \in Places :
           /\ Run(buffer, [line |-> n, pos |-> 1], g[1])
           /\ \A i \in 1..k : Run(chunks[i].data, g[i], g[i + 1])
           /\ Run(held.data, g[k + 1], q)
           /\ Run(outPipe, q, [line |-> nextLine, pos |-> nextPos])
    BY DEF StreamFrom
  <1>2. /\ k \in Nat /\ Len(chunks') = k + 1
        /\ \A i \in 1..k : chunks'[i] = chunks[i]
        /\ chunks'[k + 1] = held
    BY AppendType DEF PumpPuts, TypeOK
  <1>3. held'.data = <<>> /\ UNCHANGED <<buffer, outPipe, nextLine, nextPos>>
    BY DEF PumpPuts, EndOfFile, input, adapter
  <1> HIDE DEF k
  <1> DEFINE h == [i \in 1..((k + 1) + 1) |-> IF i = k + 2 THEN q ELSE g[i]]
  <1>4. /\ h \in [1..((k + 1) + 1) -> Places]
        /\ \A i \in 1..(k + 1) : h[i] = g[i]
        /\ h[(k + 1) + 1] = q
    BY <1>2
  <1> HIDE DEF h
  <1>5. ASSUME NEW i \in 1..(k + 1)
        PROVE  Run(chunks'[i].data, h[i], h[i + 1])
    <2>1. CASE i \in 1..k
      <3>1. i + 1 \in 1..(k + 1)
        BY <1>2, <2>1
      <3> QED BY <1>1, <1>2, <1>4, <2>1, <3>1
    <2>2. CASE i = k + 1
      BY <1>1, <1>2, <1>4, <2>2
    <2> QED BY <1>2, <2>1, <2>2
  <1>6. Run(held'.data, h[(k + 1) + 1], q)
    BY <1>3, <1>4, RunEmpty
  <1>7. h[1] = g[1]
    BY <1>2, <1>4
  <1> QED BY <1>1, <1>2, <1>3, <1>4, <1>5, <1>6, <1>7 DEF StreamFrom

(* The adapter writes the unit that is next.                                 *)
LEMMA StreamWrite ==
    ASSUME TypeOK, NEW n, StreamFrom(n), AdapterWrites
    PROVE  StreamFrom(n)'
  <1>1. PICK e \in LineEnds :
           /\ outPipe' = Append(outPipe, [line |-> nextLine, pos |-> nextPos, end |-> e])
           /\ IF e = "no" THEN nextPos' = nextPos + 1 /\ nextLine' = nextLine
              ELSE nextLine' = nextLine + 1 /\ nextPos' = 1
    BY DEF AdapterWrites
  <1>2. UNCHANGED <<buffer, chunks, held>>
    BY DEF AdapterWrites, input, pump
  <1> DEFINE u == [line |-> nextLine, pos |-> nextPos, end |-> e]
  <1>3. /\ u \in Unit /\ PlaceOf(u) = [line |-> nextLine, pos |-> nextPos]
        /\ After(u) = [line |-> nextLine', pos |-> nextPos']
        /\ outPipe' = Append(outPipe, u)
    BY <1>1 DEF Unit, PlaceOf, After, TypeOK
  <1> HIDE DEF u
  <1>4. \A q : Run(outPipe, q, [line |-> nextLine, pos |-> nextPos])
                 => Run(outPipe', q, [line |-> nextLine', pos |-> nextPos'])
    BY <1>3, RunAppend DEF TypeOK
  <1> QED BY <1>2, <1>4 DEF StreamFrom

(* The caller takes a line, all of one, and the buffer starts the next.      *)
LEMMA StreamTake ==
    ASSUME TypeOK, NEW n \in Nat \ {0}, StreamFrom(n), HasNewline(buffer)
    PROVE  LET i == FirstNewline(buffer) IN
           /\ \A j \in 1..i : buffer[j].line = n /\ buffer[j].pos = j
           /\ (/\ buffer' = Rest(buffer, i)
               /\ UNCHANGED <<chunks, held, outPipe, nextLine, nextPos>>)
              => StreamFrom(n + 1)'
  <1> DEFINE i == FirstNewline(buffer)
  <1>1. PICK g \in [1..(Len(chunks) + 1) -> Places], q \in Places :
           /\ Run(buffer, [line |-> n, pos |-> 1], g[1])
           /\ \A j \in 1..Len(chunks) : Run(chunks[j].data, g[j], g[j + 1])
           /\ Run(held.data, g[Len(chunks) + 1], q)
           /\ Run(outPipe, q, [line |-> nextLine, pos |-> nextPos])
    BY DEF StreamFrom
  <1>2. i \in 1..Len(buffer) /\ buffer[i].end # "no" /\ buffer[i] \in Unit
    BY NewlineInBuffer DEF TypeOK
  <1>3. \A j \in 1..(i - 1) : buffer[j].end = "no"
    BY NewlineInBuffer DEF TypeOK
  <1> HIDE DEF i
  <1>4. i \in 0..Len(buffer) /\ i # 0 /\ i \in 1..i
    BY <1>2
  <1>5. \A j \in 1..i : buffer[j].line = n /\ buffer[j].pos = j
    BY <1>1, <1>3, <1>4, RunCounts DEF TypeOK
  <1>6. Before(buffer, [line |-> n, pos |-> 1], i) = [line |-> n + 1, pos |-> 1]
    BY <1>2, <1>4, <1>5 DEF Before, After
  <1>7. Run(SubSeq(buffer, i + 1, Len(buffer)), [line |-> n + 1, pos |-> 1], g[1])
    BY <1>1, <1>4, <1>6, RunCut DEF TypeOK
  <1>8. ASSUME buffer' = Rest(buffer, i),
               UNCHANGED <<chunks, held, outPipe, nextLine, nextPos>>
        PROVE  StreamFrom(n + 1)'
    <2>1. Run(buffer', [line |-> n + 1, pos |-> 1], g[1])
      BY <1>7, <1>8 DEF Rest
    <2> QED BY <1>1, <1>8, <2>1 DEF StreamFrom
  <1> QED BY <1>5, <1>8 DEF i

(* While the buffer holds no newline, all of it is of the line it starts.    *)
LEMMA StreamWaits ==
    ASSUME TypeOK, NEW n \in Nat \ {0}, StreamFrom(n), ~HasNewline(buffer)
    PROVE  \A j \in 1..Len(buffer) : buffer[j].line = n /\ buffer[j].pos = j
  <1>1. PICK p \in Places : Run(buffer, [line |-> n, pos |-> 1], p)
    <2>1. 1 \in 1..(Len(chunks) + 1)
      BY DEF TypeOK
    <2> QED BY <2>1 DEF StreamFrom
  <1>2. /\ Len(buffer) \in 0..Len(buffer)
        /\ \A i \in 1..(Len(buffer) - 1) : buffer[i].end = "no"
    BY DEF HasNewline, TypeOK
  <1> QED BY <1>1, <1>2, RunCounts DEF TypeOK

LEMMA TidyInit == Init => Tidy
  <1> SUFFICES ASSUME Init PROVE Tidy
    OBVIOUS
  <1>1. chunks = <<>> /\ held.data = <<>>
    BY DEF Init, EndOfFile
  <1>2. ~stopPump
    BY Zenon DEF Init
  <1>3. ppc = "none"
    BY DEF Init
  <1> QED BY <1>1, <1>2, <1>3 DEF Tidy

(* close() is called only between calls.                                     *)
LEMMA TidyOpen ==
    ASSUME Tidy, rpc \in {"new", "idle", "writing", "reading", "getting"}
    PROVE  ~stopPump
  BY DEF Tidy

LEMMA TidyStep == TypeOK /\ Tidy /\ [Next]_vars => Tidy'
  <1> SUFFICES ASSUME TypeOK, Tidy, [Next]_vars PROVE Tidy'
    OBVIOUS
  <1> USE DEF session, input, writer, pump, adapter
  <1> DEFINE Stopping == stopPump => \/ rpc \in {"terminating", "closed"}
                                     \/ rpc = "killing" /\ pending.kind = "closed"
             Filled   == /\ held.kind # "data" => held.data = <<>>
                         /\ ppc # "put" => held.data = <<>>
             Unstarted == rpc = "new" => ppc = "none"
             Queued   == \A i \in 1..Len(chunks) :
                            chunks[i].kind # "data" => chunks[i].data = <<>>
  <1>1. Stopping'
    <2>1. CASE /\ rpc \in {"new", "idle", "writing", "reading", "getting"}
               /\ stopPump' = stopPump
      BY <2>1, TidyOpen
    <2>2. CASE KillWaited \/ Terminated \/ TerminateTimedOut
      <3>1. CASE KillWaited
        <4>1. /\ rpc = "killing" /\ stopPump' = stopPump
              /\ rpc' = IF pending.kind = "closed" THEN "closed" ELSE "idle"
          BY <3>1 DEF KillWaited
        <4> QED BY <4>1 DEF Tidy
      <3>2. CASE Terminated
        BY <3>2 DEF Terminated
      <3>3. CASE TerminateTimedOut
        <4>1. rpc' = "killing" /\ pending' = CloseReply
          BY <3>3 DEF TerminateTimedOut, Kill
        <4> QED BY <4>1 DEF CloseReply
      <3> QED BY <2>2, <3>1, <3>2, <3>3
    <2>3. CASE CloseUnstarted \/ Close
      BY <2>3 DEF CloseUnstarted, Close
    <2>4. CASE UNCHANGED <<rpc, pending, stopPump>>
      BY <2>4 DEF Tidy
    <2>5. CASE (CallReturns \/ Caller) /\ ~(KillWaited \/ Terminated \/ TerminateTimedOut)
               /\ ~(CloseUnstarted \/ Close)
      BY <2>1, <2>5 DEF CallReturns, Caller, WriteTimedOut, WriteFailed, WriteDone,
                 ReadTooLong, ReadAtEof, ReadTooLate, ReadMore, GetTimedOut, GetError,
                 GetEof, GetData, TakeLine, Start, RequestTooLarge, RequestExited,
                 Request, MayCall
    <2>6. CASE ~(CallReturns \/ Caller)
      BY <2>4, <2>6 DEF Next, Expire, Writer, WriterWrites, WriterFails, Pump,
                 PumpReads, PumpReadFails, PumpPuts, PumpGivesUp, Adapter, AdapterReads,
                 AdapterWrites, ClosesStdin, ClosesStdout, Exits, SignalLands, Dies,
                 Ended, vars
    <2> QED BY <2>2, <2>3, <2>5, <2>6
  <1>2. Filled'
    <2>1. CASE PumpReads \/ PumpReadFails \/ PumpPuts \/ PumpGivesUp
      BY <2>1 DEF PumpReads, PumpReadFails, PumpPuts, PumpGivesUp, EndOfFile,
                  ReadError, Data
    <2>2. CASE Start
      BY <2>2 DEF Start, Tidy
    <2>3. CASE UNCHANGED <<held, ppc>>
      BY <2>3 DEF Tidy
    <2>4. CASE CallReturns \/ RequestTooLarge \/ RequestExited \/ Request
               \/ CloseUnstarted \/ Close
      BY <2>3, <2>4 DEF CallReturns, KillWaited, WriteTimedOut, WriteFailed, WriteDone,
                 ReadTooLong, ReadAtEof, ReadTooLate, ReadMore, GetTimedOut, GetError,
                 GetEof, GetData, TakeLine, Terminated, TerminateTimedOut,
                 RequestTooLarge, RequestExited, Request, CloseUnstarted, Close
    <2>5. CASE Expire \/ Writer \/ Adapter \/ SignalLands \/ Ended \/ UNCHANGED vars
      BY <2>3, <2>5 DEF Expire, Writer, WriterWrites, WriterFails, Adapter,
                 AdapterReads, AdapterWrites, ClosesStdin, ClosesStdout, Exits,
                 SignalLands, Dies, Ended, vars
    <2> QED BY <2>1, <2>2, <2>4, <2>5 DEF Next, Caller, Pump
  <1>3. Queued'
    <2>1. CASE GetError \/ GetEof \/ GetData
      <3>1. chunks # <<>> /\ chunks' = Tail(chunks)
        BY <2>1 DEF GetError, GetEof, GetData
      <3>2. /\ Len(chunks) \in Nat /\ Len(chunks') = Len(chunks) - 1
            /\ \A i \in 1..Len(chunks') : chunks'[i] = chunks[i + 1]
        BY <3>1, TailType DEF TypeOK
      <3>3. \A i \in 1..Len(chunks') : i + 1 \in 1..Len(chunks)
        BY <3>2
      <3> QED BY <3>2, <3>3 DEF Tidy
    <2>2. CASE PumpPuts
      <3>1. /\ Len(chunks) \in Nat /\ Len(chunks') = Len(chunks) + 1
            /\ \A i \in 1..Len(chunks) : chunks'[i] = chunks[i]
            /\ chunks'[Len(chunks) + 1] = held
        BY <2>2, AppendType DEF PumpPuts, TypeOK
      <3>2. \A i \in 1..Len(chunks') : i \in 1..Len(chunks) \/ i = Len(chunks) + 1
        BY <3>1
      <3> QED BY <3>1, <3>2 DEF Tidy
    <2>3. CASE UNCHANGED chunks
      BY <2>3 DEF Tidy
    <2>4. CASE CallReturns /\ ~(GetError \/ GetEof \/ GetData)
      BY <2>3, <2>4 DEF CallReturns, KillWaited, WriteTimedOut, WriteFailed, WriteDone,
                 ReadTooLong, ReadAtEof, ReadTooLate, ReadMore, GetTimedOut, TakeLine,
                 Terminated, TerminateTimedOut
    <2>5. CASE ~CallReturns /\ ~PumpPuts
      BY <2>3, <2>5 DEF Next, Caller, Start, RequestTooLarge, RequestExited, Request,
                 CloseUnstarted, Close, Expire, Writer, WriterWrites, WriterFails, Pump,
                 PumpReads, PumpReadFails, PumpGivesUp, Adapter, AdapterReads,
                 AdapterWrites, ClosesStdin, ClosesStdout, Exits, SignalLands, Dies,
                 Ended, vars
    <2> QED BY <2>1, <2>2, <2>4, <2>5
  <1>4. Unstarted'
    <2>1. CASE CallReturns
      BY <2>1 DEF CallReturns, KillWaited, WriteTimedOut, WriteFailed, WriteDone,
                 ReadTooLong, ReadAtEof, ReadTooLate, ReadMore, GetTimedOut, GetError,
                 GetEof, GetData, TakeLine, Terminated, TerminateTimedOut, Kill, Finish
    <2>2. CASE Caller
      BY <2>2 DEF Caller, Start, RequestTooLarge, RequestExited, Request, MayCall,
                 CloseUnstarted, Close, Finish
    <2>3. CASE Pump
      BY <2>3 DEF Pump, PumpReads, PumpReadFails, PumpPuts, PumpGivesUp, Tidy
    <2>4. CASE UNCHANGED <<rpc, ppc>>
      BY <2>4 DEF Tidy
    <2>5. CASE Expire \/ Writer \/ Adapter \/ SignalLands \/ Ended \/ UNCHANGED vars
      BY <2>4, <2>5 DEF Expire, Writer, WriterWrites, WriterFails, Adapter,
                 AdapterReads, AdapterWrites, ClosesStdin, ClosesStdout, Exits,
                 SignalLands, Dies, Ended, vars
    <2> QED BY <2>1, <2>2, <2>3, <2>5 DEF Next
  <1> QED BY <1>1, <1>2, <1>3, <1>4 DEF Tidy

(* Until close(), every step but the taking of a line leaves the stream at   *)
(* the line it is at: whatever moves, no byte is lost, doubled or swapped.   *)
LEMMA StreamKept ==
    ASSUME TypeOK, Tidy, [Next]_vars, ~stopPump, ~TakeLine,
           NEW n \in Nat \ {0}, StreamFrom(n)
    PROVE  StreamFrom(n)'
  <1> USE DEF session, input, writer, pump, adapter
  <1>1. CASE GetError \/ GetEof \/ GetData
    <2>1. /\ chunks # <<>> /\ chunks' = Tail(chunks)
          /\ UNCHANGED <<held, outPipe, nextLine, nextPos>>
      BY <1>1 DEF GetError, GetEof, GetData
    <2>2. buffer' = buffer \o Head(chunks).data
      <3>1. CASE GetData
        BY <3>1 DEF GetData
      <3>2. CASE GetError \/ GetEof
        <4>1. Head(chunks).kind # "data" /\ buffer' = buffer
          BY <3>2 DEF GetError, GetEof
        <4>2. 1 \in 1..Len(chunks) /\ Head(chunks) = chunks[1]
          BY <2>1 DEF TypeOK
        <4>3. Head(chunks).data = <<>>
          BY <4>1, <4>2 DEF Tidy
        <4>4. buffer \o <<>> = buffer
          BY DEF TypeOK
        <4> QED BY <4>1, <4>3, <4>4
      <3> QED BY <1>1, <3>1, <3>2
    <2> QED BY <2>1, <2>2, StreamDequeue
  <1>2. CASE PumpReads
    BY <1>2, StreamRead
  <1>3. CASE PumpReadFails
    <2>1. /\ held' = ReadError /\ UNCHANGED <<buffer, chunks, outPipe, nextLine, nextPos>>
          /\ held.data = <<>>
      BY <1>3 DEF PumpReadFails, Tidy
    <2>2. held'.data = held.data
      BY <2>1 DEF ReadError
    <2> QED BY <2>1, <2>2 DEF StreamFrom
  <1>4. CASE PumpPuts
    BY <1>4, StreamPut
  <1>5. CASE AdapterWrites
    BY <1>5, StreamWrite
  <1>6. CASE QuietBytes
    BY <1>6, StreamQuiet
  <1>7. CASE CallReturns /\ ~(GetError \/ GetEof \/ GetData)
    BY <1>6, <1>7 DEF QuietBytes, CallReturns, KillWaited, WriteTimedOut, WriteFailed,
               WriteDone, ReadTooLong, ReadAtEof, ReadTooLate, ReadMore, GetTimedOut,
               Terminated, TerminateTimedOut
  <1>8. CASE Caller
    BY <1>6, <1>8 DEF QuietBytes, Caller, Start, RequestTooLarge, RequestExited,
               Request, CloseUnstarted, Close
  <1>9. CASE Expire \/ Writer \/ SignalLands \/ Ended \/ UNCHANGED vars
             \/ (Adapter /\ ~AdapterWrites)
    BY <1>6, <1>9 DEF QuietBytes, Expire, Writer, WriterWrites, WriterFails, Adapter,
               AdapterReads, ClosesStdin, ClosesStdout, Exits, SignalLands, Dies,
               Ended, vars
  <1>10. CASE PumpGivesUp
    BY <1>10 DEF PumpGivesUp
  <1> QED BY <1>1, <1>2, <1>3, <1>4, <1>5, <1>7, <1>8, <1>9, <1>10
             DEF Next, Pump

InStep == ~stopPump => \E n \in Nat \ {0} : StreamFrom(n)

LEMMA StreamInit == Init => StreamFrom(1)
  <1> SUFFICES ASSUME Init PROVE StreamFrom(1)
    OBVIOUS
  <1> DEFINE p == [line |-> 1, pos |-> 1]
             g == [i \in 1..1 |-> p]
  <1>1. /\ chunks = <<>> /\ held.data = <<>> /\ buffer = <<>> /\ outPipe = <<>>
        /\ nextLine = 1 /\ nextPos = 1
    BY DEF Init, EndOfFile
  <1>2. Len(chunks) + 1 = 1 /\ Len(chunks) = 0
    BY <1>1
  <1>3. p \in Places
    BY DEF Places
  <1> HIDE DEF p
  <1>4. g \in [1..1 -> Places] /\ g[1] = p
    BY <1>3
  <1>5. Run(<<>>, p, p)
    BY RunEmpty
  <1> HIDE DEF g
  <1> QED BY <1>1, <1>2, <1>3, <1>4, <1>5 DEF StreamFrom, p

(* close() is for good.                                                      *)
LEMMA StopSteps == [Next]_vars => stopPump' = stopPump \/ stopPump' = TRUE
  BY DEF Next, CallReturns, KillWaited, WriteTimedOut, WriteFailed, WriteDone,
         ReadTooLong, ReadAtEof, ReadTooLate, ReadMore, GetTimedOut, GetError,
         GetEof, GetData, TakeLine, Terminated, TerminateTimedOut, Caller, Start,
         RequestTooLarge, RequestExited, Request, CloseUnstarted, Close, Expire,
         Writer, WriterWrites, WriterFails, Pump, PumpReads, PumpReadFails,
         PumpPuts, PumpGivesUp, Adapter, AdapterReads, AdapterWrites, ClosesStdin,
         ClosesStdout, Exits, SignalLands, Dies, Ended, vars

LEMMA InStepStep == TypeOK /\ Tidy /\ InStep /\ [Next]_vars => InStep'
  <1> SUFFICES ASSUME TypeOK, Tidy, InStep, [Next]_vars, ~stopPump'
               PROVE  \E n \in Nat \ {0} : StreamFrom(n)'
    BY DEF InStep
  <1>1. ~stopPump
    BY StopSteps
  <1>2. PICK n \in Nat \ {0} : StreamFrom(n)
    BY <1>1 DEF InStep
  <1>3. CASE ~TakeLine
    BY <1>1, <1>2, <1>3, StreamKept
  <1>4. CASE TakeLine
    <2>1. HasNewline(buffer) /\ buffer' = Rest(buffer, FirstNewline(buffer))
          /\ UNCHANGED <<chunks, held, outPipe, nextLine, nextPos>>
      BY <1>4 DEF TakeLine, pump, adapter
    <2>2. StreamFrom(n + 1)' /\ n + 1 \in Nat \ {0}
      BY <1>2, <2>1, StreamTake
    <2> QED BY <2>2
  <1> QED BY <1>3, <1>4

(* Until close(), everything between the adapter's write and the caller is   *)
(* one run of bytes, none lost, doubled or moved, that starts at the start   *)
(* of a line and ends where the adapter writes next; for every way in which  *)
(* lines and reads cut it (_pump, the queue and self._buffer).               *)
THEOREM BytesStayInStep == Spec => []InStep
  <1>1. Init => InStep
    <2>1. ASSUME Init PROVE InStep
      <3>1. StreamFrom(1) /\ 1 \in Nat \ {0}
        BY <2>1, StreamInit
      <3> QED BY <3>1 DEF InStep
    <2> QED BY <2>1
  <1> QED BY <1>1, TidyInit, TidyStep, InStepStep, TypeCorrect, PTL DEF Spec

(* FlattenSeq step by step: what it makes of the first j sequences.          *)
FlatStep(seqs, f, i) == IF i = 1 THEN seqs[i] ELSE f[i - 1] \o seqs[i]
Flat(seqs, j, f) == f = [i \in 1..j |-> FlatStep(seqs, f, i)]

LEMMA FlatLonger ==
    ASSUME NEW seqs, NEW j \in Nat, NEW f, Flat(seqs, j, f)
    PROVE  \E h : Flat(seqs, j + 1, h)
  <1> DEFINE h == [i \in 1..(j + 1) |->
                     IF i = j + 1 THEN FlatStep(seqs, f, i) ELSE f[i]]
  <1>1. \A i \in 1..j : f[i] = FlatStep(seqs, f, i)
    BY DEF Flat
  <1>2. /\ \A i \in 1..j : h[i] = f[i]
        /\ h[j + 1] = FlatStep(seqs, f, j + 1)
        /\ h = [i \in 1..(j + 1) |-> h[i]]
    OBVIOUS
  <1> HIDE DEF h
  <1>3. ASSUME NEW i \in 1..(j + 1) PROVE h[i] = FlatStep(seqs, h, i)
    <2>1. FlatStep(seqs, h, i) = FlatStep(seqs, f, i)
      <3>1. CASE i = 1
        BY <3>1 DEF FlatStep
      <3>2. CASE i # 1
        <4>1. i - 1 \in 1..j
          BY <3>2
        <4> QED BY <1>2, <4>1 DEF FlatStep
      <3> QED BY <3>1, <3>2
    <2>2. i \in 1..j \/ i = j + 1
      OBVIOUS
    <2> QED BY <1>1, <1>2, <2>1, <2>2
  <1>4. Flat(seqs, j + 1, h)
    BY <1>2, <1>3 DEF Flat
  <1> QED BY <1>4

LEMMA FlatExists ==
    ASSUME NEW seqs, NEW k \in Nat
    PROVE  \E f : Flat(seqs, k, f)
  <1> DEFINE T == {j \in Nat : ~ \E f : Flat(seqs, j, f)}
  <1> SUFFICES ASSUME T # {} PROVE FALSE
    OBVIOUS
  <1>1. PICK j \in T : \A i \in T : j <= i
    BY LeastNatural
  <1>2. j \in Nat /\ ~ \E f : Flat(seqs, j, f)
    BY <1>1
  <1>3. CASE j = 0
    <2>1. Flat(seqs, 0, [i \in 1..0 |-> 0])
      BY DEF Flat
    <2> QED BY <1>2, <1>3, <2>1
  <1>4. CASE j # 0
    <2>1. j - 1 \in Nat /\ j - 1 \notin T /\ (j - 1) + 1 = j
      BY <1>1, <1>2, <1>4
    <2>2. \E f : Flat(seqs, j - 1, f)
      BY <2>1
    <2> QED BY <1>2, <2>1, <2>2, FlatLonger
  <1> QED BY <1>3, <1>4

LEMMA FlattenIsFlat ==
    ASSUME NEW seqs, Len(seqs) \in Nat \ {0}
    PROVE  \E f : Flat(seqs, Len(seqs), f) /\ FlattenSeq(seqs) = f[Len(seqs)]
  <1> DEFINE f == CHOOSE f : f = [i \in 1..Len(seqs) |->
                                    IF i = 1 THEN seqs[i] ELSE f[i - 1] \o seqs[i]]
  <1>1. \E h : h = [i \in 1..Len(seqs) |->
                      IF i = 1 THEN seqs[i] ELSE h[i - 1] \o seqs[i]]
    BY FlatExists DEF Flat, FlatStep
  <1>2. f = [i \in 1..Len(seqs) |-> IF i = 1 THEN seqs[i] ELSE f[i - 1] \o seqs[i]]
    <2> HIDE <1>1
    <2> QED BY <1>1, Zenon
  <1>3. FlattenSeq(seqs) = f[Len(seqs)]
    BY Zenon DEF FlattenSeq
  <1> HIDE DEF f
  <1>4. Flat(seqs, Len(seqs), f)
    BY <1>2 DEF Flat, FlatStep
  <1> QED BY <1>3, <1>4

(* Runs that join one by one join to one run.                                *)
LEMMA RunFlatten ==
    ASSUME NEW k \in Nat, NEW seqs \in [1..k -> Seq(Unit)],
           NEW g \in [1..(k + 1) -> Places],
           \A i \in 1..k : Run(seqs[i], g[i], g[i + 1])
    PROVE  FlattenSeq(seqs) \in Seq(Unit) /\ Run(FlattenSeq(seqs), g[1], g[k + 1])
  <1>1. seqs \in Seq(Seq(Unit)) /\ Len(seqs) = k
    OBVIOUS
  <1>2. CASE k = 0
    <2>1. FlattenSeq(seqs) = <<>>
      BY <1>1, <1>2 DEF FlattenSeq
    <2>2. <<>> \in Seq(Unit)
      OBVIOUS
    <2> QED BY <1>2, <2>1, <2>2, RunEmpty
  <1>3. CASE k # 0
    <2>1. PICK f : Flat(seqs, k, f) /\ FlattenSeq(seqs) = f[k]
      BY <1>1, <1>3, FlattenIsFlat
    <2> DEFINE Fits(i) == f[i] \in Seq(Unit) /\ Run(f[i], g[1], g[i + 1])
               T == {i \in 1..k : ~Fits(i)}
    <2>2. T = {}
      <3> SUFFICES ASSUME T # {} PROVE FALSE
        OBVIOUS
      <3>1. PICK i \in T : \A j \in T : i <= j
        <4>1. T \subseteq Nat
          OBVIOUS
        <4> QED BY <4>1, LeastNatural
      <3>2. i \in 1..k /\ ~Fits(i)
        BY <3>1
      <3>3. f[i] = FlatStep(seqs, f, i)
        BY <2>1, <3>2 DEF Flat
      <3>4. seqs[i] \in Seq(Unit) /\ Run(seqs[i], g[i], g[i + 1])
        BY <3>2
      <3>5. CASE i = 1
        BY <3>2, <3>3, <3>4, <3>5 DEF FlatStep
      <3>6. CASE i # 1
        <4>1. i - 1 \in 1..k /\ i - 1 < i /\ (i - 1) + 1 = i
          BY <3>2, <3>6
        <4>2. Fits(i - 1)
          BY <3>1, <4>1
        <4>3. f[i - 1] \in Seq(Unit) /\ Run(f[i - 1], g[1], g[i])
          BY <4>1, <4>2
        <4>4. f[i] = f[i - 1] \o seqs[i]
          BY <3>3, <3>6 DEF FlatStep
        <4> HIDE DEF Fits
        <4>5. f[i - 1] \o seqs[i] \in Seq(Unit)
          BY <3>4, <4>3, ConcatElements
        <4>6. Run(f[i - 1] \o seqs[i], g[1], g[i + 1])
          BY <3>4, <4>3, RunConcat
        <4> QED BY <3>2, <4>4, <4>5, <4>6 DEF Fits
      <3> QED BY <3>5, <3>6
    <2>3. k \in 1..k
      BY <1>3
    <2>4. Fits(k)
      BY <2>2, <2>3
    <2> QED BY <2>1, <2>4
  <1> QED BY <1>2, <1>3

(* In a run, and up to the place after it, each unit follows the one before. *)
LEMMA RunFollows ==
    ASSUME NEW s \in Seq(Unit), NEW n \in Nat, NEW p \in Places,
           Run(s, [line |-> n, pos |-> 1], p)
    PROVE  LET all == Append(s, p)
           IN  all[1].pos = 1 /\ \A i \in 1..Len(all) - 1 : Follows(all[i], all[i + 1])
  <1> DEFINE all == Append(s, p)
             start == [line |-> n, pos |-> 1]
  <1>1. /\ Len(s) \in Nat /\ Len(all) = Len(s) + 1
        /\ \A i \in 1..Len(s) : all[i] = s[i] /\ s[i] \in Unit
        /\ all[Len(s) + 1] = p
    <2>1. s \in Seq(Unit \cup {p}) /\ p \in Unit \cup {p}
      OBVIOUS
    <2> QED BY <2>1, AppendType
  <1> HIDE DEF all
  <1>2. start.pos = 1
    OBVIOUS
  <1> HIDE DEF start
  <1>3. \A i \in 1..Len(s) : /\ all[i].line = Before(s, start, i - 1).line
                             /\ all[i].pos = Before(s, start, i - 1).pos
    <2>1. ASSUME NEW i \in 1..Len(s)
          PROVE  /\ all[i].line = PlaceOf(s[i]).line /\ all[i].pos = PlaceOf(s[i]).pos
                 /\ PlaceOf(s[i]) = Before(s, start, i - 1)
      BY <1>1 DEF PlaceOf, Run, start
    <2> QED BY <2>1
  <1>4. Before(s, start, Len(s)) = p
    BY DEF Run, start
  <1>5. \A i \in 1..(Len(s) + 1) : /\ all[i].line = Before(s, start, i - 1).line
                                   /\ all[i].pos = Before(s, start, i - 1).pos
    BY <1>1, <1>3, <1>4
  <1>6. all[1].pos = 1
    BY <1>1, <1>2, <1>5 DEF Before
  <1>7. ASSUME NEW i \in 1..Len(all) - 1 PROVE Follows(all[i], all[i + 1])
    <2>1. i \in 1..Len(s) /\ i + 1 \in 1..(Len(s) + 1) /\ (i + 1) - 1 = i /\ i # 0
      BY <1>1
    <2>2. all[i + 1].line = After(s[i]).line /\ all[i + 1].pos = After(s[i]).pos
      BY <1>5, <2>1 DEF Before
    <2> QED BY <1>1, <2>1, <2>2 DEF After, Follows
  <1> QED BY <1>6, <1>7 DEF all

(* What InStep says with places, ByteStream says of the bytes themselves.    *)
LEMMA RunIsByteStream == TypeOK /\ InStep => ByteStream
  <1> SUFFICES ASSUME TypeOK, InStep, ~stopPump
               PROVE  LET all == Append(Stream, [line |-> nextLine, pos |-> nextPos])
                      IN  /\ all[1].pos = 1
                          /\ \A i \in 1..Len(all) - 1 : Follows(all[i], all[i + 1])
    BY DEF ByteStream
  <1>1. PICK n \in Nat \ {0} : StreamFrom(n)
    BY DEF InStep
  <1> DEFINE k == Len(chunks)
             d == [i \in DOMAIN chunks |-> chunks[i].data]
             a == [line |-> n, pos |-> 1]
             z == [line |-> nextLine, pos |-> nextPos]
  <1>2. PICK g \in [1..(k + 1) -> Places], q \in Places :
           /\ Run(buffer, a, g[1])
           /\ \A i \in 1..k : Run(chunks[i].data, g[i], g[i + 1])
           /\ Run(held.data, g[k + 1], q)
           /\ Run(outPipe, q, z)
    BY <1>1 DEF StreamFrom
  <1>3. /\ k \in Nat /\ DOMAIN chunks = 1..k
        /\ \A i \in 1..k : chunks[i].data \in Seq(Unit)
    <2>1. chunks \in Seq(Chunk)
      BY DEF TypeOK
    <2>2. \A i \in 1..k : chunks[i] \in Chunk
      BY <2>1
    <2> QED BY <2>1, <2>2 DEF Chunk
  <1>4. /\ buffer \in Seq(Unit) /\ held.data \in Seq(Unit) /\ outPipe \in Seq(Unit)
        /\ z \in Places
    BY DEF TypeOK, Chunk, Places
  <1>5. Stream = buffer \o FlattenSeq(d) \o held.data \o outPipe
    BY DEF Stream
  <1>6. d \in [1..k -> Seq(Unit)] /\ \A i \in 1..k : d[i] = chunks[i].data
    BY <1>3
  <1> HIDE DEF k, d, a, z
  <1>7. \A i \in 1..k : Run(d[i], g[i], g[i + 1])
    BY <1>2, <1>6
  <1>8. FlattenSeq(d) \in Seq(Unit) /\ Run(FlattenSeq(d), g[1], g[k + 1])
    BY <1>3, <1>6, <1>7, RunFlatten
  <1> DEFINE b == buffer \o FlattenSeq(d)
             c == b \o held.data
  <1>9. b \in Seq(Unit) /\ Run(b, a, g[k + 1])
    BY <1>2, <1>4, <1>8, RunConcat, ConcatElements
  <1> HIDE DEF b
  <1>10. c \in Seq(Unit) /\ Run(c, a, q)
    BY <1>2, <1>4, <1>9, RunConcat, ConcatElements
  <1> HIDE DEF c
  <1>11. c \o outPipe \in Seq(Unit) /\ Run(c \o outPipe, a, z)
    BY <1>2, <1>4, <1>10, RunConcat, ConcatElements
  <1>12. Stream = c \o outPipe
    BY <1>5 DEF b, c
  <1> QED BY <1>4, <1>11, <1>12, RunFollows DEF a, z

(* No byte is lost, doubled or moved between the adapter's write and the     *)
(* caller, for every way in which the pipe, the reads of _pump and the lines *)
(* of _read_line cut what the adapter writes: of all the units on their way, *)
(* in the buffer, in the chunks of the queue, in the pump's hand and in the  *)
(* pipe, each follows the one before it.                                     *)
THEOREM BytesAreKept == Spec => []ByteStream
  BY BytesStayInStep, TypeCorrect, RunIsByteStream, PTL

-----------------------------------------------------------------------------
(* The limit on a line.                                                      *)

Lawful(r) ==
    /\ r.kind = "oversize" => r.pos > MaxLine
    /\ r.kind \in Answers \cup {"junk"} => r.pos <= MaxLine + 1

LimitInv == Tidy /\ InStep /\ Lawful(reply) /\ Lawful(pending)

(* A call that ends, or first has to kill, with a lawful reply.              *)
LEMMA LawfulEnds ==
    ASSUME Lawful(reply), Lawful(pending), NEW r, Lawful(r), Kill(r) \/ Finish(r)
    PROVE  Lawful(reply') /\ Lawful(pending')
  <1>1. reply' \in {reply, r} /\ pending' \in {pending, r}
    BY DEF Kill, Finish, Return
  <1> QED BY <1>1

LEMMA LawfulFailures ==
    /\ \A k \in TransportFailures \ {"oversize", "junk"} : Lawful(Failure(k))
    /\ Lawful([Failure("too large") EXCEPT !.req = 0])
    /\ Lawful([Failure("exited") EXCEPT !.req = 0])
    /\ Lawful(CloseReply) /\ Lawful(NoReply)
  BY DEF Lawful, Failure, CloseReply, NoReply, TransportFailures, Answers

(* What the caller reads of the buffer is measured from the line's start.    *)
LEMMA LawfulReads ==
    ASSUME TypeOK, Tidy, InStep, Lawful(reply), Lawful(pending),
           TakeLine \/ ReadTooLong
    PROVE  Lawful(reply') /\ Lawful(pending')
  <1>1. rpc = "reading"
    BY DEF TakeLine, ReadTooLong
  <1>2. PICK n \in Nat \ {0} : StreamFrom(n)
    BY <1>1, TidyOpen DEF InStep
  <1>3. CASE ReadTooLong
    <2>1. /\ ~HasNewline(buffer) /\ Len(buffer) > MaxLine /\ Len(buffer) \in Nat
          /\ Kill(LineReply("oversize", buffer[Len(buffer)]))
      BY <1>3 DEF ReadTooLong, TooLong, TypeOK
    <2>2. Len(buffer) \in 1..Len(buffer)
      BY <2>1, BoundsAssumption
    <2>3. buffer[Len(buffer)].pos = Len(buffer)
      BY <1>2, <2>1, <2>2, StreamWaits
    <2>4. Lawful(LineReply("oversize", buffer[Len(buffer)]))
      BY <2>1, <2>3 DEF Lawful, LineReply, Answers
    <2> QED BY <2>1, <2>4, LawfulEnds
  <1>4. CASE TakeLine
    <2> DEFINE i == FirstNewline(buffer)
    <2>1. /\ HasNewline(buffer)
          /\ IF TooLong(i - 1) THEN Kill(LineReply("oversize", buffer[i - 1]))
             ELSE IF buffer[i].end = "junk" THEN Kill(LineReply("junk", buffer[i]))
             ELSE Finish(LineReply(buffer[i].end, buffer[i]))
      BY <1>4 DEF TakeLine
    <2>2. i \in 1..Len(buffer) /\ buffer[i] \in Unit
      BY <2>1, NewlineInBuffer DEF TypeOK
    <2>3. \A j \in 1..i : buffer[j].pos = j
      BY <1>2, <2>1, StreamTake
    <2> HIDE DEF i
    <2>4. CASE TooLong(i - 1)
      <3>1. i - 1 \in 1..i /\ i - 1 > MaxLine
        BY <2>2, <2>4, BoundsAssumption DEF TooLong
      <3>2. buffer[i - 1].pos > MaxLine
        BY <2>3, <3>1
      <3>3. Lawful(LineReply("oversize", buffer[i - 1]))
        BY <3>2 DEF Lawful, LineReply, Answers
      <3> QED BY <2>1, <2>4, <3>3, LawfulEnds
    <2>5. CASE ~TooLong(i - 1)
      <3>1. i \in 1..i /\ i <= MaxLine + 1
        BY <2>2, <2>5, BoundsAssumption DEF TooLong
      <3>2. buffer[i].pos <= MaxLine + 1 /\ buffer[i].end # "oversize"
        BY <2>2, <2>3, <3>1 DEF Unit, LineEnds, Answers
      <3>3. Lawful(LineReply("junk", buffer[i]))
            /\ Lawful(LineReply(buffer[i].end, buffer[i]))
        BY <3>2 DEF Lawful, LineReply, Answers
      <3> QED BY <2>1, <2>5, <3>3, LawfulEnds
    <2> QED BY <2>4, <2>5
  <1> QED BY <1>3, <1>4

LEMMA LawfulStep ==
    TypeOK /\ LimitInv /\ [Next]_vars => Lawful(reply') /\ Lawful(pending')
  <1> SUFFICES ASSUME TypeOK, LimitInv, [Next]_vars
               PROVE  Lawful(reply') /\ Lawful(pending')
    OBVIOUS
  <1> USE DEF session, input, writer, pump, adapter
  <1>1. Tidy /\ InStep /\ Lawful(reply) /\ Lawful(pending)
    BY DEF LimitInv
  <1>2. CASE TakeLine \/ ReadTooLong
    BY <1>1, <1>2, LawfulReads
  <1>3. CASE WriteTimedOut \/ ReadTooLate \/ GetTimedOut \/ GetError
             \/ WriteFailed \/ ReadAtEof
    <2>1. PICK k \in TransportFailures \ {"oversize", "junk"} :
              Kill(Failure(k)) \/ Finish(Failure(k))
      BY <1>3 DEF WriteTimedOut, ReadTooLate, GetTimedOut, GetError, WriteFailed,
                  ReadAtEof, TransportFailures
    <2> QED BY <1>1, <2>1, LawfulFailures, LawfulEnds
  <1>4. CASE RequestTooLarge \/ RequestExited \/ TerminateTimedOut
    <2>1. \/ Finish([Failure("too large") EXCEPT !.req = 0])
          \/ Finish([Failure("exited") EXCEPT !.req = 0])
          \/ Kill(CloseReply)
      BY <1>4 DEF RequestTooLarge, RequestExited, TerminateTimedOut
    <2> QED BY <1>1, <2>1, LawfulFailures, LawfulEnds
  <1>5. CASE KillWaited
    <2>1. reply' \in {reply, pending} /\ pending' = NoReply
      BY <1>5 DEF KillWaited, Return
    <2> QED BY <1>1, <2>1, LawfulFailures
  <1>6. CASE UNCHANGED <<reply, pending>>
    BY <1>1, <1>6
  <1>7. CASE WriteDone \/ ReadMore \/ GetEof \/ GetData \/ Terminated
    BY <1>6, <1>7 DEF WriteDone, ReadMore, GetEof, GetData, Terminated
  <1>8. CASE Start \/ Request \/ CloseUnstarted \/ Close
    BY <1>6, <1>8 DEF Start, Request, CloseUnstarted, Close
  <1>9. CASE Expire \/ Writer \/ Pump \/ Adapter \/ SignalLands \/ Ended
             \/ UNCHANGED vars
    BY <1>6, <1>9 DEF Expire, Writer, WriterWrites, WriterFails, Pump, PumpReads,
               PumpReadFails, PumpPuts, PumpGivesUp, Adapter, AdapterReads,
               AdapterWrites, ClosesStdin, ClosesStdout, Exits, SignalLands, Dies,
               Ended, vars
  <1> QED BY <1>2, <1>3, <1>4, <1>5, <1>7, <1>8, <1>9
             DEF Next, CallReturns, Caller

(* The 16 MiB limit is exact for every limit, chunk size and pipe: a reply   *)
(* that calls a line too long has read past the limit, and a line that is    *)
(* taken lies within it, counted from the byte the adapter wrote first,      *)
(* however the line was cut on its way (_read_line's two checks).            *)
THEOREM LimitIsExact == Spec => []LineLimitExact
  <1>1. Init => LimitInv
    <2>1. ASSUME Init PROVE InStep /\ Lawful(reply) /\ Lawful(pending)
      <3>1. reply = NoReply /\ pending = NoReply
        BY <2>1 DEF Init
      <3>2. StreamFrom(1) /\ 1 \in Nat \ {0}
        BY <2>1, StreamInit
      <3> QED BY <3>1, <3>2, LawfulFailures DEF InStep
    <2> QED BY <2>1, TidyInit DEF LimitInv
  <1>2. TypeOK /\ LimitInv /\ [Next]_vars => LimitInv'
    <2>1. ASSUME TypeOK, LimitInv, [Next]_vars PROVE LimitInv'
      <3>1. Tidy' /\ InStep'
        BY <2>1, TidyStep, InStepStep DEF LimitInv
      <3>2. Lawful(reply') /\ Lawful(pending')
        BY <2>1, LawfulStep
      <3> QED BY <3>1, <3>2 DEF LimitInv
    <2> QED BY <2>1
  <1>3. LimitInv => LineLimitExact
    BY DEF LimitInv, LineLimitExact, Lawful
  <1> QED BY <1>1, <1>2, <1>3, TypeCorrect, PTL DEF Spec

-----------------------------------------------------------------------------
(* Whose answer a line is.  As long as the transport has not failed, every   *)
(* request that was issued had its line taken, but for the one in flight:    *)
(* the line the buffer starts is that of the request in flight, or of the    *)
(* next.  A failure ends the count, and Outage ends the answers with it.     *)

Turn(n) ==
    ~broken => /\ rpc \in {"writing", "reading", "getting"} => n = issued
               /\ rpc \in {"new", "idle"} => n = issued + 1

InTurn == ~stopPump => \E n \in Nat \ {0} : StreamFrom(n) /\ Turn(n)

LEMMA TurnInit == Init => InTurn /\ OwnAnswer
  <1> SUFFICES ASSUME Init PROVE InTurn /\ OwnAnswer
    OBVIOUS
  <1>1. StreamFrom(1) /\ 1 \in Nat \ {0}
    BY StreamInit
  <1>2. rpc = "new" /\ issued = 0 /\ reply = NoReply
    BY DEF Init
  <1>3. Turn(1)
    BY <1>2 DEF Turn
  <1>4. OwnAnswer
    BY <1>2 DEF OwnAnswer, NoReply
  <1> QED BY <1>1, <1>3, <1>4 DEF InTurn

(* A call that ends in a failure of the transport, killing first or not.     *)
LEMMA TurnFails ==
    ASSUME NEW n, NEW r, r.kind \in TransportFailures, Kill(r) \/ Finish(r)
    PROVE  Turn(n)'
  <1>1. CASE rpc' = "killing"
    BY <1>1 DEF Turn
  <1>2. CASE Finish(r)
    <2>1. broken'
      BY <1>2, Zenon DEF Finish, Return
    <2> QED BY <2>1, Zenon DEF Turn
  <1> QED BY <1>1, <1>2 DEF Kill

(* Every step but the taking of a line keeps the count.                      *)
LEMMA TurnKept ==
    ASSUME TypeOK, Outage, [Next]_vars, ~stopPump, ~stopPump', ~TakeLine,
           NEW n \in Nat \ {0}, Turn(n)
    PROVE  Turn(n)'
  <1> USE DEF session, input, writer, pump, adapter
  <1>1. CASE WriteTimedOut \/ ReadTooLate \/ GetTimedOut \/ GetError
             \/ WriteFailed \/ ReadAtEof \/ ReadTooLong
    <2>1. CASE ReadTooLong
      <3> DEFINE r == LineReply("oversize", buffer[Len(buffer)])
      <3>1. Kill(r)
        BY <2>1 DEF ReadTooLong
      <3>2. r.kind \in TransportFailures
        BY DEF LineReply, TransportFailures
      <3> QED BY <3>1, <3>2, TurnFails
    <2>2. CASE ~ReadTooLong
      <3>1. PICK k \in TransportFailures : Kill(Failure(k)) \/ Finish(Failure(k))
        BY <1>1, <2>2 DEF WriteTimedOut, ReadTooLate, GetTimedOut, GetError,
                 WriteFailed, ReadAtEof, TransportFailures
      <3>2. Failure(k).kind \in TransportFailures
        BY DEF Failure
      <3> QED BY <3>1, <3>2, TurnFails
    <2> QED BY <2>1, <2>2
  <1>2. CASE KillWaited
    <2>1. rpc = "killing" /\ pending.kind \in TransportFailures \cup {"closed"}
      BY <1>2 DEF KillWaited, Outage
    <2>2. CASE pending.kind = "closed"
      BY <1>2, <2>2 DEF KillWaited, Turn
    <2>3. CASE pending.kind # "closed"
      <3>1. Return(pending) /\ pending.kind \in TransportFailures
        BY <1>2, <2>1, <2>3 DEF KillWaited
      <3>2. broken'
        BY <3>1, Zenon DEF Return
      <3> QED BY <3>2, Zenon DEF Turn
    <2> QED BY <2>2, <2>3
  <1>3. CASE Terminated \/ TerminateTimedOut \/ CloseUnstarted \/ Close
    <2>1. rpc' \in {"closed", "killing", "terminating"}
      BY <1>3 DEF Terminated, TerminateTimedOut, CloseUnstarted, Close, Kill
    <2> QED BY <2>1 DEF Turn
  <1>4. CASE WriteDone \/ ReadMore \/ GetEof \/ GetData
    <2>1. /\ rpc \in {"writing", "reading", "getting"}
          /\ rpc' \in {"reading", "getting"}
          /\ UNCHANGED <<issued, broken>>
      BY <1>4 DEF WriteDone, ReadMore, GetEof, GetData
    <2> QED BY <2>1 DEF Turn
  <1>5. CASE Start
    <2>1. rpc = "new" /\ rpc' = "idle" /\ UNCHANGED <<issued, broken>>
      BY <1>5 DEF Start
    <2> QED BY <2>1 DEF Turn
  <1>6. CASE Request
    <2>1. /\ rpc = "idle" /\ rpc' = "writing" /\ issued' = issued + 1
          /\ broken' = broken
      BY <1>6 DEF Request, MayCall
    <2> QED BY <2>1 DEF Turn
  <1>7. CASE RequestExited
    <2>1. Finish([Failure("exited") EXCEPT !.req = 0])
      BY <1>7 DEF RequestExited
    <2>2. [Failure("exited") EXCEPT !.req = 0].kind \in TransportFailures
      BY DEF Failure, TransportFailures
    <2> QED BY <2>1, <2>2, TurnFails
  <1>8. CASE RequestTooLarge
    <2> DEFINE r == [Failure("too large") EXCEPT !.req = 0]
    <2>1. Finish(r) /\ rpc = "idle" /\ issued' = issued
      BY <1>8 DEF RequestTooLarge, MayCall
    <2> HIDE DEF r
    <2>2. rpc' = "idle" /\ (broken' = (broken \/ r.kind \in TransportFailures))
      BY <2>1 DEF Finish, Return
    <2>3. broken => broken'
      BY <2>2, Zenon
    <2> QED BY <2>1, <2>2, <2>3 DEF Turn
  <1>9. CASE UNCHANGED <<rpc, issued, broken>>
    BY <1>9 DEF Turn
  <1>10. CASE Expire \/ Writer \/ Pump \/ Adapter \/ SignalLands \/ Ended
              \/ UNCHANGED vars
    BY <1>9, <1>10 DEF Expire, Writer, WriterWrites, WriterFails, Pump, PumpReads,
               PumpReadFails, PumpPuts, PumpGivesUp, Adapter, AdapterReads,
               AdapterWrites, ClosesStdin, ClosesStdout, Exits, SignalLands, Dies,
               Ended, vars
  <1> QED BY <1>1, <1>2, <1>3, <1>4, <1>5, <1>6, <1>7, <1>8, <1>10
             DEF Next, CallReturns, Caller

(* A line is taken only before any failure, for the request in flight, and   *)
(* it either answers it or ends the session's transport.                     *)
LEMMA LineTaken ==
    ASSUME TypeOK, Outage, InTurn, TakeLine
    PROVE  /\ ~broken /\ ~stopPump /\ rpc = "reading"
           /\ StreamFrom(issued + 1)' /\ issued' = issued
           /\ \E r \in Reply :
                 \/ r.kind \in TransportFailures /\ Kill(r)
                 \/ r.kind \in Answers /\ r.line = r.req /\ Finish(r)
  <1> DEFINE i == FirstNewline(buffer)
  <1>1. /\ rpc = "reading" /\ HasNewline(buffer) /\ buffer' = Rest(buffer, i)
        /\ UNCHANGED <<chunks, held, outPipe, nextLine, nextPos, issued>>
        /\ IF TooLong(i - 1) THEN Kill(LineReply("oversize", buffer[i - 1]))
           ELSE IF buffer[i].end = "junk" THEN Kill(LineReply("junk", buffer[i]))
           ELSE Finish(LineReply(buffer[i].end, buffer[i]))
    BY DEF TakeLine, pump, adapter
  <1>2. ~stopPump /\ ~broken
    BY <1>1, OpenWhileBusy DEF Outage, Silent
  <1>3. PICK n \in Nat \ {0} : StreamFrom(n) /\ Turn(n)
    BY <1>2 DEF InTurn
  <1>4. n = issued
    BY <1>1, <1>2, <1>3 DEF Turn
  <1>5. StreamFrom(issued + 1)' /\ \A j \in 1..i : buffer[j].line = issued
    BY <1>1, <1>3, <1>4, StreamTake
  <1>6. i \in 1..Len(buffer) /\ buffer[i] \in Unit /\ buffer[i].end # "no"
        /\ i \in 1..i
    BY <1>1, NewlineInBuffer DEF TypeOK
  <1>7. TooLong(i - 1) => buffer[i - 1] \in Unit
    BY <1>6, BoundsAssumption DEF TooLong, TypeOK
  <1>8. \E r \in Reply :
           \/ r.kind \in TransportFailures /\ Kill(r)
           \/ r.kind \in Answers /\ r.line = r.req /\ Finish(r)
    <2> HIDE DEF i
    <2>1. CASE TooLong(i - 1)
      <3>1. /\ LineReply("oversize", buffer[i - 1]) \in Reply
            /\ LineReply("oversize", buffer[i - 1]).kind \in TransportFailures
        BY <1>7, <2>1, ReplyTypes DEF LineReply, TransportFailures
      <3> QED BY <1>1, <2>1, <3>1
    <2>2. CASE ~TooLong(i - 1) /\ buffer[i].end = "junk"
      <3>1. /\ LineReply("junk", buffer[i]) \in Reply
            /\ LineReply("junk", buffer[i]).kind \in TransportFailures
        BY <1>6, ReplyTypes DEF LineReply, TransportFailures
      <3> QED BY <1>1, <2>2, <3>1
    <2>3. CASE ~TooLong(i - 1) /\ buffer[i].end # "junk"
      <3> DEFINE r == LineReply(buffer[i].end, buffer[i])
      <3>1. buffer[i].end \in Answers
        BY <1>6, <2>3 DEF Unit, LineEnds, Answers
      <3>2. r \in Reply
        BY <1>6, <3>1, ReplyTypes DEF Answers, ReplyKinds
      <3>3. r.kind \in Answers /\ r.line = r.req
        BY <1>5, <1>6, <3>1 DEF LineReply
      <3>4. Finish(r)
        BY <1>1, <2>3
      <3> HIDE DEF r
      <3> QED BY <3>2, <3>3, <3>4
    <2> QED BY <2>1, <2>2, <2>3
  <1> QED BY <1>1, <1>2, <1>5, <1>8

LEMMA InTurnStep ==
    TypeOK /\ Outage /\ Tidy /\ InTurn /\ [Next]_vars => InTurn'
  <1> SUFFICES ASSUME TypeOK, Outage, Tidy, InTurn, [Next]_vars, ~stopPump'
               PROVE  \E n \in Nat \ {0} : (StreamFrom(n) /\ Turn(n))'
    BY DEF InTurn
  <1>1. CASE TakeLine
    <2>1. /\ StreamFrom(issued + 1)' /\ issued' = issued /\ issued + 1 \in Nat \ {0}
          /\ \E r \in Reply :
                 \/ r.kind \in TransportFailures /\ Kill(r)
                 \/ r.kind \in Answers /\ r.line = r.req /\ Finish(r)
      BY <1>1, LineTaken DEF TypeOK
    <2>2. Turn(issued + 1)'
      <3>1. PICK r \in Reply :
                 \/ r.kind \in TransportFailures /\ Kill(r)
                 \/ r.kind \in Answers /\ r.line = r.req /\ Finish(r)
        BY <2>1
      <3>2. CASE r.kind \in TransportFailures /\ Kill(r)
        <4> DEFINE m == issued + 1
        <4>1. m' = m
          BY <2>1
        <4> HIDE DEF m
        <4>2. PICK c : c = m
          OBVIOUS
        <4>3. Turn(c)'
          BY <3>2, TurnFails
        <4>4. c = m'
          BY <4>1, <4>2
        <4> QED BY <4>3, <4>4 DEF Turn, m
      <3>3. CASE Finish(r)
        <4>1. rpc' = "idle"
          BY <3>3 DEF Finish
        <4> QED BY <2>1, <4>1 DEF Turn
      <3> QED BY <3>1, <3>2, <3>3
    <2> QED BY <2>1, <2>2
  <1>2. CASE ~TakeLine
    <2>1. ~stopPump
      BY StopSteps
    <2>2. PICK n \in Nat \ {0} : StreamFrom(n) /\ Turn(n)
      BY <2>1 DEF InTurn
    <2> QED BY <1>2, <2>1, <2>2, StreamKept, TurnKept
  <1> QED BY <1>1, <1>2

(* No other step of the caller answers anything.                             *)
LEMMA OnlyLinesAnswer ==
    ASSUME TypeOK, Outage, [Next]_vars, ~TakeLine
    PROVE  reply' = reply \/ reply'.kind \notin Answers
  <1> USE DEF session, input, writer, pump, adapter
  <1>1. ASSUME NEW r, Kill(r) \/ Finish(r), r.kind \notin Answers
        PROVE  reply' = reply \/ reply'.kind \notin Answers
    BY <1>1 DEF Kill, Finish, Return
  <1>2. CASE WriteTimedOut \/ ReadTooLate \/ GetTimedOut \/ GetError
             \/ WriteFailed \/ ReadAtEof
    <2>1. PICK k \in TransportFailures : Kill(Failure(k)) \/ Finish(Failure(k))
      BY <1>2 DEF WriteTimedOut, ReadTooLate, GetTimedOut, GetError, WriteFailed,
                  ReadAtEof, TransportFailures
    <2>2. Failure(k).kind \notin Answers
      BY DEF Failure, TransportFailures, Answers
    <2> QED BY <1>1, <2>1, <2>2
  <1>3. CASE ReadTooLong
    <2>1. Kill(LineReply("oversize", buffer[Len(buffer)]))
      BY <1>3 DEF ReadTooLong
    <2>2. LineReply("oversize", buffer[Len(buffer)]).kind \notin Answers
      BY DEF LineReply, Answers
    <2> QED BY <1>1, <2>1, <2>2
  <1>4. CASE RequestTooLarge \/ RequestExited \/ TerminateTimedOut
    <2>1. \/ Finish([Failure("too large") EXCEPT !.req = 0])
          \/ Finish([Failure("exited") EXCEPT !.req = 0])
          \/ Kill(CloseReply)
      BY <1>4 DEF RequestTooLarge, RequestExited, TerminateTimedOut
    <2>2. /\ [Failure("too large") EXCEPT !.req = 0].kind \notin Answers
          /\ [Failure("exited") EXCEPT !.req = 0].kind \notin Answers
          /\ CloseReply.kind \notin Answers
      BY DEF Failure, CloseReply, Answers
    <2> QED BY <1>1, <2>1, <2>2
  <1>5. CASE KillWaited
    <2>1. pending.kind \notin Answers
      BY <1>5 DEF KillWaited, Outage, TransportFailures, Answers
    <2>2. reply' = reply \/ reply' = pending
      BY <1>5 DEF KillWaited, Return
    <2> QED BY <2>1, <2>2
  <1>6. CASE WriteDone \/ ReadMore \/ GetEof \/ GetData \/ Terminated
    BY <1>6 DEF WriteDone, ReadMore, GetEof, GetData, Terminated
  <1>7. CASE Start \/ Request \/ CloseUnstarted \/ Close
    BY <1>7 DEF Start, Request, CloseUnstarted, Close
  <1>8. CASE Expire \/ Writer \/ Pump \/ Adapter \/ SignalLands \/ Ended
             \/ UNCHANGED vars
    BY <1>8 DEF Expire, Writer, WriterWrites, WriterFails, Pump, PumpReads,
               PumpReadFails, PumpPuts, PumpGivesUp, Adapter, AdapterReads,
               AdapterWrites, ClosesStdin, ClosesStdout, Exits, SignalLands, Dies,
               Ended, vars
  <1> QED BY <1>2, <1>3, <1>4, <1>5, <1>6, <1>7, <1>8 DEF Next, CallReturns, Caller

LEMMA OwnStep ==
    TypeOK /\ Outage /\ InTurn /\ OwnAnswer /\ [Next]_vars => OwnAnswer'
  <1> SUFFICES ASSUME TypeOK, Outage, InTurn, OwnAnswer, [Next]_vars
               PROVE  OwnAnswer'
    OBVIOUS
  <1>1. CASE TakeLine
    <2>1. PICK r \in Reply :
             \/ r.kind \in TransportFailures /\ Kill(r)
             \/ r.kind \in Answers /\ r.line = r.req /\ Finish(r)
      BY <1>1, LineTaken
    <2>2. reply' = reply \/ reply' = r
      BY <2>1 DEF Kill, Finish, Return
    <2>3. r.kind \in Answers => r.line = r.req
      BY <2>1 DEF TransportFailures, Answers
    <2> QED BY <2>2, <2>3 DEF OwnAnswer, Answers
  <1>2. CASE ~TakeLine
    BY <1>2, OnlyLinesAnswer DEF OwnAnswer, Answers
  <1> QED BY <1>1, <1>2

TurnInv == Outage /\ Tidy /\ InTurn /\ OwnAnswer

LEMMA TurnStep ==
    ASSUME ~KillMayLag
    PROVE  TypeOK /\ TurnInv /\ [Next]_vars => TurnInv'
  BY OutageStep, TidyStep, InTurnStep, OwnStep DEF TurnInv

LEMMA TurnHolds ==
    ASSUME ~KillMayLag
    PROVE  Spec => []TurnInv
  <1>1. Init => TurnInv
    BY OutageInit, TidyInit, TurnInit DEF TurnInv
  <1>2. TypeOK /\ TurnInv /\ [Next]_vars => TurnInv'
    BY TurnStep
  <1> QED BY <1>1, <1>2, TypeCorrect, PTL DEF Spec

(* A call is answered with the line the adapter wrote for that very call:    *)
(* for every number of calls and every size of chunk, queue and pipe, with   *)
(* an adapter that answers late, twice, or with nothing at all, and with a   *)
(* descendant that keeps the pipes.  (Again provided that a killed process   *)
(* ends before _kill stops waiting for it.)                                  *)
THEOREM AnswersAreOwn ==
    ASSUME ~KillMayLag
    PROVE  Spec => []OwnAnswer
  <1>1. TurnInv => OwnAnswer
    BY DEF TurnInv
  <1> QED BY <1>1, TurnHolds, PTL

-----------------------------------------------------------------------------
(* The session implements RequestReply, its steps one by one.                *)

Kept == [Promise!Next]_(Promise!vars)

\* What a step has to do to Phase, Outcome, calls and broken to be a step of
\* RequestReply, or none.
LEMMA PromiseSteps ==
    /\ UNCHANGED <<Phase, Outcome, calls, broken>> => Kept
    /\ /\ Phase = "new" /\ Phase' = "idle"
       /\ UNCHANGED <<calls, Outcome, broken>>
       => Kept
    /\ /\ Phase \in {"new", "idle"} /\ Phase' = "closed"
       /\ UNCHANGED <<calls, Outcome, broken>>
       => Kept
    /\ /\ Phase = "idle" /\ Phase' = "busy" /\ calls' = calls + 1
       /\ UNCHANGED <<Outcome, broken>>
       => Kept
    /\ /\ Phase = "idle" /\ Phase' = "idle" /\ calls' = calls + 1
       /\ Outcome' = "failure" /\ broken' \in {broken, TRUE}
       => Kept
    /\ /\ Phase = "busy" /\ Phase' = "idle" /\ ~broken /\ Outcome' = "own"
       /\ UNCHANGED <<calls, broken>>
       => Kept
    /\ /\ Phase = "busy" /\ Phase' = "idle" /\ Outcome' = "failure"
       /\ broken' = TRUE /\ calls' = calls
       => Kept
  BY Zenon DEF Kept, Promise!Next, Promise!vars, Promise!Open, Promise!Close,
     Promise!Call, Promise!Refuse, Promise!Answer, Promise!Fail

LEMMA OutcomeOfFailure ==
    ASSUME NEW r, r.kind \in TransportFailures \cup {"too large"}, reply' = r
    PROVE  Outcome' = "failure"
  BY DEF Outcome, TransportFailures, Answers

(* A call in flight that fails, killing the process first or not.            *)
LEMMA PromiseFails ==
    ASSUME rpc \in {"writing", "reading", "getting"}, calls' = calls,
           NEW r, r.kind \in TransportFailures, Kill(r) \/ Finish(r)
    PROVE  Kept
  <1>1. Phase = "busy"
    BY DEF Phase
  <1>2. CASE /\ rpc' = "killing" /\ pending' = r /\ UNCHANGED <<reply, broken>>
    <2>1. Phase' = "busy" /\ Outcome' = Outcome
      BY <1>2 DEF Phase, Outcome, TransportFailures
    <2> QED BY <1>1, <1>2, <2>1, PromiseSteps
  <1>3. CASE Finish(r)
    <2>1. rpc' = "idle" /\ reply' = r
      BY <1>3 DEF Finish, Return
    <2>2. Phase' = "idle" /\ Outcome' = "failure"
      BY <2>1, OutcomeOfFailure DEF Phase
    <2>3. broken' = TRUE
      BY <1>3, Zenon DEF Finish, Return
    <2> QED BY <1>1, <2>2, <2>3, PromiseSteps
  <1> QED BY <1>2, <1>3 DEF Kill

(* A request that is refused before anything is sent.                        *)
LEMMA PromiseRefuses ==
    ASSUME TypeOK, rpc = "idle", calls' = calls + 1, NEW r, Finish(r),
           r.kind \in TransportFailures \cup {"too large"}
    PROVE  Kept
  <1>1. rpc' = "idle" /\ reply' = r
    BY DEF Finish, Return
  <1>2. Phase = "idle" /\ Phase' = "idle" /\ Outcome' = "failure"
    BY <1>1, OutcomeOfFailure DEF Phase
  <1>3. broken' \in {broken, TRUE}
    <2>1. CASE r.kind \in TransportFailures
      BY <2>1, Zenon DEF Finish, Return
    <2>2. CASE r.kind \notin TransportFailures
      <3>1. broken' = (broken \/ FALSE)
        BY <2>2, Zenon DEF Finish, Return
      <3>2. broken \in BOOLEAN
        BY DEF TypeOK
      <3> QED BY <3>1, <3>2, Zenon
    <2> QED BY <2>1, <2>2
  <1> QED BY <1>2, <1>3, PromiseSteps

LEMMA PromiseStep ==
    TypeOK /\ TurnInv /\ TypeOK' /\ [Next]_vars => Kept
  <1> SUFFICES ASSUME TypeOK, TurnInv, TypeOK', [Next]_vars PROVE Kept
    OBVIOUS
  <1> USE DEF session, input, writer, pump, adapter
  <1>1. Outage /\ InTurn
    BY DEF TurnInv
  <1>2. CASE WriteTimedOut \/ ReadTooLate \/ GetTimedOut \/ GetError
             \/ WriteFailed \/ ReadAtEof
    <2>1. PICK k \in TransportFailures : Kill(Failure(k)) \/ Finish(Failure(k))
      BY <1>2 DEF WriteTimedOut, ReadTooLate, GetTimedOut, GetError, WriteFailed,
                  ReadAtEof, TransportFailures
    <2>2. Failure(k).kind \in TransportFailures
      BY DEF Failure
    <2>3. rpc \in {"writing", "reading", "getting"} /\ calls' = calls
      BY <1>2 DEF WriteTimedOut, ReadTooLate, GetTimedOut, GetError, WriteFailed,
                  ReadAtEof
    <2> QED BY <2>1, <2>2, <2>3, PromiseFails
  <1>3. CASE ReadTooLong
    <2>1. /\ Kill(LineReply("oversize", buffer[Len(buffer)]))
          /\ rpc = "reading" /\ calls' = calls
      BY <1>3 DEF ReadTooLong
    <2>2. LineReply("oversize", buffer[Len(buffer)]).kind \in TransportFailures
      BY DEF LineReply, TransportFailures
    <2> QED BY <2>1, <2>2, PromiseFails
  <1>4. CASE TakeLine
    <2>1. /\ ~broken /\ rpc = "reading" /\ calls' = calls
          /\ \E r \in Reply :
                 \/ r.kind \in TransportFailures /\ Kill(r)
                 \/ r.kind \in Answers /\ r.line = r.req /\ Finish(r)
      BY <1>1, <1>4, LineTaken DEF TakeLine
    <2>2. PICK r \in Reply :
                 \/ r.kind \in TransportFailures /\ Kill(r)
                 \/ r.kind \in Answers /\ r.line = r.req /\ Finish(r)
      BY <2>1
    <2>3. CASE r.kind \in TransportFailures /\ Kill(r)
      BY <2>1, <2>3, PromiseFails
    <2>4. CASE r.kind \in Answers /\ r.line = r.req /\ Finish(r)
      <3>1. rpc' = "idle" /\ reply' = r
        BY <2>4 DEF Finish, Return
      <3>2. Phase = "busy" /\ Phase' = "idle" /\ Outcome' = "own"
        BY <2>1, <2>4, <3>1 DEF Phase, Outcome, Answers
      <3>3. broken' = broken
        <4>1. r.kind \notin TransportFailures
          BY <2>4 DEF Answers, TransportFailures
        <4>2. broken' = (broken \/ FALSE)
          BY <2>4, <4>1, Zenon DEF Finish, Return
        <4>3. broken \in BOOLEAN
          BY DEF TypeOK
        <4> QED BY <4>2, <4>3, Zenon
      <3> QED BY <2>1, <3>2, <3>3, PromiseSteps
    <2> QED BY <2>2, <2>3, <2>4
  <1>5. CASE RequestTooLarge
    <2> DEFINE r == [Failure("too large") EXCEPT !.req = 0]
    <2>1. Finish(r) /\ rpc = "idle" /\ calls' = calls + 1
      BY <1>5 DEF RequestTooLarge, MayCall
    <2>2. r.kind = "too large"
      BY DEF Failure
    <2> HIDE DEF r
    <2> QED BY <2>1, <2>2, PromiseRefuses
  <1>6. CASE RequestExited
    <2> DEFINE r == [Failure("exited") EXCEPT !.req = 0]
    <2>1. Finish(r) /\ rpc = "idle" /\ calls' = calls + 1
      BY <1>6 DEF RequestExited, MayCall
    <2>2. r.kind \in TransportFailures
      BY DEF Failure, TransportFailures
    <2> HIDE DEF r
    <2> QED BY <2>1, <2>2, PromiseRefuses
  <1>7. CASE KillWaited
    <2>1. rpc = "killing" /\ calls' = calls
      BY <1>7 DEF KillWaited
    <2>2. CASE pending.kind = "closed"
      <3>1. rpc' = "closed" /\ UNCHANGED <<reply, broken>>
        BY <1>7, <2>2 DEF KillWaited
      <3>2. Phase' = Phase /\ Outcome' = Outcome
        BY <2>1, <2>2, <3>1 DEF Phase, Outcome
      <3> QED BY <2>1, <3>1, <3>2, PromiseSteps
    <2>3. CASE pending.kind # "closed"
      <3>1. rpc' = "idle" /\ Return(pending) /\ pending.kind \in TransportFailures
        BY <1>1, <1>7, <2>1, <2>3 DEF KillWaited, Outage
      <3>2. reply' = pending
        BY <3>1 DEF Return
      <3>3. broken' = TRUE
        BY <3>1, Zenon DEF Return
      <3>4. Phase = "busy" /\ Phase' = "idle" /\ Outcome' = "failure"
        BY <2>1, <2>3, <3>1, <3>2, OutcomeOfFailure DEF Phase
      <3> QED BY <2>1, <3>3, <3>4, PromiseSteps
    <2> QED BY <2>2, <2>3
  <1>8. CASE Terminated \/ TerminateTimedOut
    <2>1. /\ rpc = "terminating" /\ UNCHANGED <<calls, reply, broken>>
          /\ rpc' = "closed" \/ (rpc' = "killing" /\ pending' = CloseReply)
      BY <1>8 DEF Terminated, TerminateTimedOut, Kill
    <2>2. Phase' = Phase /\ Outcome' = Outcome
      BY <2>1 DEF Phase, Outcome, CloseReply
    <2> QED BY <2>1, <2>2, PromiseSteps
  <1>9. CASE Start \/ CloseUnstarted \/ Close
    <2>1. /\ UNCHANGED <<calls, reply, broken>>
          /\ \/ rpc = "new" /\ rpc' = "idle"
             \/ rpc \in {"new", "idle"} /\ rpc' \in {"terminating", "closed"}
      BY <1>9 DEF Start, CloseUnstarted, Close
    <2>2. /\ Outcome' = Outcome
          /\ \/ Phase = "new" /\ Phase' = "idle"
             \/ Phase \in {"new", "idle"} /\ Phase' = "closed"
      BY <2>1 DEF Phase, Outcome
    <2> QED BY <2>1, <2>2, PromiseSteps
  <1>10. CASE Request
    <2>1. /\ rpc = "idle" /\ rpc' = "writing" /\ calls' = calls + 1
          /\ UNCHANGED <<reply, broken>>
      BY <1>10 DEF Request, MayCall
    <2>2. Phase = "idle" /\ Phase' = "busy" /\ Outcome' = Outcome
      BY <2>1 DEF Phase, Outcome
    <2> QED BY <2>1, <2>2, PromiseSteps
  <1>11. CASE WriteDone \/ ReadMore \/ GetEof \/ GetData
    <2>1. /\ rpc \in {"writing", "reading", "getting"}
          /\ rpc' \in {"reading", "getting"}
          /\ UNCHANGED <<calls, reply, broken>>
      BY <1>11 DEF WriteDone, ReadMore, GetEof, GetData
    <2>2. Phase' = Phase /\ Outcome' = Outcome
      BY <2>1 DEF Phase, Outcome
    <2> QED BY <2>1, <2>2, PromiseSteps
  <1>12. CASE Expire \/ Writer \/ Pump \/ Adapter \/ SignalLands \/ Ended
              \/ UNCHANGED vars
    <2>1. UNCHANGED <<rpc, pending, calls, reply, broken>>
      BY <1>12 DEF Expire, Writer, WriterWrites, WriterFails, Pump, PumpReads,
               PumpReadFails, PumpPuts, PumpGivesUp, Adapter, AdapterReads,
               AdapterWrites, ClosesStdin, ClosesStdout, Exits, SignalLands, Dies,
               Ended, vars
    <2>2. Phase' = Phase /\ Outcome' = Outcome
      BY <2>1 DEF Phase, Outcome
    <2> QED BY <2>1, <2>2, PromiseSteps
  <1> QED BY <1>2, <1>3, <1>4, <1>5, <1>6, <1>7, <1>8, <1>9, <1>10, <1>11, <1>12
             DEF Next, CallReturns, Caller

(* AdapterSession implements the safety half of RequestReply, for every      *)
(* value of the constants under which a killed process ends before _kill     *)
(* stops waiting: a call is refused, answered with its own line or failed,   *)
(* never two of these, and after a failure none is answered.  (That every    *)
(* call comes to an end is PromiseKept's liveness half.)                     *)
THEOREM SessionKeepsPromise ==
    ASSUME ~KillMayLag
    PROVE  Spec => Promise!Init /\ [][Promise!Next]_(Promise!vars)
  <1>1. Init => Promise!Init
    <2>1. ASSUME Init PROVE Promise!Init
      <3>1. rpc = "new" /\ reply = NoReply /\ calls = 0
        BY <2>1 DEF Init
      <3>2. Phase = "new" /\ Outcome = "none"
        BY <3>1 DEF Phase, Outcome, NoReply
      <3>3. broken = FALSE
        BY <2>1, Zenon DEF Init
      <3> QED BY <3>1, <3>2, <3>3, Zenon DEF Promise!Init
    <2> QED BY <2>1
  <1>2. TypeOK /\ TurnInv /\ TypeOK' /\ [Next]_vars => [Promise!Next]_(Promise!vars)
    BY PromiseStep DEF Kept
  <1> QED BY <1>1, <1>2, TypeCorrect, TurnHolds, PTL DEF Spec
=============================================================================
