--------------------------- MODULE AdapterSession ---------------------------
(***************************************************************************)
(* The runner's side of the adapter protocol (conformance/runner/          *)
(* protocol.py): one AdapterSession, the daemon thread that writes the     *)
(* request in flight, the daemon thread that pumps the adapter's stdout    *)
(* into a bounded queue, and the adapter process at the other end of two   *)
(* operating-system pipes.  The adapter is the environment: it may answer, *)
(* stall, crash, close a pipe, write junk or write without end.            *)
(*                                                                         *)
(* A byte of output is a "unit" that remembers the line it belongs to and  *)
(* its place in that line, so that a lost, repeated or misattributed byte  *)
(* shows.  A request is one item of stdin.                                 *)
(***************************************************************************)
EXTENDS Integers, Sequences

CONSTANTS
    MaxLine,      \* MAX_LINE_BYTES, in units, the newline not counted
    ReadChunk,    \* READ_CHUNK_BYTES: what one os.read returns at most
    MaxQueued,    \* MAX_QUEUED_CHUNKS: the capacity of the chunk queue
    PipeCap,      \* capacity of the operating system's stdout pipe
    MaxRun,       \* bound of the model: the longest line an adapter writes
    MaxCalls,     \* bound of the model: calls of request() in a session
    Chatty,       \* TRUE: the adapter may write lines nobody asked for
    Orphans,      \* TRUE: a descendant may keep the pipes of a dead adapter
    KillMayLag    \* TRUE: a killed process may outlive _kill's wait(2)

ASSUME BoundsAssumption ==
    /\ MaxLine \in Nat \ {0}
    /\ ReadChunk \in Nat \ {0}
    /\ MaxQueued \in Nat \ {0}
    /\ PipeCap \in Nat \ {0}
    /\ MaxRun \in Nat \ {0}
    /\ MaxCalls \in Nat
ASSUME SwitchesAssumption ==
    /\ Chatty \in BOOLEAN
    /\ Orphans \in BOOLEAN
    /\ KillMayLag \in BOOLEAN

VARIABLES
    \* the session object and the thread that calls it
    rpc,          \* where the calling thread is
    calls,        \* calls of request() made so far
    issued,       \* requests handed to a writer thread so far
    expired,      \* the deadline of the request in flight has passed
    pending,      \* what request() returns once _kill is done
    reply,        \* what request() returned last
    hello,        \* the handshake of start()
    buffer, eof,  \* self._buffer and self._eof
    \* the threads
    big,          \* the request in flight does not fit the stdin pipe
    werr,         \* the writer thread ended with an OSError
    ppc, held,    \* the pump: where it is, and the chunk in its hand
    chunks,       \* self._chunks
    stopPump,     \* self._stop_pump
    \* the adapter process and the pipes
    process,      \* the state of the process
    sent, taken,  \* requests wholly written to stdin, and read from it
    inOpen,       \* some process holds the read end of stdin
    outOpen,      \* some process holds the write end of stdout
    outPipe,      \* units in the stdout pipe
    nextLine, nextPos,  \* the place of the unit the adapter writes next
    \* history
    broken        \* request() has returned a transport failure

session == <<calls, issued, expired, pending, reply, hello, broken>>
input   == <<buffer, eof>>
writer  == <<big, werr, sent>>
pump    == <<ppc, held>>
adapter == <<taken, inOpen, outOpen, nextLine, nextPos>>
vars == <<rpc, session, input, writer, pump, chunks, stopPump, process,
          adapter, outPipe>>

-----------------------------------------------------------------------------
(* Data. *)

\* A unit of output: the line it is of, its place in that line, and, for the
\* newline, what the line turns out to be: an answer, JSON of no known form, no
\* JSON, or one at which json.loads raises anything else (nested too deep, a number
\* too long), which leaves request() as an exception and the session as it is.
Answers == {"answer", "unclassifiable", "raises"}
LineEnds == {"no", "junk"} \cup Answers
Unit == [line : Nat \ {0}, pos : Nat \ {0}, end : LineEnds]

\* queue.Queue[bytes | OSError]: data, b"" at the end of the file, or an error.
Data(s)   == [kind |-> "data", data |-> s]
EndOfFile == [kind |-> "eof", data |-> <<>>]
ReadError == [kind |-> "error", data |-> <<>>]
Chunk == [kind : {"data", "eof", "error"}, data : Seq(Unit)]

\* The harness errors after which the stream is out of step or gone.
TransportFailures ==
    {"timed out", "oversize", "junk", "exited", "write failed", "read failed"}
ReplyKinds ==
    {"none", "closed", "too large"} \cup Answers \cup TransportFailures
Reply == [kind : ReplyKinds, req : Nat, line : Nat, pos : Nat]

Failure(k) == [kind |-> k, req |-> issued, line |-> 0, pos |-> 0]
NoReply    == [kind |-> "none", req |-> 0, line |-> 0, pos |-> 0]
CloseReply == [kind |-> "closed", req |-> 0, line |-> 0, pos |-> 0]

HasNewline(b) == \E i \in DOMAIN b : b[i].end # "no"
FirstNewline(b) ==
    CHOOSE i \in DOMAIN b :
        b[i].end # "no" /\ \A j \in 1..(i - 1) : b[j].end = "no"
\* The 16 MiB limit on a line, checked on the buffer while no newline is in it
\* and on the line once it is complete.
TooLong_OffByOne(n) == n >= MaxLine
TooLong(n) == n > MaxLine

\* What stays in the buffer after the line that ends at i is taken.
Rest_Forgets(b, i) == <<>>
Rest(b, i) == SubSeq(b, i + 1, Len(b))

LineReply(k, u) == [kind |-> k, req |-> issued, line |-> u.line, pos |-> u.pos]

Busy == {"writing", "reading", "getting", "killing"}
Alive == process \in {"alive", "signalled"}   \* Popen.poll() is None

-----------------------------------------------------------------------------
Init ==
    /\ rpc = "new" /\ calls = 0 /\ issued = 0 /\ expired = FALSE
    /\ pending = NoReply /\ reply = NoReply /\ hello = "none"
    /\ buffer = <<>> /\ eof = FALSE
    /\ big = FALSE /\ werr = FALSE /\ sent = 0
    /\ ppc = "none" /\ held = EndOfFile /\ chunks = <<>> /\ stopPump = FALSE
    /\ process = "none" /\ taken = 0 /\ inOpen = FALSE /\ outOpen = FALSE
    /\ outPipe = <<>> /\ nextLine = 1 /\ nextPos = 1
    /\ broken = FALSE

(* start(): the process and its pipes, then the pump thread. *)
Start ==
    /\ rpc = "new"
    /\ rpc' = "idle"
    /\ process' = "alive" /\ inOpen' = TRUE /\ outOpen' = TRUE
    /\ ppc' = "read"
    /\ UNCHANGED <<session, input, writer, held, chunks, stopPump, taken,
                   nextLine, nextPos, outPipe>>

-----------------------------------------------------------------------------
(* request(): how it ends, and _kill, which stands before some endings. *)

\* The first call is the handshake; start() accepts only an ok answer, and
\* of those only one that names a protocol and scopes the runner knows.
Return(r) ==
    /\ reply' = r
    /\ broken' = (broken \/ r.kind \in TransportFailures)
    /\ hello' \in IF hello # "none" THEN {hello}
                  ELSE IF r.kind = "answer" THEN {"ok", "refused"}
                  ELSE {"refused"}

Finish(r) == Return(r) /\ rpc' = "idle" /\ UNCHANGED <<pending, process>>

Kill_Skipped(r) == Finish(r)

\* _kill signals a process that still runs and then waits for it.
Kill(r) ==
    IF Alive
    THEN /\ process' = "signalled" /\ rpc' = "killing" /\ pending' = r
         /\ UNCHANGED <<reply, broken, hello>>
    ELSE Finish(r)

\* wait(timeout=2) ended; a TimeoutExpired is swallowed.
KillWaited ==
    /\ rpc = "killing"
    /\ ~Alive \/ KillMayLag
    /\ IF pending.kind = "closed"
       THEN rpc' = "closed" /\ UNCHANGED <<reply, broken, hello>>
       ELSE rpc' = "idle" /\ Return(pending)
    /\ pending' = NoReply
    /\ UNCHANGED <<calls, issued, expired, input, writer, pump, chunks,
                   stopPump, process, adapter, outPipe>>

\* The handshake is the first call; no call follows a refused one.
MayCall == rpc = "idle" /\ calls < MaxCalls /\ (hello = "ok" \/ calls = 0)

(* request() up to the writer thread. *)
RequestTooLarge ==
    /\ MayCall /\ calls > 0
    /\ calls' = calls + 1
    /\ Finish([Failure("too large") EXCEPT !.req = 0])
    /\ UNCHANGED <<issued, expired, input, writer, pump, chunks, stopPump,
                   adapter, outPipe>>

RequestExited ==
    /\ MayCall /\ ~Alive
    /\ calls' = calls + 1
    /\ Finish([Failure("exited") EXCEPT !.req = 0])
    /\ UNCHANGED <<issued, expired, input, writer, pump, chunks, stopPump,
                   adapter, outPipe>>

Request ==
    /\ MayCall /\ Alive
    /\ calls' = calls + 1 /\ issued' = issued + 1
    /\ expired' = FALSE /\ werr' = FALSE /\ big' \in BOOLEAN
    /\ rpc' = "writing"
    /\ UNCHANGED <<pending, reply, hello, broken, input, sent, pump, chunks,
                   stopPump, process, adapter, outPipe>>

\* time.monotonic() passes the deadline of the request in flight.
Expire ==
    /\ rpc \in {"writing", "reading", "getting"} /\ ~expired
    /\ expired' = TRUE
    /\ UNCHANGED <<rpc, calls, issued, pending, reply, hello, broken, input,
                   writer, pump, chunks, stopPump, process, adapter, outPipe>>

-----------------------------------------------------------------------------
(* _write_all: the writer thread and the join that waits for it. *)

WriterAlive == sent < issued /\ ~werr

\* A small request goes into the pipe whether or not anyone reads; a big one
\* is finished by the adapter's reading (AdapterReads).
WriterWrites ==
    /\ WriterAlive /\ inOpen /\ ~big
    /\ sent' = sent + 1
    /\ UNCHANGED <<rpc, session, input, big, werr, pump, chunks, stopPump,
                   process, adapter, outPipe>>

WriterFails ==
    /\ WriterAlive /\ ~inOpen
    /\ werr' = TRUE
    /\ UNCHANGED <<rpc, session, input, big, sent, pump, chunks, stopPump,
                   process, adapter, outPipe>>

WriteTimedOut ==
    /\ rpc = "writing" /\ WriterAlive /\ expired
    /\ Kill(Failure("timed out"))
    /\ UNCHANGED <<calls, issued, expired, input, writer, pump, chunks,
                   stopPump, adapter, outPipe>>

WriteFailed ==
    /\ rpc = "writing" /\ ~WriterAlive /\ werr
    /\ Finish(Failure("write failed"))
    /\ UNCHANGED <<calls, issued, expired, input, writer, pump, chunks,
                   stopPump, adapter, outPipe>>

WriteDone ==
    /\ rpc = "writing" /\ ~WriterAlive /\ ~werr
    /\ rpc' = "reading"
    /\ UNCHANGED <<session, input, writer, pump, chunks, stopPump, process,
                   adapter, outPipe>>

-----------------------------------------------------------------------------
(* _read_line, and what request() makes of the line. *)

ReadTooLong ==
    /\ rpc = "reading" /\ ~HasNewline(buffer) /\ TooLong(Len(buffer))
    /\ Kill(LineReply("oversize", buffer[Len(buffer)]))
    /\ UNCHANGED <<calls, issued, expired, input, writer, pump, chunks,
                   stopPump, adapter, outPipe>>

ReadAtEof ==
    /\ rpc = "reading" /\ ~HasNewline(buffer) /\ ~TooLong(Len(buffer))
    /\ eof
    /\ Finish(Failure("exited"))
    /\ UNCHANGED <<calls, issued, expired, input, writer, pump, chunks,
                   stopPump, adapter, outPipe>>

\* remaining <= 0: the queue is not looked at, whatever it holds.
ReadTooLate ==
    /\ rpc = "reading" /\ ~HasNewline(buffer) /\ ~TooLong(Len(buffer))
    /\ ~eof /\ expired
    /\ Kill(Failure("timed out"))
    /\ UNCHANGED <<calls, issued, expired, input, writer, pump, chunks,
                   stopPump, adapter, outPipe>>

ReadMore ==
    /\ rpc = "reading" /\ ~HasNewline(buffer) /\ ~TooLong(Len(buffer))
    /\ ~eof /\ ~expired
    /\ rpc' = "getting"
    /\ UNCHANGED <<session, input, writer, pump, chunks, stopPump, process,
                   adapter, outPipe>>

\* queue.get(timeout=remaining): it prefers a chunk to the timeout.
GetTimedOut_Forever == FALSE
GetTimedOut ==
    /\ rpc = "getting" /\ chunks = <<>> /\ expired
    /\ Kill(Failure("timed out"))
    /\ UNCHANGED <<calls, issued, expired, input, writer, pump, chunks,
                   stopPump, adapter, outPipe>>

GetError ==
    /\ rpc = "getting" /\ chunks # <<>> /\ Head(chunks).kind = "error"
    /\ chunks' = Tail(chunks)
    /\ Kill(Failure("read failed"))
    /\ UNCHANGED <<calls, issued, expired, input, writer, pump, stopPump,
                   adapter, outPipe>>

GetEof ==
    /\ rpc = "getting" /\ chunks # <<>> /\ Head(chunks).kind = "eof"
    /\ chunks' = Tail(chunks)
    /\ eof' = TRUE /\ rpc' = "reading"
    /\ UNCHANGED <<session, buffer, writer, pump, stopPump, process, adapter,
                   outPipe>>

GetData ==
    /\ rpc = "getting" /\ chunks # <<>> /\ Head(chunks).kind = "data"
    /\ chunks' = Tail(chunks)
    /\ buffer' = buffer \o Head(chunks).data /\ rpc' = "reading"
    /\ UNCHANGED <<session, eof, writer, pump, stopPump, process, adapter,
                   outPipe>>

\* A line of at most MaxLine bytes is answered with; what follows it stays.
TakeLine ==
    /\ rpc = "reading" /\ HasNewline(buffer)
    /\ LET i == FirstNewline(buffer)
           u == buffer[i]
       IN  /\ buffer' = Rest(buffer, i)
           /\ IF TooLong(i - 1) THEN Kill(LineReply("oversize", buffer[i - 1]))
              ELSE IF u.end = "junk" THEN Kill(LineReply("junk", u))
              ELSE Finish(LineReply(u.end, u))
    /\ UNCHANGED <<calls, issued, expired, eof, writer, pump, chunks,
                   stopPump, adapter, outPipe>>

-----------------------------------------------------------------------------
(* close(): stop the pump, terminate, wait, kill. *)

CloseUnstarted ==
    /\ rpc = "new" /\ rpc' = "closed" /\ stopPump' = TRUE
    /\ UNCHANGED <<session, input, writer, pump, chunks, process, adapter,
                   outPipe>>

Close ==
    /\ rpc = "idle" /\ calls > 0
    /\ stopPump' = TRUE
    /\ rpc' = IF Alive THEN "terminating" ELSE "closed"
    /\ UNCHANGED <<session, input, writer, pump, chunks, process, adapter,
                   outPipe>>

Terminated ==
    /\ rpc = "terminating" /\ ~Alive
    /\ rpc' = "closed"
    /\ UNCHANGED <<session, input, writer, pump, chunks, stopPump, process,
                   adapter, outPipe>>

TerminateTimedOut ==
    /\ rpc = "terminating" /\ Alive
    /\ Kill(CloseReply)
    /\ UNCHANGED <<calls, issued, expired, input, writer, pump, chunks,
                   stopPump, adapter, outPipe>>

-----------------------------------------------------------------------------
(* _pump. *)

AtMost(m, n) == IF m <= n THEN m ELSE n

PumpReads_NonBlocking ==
    /\ ppc = "read" /\ outPipe = <<>> /\ held' = EndOfFile /\ ppc' = "put"
    /\ UNCHANGED <<rpc, session, input, writer, chunks, stopPump, process,
                   adapter, outPipe>>
PumpReads ==
    /\ ppc = "read"
    /\ \/ /\ outPipe # <<>>
          /\ LET n == AtMost(ReadChunk, Len(outPipe))
             IN  /\ held' = Data(SubSeq(outPipe, 1, n))
                 /\ outPipe' = SubSeq(outPipe, n + 1, Len(outPipe))
       \/ outPipe = <<>> /\ ~outOpen /\ held' = EndOfFile /\ UNCHANGED outPipe
    /\ ppc' = "put"
    /\ UNCHANGED <<rpc, session, input, writer, chunks, stopPump, process,
                   adapter>>

PumpReadFails ==
    /\ ppc = "read"
    /\ held' = ReadError /\ ppc' = "put"
    /\ UNCHANGED <<rpc, session, input, writer, chunks, stopPump, process,
                   adapter, outPipe>>

PumpPuts_RawBytes ==
    /\ ppc = "put" /\ Len(chunks) < MaxQueued
    /\ chunks' = Append(chunks, held.data)
    /\ ppc' = IF held.kind = "data" THEN "read" ELSE "done"
    /\ held' = EndOfFile
    /\ UNCHANGED <<rpc, session, input, writer, stopPump, process, adapter,
                   outPipe>>
PumpPuts_Unbounded ==
    /\ ppc = "put"
    /\ chunks' = Append(chunks, held)
    /\ ppc' = IF held.kind = "data" THEN "read" ELSE "done"
    /\ held' = EndOfFile
    /\ UNCHANGED <<rpc, session, input, writer, stopPump, process, adapter,
                   outPipe>>
PumpPuts ==
    /\ ppc = "put" /\ Len(chunks) < MaxQueued
    /\ chunks' = Append(chunks, held)
    /\ ppc' = IF held.kind = "data" THEN "read" ELSE "done"
    /\ held' = EndOfFile
    /\ UNCHANGED <<rpc, session, input, writer, stopPump, process, adapter,
                   outPipe>>

\* queue.Full after 0.1 s, and the session is closing: the chunk is dropped.
PumpGivesUp_Never == FALSE
PumpGivesUp ==
    /\ ppc = "put" /\ Len(chunks) >= MaxQueued /\ stopPump
    /\ ppc' = "done" /\ held' = EndOfFile
    /\ UNCHANGED <<rpc, session, input, writer, chunks, stopPump, process,
                   adapter, outPipe>>

-----------------------------------------------------------------------------
(* The adapter and the operating system. *)

AdapterReads ==
    /\ inOpen /\ (taken < sent \/ WriterAlive)
    /\ taken' = taken + 1
    /\ sent' = IF taken < sent THEN sent ELSE sent + 1
    /\ UNCHANGED <<rpc, session, input, big, werr, pump, chunks, stopPump,
                   process, inOpen, outOpen, nextLine, nextPos, outPipe>>

\* One unit of a line.  A protocol-abiding adapter writes its k-th line after
\* it has read the k-th request, and one line for each.
AdapterWrites ==
    /\ outOpen /\ Len(outPipe) < PipeCap
    /\ Chatty \/ nextLine <= taken
    /\ nextLine <= MaxCalls
    /\ \E e \in LineEnds :
          /\ e = "no" => nextPos < MaxRun
          /\ outPipe' = Append(outPipe,
                               [line |-> nextLine, pos |-> nextPos, end |-> e])
          /\ IF e = "no" THEN nextPos' = nextPos + 1 /\ UNCHANGED nextLine
             ELSE nextLine' = nextLine + 1 /\ nextPos' = 1
    /\ UNCHANGED <<rpc, session, input, writer, pump, chunks, stopPump,
                   process, taken, inOpen, outOpen>>

ClosesStdin ==
    /\ inOpen /\ inOpen' = FALSE
    /\ UNCHANGED <<rpc, session, input, writer, pump, chunks, stopPump,
                   process, taken, outOpen, nextLine, nextPos, outPipe>>

ClosesStdout ==
    /\ outOpen /\ outOpen' = FALSE
    /\ UNCHANGED <<rpc, session, input, writer, pump, chunks, stopPump,
                   process, taken, inOpen, nextLine, nextPos, outPipe>>

\* The process ends.  A descendant that inherited the pipes keeps them open.
Dies ==
    /\ process' = "dead"
    /\ \E keep \in IF Orphans THEN BOOLEAN ELSE {FALSE} :
          inOpen' = (inOpen /\ keep) /\ outOpen' = (outOpen /\ keep)
    /\ UNCHANGED <<rpc, session, input, writer, pump, chunks, stopPump,
                   taken, nextLine, nextPos, outPipe>>

Exits == process = "alive" /\ Dies
SignalLands == process = "signalled" /\ Dies

-----------------------------------------------------------------------------
CallReturns ==
    \/ KillWaited \/ WriteTimedOut \/ WriteFailed \/ WriteDone
    \/ ReadTooLong \/ ReadAtEof \/ ReadTooLate \/ ReadMore
    \/ GetTimedOut \/ GetError \/ GetEof \/ GetData \/ TakeLine
    \/ Terminated \/ TerminateTimedOut
Caller ==
    Start \/ RequestTooLarge \/ RequestExited \/ Request
        \/ CloseUnstarted \/ Close
Writer  == WriterWrites \/ WriterFails
Pump    == PumpReads \/ PumpReadFails \/ PumpPuts \/ PumpGivesUp
Adapter == AdapterReads \/ AdapterWrites \/ ClosesStdin \/ ClosesStdout \/ Exits

\* A closed session whose threads and pipes are quiet.
Ended == rpc = "closed" /\ ppc \in {"none", "done"} /\ UNCHANGED vars

Next ==
    CallReturns \/ Caller \/ Expire \/ Writer \/ Pump \/ Adapter
        \/ SignalLands \/ Ended

\* The threads of the runner run, time passes and the kernel delivers a
\* signal; nothing is asked of the adapter, nor of the caller.
Fairness ==
    /\ WF_vars(CallReturns) /\ WF_vars(Expire) /\ WF_vars(Writer)
    /\ WF_vars(PumpReads) /\ WF_vars(PumpPuts \/ PumpGivesUp)
    /\ WF_vars(SignalLands)

Spec == Init /\ [][Next]_vars /\ Fairness
-----------------------------------------------------------------------------
(* Properties. *)

(* The type invariant. *)
TypeOK ==
    /\ rpc \in Busy \cup {"new", "idle", "terminating", "closed"}
    /\ calls \in Nat /\ issued \in Nat
    /\ expired \in BOOLEAN /\ broken \in BOOLEAN
    /\ pending \in Reply /\ reply \in Reply
    /\ hello \in {"none", "ok", "refused"}
    /\ buffer \in Seq(Unit) /\ eof \in BOOLEAN
    /\ big \in BOOLEAN /\ werr \in BOOLEAN
    /\ sent \in Nat /\ taken \in Nat
    /\ ppc \in {"none", "read", "put", "done"} /\ held \in Chunk
    /\ chunks \in Seq(Chunk) /\ stopPump \in BOOLEAN
    /\ process \in {"none", "alive", "signalled", "dead"}
    /\ inOpen \in BOOLEAN /\ outOpen \in BOOLEAN
    /\ outPipe \in Seq(Unit) /\ nextLine \in Nat \ {0} /\ nextPos \in Nat \ {0}

(* An adapter that floods stdout blocks on its pipe instead of filling the   *)
(* runner's memory (the comment on MAX_QUEUED_CHUNKS): what the session      *)
(* holds is bounded whatever the adapter writes and however slow the caller. *)
MemoryBound ==
    /\ Len(buffer) <= MaxLine + ReadChunk
    /\ Len(chunks) <= MaxQueued
    /\ \A i \in 1..Len(chunks) : Len(chunks[i].data) <= ReadChunk
    /\ Len(held.data) <= ReadChunk

(* _read_line believes the end of the file (self._eof is never reset) only   *)
(* when the pump has ended and nothing the adapter wrote is still on its way. *)
EofIsLast ==
    eof => ppc = "done" /\ chunks = <<>> /\ outPipe = <<>> /\ ~outOpen

(* The 16 MiB limit is the same whichever of its two checks meets the line,  *)
(* the one on the unfinished buffer or the one on the line: no line within   *)
(* it is refused and none beyond it is taken.  pos counts from the first     *)
(* byte the adapter wrote, so a byte lost or doubled on the way shows too.   *)
LineLimitExact ==
    \A r \in {reply, pending} :
        /\ r.kind = "oversize" => r.pos > MaxLine
        /\ r.kind \in Answers \cup {"junk"} => r.pos <= MaxLine + 1

(* A call is answered with the line the adapter wrote for that call, never   *)
(* with a late line of a call that timed out before.                         *)
OwnAnswer ==
    reply.kind \in Answers => reply.line = reply.req

(* After a transport failure no call is answered: the process is dead, the   *)
(* end of the file is seen, or stdin is broken, each of them for good.       *)
FailStop ==
    broken => reply.kind \in TransportFailures \cup {"too large"}

(* The pump thread of a closed session ends and closes stdout, even with a   *)
(* full queue that nobody will read again.                                   *)
PumpEnds == rpc = "closed" ~> ppc \in {"none", "done"}

(* AdapterSession keeps the promise of RequestReply: a call is under way     *)
(* until its reply is out, _kill and its wait included, and close() counts   *)
(* from the moment the pump is told to stop.                                 *)
Phase ==
    IF \/ rpc \in {"writing", "reading", "getting"}
       \/ rpc = "killing" /\ pending.kind # "closed" THEN "busy"
    ELSE IF rpc \in {"new", "idle"} THEN rpc
    ELSE "closed"
Outcome ==
    IF reply.kind = "none" THEN "none"
    ELSE IF reply.kind \in Answers /\ reply.line = reply.req
         THEN "own"
    ELSE IF reply.kind \in TransportFailures \cup {"too large"} THEN "failure"
    ELSE "another call's"
Promise == INSTANCE RequestReply WITH phase <- Phase, outcome <- Outcome
PromiseKept == Promise!Spec
=============================================================================
