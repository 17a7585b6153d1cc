--------------------------- MODULE StrategyWorker ---------------------------
(***************************************************************************)
(* A strategy worker process and the engine's end of it: the pipe threads   *)
(* of core/control-plane/src/worker_io.rs, ProcessStrategyWorker in         *)
(* core/control-plane/src/lib.rs, and the loop of the Python worker,         *)
(* python/strategy-sdk/src/follon_strategy_sdk/worker.py.                    *)
(*                                                                         *)
(* The worker answers each frame once, in order, but it may be arbitrarily  *)
(* slow, stop reading, crash between or inside frames, or write a frame     *)
(* over the limit.  The caller may go on asking after an error.  A frame is *)
(* named by the request it answers; contents are abstracted.                *)
(***************************************************************************)
EXTENDS Integers, Sequences

CONSTANTS PipeFrames,   \* bound: frames an operating-system pipe buffers
          MaxRequests   \* bound: requests of the caller

VARIABLES
    client,    \* the caller's ProcessStrategyWorker; `paired`: every answer it
               \* took so far was the answer to what it had asked
    outgoing,  \* the writer thread's queue and whether its sender is open
    writer,    \* the writer thread: "ALIVE" or "DONE"
    stdin,     \* frames in the worker's input pipe
    process,   \* the worker process: what it is working on, 0 when idle
    stdout,    \* frames in the worker's output pipe
    reader,    \* the reader thread and the outcome it holds
    incoming   \* the rendezvous channel of one outcome

threadVars == <<outgoing, writer, stdin, process, stdout, reader, incoming>>
workerVars == <<client, threadVars>>

-----------------------------------------------------------------------------
(* Frame 0 is the ready frame, frame n answers request n.                   *)
Frames == [kind : {"WHOLE", "CUT", "LONG"}, answers : 0..MaxRequests]
FrameOutcomes == [kind : {"FRAME", "CLOSED", "TRUNCATED", "OVERSIZED"}, answers : 0..MaxRequests]

NoOutcome == [kind |-> "CLOSED", answers |-> 0]

WorkerTypeOK ==
    /\ client \in [phase : {"STARTING", "IDLE", "WAITING", "DROPPED"}, asked : 0..MaxRequests,
                   terminated : BOOLEAN, paired : BOOLEAN]
    /\ outgoing.frames \in Seq(1..MaxRequests) /\ outgoing.open \in BOOLEAN
    /\ writer \in {"ALIVE", "DONE"}
    /\ stdin \in Seq(1..MaxRequests) /\ Len(stdin) <= PipeFrames
    /\ process \in [alive : BOOLEAN, ready : BOOLEAN, busy : 0..MaxRequests]
    /\ stdout \in Seq(Frames) /\ Len(stdout) <= PipeFrames
    /\ reader \in [state : {"READING", "HOLDING", "DONE"}, outcome : FrameOutcomes]
    /\ incoming \in Seq(FrameOutcomes) /\ Len(incoming) <= 1

(* spawn_inner starts the process and both threads.                         *)
WorkerInit ==
    /\ client = [phase |-> "STARTING", asked |-> 0, terminated |-> FALSE, paired |-> TRUE]
    /\ outgoing = [frames |-> <<>>, open |-> TRUE]
    /\ writer = "ALIVE" /\ stdin = <<>> /\ stdout = <<>> /\ incoming = <<>>
    /\ process = [alive |-> TRUE, ready |-> FALSE, busy |-> 0]
    /\ reader = [state |-> "READING", outcome |-> NoOutcome]

-----------------------------------------------------------------------------
(* Faulty: a fault is reported and the worker is kept.                      *)
KeepWorker(phase) ==
    /\ client' = [client EXCEPT !.phase = phase]
    /\ UNCHANGED <<outgoing, process>>

(* terminate: no further question, and no process to answer one.            *)
Terminate(phase) ==
    /\ client' = [client EXCEPT !.phase = phase, !.terminated = TRUE]
    /\ outgoing' = [outgoing EXCEPT !.open = FALSE]
    /\ process' = [process EXCEPT !.alive = FALSE]

(* request_worker_frame up to the wait.  A terminated worker is not asked.  *)
Request ==
    /\ client.phase = "IDLE" /\ ~client.terminated /\ client.asked < MaxRequests
    /\ IF writer = "DONE" THEN Terminate("IDLE")
       ELSE /\ client' = [client EXCEPT !.phase = "WAITING", !.asked = @ + 1]
            /\ outgoing' = [outgoing EXCEPT !.frames = Append(@, client.asked + 1)]
            /\ UNCHANGED process
    /\ UNCHANGED <<writer, stdin, stdout, reader, incoming>>

Waiting == client.phase \in {"STARTING", "WAITING"}

(* What the caller takes for its answer: any whole frame.                   *)
Receive ==
    /\ Waiting /\ incoming # <<>>
    /\ incoming' = <<>>
    /\ IF Head(incoming).kind = "FRAME"
       THEN /\ client' = [client EXCEPT !.phase = "IDLE",
                                        !.paired = @ /\ Head(incoming).answers = client.asked]
            /\ UNCHANGED <<outgoing, process>>
       ELSE Terminate("IDLE")
    /\ UNCHANGED <<writer, stdin, stdout, reader>>

(* recv_timeout ends with no outcome: the deadline, or no sender is left.   *)
NoAnswer ==
    /\ Waiting /\ incoming = <<>>
    /\ Terminate("IDLE")
    /\ UNCHANGED <<writer, stdin, stdout, reader, incoming>>

(* Drop: the input is closed and a process that still runs is killed.       *)
DropAll ==
    /\ client' = [client EXCEPT !.phase = "DROPPED"]
    /\ outgoing' = [outgoing EXCEPT !.open = FALSE]
    /\ process' = [process EXCEPT !.alive = FALSE]

DropWorker ==
    /\ client.phase = "IDLE"
    /\ DropAll
    /\ UNCHANGED <<writer, stdin, stdout, reader, incoming>>

-----------------------------------------------------------------------------
(* The writer thread.  A write blocks while the pipe is full, and fails     *)
(* once the process is gone.                                                *)
WriteFrame ==
    /\ writer = "ALIVE" /\ outgoing.frames # <<>>
    /\ IF process.alive
       THEN /\ Len(stdin) < PipeFrames
            /\ stdin' = Append(stdin, Head(outgoing.frames))
            /\ UNCHANGED writer
       ELSE writer' = "DONE" /\ UNCHANGED stdin
    /\ outgoing' = [outgoing EXCEPT !.frames = Tail(@)]
    /\ UNCHANGED <<client, process, stdout, reader, incoming>>

WriterEnds ==
    /\ writer = "ALIVE" /\ outgoing.frames = <<>> /\ ~outgoing.open
    /\ writer' = "DONE"
    /\ UNCHANGED <<client, outgoing, stdin, process, stdout, reader, incoming>>

(* The reader thread.                                                       *)
OutcomeOf(frame) ==
    [kind |-> CASE frame.kind = "WHOLE" -> "FRAME"
                [] frame.kind = "CUT"   -> "TRUNCATED"
                [] frame.kind = "LONG"  -> "OVERSIZED",
     answers |-> frame.answers]

ReadFrame ==
    /\ reader.state = "READING"
    /\ \/ /\ stdout # <<>>
          /\ reader' = [state |-> "HOLDING", outcome |-> OutcomeOf(Head(stdout))]
          /\ stdout' = Tail(stdout)
       \/ /\ stdout = <<>> /\ ~process.alive
          /\ reader' = [state |-> "HOLDING", outcome |-> NoOutcome]
          /\ UNCHANGED stdout
    /\ UNCHANGED <<client, outgoing, writer, stdin, process, incoming>>

(* A channel of one frame blocks the reader until the caller takes it; a    *)
(* dropped receiver ends it.                                                *)
HandOver ==
    /\ reader.state = "HOLDING"
    /\ \/ /\ client.phase = "DROPPED"
          /\ reader' = [reader EXCEPT !.state = "DONE"]
          /\ UNCHANGED incoming
       \/ /\ client.phase # "DROPPED" /\ incoming = <<>>
          /\ incoming' = <<reader.outcome>>
          /\ reader' = [reader EXCEPT !.state = IF reader.outcome.kind = "FRAME"
                                                THEN "READING" ELSE "DONE"]
    /\ UNCHANGED <<client, outgoing, writer, stdin, process, stdout>>

-----------------------------------------------------------------------------
(* run_worker: the ready frame first, then one answer to each frame.  An    *)
(* answer may be an error frame, after which the worker returns.            *)
Say(kind) ==
    /\ Len(stdout) < PipeFrames
    /\ stdout' = Append(stdout, [kind |-> kind, answers |-> process.busy])

Announce ==
    /\ process.alive /\ ~process.ready
    /\ Say("WHOLE")
    /\ process' = [process EXCEPT !.ready = TRUE]
    /\ UNCHANGED <<client, outgoing, writer, stdin, reader, incoming>>

TakeRequest ==
    /\ process.alive /\ process.ready /\ process.busy = 0 /\ stdin # <<>>
    /\ process' = [process EXCEPT !.busy = Head(stdin)]
    /\ stdin' = Tail(stdin)
    /\ UNCHANGED <<client, outgoing, writer, stdout, reader, incoming>>

AnswerRequest(exits) ==
    /\ process.alive /\ process.busy # 0
    /\ Say("WHOLE")
    /\ process' = [process EXCEPT !.busy = 0, !.alive = ~exits]
    /\ UNCHANGED <<client, outgoing, writer, stdin, reader, incoming>>

(* A frame the worker cannot finish: it dies inside it, or it has no end.   *)
BreakFrame(kind) ==
    /\ process.alive /\ (process.busy # 0 \/ ~process.ready)
    /\ Say(kind)
    /\ process' = [process EXCEPT !.alive = (kind = "LONG"), !.ready = TRUE, !.busy = 0]
    /\ UNCHANGED <<client, outgoing, writer, stdin, reader, incoming>>

(* End of input, or a crash.                                                *)
Exit ==
    /\ process.alive
    /\ process' = [process EXCEPT !.alive = FALSE]
    /\ UNCHANGED <<client, outgoing, writer, stdin, stdout, reader, incoming>>

-----------------------------------------------------------------------------
WriterThread == WriteFrame \/ WriterEnds
ReaderThread == ReadFrame \/ HandOver

WorkerNext ==
    \/ Request \/ Receive \/ NoAnswer \/ DropWorker
    \/ WriterThread \/ ReaderThread
    \/ Announce \/ TakeRequest \/ Exit
    \/ \E exits \in BOOLEAN : AnswerRequest(exits)
    \/ \E kind \in {"CUT", "LONG"} : BreakFrame(kind)

(* The operating system schedules the threads; the worker owes nothing.     *)
WorkerSpec ==
    /\ WorkerInit /\ [][WorkerNext]_workerVars
    /\ WF_workerVars(WriterThread) /\ WF_workerVars(ReaderThread)

-----------------------------------------------------------------------------
(* The caller never takes the answer to one request for the answer to       *)
(* another, although frames carry no request identity and it may go on      *)
(* after an expired deadline whose answer arrives late                      *)
(* (ProcessStrategyWorker::terminate).                                      *)
AnswersArePaired == client.paired

Dropped == client.phase = "DROPPED"
ThreadsDone == writer = "DONE" /\ reader.state = "DONE"

(* A dropped worker leaves no thread behind: not a writer blocked on a full *)
(* pipe, not a reader blocked on a silent worker or on the full channel     *)
(* (Drop for ProcessStrategyWorker, spawn_writer, spawn_reader).            *)
ThreadsEnd == Dropped ~> ThreadsDone
=============================================================================
