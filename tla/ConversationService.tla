------------------------ MODULE ConversationService ------------------------
(***************************************************************************)
(* The server (server/, tools/aeon_serve.cpp): HTTP handler threads submit *)
(* jobs and drain their streams, one worker thread runs the jobs on the    *)
(* engine in FIFO order, and a watcher thread shuts everything down.       *)
(*                                                                         *)
(* A step is one critical section, or one call on a job's stream or cancel *)
(* flag.  A client sends one request, so a job is named by its client, and *)
(* its id is its place in `accepted'.  A stream keeps every event pushed   *)
(* to it, with the number of those popped.                                 *)
(***************************************************************************)
EXTENDS Lists

CONSTANTS
  Client,     \* requests that arrive at /v1/chat/completions
  Streaming,  \* the clients that ask for a stream
  MaxQueue,   \* max_queue
  MaxDeltas,  \* bound: deltas the engine emits in one run
  EarlyStop   \* may a signal stop the service before the worker is ready?

ASSUME ClientAssumption == Streaming \subseteq Client
ASSUME QueueAssumption ==
  MaxQueue \in Nat \ {0} /\ MaxDeltas \in Nat /\ EarlyStop \in BOOLEAN

VARIABLES
  state,     \* state_: Loading, Ready or Stopping
  running,   \* running_
  queue,     \* queue_
  accepted,  \* the jobs submit() made, in the order of their ids
  liveJob,   \* live_job_
  cancel,    \* Job::cancel
  events,    \* JobStream::events_, the popped ones included
  popped,    \* how many of a stream's events its handler has popped
  closed,    \* JobStream::closed_
  worker,    \* where the engine thread is
  job,       \* run_worker's local job
  drained,   \* run_worker's local pending
  watcher,   \* where the watcher thread is
  pending,   \* shutdown's local pending
  gStop,     \* g_stop
  listening, \* the HTTP server accepts requests
  handler,   \* where each handler thread is
  answer,    \* what each client has been answered
  gone       \* the clients that have closed their connection

serviceVars == <<state, running, queue, accepted, liveJob>>
streamVars  == <<events, closed>>
workerVars  == <<worker, job, drained>>
stopVars    == <<watcher, pending, gStop, listening>>
handlerVars == <<popped, handler, answer>>
vars == <<serviceVars, cancel, streamVars, workerVars, stopVars, handlerVars, gone>>

NoJob == "no job"
ASSUME NoJobAssumption == NoJob \notin Client

State == {"Loading", "Ready", "Stopping"}
Event == {"Delta", "Finished", "Cancelled", "Failed"}
Terminal == Event \ {"Delta"}
Answer == {"none", "bad", "refused", "done", "failed", "empty", "gone"}
WorkerAt == {"load", "unloaded", "start", "wait", "picked", "running", "pushed", "publish",
             "drain", "drainPush", "drainClose", "returned"}
WatcherAt == {"watch", "push", "close", "join", "exited"}
HandlerAt == {"idle", "open", "pop", "failedPop", "poll", "answered"}

Init ==
  /\ state = "Loading" /\ running = TRUE /\ queue = <<>> /\ accepted = <<>> /\ liveJob = NoJob
  /\ cancel = [c \in Client |-> FALSE]
  /\ events = [c \in Client |-> <<>>] /\ closed = [c \in Client |-> FALSE]
  /\ worker = "load" /\ job = NoJob /\ drained = <<>>
  /\ watcher = "watch" /\ pending = <<>> /\ gStop = FALSE /\ listening = TRUE
  /\ popped = [c \in Client |-> 0]
  /\ handler = [c \in Client |-> "idle"]
  /\ answer = [c \in Client |-> "none"]
  /\ gone = {}

(* JobStream::push and JobStream::close *)
Push(c, e) == events' = [events EXCEPT ![c] = Append(@, e)]
Close(c) == closed' = [closed EXCEPT ![c] = TRUE]

-----------------------------------------------------------------------------
(* The engine thread: main and run_worker.                                 *)

EngineLoaded ==
  /\ worker = "load" /\ worker' = "start"
  /\ UNCHANGED <<serviceVars, cancel, streamVars, job, drained, stopVars, handlerVars, gone>>

(* engine.initialize throws: main stops the HTTP server and exits. *)
LoadFails ==
  /\ worker = "load" /\ worker' = "unloaded"
  /\ listening' = FALSE
  /\ UNCHANGED <<serviceVars, cancel, streamVars, job, drained, watcher, pending, gStop,
                 handlerVars, gone>>

PublishReady ==
  /\ worker = "start" /\ worker' = "wait"
  /\ state' = "Ready"
  /\ UNCHANGED <<running, queue, accepted, liveJob, cancel, streamVars, job, drained, stopVars,
                 handlerVars, gone>>

(* Mutant: the worker takes the newest job. *)
TakeNewest ==
  /\ worker = "wait" /\ running /\ queue # <<>>
  /\ worker' = "picked" /\ job' = Last(queue) /\ liveJob' = Last(queue)
  /\ queue' = Front(queue)
  /\ UNCHANGED <<state, running, accepted, cancel, streamVars, drained, stopVars, handlerVars, gone>>

TakeJob ==
  /\ worker = "wait" /\ running /\ queue # <<>>
  /\ worker' = "picked" /\ job' = Head(queue) /\ liveJob' = Head(queue)
  /\ queue' = Tail(queue)
  /\ UNCHANGED <<state, running, accepted, cancel, streamVars, drained, stopVars, handlerVars, gone>>

(* Mutant: a cancelled job is dropped without an event. *)
SkipSilently ==
  /\ worker = "picked" /\ cancel[job]
  /\ worker' = "publish"
  /\ UNCHANGED <<serviceVars, cancel, streamVars, job, drained, stopVars, handlerVars, gone>>

(* Cancelled while queued: the job never reaches the engine. *)
SkipJob ==
  /\ worker = "picked" /\ cancel[job]
  /\ worker' = "pushed"
  /\ Push(job, "Cancelled")
  /\ UNCHANGED <<serviceVars, cancel, closed, job, drained, stopVars, handlerVars, gone>>

StartRun ==
  /\ worker = "picked" /\ ~cancel[job]
  /\ worker' = "running"
  /\ UNCHANGED <<serviceVars, cancel, streamVars, job, drained, stopVars, handlerVars, gone>>

EmitDelta ==
  /\ worker = "running" /\ Len(events[job]) < MaxDeltas
  /\ Push(job, "Delta")
  /\ UNCHANGED <<serviceVars, cancel, closed, workerVars, stopVars, handlerVars, gone>>

(* engine.run returns, with a Cancelled result only if it saw the flag, or
   throws, in which case the engine is reset before the event is pushed. *)
EndRun ==
  /\ worker = "running" /\ worker' = "pushed"
  /\ \E e \in Terminal : (e = "Cancelled" => cancel[job]) /\ Push(job, e)
  /\ UNCHANGED <<serviceVars, cancel, closed, job, drained, stopVars, handlerVars, gone>>

CloseStream ==
  /\ worker = "pushed" /\ worker' = "publish"
  /\ Close(job)
  /\ UNCHANGED <<serviceVars, cancel, events, job, drained, stopVars, handlerVars, gone>>

ClearLive ==
  /\ worker = "publish" /\ worker' = "wait"
  /\ job' = NoJob /\ liveJob' = NoJob
  /\ UNCHANGED <<state, running, queue, accepted, cancel, streamVars, drained, stopVars,
                 handlerVars, gone>>

LeaveLoop ==
  /\ worker = "wait" /\ ~running
  /\ worker' = "drain"
  /\ UNCHANGED <<serviceVars, cancel, streamVars, job, drained, stopVars, handlerVars, gone>>

DrainQueue ==
  /\ worker = "drain" /\ worker' = "drainPush"
  /\ drained' = queue /\ queue' = <<>>
  /\ UNCHANGED <<state, running, accepted, liveJob, cancel, streamVars, job, stopVars,
                 handlerVars, gone>>

PushDrained ==
  /\ worker = "drainPush" /\ drained # <<>>
  /\ worker' = "drainClose"
  /\ Push(Head(drained), "Cancelled")
  /\ UNCHANGED <<serviceVars, cancel, closed, job, drained, stopVars, handlerVars, gone>>

CloseDrained ==
  /\ worker = "drainClose" /\ worker' = "drainPush"
  /\ Close(Head(drained)) /\ drained' = Tail(drained)
  /\ UNCHANGED <<serviceVars, cancel, events, job, stopVars, handlerVars, gone>>

(* The last statement of run_worker, outside the lock; main then sets g_stop. *)
WorkerReturns ==
  /\ worker = "drainPush" /\ drained = <<>>
  /\ worker' = "returned" /\ state' = "Stopping" /\ gStop' = TRUE
  /\ UNCHANGED <<running, queue, accepted, liveJob, cancel, streamVars, job, drained, watcher,
                 pending, listening, handlerVars, gone>>

Worker ==
  \/ PublishReady \/ TakeJob \/ SkipJob \/ StartRun \/ EmitDelta \/ EndRun
  \/ CloseStream \/ ClearLive \/ LeaveLoop \/ DrainQueue \/ PushDrained \/ CloseDrained
  \/ WorkerReturns

-----------------------------------------------------------------------------
(* The watcher thread: shutdown and HttpServer::stop.                      *)

Signal ==
  /\ ~gStop /\ worker \notin {"load", "unloaded"} /\ (EarlyStop \/ worker # "start")
  /\ gStop' = TRUE
  /\ UNCHANGED <<serviceVars, cancel, streamVars, workerVars, watcher, pending, listening,
                 handlerVars, gone>>

(* Mutants: the queue is copied and not swapped; dropped; the state is left
   Ready. *)
ShutdownCopies ==
  /\ watcher = "watch" /\ gStop
  /\ watcher' = "push"
  /\ running' = FALSE /\ state' = "Stopping"
  /\ cancel' = IF liveJob = NoJob THEN cancel ELSE [cancel EXCEPT ![liveJob] = TRUE]
  /\ pending' = queue /\ queue' = queue
  /\ UNCHANGED <<accepted, liveJob, streamVars, workerVars, gStop, listening, handlerVars, gone>>

ShutdownDrops ==
  /\ watcher = "watch" /\ gStop
  /\ watcher' = "push"
  /\ running' = FALSE /\ state' = "Stopping"
  /\ cancel' = IF liveJob = NoJob THEN cancel ELSE [cancel EXCEPT ![liveJob] = TRUE]
  /\ pending' = <<>> /\ queue' = <<>>
  /\ UNCHANGED <<accepted, liveJob, streamVars, workerVars, gStop, listening, handlerVars, gone>>

ShutdownStaysReady ==
  /\ watcher = "watch" /\ gStop
  /\ watcher' = "push"
  /\ running' = FALSE /\ state' = state
  /\ cancel' = IF liveJob = NoJob THEN cancel ELSE [cancel EXCEPT ![liveJob] = TRUE]
  /\ pending' = queue /\ queue' = <<>>
  /\ UNCHANGED <<accepted, liveJob, streamVars, workerVars, gStop, listening, handlerVars, gone>>

Shutdown ==
  /\ watcher = "watch" /\ gStop
  /\ watcher' = "push"
  /\ running' = FALSE /\ state' = "Stopping"
  /\ cancel' = IF liveJob = NoJob THEN cancel ELSE [cancel EXCEPT ![liveJob] = TRUE]
  /\ pending' = queue /\ queue' = <<>>
  /\ UNCHANGED <<accepted, liveJob, streamVars, workerVars, gStop, listening, handlerVars, gone>>

PushPending ==
  /\ watcher = "push" /\ pending # <<>>
  /\ watcher' = "close"
  /\ Push(Head(pending), "Cancelled")
  /\ UNCHANGED <<serviceVars, cancel, closed, workerVars, pending, gStop, listening, handlerVars,
                 gone>>

ClosePending ==
  /\ watcher = "close" /\ watcher' = "push"
  /\ Close(Head(pending)) /\ pending' = Tail(pending)
  /\ UNCHANGED <<serviceVars, cancel, events, workerVars, gStop, listening, handlerVars, gone>>

StopHttp ==
  /\ watcher = "push" /\ pending = <<>>
  /\ watcher' = "join" /\ listening' = FALSE
  /\ UNCHANGED <<serviceVars, cancel, streamVars, workerVars, pending, gStop, handlerVars, gone>>

(* The listen thread returns when the pool's handlers have; main joins the
   watcher after run_worker has returned. *)
Exit ==
  /\ watcher = "join" /\ worker = "returned"
  /\ \A c \in Client : handler[c] \in {"idle", "answered"}
  /\ watcher' = "exited"
  /\ UNCHANGED <<serviceVars, cancel, streamVars, workerVars, pending, gStop, listening,
                 handlerVars, gone>>

Watcher == Shutdown \/ PushPending \/ ClosePending \/ StopHttp \/ Exit

-----------------------------------------------------------------------------
(* A handler thread: handle_chat, stream_job and handle_non_stream.        *)

Answered(c, a) ==
  /\ handler' = [handler EXCEPT ![c] = "answered"]
  /\ answer' = [answer EXCEPT ![c] = a]

GoesTo(c, p) == handler' = [handler EXCEPT ![c] = p] /\ UNCHANGED answer

BadRequest(c) ==
  /\ handler[c] = "idle" /\ listening
  /\ Answered(c, "bad")
  /\ UNCHANGED <<serviceVars, cancel, streamVars, workerVars, stopVars, popped, gone>>

(* submit throws NotReady or QueueFull. *)
Refuse(c) ==
  /\ handler[c] = "idle" /\ listening
  /\ state # "Ready" \/ Len(queue) >= MaxQueue
  /\ Answered(c, "refused")
  /\ UNCHANGED <<serviceVars, cancel, streamVars, workerVars, stopVars, popped, gone>>

Submit(c) ==
  /\ handler[c] = "idle" /\ listening
  /\ state = "Ready" /\ Len(queue) < MaxQueue
  /\ queue' = Append(queue, c) /\ accepted' = Append(accepted, c)
  /\ GoesTo(c, IF c \in Streaming THEN "open" ELSE "pop")
  /\ UNCHANGED <<state, running, liveJob, cancel, streamVars, workerVars, stopVars, popped, gone>>

(* A write to a client that left fails; abort() cancels the job. *)
Abort(c) ==
  /\ cancel' = [cancel EXCEPT ![c] = TRUE]
  /\ Answered(c, "gone")

WriteRole(c) ==
  /\ handler[c] = "open"
  /\ IF c \in gone THEN Abort(c) ELSE GoesTo(c, "pop") /\ UNCHANGED cancel
  /\ UNCHANGED <<serviceVars, streamVars, workerVars, stopVars, popped, gone>>

Pop(c) ==
  LET e == events[c][popped[c] + 1] IN
  /\ handler[c] = "pop" /\ popped[c] < Len(events[c])
  /\ popped' = [popped EXCEPT ![c] = @ + 1]
  /\ IF c \in Streaming /\ c \in gone THEN Abort(c)
     ELSE /\ UNCHANGED cancel
          /\ \/ e = "Delta" /\ GoesTo(c, "pop")
             \/ e \in {"Finished", "Cancelled"} /\ Answered(c, "done")
             \/ e = "Failed" /\ Answered(c, "failed")
  /\ UNCHANGED <<serviceVars, streamVars, workerVars, stopVars, gone>>

(* pop returns false: nothing came in time, or the stream is closed and
   drained. *)
PopFails(c) ==
  /\ handler[c] = "pop" /\ popped[c] = Len(events[c])
  /\ GoesTo(c, "failedPop")
  /\ UNCHANGED <<serviceVars, cancel, streamVars, workerVars, stopVars, popped, gone>>

(* A stream handler asks first whether the client is there. *)
CheckWritable(c) ==
  /\ handler[c] = "failedPop" /\ c \in Streaming
  /\ IF c \in gone THEN Abort(c) ELSE GoesTo(c, "poll") /\ UNCHANGED cancel
  /\ UNCHANGED <<serviceVars, streamVars, workerVars, stopVars, popped, gone>>

(* is_closed() after a failed pop: the handler gives up, without a result. *)
SeesClosed(c) ==
  /\ handler[c] = (IF c \in Streaming THEN "poll" ELSE "failedPop")
  /\ closed[c]
  /\ Answered(c, "empty")
  /\ UNCHANGED <<serviceVars, cancel, streamVars, workerVars, stopVars, popped, gone>>

(* A streaming handler may write a keep-alive with its queue position. *)
SeesOpen(c) ==
  /\ handler[c] = (IF c \in Streaming THEN "poll" ELSE "failedPop")
  /\ ~closed[c]
  /\ \/ c \notin Streaming /\ GoesTo(c, "poll") /\ UNCHANGED cancel
     \/ c \in Streaming /\ GoesTo(c, "pop") /\ UNCHANGED cancel
     \/ c \in Streaming /\ c \in gone /\ c \in Range(queue) /\ Abort(c)
  /\ UNCHANGED <<serviceVars, streamVars, workerVars, stopVars, popped, gone>>

(* A non-streaming handler asks last. *)
CheckConnection(c) ==
  /\ handler[c] = "poll" /\ c \notin Streaming
  /\ IF c \in gone THEN Abort(c) ELSE GoesTo(c, "pop") /\ UNCHANGED cancel
  /\ UNCHANGED <<serviceVars, streamVars, workerVars, stopVars, popped, gone>>

Handler(c) ==
  \/ WriteRole(c) \/ Pop(c) \/ PopFails(c) \/ CheckWritable(c) \/ SeesClosed(c) \/ SeesOpen(c)
  \/ CheckConnection(c)

Disconnect(c) ==
  /\ c \notin gone /\ handler[c] \notin {"idle", "answered"}
  /\ gone' = gone \cup {c}
  /\ UNCHANGED <<serviceVars, cancel, streamVars, workerVars, stopVars, handlerVars>>

(* The process is over, or never served. *)
Finished ==
  /\ watcher = "exited" \/ worker = "unloaded"
  /\ UNCHANGED vars

-----------------------------------------------------------------------------
Next ==
  \/ EngineLoaded \/ LoadFails \/ Worker \/ Watcher \/ Signal \/ Finished
  \/ \E c \in Client : BadRequest(c) \/ Refuse(c) \/ Submit(c) \/ Handler(c) \/ Disconnect(c)

(* The three kinds of thread run; clients, signals and loading need not. *)
Fairness ==
  /\ WF_vars(Worker) /\ WF_vars(Watcher)
  /\ \A c \in Client : WF_vars(Handler(c))

Spec == Init /\ [][Next]_vars
FairSpec == Spec /\ Fairness

-----------------------------------------------------------------------------
(* Properties.                                                             *)

(* Every variable has the type its field has in the code, and the queue its
   capacity. *)
TypeOK ==
  /\ state \in State /\ running \in BOOLEAN
  /\ queue \in Seq(Client) /\ Len(queue) <= MaxQueue /\ accepted \in Seq(Client)
  /\ liveJob \in Client \cup {NoJob} /\ job \in Client \cup {NoJob}
  /\ cancel \in [Client -> BOOLEAN]
  /\ events \in [Client -> Seq(Event)] /\ closed \in [Client -> BOOLEAN]
  /\ popped \in [Client -> Nat]
  /\ worker \in WorkerAt /\ drained \in Seq(Client)
  /\ watcher \in WatcherAt /\ pending \in Seq(Client)
  /\ gStop \in BOOLEAN /\ listening \in BOOLEAN
  /\ handler \in [Client -> HandlerAt] /\ answer \in [Client -> Answer]
  /\ gone \in SUBSET Client

(* "Exactly one terminal event is ever pushed" (job_stream.hpp), although
   three places push one -- the worker's run, its drain and shutdown: a
   terminal event is the last of its stream, and a closed stream has one. *)
OneTerminalEvent ==
  \A c \in Client :
    /\ \A i \in 1 .. Len(events[c]) : events[c][i] \in Terminal => i = Len(events[c])
    /\ closed[c] => events[c] # <<>> /\ events[c][Len(events[c])] \in Terminal

(* Jobs run in the order of their ids: when the worker takes one, the stream
   of every job submitted before it is closed. *)
FifoService ==
  [][job' # job /\ job' # NoJob =>
       \A i, j \in DOMAIN accepted : i < j /\ accepted[j] = job' => closed[accepted[i]]]_vars

(* "Any job still queued when the worker stops is failed with Cancelled"
   (run_worker), and shutdown fails what it took: once both are past their
   drains, every stream ever handed out is closed. *)
StopEndsEveryJob ==
  worker = "returned" /\ watcher \in {"join", "exited"} => \A c \in Range(accepted) : closed[c]

(* shutdown: "Refuse new work". *)
RefusesAfterShutdown == [][~running => accepted' = accepted]_vars

(* Every job that is submitted ends, and its handler with it, whether the
   client stays, leaves, or the server is stopped meanwhile. *)
EveryRequestAnswered ==
  \A c \in Client : handler[c] \notin {"idle", "answered"} ~> closed[c] /\ handler[c] = "answered"

(* A signal ends the process: the watcher, the worker and all the handlers get
   past their joins. *)
ShutdownCompletes == gStop ~> watcher = "exited"
=============================================================================
